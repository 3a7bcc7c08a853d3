---------------------------- MODULE SparseProofs ----------------------------
(***************************************************************************)
(* Pointer chasing, for every memory, every layout and every target: it    *)
(* keeps its types, never re-enters an address, copies what it follows     *)
(* with its cycles and its sharing, and done again changes nothing.        *)
(***************************************************************************)
EXTENDS SparseUnmarshal, SequenceTheorems, WellFoundedInduction, TLAPS

-----------------------------------------------------------------------------
(***************************************************************************)
(* Lemmas: what an assignment to a getter, a read, and an allocation keep  *)
(* of a heap.                                                              *)
(***************************************************************************)
WellFormed(h, n) ==
  /\ h \in Seq(Structs(n))
  /\ \A o \in 1 .. Len(h) : Len(h[o].fields) = Len(Layout[h[o].type])

Assigned(h, o, k, g) == [h EXCEPT ![o].fields[k] = g]
ReadInto(h, o, a) == [h EXCEPT ![o] = Read(@, a)]

LEMMA FieldAssigned ==
  ASSUME NEW n \in Nat, NEW h, WellFormed(h, n),
         NEW o \in 1 .. Len(h), NEW k, NEW g,
         k \in DOMAIN h[o].fields => g \in Getters(n)
  PROVE  WellFormed(Assigned(h, o, k, g), n) /\ Len(Assigned(h, o, k, g)) = Len(h)
<1> DEFINE r == Assigned(h, o, k, g)
           fs == [h[o].fields EXCEPT ![k] = g]
           s == [h[o] EXCEPT !.fields = fs]
<1>1. h \in Seq(Structs(n)) /\ h[o] \in Structs(n)
  BY DEF WellFormed
<1>2. fs \in Seq(Getters(n)) /\ Len(fs) = Len(h[o].fields)
  <2>1. h[o].fields \in Seq(Getters(n))
    BY <1>1 DEF Structs
  <2>2. CASE k \in DOMAIN h[o].fields
    BY <2>1, <2>2
  <2>3. CASE k \notin DOMAIN h[o].fields
    <3>1. fs = h[o].fields
      BY <2>1, <2>3
    <3> QED
      BY <2>1, <3>1
  <2> QED
    BY <2>2, <2>3
<1>3. s \in Structs(n) /\ s.type = h[o].type /\ s.fields = fs
  BY <1>1, <1>2 DEF Structs
<1>4. r = [h EXCEPT ![o] = s]
  BY <1>1 DEF Assigned
<1> HIDE DEF s, r
<1>5. r \in Seq(Structs(n)) /\ Len(r) = Len(h)
      /\ \A p \in 1 .. Len(h) : r[p] = IF p = o THEN s ELSE h[p]
  BY <1>1, <1>3, <1>4
<1> HIDE DEF fs
<1>6. WellFormed(r, n) /\ Len(r) = Len(h)
  BY <1>2, <1>3, <1>5 DEF WellFormed
<1> QED
  BY <1>6 DEF r

LEMMA ReadAssigned ==
  ASSUME NEW n \in Nat, NEW h, WellFormed(h, n),
         NEW o \in 1 .. Len(h), NEW a \in Addrs
  PROVE  WellFormed(ReadInto(h, o, a), n) /\ Len(ReadInto(h, o, a)) = Len(h)
<1> DEFINE r == ReadInto(h, o, a)
           s == Read(h[o], a)
<1>1. h \in Seq(Structs(n)) /\ h[o] \in Structs(n)
  BY DEF WellFormed
<1>2. s \in Structs(n) /\ s.type = h[o].type /\ s.fields = h[o].fields
  BY <1>1 DEF Structs, Read
<1>3. r = [h EXCEPT ![o] = s]
  BY <1>1 DEF ReadInto
<1> HIDE DEF s, r
<1>4. r \in Seq(Structs(n)) /\ Len(r) = Len(h)
      /\ \A p \in 1 .. Len(h) : r[p] = IF p = o THEN s ELSE h[p]
  BY <1>1, <1>2, <1>3
<1>5. WellFormed(r, n) /\ Len(r) = Len(h)
  BY <1>2, <1>4 DEF WellFormed
<1> QED
  BY <1>5 DEF r

LEMMA Allocated ==
  ASSUME NEW n \in Nat, NEW h, WellFormed(h, n), NEW t \in Types, NEW u \in Nat
  PROVE  /\ WellFormed(h, n + 1)
         /\ WellFormed(Append(h, NewObject(t, u)), n + 1)
         /\ Len(Append(h, NewObject(t, u))) = Len(h) + 1
<1>1. Getters(n) \subseteq Getters(n + 1)
  BY DEF Getters
<1>2. Structs(n) \subseteq Structs(n + 1)
  BY <1>1 DEF Structs
<1>3. h \in Seq(Structs(n + 1))
  BY <1>2 DEF WellFormed
<1>4. /\ Len(Layout[t]) \in Nat
      /\ NewGetter \in Getters(n + 1)
  BY TypesAssumption DEF NewGetter, Getters, NoObject
<1>5. /\ NewObject(t, u).fields \in Seq(Getters(n + 1))
      /\ Len(NewObject(t, u).fields) = Len(Layout[t])
  BY <1>4 DEF NewObject
<1>6. NewObject(t, u) \in Structs(n + 1) /\ NewObject(t, u).type = t
  BY <1>5 DEF NewObject, Structs
<1> QED
  BY <1>3, <1>5, <1>6 DEF WellFormed

-----------------------------------------------------------------------------
(***************************************************************************)
(* The inductive invariant: the addresses being decoded below the client's *)
(* struct are registered in the context, so Chase does not take them again.*)
(***************************************************************************)
ChaseIsRegistered == \A k \in 2 .. Len(stack) : stack[k].addr \in DOMAIN visited

IInv == TypeOK /\ ChaseIsRegistered /\ NoReentry

LEMMA FrameType ==
  ASSUME TypeOK, Busy
  PROVE  /\ Len(stack) \in Nat \ {0} /\ Len(heap) \in Nat \ {0}
         /\ frame \in Frames(Len(heap)) /\ frame.obj \in Objects
         /\ object \in Structs(Len(heap)) /\ object.type \in Types
         /\ layout \in Seq(Types \cup {Text}) /\ Len(object.fields) = Len(layout)
<1>1. Len(stack) \in Nat \ {0} /\ Len(heap) \in Nat \ {0}
  BY DEF TypeOK, Busy
<1>2. frame \in Frames(Len(heap))
  BY <1>1 DEF TypeOK, frame
<1>3. frame.obj \in Objects
  BY <1>2 DEF Frames, Objects
<1>4. object \in Structs(Len(heap)) /\ Len(object.fields) = Len(layout)
  BY <1>1, <1>3 DEF TypeOK, object, layout, Objects
<1>5. object.type \in Types
  BY <1>4 DEF Structs
<1> QED
  BY <1>1, <1>2, <1>3, <1>4, <1>5, TypesAssumption DEF layout

LEMMA FieldType ==
  ASSUME TypeOK, AtField
  PROVE  /\ frame.at \in 1 .. Len(layout)
         /\ layout[frame.at] \in Types \cup {Text}
         /\ word \in Addrs \cup {Null}
         /\ getter \in Getters(Len(heap))
<1>1. Busy
  BY DEF AtField
<1>2. frame.at \in 1 .. Len(layout)
  BY <1>1, FrameType DEF AtField, Frames
<1>3. layout[frame.at] \in Types \cup {Text}
  BY <1>1, <1>2, FrameType
<1>4. frame.words \in Contents /\ frame.words # Unreadable
  BY <1>1, FrameType DEF Frames
<1>5. frame.words \in Seq(Addrs \cup {Null}) /\ Len(layout) <= Len(frame.words)
  BY <1>1, <1>4, FrameType, ContentsAssumption DEF layout
<1>6. word \in Addrs \cup {Null}
  <2>1. Len(layout) \in Nat
    BY <1>1, FrameType
  <2> QED
    BY <1>2, <1>5, <2>1 DEF word
<1>7. getter \in Getters(Len(heap))
  <2>1. object.fields \in Seq(Getters(Len(heap)))
    BY <1>1, FrameType DEF Structs
  <2> QED
    BY <1>1, <1>2, <2>1, FrameType DEF getter
<1> QED
  BY <1>2, <1>3, <1>6, <1>7

\* Moving to the next field of the innermost struct.
LEMMA NextField ==
  ASSUME TypeOK, Busy
  PROVE  LET s == [stack EXCEPT ![Len(stack)].at = @ + 1]
         IN  /\ s \in Seq(Frames(Len(heap))) /\ Len(s) = Len(stack)
             /\ \A k \in 1 .. Len(stack) : s[k].addr = stack[k].addr
<1> DEFINE f == [frame EXCEPT !.at = @ + 1]
           s == [stack EXCEPT ![Len(stack)] = f]
<1>1. stack \in Seq(Frames(Len(heap))) /\ Len(stack) \in 1 .. Len(stack)
  BY FrameType DEF TypeOK
<1>2. f \in Frames(Len(heap)) /\ f.addr = frame.addr
  BY FrameType DEF Frames
<1>3. s = [stack EXCEPT ![Len(stack)].at = @ + 1]
  BY <1>1 DEF frame
<1> HIDE DEF f
<1>4. s \in Seq(Frames(Len(heap))) /\ Len(s) = Len(stack)
      /\ \A k \in 1 .. Len(stack) : s[k] = IF k = Len(stack) THEN f ELSE stack[k]
  BY <1>1, <1>2
<1> HIDE DEF s
<1> QED
  BY <1>2, <1>3, <1>4 DEF frame

\* Steps that neither start nor end the decoding of a struct.
LEMMA SameAddresses ==
  ASSUME ChaseIsRegistered, NoReentry,
         Len(stack') = Len(stack), visited' = visited, Len(stack) \in Nat,
         \A k \in 1 .. Len(stack) : stack'[k].addr = stack[k].addr
  PROVE  ChaseIsRegistered' /\ NoReentry'
BY DEF ChaseIsRegistered, NoReentry

LEMMA FieldDoneStep ==
  ASSUME IInv, AtField, NEW g \in Getters(Len(heap)), FieldDone(g),
         UNCHANGED <<visited, client, target>>
  PROVE  IInv'
<1>1. Busy /\ TypeOK
  BY DEF AtField, IInv
<1>2. WellFormed(heap, Len(heap)) /\ frame.obj \in 1 .. Len(heap) /\ Len(heap) \in Nat
  BY <1>1, FrameType DEF TypeOK, WellFormed, Objects
<1>3. WellFormed(heap', Len(heap)) /\ Len(heap') = Len(heap)
  <2>1. heap' = Assigned(heap, frame.obj, frame.at, g)
    BY DEF FieldDone, Assigned
  <2> QED
    BY <1>2, <2>1, FieldAssigned
<1>4. /\ stack' \in Seq(Frames(Len(heap))) /\ Len(stack') = Len(stack)
      /\ \A k \in 1 .. Len(stack) : stack'[k].addr = stack[k].addr
  BY <1>1, NextField DEF FieldDone
<1>5. TypeOK'
  BY <1>1, <1>2, <1>3, <1>4 DEF TypeOK, WellFormed, Objects, client, target
<1>6. ChaseIsRegistered' /\ NoReentry'
  BY <1>1, <1>4, SameAddresses, FrameType DEF IInv
<1> QED
  BY <1>5, <1>6 DEF IInv

-----------------------------------------------------------------------------
(***************************************************************************)
(* One lemma per kind of step.                                             *)
(***************************************************************************)

\* The fields that start no chase.
LEMMA LeafStep ==
  ASSUME IInv, ZeroPointer \/ TextRead \/ Reuse \/ Mismatch
  PROVE  IInv'
<1> DEFINE n == Len(heap)
<1>1. AtField /\ Busy /\ TypeOK
  BY DEF ZeroPointer, TextRead, Reuse, Mismatch, AtPointer, AtField, IInv
<1>2. getter \in Getters(n) /\ word \in Addrs \cup {Null} /\ n \in Nat
  BY <1>1, FieldType, FrameType
<1>3. Addressed \in Getters(n)
  BY <1>2 DEF Addressed, Getters
<1>4. CASE ZeroPointer
  <2>1. [Addressed EXCEPT !.err = "zero"] \in Getters(n)
    BY <1>3 DEF Getters
  <2> QED
    BY <1>1, <1>4, <2>1, FieldDoneStep DEF ZeroPointer
<1>5. CASE TextRead
  <2>1. word \in Addrs
    BY <1>2, <1>5 DEF TextRead
  <2>2. [Addressed EXCEPT !.err = "read"] \in Getters(n)
    BY <1>3 DEF Getters
  <2>3. [Addressed EXCEPT !.text = Append(@, word)] \in Getters(n)
    BY SMTT(30), <1>3, <2>1 DEF Getters
  <2> QED
    BY <1>1, <1>5, <2>2, <2>3, FieldDoneStep DEF TextRead
<1>6. CASE Reuse
  <2>1. Visited[word] \in Objects
    BY <1>1, <1>6 DEF TypeOK, Reuse, Visited
  <2>2. [Addressed EXCEPT !.val = Visited[word]] \in Getters(n)
    BY <1>2, <1>3, <2>1 DEF Getters, Objects
  <2> QED
    BY <1>1, <1>6, <2>2, FieldDoneStep DEF Reuse
<1>7. CASE Mismatch
  BY <1>1, <1>3, <1>7, FieldDoneStep DEF Mismatch
<1> QED
  BY <1>4, <1>5, <1>6, <1>7

LEMMA UnmarshalStep ==
  ASSUME IInv, NEW a \in Addrs, Unmarshal(a)
  PROVE  IInv'
<1>1. WellFormed(heap, Len(heap)) /\ Len(heap) \in Nat \ {0}
  BY DEF IInv, TypeOK, WellFormed, Objects
<1>2. heap' = ReadInto(heap, 1, a)
  BY DEF Unmarshal, ReadInto
<1>3. WellFormed(heap', Len(heap)) /\ Len(heap') = Len(heap)
  BY <1>1, <1>2, ReadAssigned
<1>4. stack' \in Seq(Frames(Len(heap))) /\ Len(stack') \in {0, 1}
  <2>1. CASE mem[a] = Unreadable
    BY <2>1 DEF Unmarshal, IInv, TypeOK, Busy
  <2>2. CASE mem[a] # Unreadable
    <3>1. NewFrame(1, a) \in Frames(Len(heap))
      BY <1>1, <2>2 DEF NewFrame, Frames, IInv, TypeOK
    <3>2. stack' = <<NewFrame(1, a)>>
      BY <2>2 DEF Unmarshal
    <3> HIDE DEF NewFrame
    <3> QED
      BY <3>1, <3>2
  <2> QED
    BY <2>1, <2>2
<1>5. TypeOK'
  BY <1>1, <1>3, <1>4 DEF IInv, TypeOK, WellFormed, Objects, Unmarshal, target
<1>6. ChaseIsRegistered' /\ NoReentry'
  BY <1>4 DEF ChaseIsRegistered, NoReentry
<1> QED
  BY <1>5, <1>6 DEF IInv

LEMMA ReturnStep ==
  ASSUME IInv, Return
  PROVE  IInv'
<1> DEFINE m == Len(stack) - 1
<1>1. Busy /\ TypeOK
  BY DEF Return, IInv
<1>2. WellFormed(heap, Len(heap)) /\ Len(heap) \in Nat
  BY <1>1, FrameType DEF TypeOK, WellFormed, Objects
<1>5. Len(stack) \in Nat \ {0}
  BY <1>1, FrameType
<1>6. Len(stack) # 1 => m \in Nat \ {0} /\ m \in 1 .. Len(stack)
  <2>1. \A k \in Nat \ {0} : k # 1 => k - 1 \in Nat \ {0} /\ k - 1 \in 1 .. k
    OBVIOUS
  <2> QED
    BY <1>5, <2>1
<1>3. CASE Len(stack) = 1
  <2>1. TypeOK'
    BY <1>1, <1>3 DEF Return, TypeOK, Objects, target
  <2>2. ChaseIsRegistered' /\ NoReentry'
    BY <1>3 DEF Return, ChaseIsRegistered, NoReentry
  <2> QED
    BY <2>1, <2>2 DEF IInv
<1>4. CASE Len(stack) # 1
  <2> DEFINE rest == SubSeq(stack, 1, m)
             up == stack[m]
             g == [heap[up.obj].fields[up.at] EXCEPT !.err = "nil"]
             f == [rest[m] EXCEPT !.at = @ + 1]
  <2>1. m \in Nat \ {0} /\ up \in Frames(Len(heap)) /\ up.obj \in 1 .. Len(heap)
    <3>1. m \in Nat \ {0} /\ m \in 1 .. Len(stack)
      BY <1>4, <1>6
    <3>2. stack \in Seq(Frames(Len(heap)))
      BY <1>1 DEF TypeOK
    <3>3. up \in Frames(Len(heap))
      BY <3>1, <3>2
    <3> QED
      BY <3>1, <3>3 DEF Frames
  <2>2. /\ rest \in Seq(Frames(Len(heap))) /\ Len(rest) = m
        /\ \A k \in 1 .. m : rest[k] = stack[k]
    <3>1. stack \in Seq(Frames(Len(heap)))
      BY <1>1 DEF TypeOK
    <3>2. \A k \in 1 .. m : stack[k] \in Frames(Len(heap))
      BY <1>5, <2>1, <3>1
    <3> HIDE DEF m
    <3> QED
      BY <2>1, <3>2, SubSeqProperties
  <2>3. heap' = Assigned(heap, up.obj, up.at, g)
    BY <1>4 DEF Return, Assigned
  <2>4. up.at \in DOMAIN heap[up.obj].fields => g \in Getters(Len(heap))
    <3>1. heap[up.obj].fields \in Seq(Getters(Len(heap)))
      <4>1. heap \in Seq(Structs(Len(heap)))
        BY <1>2 DEF WellFormed
      <4>2. heap[up.obj] \in Structs(Len(heap))
        BY <2>1, <4>1
      <4> QED
        BY <4>2 DEF Structs
    <3>2. up.at \in DOMAIN heap[up.obj].fields =>
            heap[up.obj].fields[up.at] \in Getters(Len(heap))
      BY <3>1
    <3> QED
      BY <3>2 DEF Getters
  <2>5. WellFormed(heap', Len(heap)) /\ Len(heap') = Len(heap)
    <3> HIDE DEF g, up
    <3> QED
      BY <1>2, <2>1, <2>3, <2>4, FieldAssigned
  <2>6. f \in Frames(Len(heap)) /\ f.addr = up.addr
    BY <2>1, <2>2 DEF Frames
  <2>7. stack' = [rest EXCEPT ![m] = f]
    BY <1>4, <2>2 DEF Return
  <2> HIDE DEF f, rest
  <2>8. /\ stack' \in Seq(Frames(Len(heap))) /\ Len(stack') = m
        /\ \A k \in 1 .. m : stack'[k].addr = stack[k].addr
    BY <2>1, <2>2, <2>6, <2>7
  <2>9. TypeOK'
    BY SMTT(30), <1>1, <1>2, <1>4, <2>5, <2>8
    DEF Return, TypeOK, WellFormed, Objects, target
  <2>10. ChaseIsRegistered' /\ NoReentry'
    <3>1. visited' = visited
      BY DEF Return
    <3> QED
      BY <1>5, <2>1, <2>8, <3>1 DEF IInv, ChaseIsRegistered, NoReentry
  <2> QED
    BY <2>9, <2>10 DEF IInv
<1> QED
  BY <1>3, <1>4

\* A new chase registers its address, which was not registered before.
LEMMA ChaseStep ==
  ASSUME IInv, Chase
  PROVE  IInv'
<1> DEFINE n == Len(heap)
           size == Len(WithVal)
           g == [Addressed EXCEPT !.val = Val]
           h == Assigned(WithVal, frame.obj, frame.at, g)
           e == Assigned(h, frame.obj, frame.at,
                         [h[frame.obj].fields[frame.at] EXCEPT !.err = "read"])
           s == [stack EXCEPT ![Len(stack)].at = @ + 1]
<1>1. AtField /\ Busy /\ TypeOK /\ word \notin DOMAIN Visited
  BY DEF Chase, AtPointer, AtField, IInv
<1>2. /\ word \in Addrs /\ layout[frame.at] \in Types
      /\ frame.at \in 1 .. Len(layout) /\ getter \in Getters(n)
  BY <1>1, FieldType DEF Chase, AtPointer
<1>3. /\ Len(stack) \in Nat \ {0} /\ n \in Nat \ {0} /\ frame.obj \in 1 .. n
      /\ stack \in Seq(Frames(n)) /\ WellFormed(heap, n)
  BY <1>1, FrameType DEF TypeOK, WellFormed, Objects
<1>4. /\ size \in {n, n + 1} /\ Val \in 1 .. size
      /\ WellFormed(WithVal, size)
  <2>1. CASE getter.val # NoObject
    <3>1. Val \in Objects
      BY <1>2, <2>1 DEF Val, Getters, Objects, NoObject
    <3>2. WithVal = heap
      BY <3>1 DEF WithVal
    <3> QED
      BY <1>3, <3>1, <3>2 DEF Objects
  <2>2. CASE getter.val = NoObject
    <3>1. Val = n + 1 /\ Val \notin Objects
      BY <1>3, <2>2 DEF Val, Objects
    <3>2. WithVal = Append(heap, NewObject(layout[frame.at], stack[1].at))
      BY <3>1 DEF WithVal
    <3>3. stack[1].at \in Nat
      <4>1. stack[1] \in Frames(n)
        BY <1>3
      <4> QED
        BY <4>1 DEF Frames
    <3>4. WellFormed(WithVal, n + 1) /\ size = n + 1
      <4>1. /\ WellFormed(Append(heap, NewObject(layout[frame.at], stack[1].at)), n + 1)
            /\ Len(Append(heap, NewObject(layout[frame.at], stack[1].at))) = n + 1
        BY <1>2, <1>3, <3>3, Allocated
      <4> QED
        BY <3>2, <4>1
    <3> QED
      BY <1>3, <3>1, <3>4
  <2> QED
    BY <2>1, <2>2
<1>5. size \in Nat \ {0} /\ frame.obj \in 1 .. size /\ Frames(n) \subseteq Frames(size)
  BY <1>3, <1>4 DEF Frames
<1>6. g \in Getters(size)
  <2>1. Addressed \in Getters(n)
    BY <1>2 DEF Addressed, Getters
  <2>2. Addressed \in Getters(size) /\ Val \in 0 .. size
    BY <1>3, <1>4, <2>1 DEF Getters
  <2> QED
    BY <2>2 DEF Getters
<1> HIDE DEF g, size
<1>7. WellFormed(h, size) /\ Len(h) = size
  BY <1>4, <1>5, <1>6, FieldAssigned DEF size
<1>8. WellFormed(e, size) /\ Len(e) = size
  <2>1. h[frame.obj].fields \in Seq(Getters(size))
    <3>1. h \in Seq(Structs(size)) /\ Len(h) = size
      BY <1>7 DEF WellFormed
    <3>2. h[frame.obj] \in Structs(size)
      BY <1>5, <3>1
    <3> QED
      BY <3>2 DEF Structs
  <2> DEFINE old == h[frame.obj].fields[frame.at]
  <2>2. frame.at \in DOMAIN h[frame.obj].fields => old \in Getters(size)
    BY <2>1
  <2> HIDE DEF h
  <2>3. frame.at \in DOMAIN h[frame.obj].fields =>
          [old EXCEPT !.err = "read"] \in Getters(size)
    BY <2>2 DEF Getters
  <2> QED
    BY <1>5, <1>7, <2>3, FieldAssigned
<1>9. /\ \/ heap' = ReadInto(e, Val, word) /\ stack' = s
         \/ /\ heap' = ReadInto(h, Val, word)
            /\ stack' = Append(stack, NewFrame(Val, word))
            /\ mem[word] # Unreadable
      /\ visited' = Registered(Val)
      /\ UNCHANGED <<client, target>>
  BY DEF Chase, Assigned, ReadInto, g
<1>10. WellFormed(heap', size) /\ Len(heap') = size
  <2> HIDE DEF h, e
  <2> QED
    BY <1>2, <1>4, <1>5, <1>7, <1>8, <1>9, ReadAssigned
<1>11. /\ visited' \in [DOMAIN visited' -> 1 .. size] /\ DOMAIN visited' \subseteq Addrs
       /\ DOMAIN visited' = {word} \cup DOMAIN Visited
  <2>1. Visited \in [DOMAIN Visited -> 1 .. size] /\ DOMAIN Visited \subseteq Addrs
    <3>1. CASE Len(stack) = 1
      BY <3>1 DEF Visited
    <3>2. CASE Len(stack) # 1
      BY <1>1, <1>3, <1>4, <3>2 DEF Visited, TypeOK, Objects
    <3> QED
      BY <3>1, <3>2
  <2> QED
    BY <1>2, <1>4, <1>9, <2>1 DEF Registered
<1>12. s \in Seq(Frames(size)) /\ Len(s) = Len(stack)
       /\ \A k \in 1 .. Len(stack) : s[k].addr = stack[k].addr
  BY <1>1, <1>5, NextField
<1> HIDE DEF s, h, e
<1>13. CASE stack' = s
  <2>1. TypeOK'
    BY <1>1, <1>5, <1>9, <1>10, <1>11, <1>12, <1>13
    DEF TypeOK, WellFormed, Objects, client, target
  <2>2. ChaseIsRegistered' /\ NoReentry'
    <3>1. \A k \in 2 .. Len(stack) : stack[k].addr \in DOMAIN visited'
      BY <1>3, <1>11 DEF IInv, ChaseIsRegistered, Visited
    <3>2. Len(stack') = Len(stack) /\ \A k \in 2 .. Len(stack) : stack'[k].addr = stack[k].addr
      BY <1>12, <1>13
    <3>3. ChaseIsRegistered'
      BY <3>1, <3>2 DEF ChaseIsRegistered
    <3>4. NoReentry'
      BY <3>2 DEF IInv, NoReentry
    <3> QED
      BY <3>3, <3>4
  <2> QED
    BY <2>1, <2>2 DEF IInv
<1>14. CASE /\ stack' = Append(stack, NewFrame(Val, word))
            /\ mem[word] # Unreadable
  <2>1. NewFrame(Val, word) \in Frames(size) /\ NewFrame(Val, word).addr = word
    BY <1>1, <1>2, <1>4, <1>14 DEF NewFrame, Frames, TypeOK
  <2>2. /\ stack' \in Seq(Frames(size)) /\ Len(stack') = Len(stack) + 1
        /\ \A k \in 1 .. Len(stack) : stack'[k] = stack[k]
        /\ stack'[Len(stack) + 1].addr = word
    BY <1>3, <1>5, <1>14, <2>1
  <2>3. TypeOK'
    BY <1>1, <1>5, <1>9, <1>10, <1>11, <2>2
    DEF TypeOK, WellFormed, Objects, client, target
  <2>4. ChaseIsRegistered' /\ NoReentry'
    <3>1. \A k \in 2 .. Len(stack) : stack[k].addr \in DOMAIN Visited
      BY <1>3 DEF IInv, ChaseIsRegistered, Visited
    <3>2. \A k \in 2 .. Len(stack) : stack[k].addr # word
      BY <1>1, <3>1
    <3>3. Len(stack) \in Nat /\ Len(stack) >= 1
      BY <1>3, <1>5
    <3>4. \A k \in 2 .. Len(stack') :
             \/ k \in 2 .. Len(stack) /\ stack'[k].addr = stack[k].addr
             \/ k = Len(stack) + 1 /\ stack'[k].addr = word
      BY <2>2, <3>3
    <3>5. ChaseIsRegistered'
      BY <1>11, <3>1, <3>4 DEF ChaseIsRegistered
    <3>6. NoReentry'
      BY <3>2, <3>4 DEF IInv, NoReentry
    <3> QED
      BY <3>5, <3>6
  <2> QED
    BY <2>3, <2>4 DEF IInv
<1> QED
  BY <1>9, <1>13, <1>14

-----------------------------------------------------------------------------
(***************************************************************************)
(* The theorems.                                                           *)
(***************************************************************************)
LEMMA IInvInit == Init => IInv
<1> SUFFICES ASSUME Init PROVE IInv
  OBVIOUS
<1>1. WellFormed(heap, 1) /\ Len(heap) = 1
  <2> DEFINE nothing == << >>
             grown == Append(nothing, NewObject(RootType, 0))
  <2>1. WellFormed(nothing, 0) /\ Len(nothing) = 0
    BY DEF WellFormed
  <2>2. heap = grown
    BY DEF Init
  <2>3. 0 \in Nat /\ RootType \in Types
    BY TypesAssumption
  <2> HIDE DEF nothing
  <2>4. WellFormed(grown, 0 + 1) /\ Len(grown) = Len(nothing) + 1
    <3>1. \A n, u \in Nat : WellFormed(nothing, n) =>
             /\ WellFormed(Append(nothing, NewObject(RootType, u)), n + 1)
             /\ Len(Append(nothing, NewObject(RootType, u))) = Len(nothing) + 1
      BY <2>3, Allocated
    <3> QED
      BY <2>1, <2>3, <3>1
  <2> HIDE DEF grown
  <2>5. 0 + 1 = 1
    OBVIOUS
  <2>6. WellFormed(heap, 1) /\ Len(heap) = 0 + 1
    BY ZenonT(20), <2>1, <2>2, <2>4, <2>5
  <2> QED
    BY <2>5, <2>6
<1>2. TypeOK
  BY <1>1 DEF Init, TypeOK, WellFormed, Objects
<1> QED
  BY <1>2 DEF Init, IInv, ChaseIsRegistered, NoReentry

LEMMA IInvStep == IInv /\ [Next]_vars => IInv'
<1> SUFFICES ASSUME IInv, [Next]_vars PROVE IInv'
  OBVIOUS
<1>1. CASE UNCHANGED vars
  BY <1>1 DEF vars, client, target, IInv, TypeOK, Objects, ChaseIsRegistered, NoReentry
<1>2. ASSUME NEW a \in Addrs, Unmarshal(a) PROVE IInv'
  BY <1>2, UnmarshalStep
<1>3. ASSUME NEW a \in Addrs, NEW c \in Contents, Write(a, c) PROVE IInv'
  <2>1. mem' \in [Addrs -> Contents] /\ writes' \in Nat
    BY <1>3 DEF Write, IInv, TypeOK
  <2> QED
    BY <1>3, <2>1
    DEF Write, client, IInv, TypeOK, Objects, ChaseIsRegistered, NoReentry
<1>4. CASE ZeroPointer \/ TextRead \/ Reuse \/ Mismatch
  BY <1>4, LeafStep
<1>5. CASE Chase
  BY <1>5, ChaseStep
<1>6. CASE Return
  BY <1>6, ReturnStep
<1> QED
  BY <1>1, <1>2, <1>3, <1>4, <1>5, <1>6 DEF Next, Step

\* Getters, structs, the stack of structs being decoded and the context keep their
\* types in every run of Unmarshal, the target's writes included.
THEOREM SparseTypeCorrect == Spec => []TypeOK
<1>1. IInv => TypeOK
  BY DEF IInv
<1> QED
  BY <1>1, IInvInit, IInvStep, PTL DEF Spec

\* No address is decoded again while it is being decoded, so the recursion through
\* Read and Unmarshal is no deeper than the number of addresses, for every memory
\* and however the target changes it.
THEOREM NoReentryAlways == Spec => []NoReentry
<1>1. IInv => NoReentry
  BY DEF IInv
<1> QED
  BY <1>1, IInvInit, IInvStep, PTL DEF Spec

-----------------------------------------------------------------------------
(***************************************************************************)
(* The graph that the first Unmarshal builds.  The structs made below one  *)
(* field of the client's struct are a copy of a piece of the memory: the   *)
(* invariant says so of the pointers decoded so far.                       *)
(***************************************************************************)
First == Len(calls) = 1 /\ outcome # "error"

Made == 2 .. Len(heap)
Getter(o, k) == heap[o].fields[k]
Slots(o) == DOMAIN heap[o].fields

\* The field of the client's struct that a getter lies below, or is.
Top(o, k) == IF o = 1 THEN k ELSE heap[o].under

\* A field that an active call has not come to yet.
Pending(o, k) == \E j \in 1 .. Len(stack) :
                   stack[j].obj = o /\ (k > stack[j].at \/ (k = stack[j].at /\ j = Len(stack)))

Calm == /\ Busy => calls # << >> /\ outcome = "none"
        /\ calls = << >> => /\ stack = << >> /\ outcome = "none"
                           /\ heap = <<NewObject(RootType, 0)>>

\* The structs on the stack lead to each other, and lie below the field that the
\* client's struct is at.
Chain ==
  Busy =>
    /\ \A j \in 1 .. Len(stack) : heap[stack[j].obj].from = stack[j].addr
                                  /\ heap[stack[j].obj].loaded
    /\ stack[1].obj = 1
    /\ \A j \in 2 .. Len(stack) : stack[j].obj \in Made
                                  /\ heap[stack[j].obj].under = stack[1].at
    /\ \A j \in 1 .. Len(stack) - 1 :
         /\ stack[j].at \in Slots(stack[j].obj)
         /\ Getter(stack[j].obj, stack[j].at).val # NoObject
    /\ \A i, j \in 1 .. Len(stack) : stack[i].obj = stack[j].obj => i = j

\* An address is read once below a field of the client's struct.
Distinct == \A o, p \in Made : heap[o].under = heap[p].under /\ heap[o].from = heap[p].from => o = p

\* The context holds the structs made below the current field.
Context ==
  Busy =>
    /\ \A o \in Made : heap[o].under <= stack[1].at
    /\ \A o \in Made : heap[o].under = stack[1].at =>
         Len(stack) # 1 /\ heap[o].from \in DOMAIN visited /\ visited[heap[o].from] = o
    /\ Len(stack) # 1 => \A a \in DOMAIN visited :
         visited[a] \in Made /\ heap[visited[a]].from = a
         /\ heap[visited[a]].under = stack[1].at

\* A pointer leads to the struct of its address and its type below the same field.
Edges ==
  \A o \in Objects : \A k \in Slots(o) : Getter(o, k).val # NoObject =>
    LET v == Getter(o, k).val
    IN  /\ v \in Made /\ heap[v].under = Top(o, k)
        /\ heap[v].from = Getter(o, k).addr
        /\ heap[v].type = Layout[heap[o].type][k]

\* A struct was made for a pointer in an earlier one.
Parents ==
  \A p \in Made : \E o \in 1 .. p - 1 : \E k \in Slots(o) :
    Getter(o, k).val = p /\ Top(o, k) = heap[p].under

Untouched == \A o \in Objects : \A k \in Slots(o) : Pending(o, k) => Getter(o, k) = NewGetter

\* Why a pointer without an error is empty.
Skips ==
  \A o \in Objects : \A k \in Slots(o) :
    heap[o].loaded /\ ~Pending(o, k) /\ Layout[heap[o].type][k] # Text
      /\ Getter(o, k).val = NoObject /\ Getter(o, k).err = "nil" =>
    \E p \in Made : heap[p].under = Top(o, k) /\ heap[p].from = Getter(o, k).addr
                   /\ heap[p].type # Layout[heap[o].type][k]

\* While the target holds still.
Words ==
  writes = 0 =>
    /\ Busy => \A j \in 1 .. Len(stack) : stack[j].words = mem[stack[j].addr]
    /\ \A o \in Made : heap[o].loaded = (mem[heap[o].from] # Unreadable)
    /\ \A o \in Objects : \A k \in Slots(o) : heap[o].loaded /\ ~Pending(o, k) =>
         Getter(o, k).addr = mem[heap[o].from][k]

Graph == Chain /\ Distinct /\ Context /\ Edges /\ Parents /\ Untouched /\ Skips /\ Words

GInv == Calm /\ (First => Graph)

\* What an assignment to a getter, a read and an allocation leave alone.
SameStructs(h, r) ==
  \A p \in 1 .. Len(h) :
    /\ r[p].type = h[p].type /\ r[p].under = h[p].under
    /\ r[p].from = h[p].from /\ r[p].loaded = h[p].loaded
    /\ DOMAIN r[p].fields = DOMAIN h[p].fields

LEMMA AssignedSlots ==
  ASSUME NEW n \in Nat, NEW h, WellFormed(h, n),
         NEW o \in 1 .. Len(h), NEW k, NEW g
  PROVE  /\ SameStructs(h, Assigned(h, o, k, g))
         /\ \A p \in 1 .. Len(h) : \A i \in DOMAIN h[p].fields :
              Assigned(h, o, k, g)[p].fields[i] =
                IF p = o /\ i = k THEN g ELSE h[p].fields[i]
<1> DEFINE r == Assigned(h, o, k, g)
           fs == [h[o].fields EXCEPT ![k] = g]
           s == [h[o] EXCEPT !.fields = fs]
<1>1. h \in Seq(Structs(n)) /\ h[o] \in Structs(n)
  BY DEF WellFormed
<1>2. /\ s.type = h[o].type /\ s.under = h[o].under /\ s.from = h[o].from
      /\ s.loaded = h[o].loaded /\ s.fields = fs
  BY <1>1 DEF Structs
<1>3. DOMAIN fs = DOMAIN h[o].fields
      /\ \A i \in DOMAIN h[o].fields : fs[i] = IF i = k THEN g ELSE h[o].fields[i]
  OBVIOUS
<1>4. r = [h EXCEPT ![o] = s]
  BY <1>1 DEF Assigned
<1> HIDE DEF s, fs, r
<1>5. \A p \in 1 .. Len(h) : r[p] = IF p = o THEN s ELSE h[p]
  BY <1>1, <1>4
<1>6. SameStructs(h, r)
  BY <1>2, <1>3, <1>5 DEF SameStructs
<1>7. ASSUME NEW p \in 1 .. Len(h), NEW i \in DOMAIN h[p].fields
      PROVE  r[p].fields[i] = IF p = o /\ i = k THEN g ELSE h[p].fields[i]
  BY <1>2, <1>3, <1>5
<1> QED
  BY <1>6, <1>7 DEF r

LEMMA ReadSlots ==
  ASSUME NEW n \in Nat, NEW h, WellFormed(h, n),
         NEW o \in 1 .. Len(h), NEW a
  PROVE  \A p \in 1 .. Len(h) :
           /\ ReadInto(h, o, a)[p].type = h[p].type
           /\ ReadInto(h, o, a)[p].under = h[p].under
           /\ ReadInto(h, o, a)[p].fields = h[p].fields
           /\ ReadInto(h, o, a)[p].from = IF p = o THEN a ELSE h[p].from
           /\ ReadInto(h, o, a)[p].loaded =
                IF p = o THEN mem[a] # Unreadable ELSE h[p].loaded
<1> DEFINE r == ReadInto(h, o, a)
           s == Read(h[o], a)
<1>1. h \in Seq(Structs(n)) /\ h[o] \in Structs(n)
  BY DEF WellFormed
<1>2. /\ s.type = h[o].type /\ s.under = h[o].under /\ s.fields = h[o].fields
      /\ s.from = a /\ s.loaded = (mem[a] # Unreadable)
  BY <1>1 DEF Structs, Read
<1>3. r = [h EXCEPT ![o] = s]
  BY <1>1 DEF ReadInto
<1> HIDE DEF s, r
<1>4. \A p \in 1 .. Len(h) : r[p] = IF p = o THEN s ELSE h[p]
  BY <1>1, <1>3
<1> QED
  BY <1>2, <1>4 DEF r

LEMMA NewSlots ==
  ASSUME NEW t \in Types, NEW u
  PROVE  /\ NewObject(t, u).type = t /\ NewObject(t, u).under = u
         /\ NewObject(t, u).from = Null /\ NewObject(t, u).loaded = FALSE
         /\ DOMAIN NewObject(t, u).fields = 1 .. Len(Layout[t])
BY DEF NewObject

\* Slots are the positions of the layout.
LEMMA SlotType ==
  ASSUME TypeOK, NEW o \in Objects
  PROVE  /\ heap[o].type \in Types /\ heap[o].under \in Nat
         /\ Slots(o) = 1 .. Len(Layout[heap[o].type])
         /\ \A k \in Slots(o) : Getter(o, k) \in Getters(Len(heap))
         /\ o \in Nat \ {0} /\ Len(heap) \in Nat \ {0} /\ 1 \in Objects
<1>1. Len(heap) \in Nat \ {0} /\ heap \in Seq(Structs(Len(heap)))
  BY DEF TypeOK
<1>2. heap[o] \in Structs(Len(heap)) /\ Len(heap[o].fields) = Len(Layout[heap[o].type])
  BY <1>1 DEF TypeOK, Objects
<1>3. heap[o].fields \in Seq(Getters(Len(heap)))
  BY <1>2 DEF Structs
<1>4. Slots(o) = 1 .. Len(Layout[heap[o].type])
  BY <1>2, <1>3 DEF Slots
<1>5. \A k \in Slots(o) : Getter(o, k) \in Getters(Len(heap))
  BY <1>3 DEF Slots, Getter
<1>6. o \in Nat \ {0} /\ 1 \in Objects
  BY <1>1 DEF Objects
<1> QED
  BY <1>1, <1>2, <1>4, <1>5, <1>6 DEF Structs

\* Getting one field further.
LEMMA NextSlot ==
  ASSUME TypeOK, AtField, Chain, stack' = [stack EXCEPT ![Len(stack)].at = @ + 1]
  PROVE  /\ Len(stack') = Len(stack) /\ Len(stack) \in Nat \ {0} /\ Busy'
         /\ stack'[1].at = IF Len(stack) = 1 THEN stack[1].at + 1 ELSE stack[1].at
         /\ \A j \in 1 .. Len(stack) :
              /\ stack'[j].obj = stack[j].obj /\ stack'[j].addr = stack[j].addr
              /\ stack'[j].words = stack[j].words
              /\ stack'[j].at = IF j = Len(stack) THEN frame.at + 1 ELSE stack[j].at
         /\ \A p : \A i \in Nat : Pending(p, i)' => Pending(p, i) /\ ~(p = frame.obj /\ i = frame.at)
         /\ \A p : \A i \in Nat : Pending(p, i) => Pending(p, i)' \/ (p = frame.obj /\ i = frame.at)
         /\ Pending(frame.obj, frame.at)
<1> DEFINE n == Len(stack)
           f == [frame EXCEPT !.at = @ + 1]
<1>1. Busy /\ n \in Nat \ {0} /\ n \in 1 .. n /\ 1 \in 1 .. n
  BY FrameType DEF AtField
<1>2. stack \in Seq(Frames(Len(heap))) /\ \A j \in 1 .. n : stack[j] \in Frames(Len(heap))
  BY DEF TypeOK
<1>3. f.obj = frame.obj /\ f.addr = frame.addr /\ f.words = frame.words /\ f.at = frame.at + 1
  BY <1>1, <1>2 DEF frame, Frames
<1>4. stack' = [stack EXCEPT ![n] = f]
  BY <1>1, <1>2 DEF frame
<1> HIDE DEF f
<1>5. Len(stack') = n /\ \A j \in 1 .. n : stack'[j] = IF j = n THEN f ELSE stack[j]
  BY <1>1, <1>2, <1>4
<1>6. \A j \in 1 .. n :
        /\ stack'[j].obj = stack[j].obj /\ stack'[j].addr = stack[j].addr
        /\ stack'[j].words = stack[j].words
        /\ stack'[j].at = IF j = n THEN frame.at + 1 ELSE stack[j].at
        /\ stack[j].at \in Nat
  BY <1>2, <1>3, <1>5 DEF frame, Frames
<1>7. Busy'
  BY <1>1, <1>5 DEF Busy
<1>8. stack'[1].at = IF n = 1 THEN stack[1].at + 1 ELSE stack[1].at
  BY <1>1, <1>6 DEF frame
<1>9. Pending(frame.obj, frame.at)
  BY <1>1 DEF Pending, frame
<1>10. ASSUME NEW p, NEW i \in Nat, Pending(p, i)'
       PROVE  Pending(p, i) /\ ~(p = frame.obj /\ i = frame.at)
  <2>1. PICK j \in 1 .. n : /\ stack[j].obj = p
                            /\ \/ i > stack'[j].at
                               \/ i = stack'[j].at /\ j = n
    BY <1>5, <1>6, <1>10 DEF Pending
  <2>2. CASE j = n
    <3>1. frame.at \in Nat /\ (i > frame.at + 1 \/ i = frame.at + 1)
      BY <1>1, <1>6, <2>1, <2>2 DEF frame
    <3>2. i > frame.at /\ i # frame.at
      BY <1>6, <2>1, <2>2, <3>1
    <3> QED
      BY <2>1, <2>2, <3>2 DEF Pending, frame
  <2>3. CASE j # n
    <3>1. Pending(p, i)
      BY <1>6, <2>1, <2>3 DEF Pending
    <3>2. p # frame.obj
      BY <1>1, <2>1, <2>3 DEF Chain, frame
    <3> QED
      BY <3>1, <3>2
  <2> QED
    BY <2>2, <2>3
<1>11. ASSUME NEW p, NEW i \in Nat, Pending(p, i)
       PROVE  Pending(p, i)' \/ (p = frame.obj /\ i = frame.at)
  <2>1. PICK j \in 1 .. n : /\ stack[j].obj = p
                            /\ \/ i > stack[j].at
                               \/ i = stack[j].at /\ j = n
    BY <1>11 DEF Pending
  <2>2. CASE j = n /\ i = frame.at
    BY <2>1, <2>2 DEF frame
  <2>3. CASE j # n
    BY <1>5, <1>6, <2>1, <2>3 DEF Pending
  <2>4. CASE j = n /\ i # frame.at
    <3>1. i > frame.at /\ frame.at \in Nat
      BY <1>1, <1>6, <2>1, <2>4 DEF frame
    <3>2. i > frame.at + 1 \/ i = frame.at + 1
      BY <3>1
    <3> QED
      BY <1>5, <1>6, <2>1, <2>4, <3>1, <3>2 DEF Pending
  <2> QED
    BY <2>2, <2>3, <2>4
<1> QED
  BY <1>1, <1>5, <1>6, <1>7, <1>8, <1>9, <1>10, <1>11

\* A step after which every struct is where it was, and all getters but one are what
\* they were.
GetterSet(o, k, g) ==
  /\ Len(heap') = Len(heap)
  /\ SameStructs(heap, heap')
  /\ \A p \in Objects : \A i \in Slots(p) :
       heap'[p].fields[i] = IF p = o /\ i = k THEN g ELSE Getter(p, i)

LEMMA GetterSetFacts ==
  ASSUME NEW o \in Objects, NEW k, NEW g, GetterSet(o, k, g)
  PROVE  /\ Objects' = Objects /\ Made' = Made /\ Len(heap)' = Len(heap)
         /\ \A p \in Objects : Slots(p)' = Slots(p)
         /\ \A p \in Objects : \A i : Top(p, i)' = Top(p, i)
         /\ \A p \in Objects : heap'[p].type = heap[p].type /\ heap'[p].under = heap[p].under
                               /\ heap'[p].from = heap[p].from /\ heap'[p].loaded = heap[p].loaded
         /\ \A p \in Objects : \A i \in Slots(p) :
              Getter(p, i)' = IF p = o /\ i = k THEN g ELSE Getter(p, i)
BY DEF GetterSet, SameStructs, Objects, Made, Slots, Top, Getter

\* A field is decoded without a call: what has to be true of its getter.
LEMMA LeafGraph ==
  ASSUME IInv, AtField, Graph, NEW g \in Getters(Len(heap)), FieldDone(g),
         UNCHANGED <<visited, client, target>>,
         g.addr = word,
         g.val # NoObject =>
           /\ g.val \in Made /\ heap[g.val].under = Top(frame.obj, frame.at)
           /\ heap[g.val].from = word /\ heap[g.val].type = layout[frame.at],
         layout[frame.at] # Text /\ g.val = NoObject /\ g.err = "nil" =>
           \E p \in Made : /\ heap[p].under = Top(frame.obj, frame.at) /\ heap[p].from = word
                           /\ heap[p].type # layout[frame.at]
  PROVE  Graph'
<1> DEFINE n == Len(stack)
           o == frame.obj
           k == frame.at
<1>1. /\ TypeOK /\ Busy /\ Chain /\ n \in Nat \ {0} /\ n \in 1 .. n /\ 1 \in 1 .. n
      /\ stack \in Seq(Frames(Len(heap)))
  BY FrameType DEF AtField, IInv, Graph, TypeOK
<1>2. /\ o \in Objects /\ k \in 1 .. Len(layout) /\ Slots(o) = 1 .. Len(layout)
      /\ layout = Layout[heap[o].type] /\ Len(heap) \in Nat \ {0} /\ k \in Nat /\ k \in Slots(o)
  <2>1. o \in Objects /\ k \in 1 .. Len(layout) /\ layout = Layout[heap[o].type]
    BY <1>1, FrameType, FieldType DEF layout, object
  <2>2. Slots(o) = 1 .. Len(layout) /\ Len(heap) \in Nat \ {0}
    BY <1>1, <2>1, SlotType
  <2> QED
    BY <2>1, <2>2
<1>3. GetterSet(o, k, g)
  <2>1. heap' = Assigned(heap, o, k, g)
    BY DEF FieldDone, Assigned
  <2>2. WellFormed(heap, Len(heap)) /\ o \in 1 .. Len(heap)
    BY <1>1, <1>2 DEF TypeOK, WellFormed, Objects
  <2>3. Len(heap') = Len(heap)
    BY <1>1, <1>2, <2>1, <2>2, FieldAssigned
  <2> QED
    BY <1>2, <2>1, <2>2, <2>3, AssignedSlots DEF GetterSet, Objects, Slots, Getter
<1>4. /\ Objects' = Objects /\ Made' = Made
      /\ \A p \in Objects : /\ Slots(p)' = Slots(p) /\ \A i : Top(p, i)' = Top(p, i)
           /\ heap'[p].type = heap[p].type /\ heap'[p].under = heap[p].under
           /\ heap'[p].from = heap[p].from /\ heap'[p].loaded = heap[p].loaded
           /\ \A i \in Slots(p) : Getter(p, i)' = IF p = o /\ i = k THEN g ELSE Getter(p, i)
  BY <1>2, <1>3, GetterSetFacts
<1>5. /\ Len(stack') = n /\ Busy'
      /\ stack'[1].at = IF n = 1 THEN stack[1].at + 1 ELSE stack[1].at
      /\ \A j \in 1 .. n : /\ stack'[j].obj = stack[j].obj /\ stack'[j].addr = stack[j].addr
                           /\ stack'[j].words = stack[j].words
                           /\ stack'[j].at = IF j = n THEN k + 1 ELSE stack[j].at
      /\ \A p : \A i \in Nat : Pending(p, i)' => Pending(p, i) /\ ~(p = o /\ i = k)
      /\ \A p : \A i \in Nat : Pending(p, i) => Pending(p, i)' \/ (p = o /\ i = k)
      /\ Pending(o, k)
  BY <1>1, NextSlot DEF FieldDone
<1>6. Made \subseteq Objects /\ \A p \in Objects : Slots(p) \subseteq Nat
  <2>1. Made \subseteq Objects
    BY DEF Made, Objects
  <2>2. ASSUME NEW p \in Objects PROVE Slots(p) \subseteq Nat
    BY <1>1, SlotType
  <2> QED
    BY <2>1, <2>2
<1>7. \A j \in 1 .. n : stack[j].obj \in Objects /\ stack[j].at \in Nat
  <2>1. \A j \in 1 .. n : stack[j] \in Frames(Len(heap))
    BY <1>1
  <2> QED
    BY <2>1 DEF Frames, Objects
<1> HIDE DEF o, k
<1>8. Chain'
  <2>1. \A j \in 1 .. n : heap'[stack'[j].obj].from = stack'[j].addr
                          /\ heap'[stack'[j].obj].loaded
    BY <1>1, <1>4, <1>5, <1>7 DEF Chain
  <2>2. stack'[1].obj = 1
    BY <1>1, <1>5 DEF Chain
  <2>3. \A j \in 2 .. n : stack'[j].obj \in Made' /\ heap'[stack'[j].obj].under = stack'[1].at
    BY <1>1, <1>4, <1>5, <1>7 DEF Chain
  <2>4. ASSUME NEW j \in 1 .. n - 1
        PROVE  /\ stack'[j].at \in DOMAIN heap'[stack'[j].obj].fields
               /\ heap'[stack'[j].obj].fields[stack'[j].at].val # NoObject
    <3>1. j \in 1 .. n /\ j # n /\ stack'[j].obj = stack[j].obj /\ stack'[j].at = stack[j].at
      BY <1>1, <1>5
    <3>2. stack[j].obj # o
      BY <1>1, <3>1 DEF Chain, frame, o
    <3>3. /\ stack[j].at \in DOMAIN heap[stack[j].obj].fields
          /\ heap[stack[j].obj].fields[stack[j].at].val # NoObject
      BY <1>1 DEF Chain, Slots, Getter
    <3>4. \A p \in Objects : p # o => /\ DOMAIN heap'[p].fields = DOMAIN heap[p].fields
            /\ \A i \in DOMAIN heap[p].fields : heap'[p].fields[i] = heap[p].fields[i]
      BY <1>4 DEF Slots, Getter
    <3> QED
      BY <1>7, <3>1, <3>2, <3>3, <3>4
  <2>5. \A i, j \in 1 .. n : stack'[i].obj = stack'[j].obj => i = j
    BY <1>1, <1>5 DEF Chain
  <2> QED
    BY <1>5, <2>1, <2>2, <2>3, <2>4, <2>5 DEF Chain, Slots, Getter
<1>9. Distinct'
  BY <1>4, <1>6 DEF Graph, Distinct
<1>10. Context'
  <2>1. visited' = visited
    OBVIOUS
  <2>2. stack[1].at \in Nat /\ \A p \in Made : heap[p].under \in Nat
    BY <1>1, <1>6, <1>7, SlotType
  <2>3. CASE n = 1
    <3>1. \A p \in Made : heap[p].under <= stack[1].at /\ heap[p].under # stack[1].at
      BY <1>1, <2>3 DEF Graph, Context
    <3>2. \A p \in Made : heap'[p].under <= stack'[1].at /\ heap'[p].under # stack'[1].at
      BY <1>4, <1>5, <1>6, <2>2, <2>3, <3>1
    <3> QED
      BY <1>4, <1>5, <2>3, <3>2 DEF Context
  <2>4. CASE n # 1
    BY <1>1, <1>4, <1>5, <1>6, <2>1, <2>4 DEF Graph, Context
  <2> QED
    BY <2>3, <2>4
<1>11. Edges'
  <2> SUFFICES ASSUME NEW p \in Objects, NEW i \in Slots(p), Getter(p, i)'.val # NoObject
               PROVE  LET v == Getter(p, i)'.val
                      IN  /\ v \in Made /\ heap[v].under = Top(p, i)
                          /\ heap[v].from = Getter(p, i)'.addr
                          /\ heap[v].type = Layout[heap[p].type][i]
    BY <1>4, <1>6 DEF Edges
  <2>1. CASE p = o /\ i = k
    BY <1>2, <1>4, <2>1 DEF o, k
  <2>2. CASE ~(p = o /\ i = k)
    BY <1>4, <2>2 DEF Graph, Edges
  <2> QED
    BY <2>1, <2>2
<1>12. Getter(o, k) = NewGetter
  BY <1>2, <1>5 DEF Graph, Untouched
<1>13. Parents'
  <2> SUFFICES ASSUME NEW p \in Made
               PROVE  \E q \in 1 .. p - 1 : \E i \in Slots(q)' :
                        Getter(q, i)'.val = p /\ Top(q, i)' = heap'[p].under
    BY <1>4 DEF Parents
  <2>1. PICK q \in 1 .. p - 1 : \E i \in Slots(q) : Getter(q, i).val = p /\ Top(q, i) = heap[p].under
    BY DEF Graph, Parents
  <2>2. PICK i \in Slots(q) : Getter(q, i).val = p /\ Top(q, i) = heap[p].under
    BY <2>1
  <2>3. q \in Objects /\ p # NoObject
    BY <1>2 DEF Made, Objects, NoObject
  <2>4. ~(q = o /\ i = k)
    BY <1>12, <2>2, <2>3 DEF NewGetter
  <2> QED
    BY <1>4, <1>6, <2>2, <2>3, <2>4
<1>14. Untouched'
  BY <1>4, <1>5, <1>6 DEF Graph, Untouched
<1>15. Skips'
  <2> SUFFICES ASSUME NEW p \in Objects, NEW i \in Slots(p),
                      heap[p].loaded, ~Pending(p, i)', Layout[heap[p].type][i] # Text,
                      Getter(p, i)'.val = NoObject, Getter(p, i)'.err = "nil"
               PROVE  \E q \in Made : /\ heap[q].under = Top(p, i)
                                      /\ heap[q].from = Getter(p, i)'.addr
                                      /\ heap[q].type # Layout[heap[p].type][i]
    BY <1>4, <1>6 DEF Skips
  <2>1. CASE p = o /\ i = k
    BY <1>2, <1>4, <2>1 DEF o, k
  <2>2. CASE ~(p = o /\ i = k)
    BY <1>4, <1>5, <1>6, <2>2 DEF Graph, Skips
  <2> QED
    BY <2>1, <2>2
<1>16. Words'
  <2> SUFFICES ASSUME writes = 0 PROVE Words'
    BY DEF Words, target
  <2>1. mem' = mem
    BY DEF target
  <2>2. \A j \in 1 .. n : stack'[j].words = mem[stack'[j].addr]
    BY <1>1, <1>5 DEF Graph, Words
  <2>3. \A p \in Made : heap'[p].loaded = (mem[heap'[p].from] # Unreadable)
    BY <1>4, <1>6 DEF Graph, Words
  <2>4. ASSUME NEW p \in Objects, NEW i \in Slots(p), heap[p].loaded, ~Pending(p, i)'
        PROVE  Getter(p, i)'.addr = mem[heap[p].from][i]
    <3>1. CASE p = o /\ i = k
      <4>1. frame.words = mem[frame.addr] /\ heap[o].from = frame.addr
        BY <1>1 DEF Graph, Words, Chain, frame, o
      <4> QED
        BY <1>4, <3>1, <4>1 DEF word, k
    <3>2. CASE ~(p = o /\ i = k)
      BY <1>4, <1>5, <1>6, <2>4, <3>2 DEF Graph, Words
    <3> QED
      BY <3>1, <3>2
  <2> QED
    BY <1>4, <1>5, <2>1, <2>2, <2>3, <2>4 DEF Words
<1> QED
  BY <1>8, <1>9, <1>10, <1>11, <1>13, <1>14, <1>15, <1>16 DEF Graph

\* The field being decoded lies below the one that the client's struct is at, and
\* nothing has been assigned to it.
LEMMA CurrentSlot ==
  ASSUME TypeOK, AtField, Graph
  PROVE  /\ Top(frame.obj, frame.at) = stack[1].at /\ stack[1].at \in Nat
         /\ frame.obj \in Objects /\ frame.at \in Slots(frame.obj)
         /\ layout = Layout[heap[frame.obj].type]
         /\ getter = Getter(frame.obj, frame.at) /\ getter = NewGetter
<1>1. Busy /\ Len(stack) \in Nat \ {0} /\ frame.obj \in Objects
      /\ frame.at \in 1 .. Len(layout)
  BY FrameType, FieldType DEF AtField
<1>2. layout = Layout[heap[frame.obj].type] /\ Slots(frame.obj) = 1 .. Len(layout)
  BY <1>1, SlotType DEF layout, object
<1>3. getter = Getter(frame.obj, frame.at)
  BY DEF getter, Getter, object
<1>4. Pending(frame.obj, frame.at)
  BY <1>1 DEF Pending, frame
<1>5. getter = NewGetter
  BY <1>1, <1>2, <1>3, <1>4 DEF Graph, Untouched
<1>6. stack[1].at \in Nat
  <2>1. stack[1] \in Frames(Len(heap))
    BY <1>1 DEF TypeOK
  <2> QED
    BY <2>1 DEF Frames
<1>7. CASE Len(stack) = 1
  <2>1. frame = stack[1]
    BY <1>7 DEF frame
  <2>2. frame.obj = 1
    BY <1>1, <2>1 DEF Graph, Chain
  <2> QED
    BY <1>1, <1>2, <1>3, <1>5, <1>6, <2>1, <2>2 DEF Top
<1>8. CASE Len(stack) # 1
  <2>1. Len(stack) \in 2 .. Len(stack)
    <3>1. \A k \in Nat \ {0} : k # 1 => k \in 2 .. k
      OBVIOUS
    <3> QED
      BY <1>1, <1>8, <3>1
  <2>2. frame.obj \in Made /\ heap[frame.obj].under = stack[1].at
    BY <1>1, <2>1 DEF Graph, Chain, frame
  <2>3. frame.obj # 1
    BY <2>2 DEF Made
  <2> QED
    BY <1>1, <1>2, <1>3, <1>5, <1>6, <2>2, <2>3 DEF Top
<1> QED
  BY <1>7, <1>8

LEMMA LeafStepGraph ==
  ASSUME IInv, Graph, ZeroPointer \/ TextRead \/ Reuse \/ Mismatch
  PROVE  Graph'
<1>1. AtField /\ TypeOK /\ Busy /\ UNCHANGED <<visited, client, target>>
  BY DEF ZeroPointer, TextRead, Reuse, Mismatch, AtPointer, AtField, IInv
<1>2. /\ Top(frame.obj, frame.at) = stack[1].at /\ getter = NewGetter
      /\ word \in Addrs \cup {Null} /\ getter \in Getters(Len(heap))
  BY <1>1, CurrentSlot, FieldType
<1>3. Addressed = [addr |-> word, val |-> NoObject, text |-> << >>, err |-> "nil"]
      /\ Addressed \in Getters(Len(heap))
  <2>1. Addressed = [NewGetter EXCEPT !.addr = word]
    BY <1>2 DEF Addressed
  <2>2. Addressed = [addr |-> word, val |-> NoObject, text |-> << >>, err |-> "nil"]
    BY <2>1 DEF NewGetter
  <2>3. Addressed \in Getters(Len(heap))
    BY <1>2 DEF Addressed, Getters
  <2> QED
    BY <2>2, <2>3
<1>4. CASE ZeroPointer
  <2> DEFINE g == [Addressed EXCEPT !.err = "zero"]
  <2>1. g \in Getters(Len(heap)) /\ g.addr = word /\ g.val = NoObject /\ g.err = "zero"
    BY <1>3 DEF Getters
  <2>2. FieldDone(g)
    BY <1>4 DEF ZeroPointer
  <2> HIDE DEF g
  <2> QED
    BY <1>1, <2>1, <2>2, LeafGraph
<1>5. CASE TextRead
  <2> DEFINE g == IF mem[word] = Unreadable THEN [Addressed EXCEPT !.err = "read"]
                  ELSE [Addressed EXCEPT !.text = Append(@, word)]
  <2>1. word \in Addrs /\ layout[frame.at] = Text
    BY <1>2, <1>5 DEF TextRead
  <2>2. g \in Getters(Len(heap)) /\ g.addr = word /\ g.val = NoObject
    <3>1. [Addressed EXCEPT !.err = "read"] \in Getters(Len(heap))
      BY <1>3 DEF Getters
    <3>2. Append(<< >>, word) \in Seq(Addrs)
      BY <2>1
    <3>3. [Addressed EXCEPT !.text = Append(@, word)] \in Getters(Len(heap))
      BY <1>3, <3>2 DEF Getters
    <3> QED
      BY <1>3, <3>1, <3>3
  <2>3. FieldDone(g)
    BY <1>5 DEF TextRead
  <2> HIDE DEF g
  <2> QED
    BY <1>1, <2>1, <2>2, <2>3, LeafGraph
<1>6. ASSUME Reuse \/ Mismatch
      PROVE  LET p == Visited[word]
             IN  /\ p \in Made /\ p \in Objects /\ heap[p].from = word
                 /\ heap[p].under = Top(frame.obj, frame.at)
  <2>1. word \in DOMAIN Visited
    BY <1>6 DEF Reuse, Mismatch
  <2>2. Len(stack) # 1 /\ Visited = visited
    BY <2>1 DEF Visited
  <2> QED
    BY <1>1, <1>2, <2>1, <2>2 DEF Graph, Context, Made, Objects
<1>7. CASE Reuse
  <2> DEFINE g == [Addressed EXCEPT !.val = Visited[word]]
  <2>1. Visited[word] \in 0 .. Len(heap) /\ Visited[word] # NoObject
    BY <1>6, <1>7 DEF Made, Objects, NoObject
  <2>2. g \in Getters(Len(heap)) /\ g.addr = word /\ g.val = Visited[word]
    BY <1>3, <2>1 DEF Getters
  <2>3. FieldDone(g) /\ heap[Visited[word]].type = layout[frame.at]
    BY <1>7 DEF Reuse, TypesMatch
  <2> HIDE DEF g
  <2> QED
    BY <1>1, <1>6, <1>7, <2>1, <2>2, <2>3, LeafGraph
<1>8. CASE Mismatch
  <2>1. FieldDone(Addressed) /\ heap[Visited[word]].type # layout[frame.at]
    BY <1>8 DEF Mismatch, TypesMatch
  <2>2. Addressed.addr = word /\ Addressed.val = NoObject
    BY <1>3
  <2> QED
    BY <1>1, <1>3, <1>6, <1>8, <2>1, <2>2, LeafGraph
<1> QED
  BY <1>4, <1>5, <1>7, <1>8

\* The call for the struct of the client's pointer returns.
LEMMA LastReturn ==
  ASSUME IInv, Graph, Return, Len(stack) = 1
  PROVE  Graph' /\ stack' = << >>
<1>1. /\ stack' = << >> /\ heap' = heap /\ mem' = mem /\ writes' = writes
      /\ Busy /\ TypeOK /\ frame.at > Len(layout)
  BY DEF Return, target, IInv
<1>2. ~Busy' /\ Len(stack') = 0
  BY <1>1 DEF Busy
<1>3. ASSUME NEW p \in Objects, NEW i \in Slots(p) PROVE ~Pending(p, i)
  <2> SUFFICES ASSUME Pending(p, i) PROVE FALSE
    OBVIOUS
  <2>1. frame.obj = p /\ frame = stack[1] /\ i >= stack[1].at
    <3>1. stack[1] \in Frames(Len(heap))
      <4>1. stack \in Seq(Frames(Len(heap))) /\ 1 \in 1 .. Len(stack)
        BY <1>1 DEF TypeOK
      <4> QED
        BY <4>1
    <3>2. stack[1].at \in Nat
      BY <3>1 DEF Frames
    <3>3. i \in Nat
      BY <1>1, SlotType
    <3> QED
      BY <3>2, <3>3 DEF Pending, frame
  <2>2. i \in 1 .. Len(layout) /\ Len(layout) \in Nat /\ frame.at \in Nat
    BY <1>1, <2>1, SlotType, FrameType DEF layout, object, Frames
  <2> QED
    BY <1>1, <2>1, <2>2
<1>4. \A p, i : ~Pending(p, i)'
  BY <1>2 DEF Pending
<1>5. /\ Objects' = Objects /\ Made' = Made
      /\ \A p, i : /\ Slots(p)' = Slots(p) /\ Top(p, i)' = Top(p, i)
                   /\ Getter(p, i)' = Getter(p, i)
  BY <1>1 DEF Objects, Made, Slots, Top, Getter
<1>6. Chain' /\ Context'
  BY <1>2 DEF Chain, Context
<1>7. Distinct' /\ Edges' /\ Parents'
  BY <1>1, <1>5 DEF Graph, Distinct, Edges, Parents
<1>8. Untouched'
  BY <1>4 DEF Untouched
<1>9. Skips'
  BY <1>1, <1>3, <1>5 DEF Graph, Skips
<1>10. Words'
  BY <1>1, <1>2, <1>3, <1>5 DEF Graph, Words
<1> QED
  BY <1>1, <1>6, <1>7, <1>8, <1>9, <1>10 DEF Graph

\* Any other call returns to the Read of the struct above.
LEMMA ReturnShape ==
  ASSUME IInv, Graph, Return, Len(stack) # 1
  PROVE  LET m == Len(stack) - 1
             up == stack[m]
         IN  /\ m \in Nat \ {0} /\ m \in 1 .. Len(stack) - 1 /\ Len(stack) \in Nat
             /\ up.obj \in Objects /\ up.at \in Slots(up.obj)
             /\ Getter(up.obj, up.at).val # NoObject
             /\ GetterSet(up.obj, up.at, [Getter(up.obj, up.at) EXCEPT !.err = "nil"])
             /\ Len(stack') = m /\ Busy'
             /\ \A j \in 1 .. m :
                  /\ stack'[j].obj = stack[j].obj /\ stack'[j].addr = stack[j].addr
                  /\ stack'[j].words = stack[j].words /\ stack[j].at \in Nat
                  /\ stack'[j].at = IF j = m THEN stack[j].at + 1 ELSE stack[j].at
                  /\ stack[j].obj \in Objects
             /\ UNCHANGED <<mem, writes, visited>>
<1> DEFINE n == Len(stack)
           m == n - 1
           up == stack[m]
           rest == SubSeq(stack, 1, m)
           f == [rest[m] EXCEPT !.at = @ + 1]
           g == [Getter(up.obj, up.at) EXCEPT !.err = "nil"]
<1>1. Busy /\ TypeOK /\ stack \in Seq(Frames(Len(heap))) /\ n \in Nat \ {0}
  BY FrameType DEF Return, IInv, TypeOK
<1>2. m \in Nat \ {0} /\ m \in 1 .. n /\ m \in 1 .. n - 1
  <2>1. \A k \in Nat \ {0} : k # 1 =>
          k - 1 \in Nat \ {0} /\ k - 1 \in 1 .. k /\ k - 1 \in 1 .. k - 1
    OBVIOUS
  <2> QED
    BY <1>1, <2>1
<1>3. \A j \in 1 .. n : stack[j] \in Frames(Len(heap))
  BY <1>1
<1>4. \A j \in 1 .. n : stack[j].at \in Nat /\ stack[j].obj \in Objects
  BY <1>3 DEF Frames, Objects
<1>5. up.obj \in Objects /\ up.at \in Slots(up.obj) /\ Getter(up.obj, up.at).val # NoObject
  BY <1>1, <1>2, <1>4 DEF Graph, Chain
<1>6. GetterSet(up.obj, up.at, g)
  <2>1. heap' = Assigned(heap, up.obj, up.at, g)
    BY DEF Return, Assigned, Getter
  <2>2. WellFormed(heap, Len(heap)) /\ up.obj \in 1 .. Len(heap) /\ Len(heap) \in Nat
    BY <1>1, <1>5 DEF TypeOK, WellFormed, Objects
  <2>3. g \in Getters(Len(heap))
    <3>1. Getter(up.obj, up.at) \in Getters(Len(heap))
      BY <1>1, <1>5, SlotType
    <3> QED
      BY <3>1 DEF Getters
  <2> HIDE DEF g, up
  <2>4. Len(heap') = Len(heap)
    BY <2>1, <2>2, <2>3, FieldAssigned
  <2> QED
    BY <2>1, <2>2, <2>4, AssignedSlots DEF GetterSet, Objects, Slots, Getter
<1>7. rest \in Seq(Frames(Len(heap))) /\ Len(rest) = m /\ \A j \in 1 .. m : rest[j] = stack[j]
  <2>1. \A j \in 1 .. m : stack[j] \in Frames(Len(heap))
    BY <1>1, <1>2, <1>3
  <2> HIDE DEF m
  <2> QED
    BY <1>1, <1>2, <2>1, SubSeqProperties
<1>8. stack' = [rest EXCEPT ![m] = f]
  BY <1>7 DEF Return
<1>9. f.obj = up.obj /\ f.addr = up.addr /\ f.words = up.words /\ f.at = up.at + 1
  BY <1>2, <1>3, <1>7 DEF Frames
<1> HIDE DEF f, rest
<1>10. Len(stack') = m /\ \A j \in 1 .. m : stack'[j] = IF j = m THEN f ELSE stack[j]
  BY <1>2, <1>7, <1>8
<1>11. \A j \in 1 .. m :
         /\ stack'[j].obj = stack[j].obj /\ stack'[j].addr = stack[j].addr
         /\ stack'[j].words = stack[j].words /\ stack[j].at \in Nat
         /\ stack'[j].at = IF j = m THEN stack[j].at + 1 ELSE stack[j].at
         /\ stack[j].obj \in Objects
  <2>1. \A j \in 1 .. m : j \in 1 .. n
    BY <1>1, <1>2
  <2> QED
    BY <1>4, <1>9, <1>10, <2>1
<1>12. Busy'
  BY <1>2, <1>10 DEF Busy
<1>13. UNCHANGED <<mem, writes, visited>>
  BY DEF Return, target
<1> QED
  BY <1>1, <1>2, <1>5, <1>6, <1>10, <1>11, <1>12, <1>13

LEMMA InnerReturn ==
  ASSUME IInv, Graph, Return, Len(stack) # 1
  PROVE  Graph'
<1> DEFINE n == Len(stack)
           m == n - 1
<1>1. PICK o \in Objects, k \in Slots(stack[m].obj) : o = stack[m].obj /\ k = stack[m].at
  BY ReturnShape
<1>2. /\ TypeOK /\ Busy /\ frame.at > Len(layout) /\ n \in Nat /\ m \in Nat \ {0}
      /\ m \in 1 .. n - 1 /\ n \in 1 .. n /\ \A j \in 1 .. m : j \in 1 .. n
  <2>1. TypeOK /\ Busy /\ frame.at > Len(layout) /\ n \in Nat /\ m \in Nat \ {0}
        /\ m \in 1 .. n - 1
    BY ReturnShape DEF Return, IInv
  <2> QED
    BY <2>1
<1>3. /\ GetterSet(o, k, [Getter(o, k) EXCEPT !.err = "nil"]) /\ Getter(o, k).val # NoObject
      /\ k \in Slots(o)
  BY <1>1, ReturnShape
<1>4. Getter(o, k) \in Getters(Len(heap)) /\ \A p \in Objects : Slots(p) \subseteq Nat
  <2>0. TypeOK
    BY <1>2
  <2>1. Getter(o, k) \in Getters(Len(heap))
    BY <1>3, <2>0, SlotType
  <2>2. ASSUME NEW p \in Objects PROVE Slots(p) \subseteq Nat
    BY <2>0, SlotType
  <2> QED
    BY <2>1, <2>2
<1>5. /\ Objects' = Objects /\ Made' = Made /\ Made \subseteq Objects
      /\ \A p \in Objects : /\ Slots(p)' = Slots(p) /\ \A i : Top(p, i)' = Top(p, i)
           /\ heap'[p].type = heap[p].type /\ heap'[p].under = heap[p].under
           /\ heap'[p].from = heap[p].from /\ heap'[p].loaded = heap[p].loaded
           /\ \A i \in Slots(p) : /\ Getter(p, i)'.val = Getter(p, i).val
                                  /\ Getter(p, i)'.addr = Getter(p, i).addr
                                  /\ ~(p = o /\ i = k) => Getter(p, i)' = Getter(p, i)
  <2> DEFINE g == [Getter(o, k) EXCEPT !.err = "nil"]
  <2>1. g.val = Getter(o, k).val /\ g.addr = Getter(o, k).addr
    BY <1>4 DEF Getters
  <2> HIDE DEF g
  <2>2. GetterSet(o, k, g)
    BY <1>3 DEF g
  <2>3. Made \subseteq Objects
    BY DEF Made, Objects
  <2> QED
    BY <2>1, <2>2, <2>3, GetterSetFacts
<1>6. /\ Len(stack') = m /\ Busy' /\ UNCHANGED <<mem, writes, visited>>
      /\ \A j \in 1 .. m :
           /\ stack'[j].obj = stack[j].obj /\ stack'[j].addr = stack[j].addr
           /\ stack'[j].words = stack[j].words /\ stack[j].at \in Nat
           /\ stack'[j].at = IF j = m THEN stack[j].at + 1 ELSE stack[j].at
           /\ stack[j].obj \in Objects
  BY ReturnShape
<1>7. ASSUME NEW p \in Objects, NEW i \in Slots(p)
      PROVE  Pending(p, i)' <=> Pending(p, i)
  <2>1. i \in Nat
    BY <1>4
  <2>2. ASSUME Pending(p, i)' PROVE Pending(p, i)
    <3>1. PICK j \in 1 .. m : /\ stack'[j].obj = p
                              /\ i > stack'[j].at \/ (i = stack'[j].at /\ j = m)
      BY <1>6, <2>2 DEF Pending
    <3>2. i > stack[j].at
      BY <1>6, <2>1, <3>1
    <3> QED
      BY <1>2, <1>6, <3>1, <3>2 DEF Pending
  <2>3. ASSUME Pending(p, i) PROVE Pending(p, i)'
    <3>1. PICK j \in 1 .. n : /\ stack[j].obj = p
                              /\ i > stack[j].at \/ (i = stack[j].at /\ j = n)
      BY <2>3 DEF Pending
    <3>2. j # n
      <4> SUFFICES ASSUME j = n PROVE FALSE
        OBVIOUS
      <4>1. frame.obj = p /\ (i > frame.at \/ i = frame.at)
        BY <3>1 DEF frame
      <4>2. i \in 1 .. Len(layout) /\ Len(layout) \in Nat /\ frame.at \in Nat
        BY <1>2, <4>1, SlotType, FrameType DEF layout, object, Frames
      <4> QED
        BY <1>2, <4>1, <4>2
    <3>3. j \in 1 .. m /\ i > stack[j].at
      BY <1>2, <3>1, <3>2
    <3>4. i > stack'[j].at \/ (i = stack'[j].at /\ j = m)
      BY <1>6, <2>1, <3>3
    <3> QED
      BY <1>6, <3>1, <3>3, <3>4 DEF Pending
  <2> QED
    BY <2>2, <2>3
<1>8. Chain'
  <2>1. \A j \in 1 .. m : heap'[stack'[j].obj].from = stack'[j].addr
                          /\ heap'[stack'[j].obj].loaded
    <3>1. \A j \in 1 .. m : heap[stack[j].obj].from = stack[j].addr
                            /\ heap[stack[j].obj].loaded
      BY <1>2 DEF Graph, Chain
    <3>2. \A p \in Objects : heap'[p].from = heap[p].from /\ heap'[p].loaded = heap[p].loaded
      BY <1>5
    <3> HIDE DEF m
    <3> QED
      BY <1>6, <3>1, <3>2
  <2>2. stack'[1].obj = 1
    BY <1>2, <1>6 DEF Graph, Chain
  <2>3. ASSUME NEW j \in 2 .. m
        PROVE  stack'[j].obj \in Made' /\ heap'[stack'[j].obj].under = stack'[1].at
    <3>1. j \in 2 .. n /\ j \in 1 .. m /\ 1 \in 1 .. m /\ m # 1
      BY <1>2
    <3>2. stack[j].obj \in Made /\ heap[stack[j].obj].under = stack[1].at
      BY <1>2, <3>1 DEF Graph, Chain
    <3> QED
      BY <1>5, <1>6, <3>1, <3>2
  <2>4. ASSUME NEW j \in 1 .. m - 1
        PROVE  /\ stack'[j].at \in DOMAIN heap'[stack'[j].obj].fields
               /\ heap'[stack'[j].obj].fields[stack'[j].at].val # NoObject
    <3>1. j \in 1 .. m /\ j # m /\ j \in 1 .. n - 1
      BY <1>2
    <3>2. /\ stack[j].at \in DOMAIN heap[stack[j].obj].fields
          /\ heap[stack[j].obj].fields[stack[j].at].val # NoObject
      BY <1>2, <3>1 DEF Graph, Chain, Slots, Getter
    <3>3. \A p \in Objects :
            /\ DOMAIN heap'[p].fields = DOMAIN heap[p].fields
            /\ \A i \in DOMAIN heap[p].fields : heap'[p].fields[i].val = heap[p].fields[i].val
      BY <1>5 DEF Slots, Getter
    <3> QED
      BY <1>6, <3>1, <3>2, <3>3
  <2>5. \A i, j \in 1 .. m : stack'[i].obj = stack'[j].obj => i = j
    BY <1>2, <1>6 DEF Graph, Chain
  <2> QED
    BY <1>6, <2>1, <2>2, <2>3, <2>4, <2>5 DEF Chain, Slots, Getter
<1>9. Distinct'
  BY <1>5 DEF Graph, Distinct
<1>10. Context'
  <2>1. stack[1].at \in Nat /\ \A p \in Made : heap[p].under \in Nat
    BY <1>2, <1>5, <1>6, SlotType
  <2>2. /\ \A p \in Made : heap[p].under <= stack[1].at
        /\ \A p \in Made : heap[p].under = stack[1].at =>
             heap[p].from \in DOMAIN visited /\ visited[heap[p].from] = p
        /\ \A a \in DOMAIN visited : /\ visited[a] \in Made /\ heap[visited[a]].from = a
                                     /\ heap[visited[a]].under = stack[1].at
    BY <1>2 DEF Graph, Context
  <2>3. CASE m = 1
    <3>1. stack'[1].at = stack[1].at + 1
      BY <1>2, <1>6, <2>3
    <3>2. \A p \in Made : heap'[p].under <= stack'[1].at /\ heap'[p].under # stack'[1].at
      BY <1>5, <2>1, <2>2, <3>1
    <3> QED
      BY <1>5, <1>6, <2>3, <3>2 DEF Context
  <2>4. CASE m # 1
    <3>1. /\ stack'[1].at = stack[1].at /\ Len(stack') = m
          /\ visited' = visited /\ Made' = Made
          /\ \A p \in Made : heap'[p].under = heap[p].under /\ heap'[p].from = heap[p].from
      BY <1>2, <1>5, <1>6, <2>4
    <3>2. /\ \A p \in Made : heap'[p].under <= stack'[1].at
          /\ \A p \in Made : heap'[p].under = stack'[1].at =>
               heap'[p].from \in DOMAIN visited' /\ visited'[heap'[p].from] = p
      BY <2>2, <3>1
    <3>3. \A a \in DOMAIN visited' :
             /\ visited'[a] \in Made /\ heap'[visited'[a]].from = a
             /\ heap'[visited'[a]].under = stack'[1].at
      BY <2>2, <3>1
    <3> QED
      BY <2>4, <3>1, <3>2, <3>3 DEF Context
  <2> QED
    BY <2>3, <2>4
<1>11. Edges'
  BY <1>5 DEF Graph, Edges
<1>12. Parents'
  <2> SUFFICES ASSUME NEW p \in Made
               PROVE  \E q \in 1 .. p - 1 : \E i \in Slots(q)' :
                        Getter(q, i)'.val = p /\ Top(q, i)' = heap'[p].under
    BY <1>5 DEF Parents
  <2>1. PICK q \in 1 .. p - 1 : \E i \in Slots(q) : Getter(q, i).val = p /\ Top(q, i) = heap[p].under
    BY DEF Graph, Parents
  <2>2. q \in Objects
    BY DEF Made, Objects
  <2> QED
    BY <1>5, <2>1, <2>2
<1>13. Untouched'
  <2>1. Getter(o, k) # NewGetter
    BY <1>3 DEF NewGetter
  <2> QED
    BY <1>3, <1>5, <1>7, <2>1 DEF Graph, Untouched
<1>14. Skips'
  BY <1>3, <1>5, <1>7 DEF Graph, Skips
<1>15. Words'
  <2> SUFFICES ASSUME writes = 0 PROVE Words'
    BY <1>6 DEF Words
  <2>1. \A j \in 1 .. m : stack'[j].words = mem[stack'[j].addr]
    <3>1. \A j \in 1 .. m : stack[j].words = mem[stack[j].addr]
      BY <1>2 DEF Graph, Words
    <3> QED
      BY <1>6, <3>1
  <2>2. \A p \in Made : heap'[p].loaded = (mem[heap'[p].from] # Unreadable)
    BY <1>5 DEF Graph, Words
  <2>3. \A p \in Objects : \A i \in Slots(p) : heap'[p].loaded /\ ~Pending(p, i)' =>
          Getter(p, i)'.addr = mem[heap'[p].from][i]
    BY <1>5, <1>7 DEF Graph, Words
  <2> QED
    BY <1>5, <1>6, <2>1, <2>2, <2>3 DEF Words
<1> QED
  BY <1>8, <1>9, <1>10, <1>11, <1>12, <1>13, <1>14, <1>15 DEF Graph

\* A chase of the first Unmarshal makes a struct for the pointer.
LEMMA ChaseHeap ==
  ASSUME IInv, Graph, Chase
  PROVE  LET o == frame.obj
             k == frame.at
             v == Len(heap) + 1
         IN  /\ Len(heap') = v /\ layout[k] \in Types
             /\ \A p \in Objects :
                  /\ heap'[p].type = heap[p].type /\ heap'[p].under = heap[p].under
                  /\ heap'[p].from = heap[p].from /\ heap'[p].loaded = heap[p].loaded
                  /\ DOMAIN heap'[p].fields = Slots(p)
                  /\ \A i \in Slots(p) : ~(p = o /\ i = k) => heap'[p].fields[i] = Getter(p, i)
             /\ heap'[o].fields[k].val = v /\ heap'[o].fields[k].addr = word
             /\ mem[word] = Unreadable => heap'[o].fields[k].err = "read"
             /\ heap'[v].type = layout[k] /\ heap'[v].under = stack[1].at
             /\ heap'[v].from = word /\ heap'[v].loaded = (mem[word] # Unreadable)
             /\ \A i \in DOMAIN heap'[v].fields : heap'[v].fields[i] = NewGetter
             /\ DOMAIN heap'[v].fields \subseteq Nat \ {0}
             /\ visited' = Registered(v)
             /\ IF mem[word] = Unreadable
                THEN stack' = [stack EXCEPT ![Len(stack)].at = @ + 1]
                ELSE stack' = Append(stack, NewFrame(v, word))
<1> DEFINE o == frame.obj
           k == frame.at
           n == Len(heap)
           v == n + 1
           t == layout[k]
           w == Append(heap, NewObject(t, stack[1].at))
           g == [Addressed EXCEPT !.val = v]
           h == Assigned(w, o, k, g)
           e == Assigned(h, o, k, [h[o].fields[k] EXCEPT !.err = "read"])
<1>1. AtField /\ Busy /\ TypeOK /\ word \in Addrs /\ t \in Types
  <2>1. AtField /\ Busy /\ TypeOK
    BY DEF Chase, AtPointer, AtField, IInv
  <2> QED
    BY <2>1, FieldType DEF Chase, AtPointer
<1>2. /\ stack[1].at \in Nat /\ o \in Objects /\ k \in Slots(o) /\ n \in Nat \ {0}
      /\ getter = NewGetter /\ o \in 1 .. n /\ WellFormed(heap, n)
  <2>1. n \in Nat \ {0}
    BY <1>1, FrameType
  <2> QED
    BY <1>1, <2>1, CurrentSlot DEF Objects, TypeOK, WellFormed
<1>3. WellFormed(heap, n + 1) /\ WellFormed(w, v) /\ Len(w) = v
  BY <1>1, <1>2, Allocated
<1>4. Val = v /\ WithVal = w
  <2>1. getter.val = NoObject
    BY <1>2 DEF NewGetter
  <2>2. Val = v /\ Val \notin Objects
    BY <1>2, <2>1 DEF Val, Objects
  <2> QED
    BY <2>2 DEF WithVal
<1>5. (\A p \in Objects : w[p] = heap[p]) /\ w[v] = NewObject(t, stack[1].at)
  <2> DEFINE new == NewObject(t, stack[1].at)
  <2> HIDE DEF new
  <2>1. heap \in Seq(Structs(n))
    BY <1>2 DEF WellFormed
  <2>2. w = Append(heap, new)
    BY DEF new
  <2> HIDE DEF w
  <2> QED
    BY <1>2, <2>1, <2>2 DEF Objects, new
<1>6. v \in Nat \ {0} /\ o \in 1 .. v /\ v \in 1 .. v /\ Objects = 1 .. n /\ \A p \in 1 .. n : p \in 1 .. v
      /\ \A q \in 1 .. n : q # v
  BY <1>2 DEF Objects
<1>7. g \in Getters(v) /\ g.addr = word /\ g.val = v
  <2>1. Addressed = [NewGetter EXCEPT !.addr = word]
    BY <1>2 DEF Addressed
  <2>4. Addressed = [addr |-> word, val |-> NoObject, text |-> << >>, err |-> "nil"]
    BY <2>1 DEF NewGetter
  <2>2. g = [addr |-> word, val |-> v, text |-> << >>, err |-> "nil"]
    <3> HIDE DEF v
    <3> QED
      BY <2>4
  <2>3. << >> \in Seq(Addrs) /\ v \in 0 .. v
    BY <1>6
  <2> QED
    BY <1>1, <2>2, <2>3 DEF Getters
<1> HIDE DEF g, w, v
<1>8. /\ WellFormed(h, v) /\ Len(h) = v /\ SameStructs(w, h)
      /\ \A p \in 1 .. v : \A i \in DOMAIN w[p].fields :
           h[p].fields[i] = IF p = o /\ i = k THEN g ELSE w[p].fields[i]
  BY <1>3, <1>6, <1>7, FieldAssigned, AssignedSlots
<1>9. k \in DOMAIN h[o].fields /\ h[o].fields[k] = g
  BY <1>2, <1>3, <1>5, <1>6, <1>8 DEF SameStructs, Slots
<1>10. /\ WellFormed(e, v) /\ Len(e) = v /\ SameStructs(h, e)
       /\ \A p \in 1 .. v : \A i \in DOMAIN h[p].fields :
            e[p].fields[i] = IF p = o /\ i = k THEN [g EXCEPT !.err = "read"] ELSE h[p].fields[i]
  <2>1. [g EXCEPT !.err = "read"] \in Getters(v)
    BY <1>7 DEF Getters
  <2>2. e = Assigned(h, o, k, [g EXCEPT !.err = "read"])
    BY <1>9
  <2> HIDE DEF e, h
  <2>3. WellFormed(e, v) /\ Len(e) = v
    BY <1>6, <1>8, <2>1, <2>2, FieldAssigned
  <2>4. /\ SameStructs(h, e)
        /\ \A p \in 1 .. v : \A i \in DOMAIN h[p].fields :
            e[p].fields[i] = IF p = o /\ i = k THEN [g EXCEPT !.err = "read"] ELSE h[p].fields[i]
    BY <1>6, <1>8, <2>1, <2>2, AssignedSlots
  <2> QED
    BY <2>3, <2>4
<1>11. /\ IF mem[word] = Unreadable
          THEN /\ heap' = ReadInto(e, v, word)
               /\ stack' = [stack EXCEPT ![Len(stack)].at = @ + 1]
          ELSE heap' = ReadInto(h, v, word) /\ stack' = Append(stack, NewFrame(v, word))
       /\ visited' = Registered(v)
  <2> DEFINE h0 == Assigned(WithVal, o, k, [Addressed EXCEPT !.val = Val])
             e0 == Assigned(h0, o, k, [h0[o].fields[k] EXCEPT !.err = "read"])
  <2>1. /\ IF mem[word] = Unreadable
           THEN /\ heap' = ReadInto(e0, Val, word)
                /\ stack' = [stack EXCEPT ![Len(stack)].at = @ + 1]
           ELSE heap' = ReadInto(h0, Val, word) /\ stack' = Append(stack, NewFrame(Val, word))
        /\ visited' = Registered(Val)
    BY DEF Chase, Assigned, ReadInto
  <2>2. [Addressed EXCEPT !.val = Val] = g
    BY <1>4 DEF g
  <2>3. h0 = h
    BY <1>4, <2>2
  <2>4. e0 = e
    <3> HIDE DEF h0, h
    <3> QED
      BY <2>3
  <2> HIDE DEF h0, h, e0, e
  <2> QED
    BY <1>4, <2>1, <2>3, <2>4
<1>12. PICK x : /\ x \in {e, h} /\ heap' = ReadInto(x, v, word) /\ WellFormed(x, v) /\ Len(x) = v
                /\ SameStructs(w, x)
                /\ \A p \in 1 .. v : \A i \in DOMAIN w[p].fields :
                     ~(p = o /\ i = k) => x[p].fields[i] = w[p].fields[i]
                /\ x[o].fields[k].val = v /\ x[o].fields[k].addr = word
                /\ mem[word] = Unreadable => x[o].fields[k].err = "read"
  <2>1. CASE mem[word] = Unreadable
    <3>1. /\ SameStructs(w, e)
          /\ \A p \in 1 .. v : \A i \in DOMAIN w[p].fields :
               ~(p = o /\ i = k) => e[p].fields[i] = w[p].fields[i]
      <4> HIDE DEF e, h
      <4> QED
        BY <1>3, <1>8, <1>10 DEF SameStructs
    <3>2. e[o].fields[k] = [g EXCEPT !.err = "read"]
      BY <1>6, <1>9, <1>10
    <3>3. e[o].fields[k].val = v /\ e[o].fields[k].addr = word /\ e[o].fields[k].err = "read"
      BY <1>7, <3>2 DEF Getters
    <3> HIDE DEF e, h
    <3> QED
      BY <1>10, <1>11, <2>1, <3>1, <3>3
  <2>2. CASE mem[word] # Unreadable
    BY <1>7, <1>8, <1>9, <1>11, <2>2
  <2> QED
    BY <2>1, <2>2
<1> HIDE DEF h, e
<1>13. /\ Len(heap') = v
       /\ \A p \in 1 .. v :
            /\ heap'[p].type = w[p].type /\ heap'[p].under = w[p].under
            /\ heap'[p].fields = x[p].fields /\ DOMAIN x[p].fields = DOMAIN w[p].fields
            /\ heap'[p].from = IF p = v THEN word ELSE w[p].from
            /\ heap'[p].loaded = IF p = v THEN mem[word] # Unreadable ELSE w[p].loaded
  <2>1. Len(heap') = v
    <3>1. WellFormed(x, v) /\ Len(x) = v /\ v \in 1 .. Len(x) /\ v \in Nat
      BY <1>6, <1>12
    <3>2. Len(ReadInto(x, v, word)) = Len(x)
      BY <1>1, <3>1, ReadAssigned
    <3> QED
      BY <1>12, <3>2
  <2>2. \A p \in 1 .. v :
            /\ heap'[p].type = x[p].type /\ heap'[p].under = x[p].under
            /\ heap'[p].fields = x[p].fields
            /\ heap'[p].from = IF p = v THEN word ELSE x[p].from
            /\ heap'[p].loaded = IF p = v THEN mem[word] # Unreadable ELSE x[p].loaded
    BY <1>6, <1>12, ReadSlots
  <2> QED
    BY <1>3, <1>12, <2>1, <2>2 DEF SameStructs
<1>14. \A p \in Objects :
         /\ heap'[p].type = heap[p].type /\ heap'[p].under = heap[p].under
         /\ heap'[p].from = heap[p].from /\ heap'[p].loaded = heap[p].loaded
         /\ DOMAIN heap'[p].fields = Slots(p)
         /\ \A i \in Slots(p) : ~(p = o /\ i = k) => heap'[p].fields[i] = Getter(p, i)
  BY <1>5, <1>6, <1>12, <1>13 DEF Slots, Getter
<1>15. /\ heap'[v].type = t /\ heap'[v].under = stack[1].at
       /\ heap'[v].from = word /\ heap'[v].loaded = (mem[word] # Unreadable)
       /\ \A i \in DOMAIN heap'[v].fields : heap'[v].fields[i] = NewGetter
       /\ DOMAIN heap'[v].fields \subseteq Nat \ {0}
  <2>1. /\ w[v].type = t /\ w[v].under = stack[1].at
        /\ DOMAIN w[v].fields = 1 .. Len(Layout[t])
        /\ \A i \in DOMAIN w[v].fields : w[v].fields[i] = NewGetter
    <3> DEFINE u == stack[1].at
               new == NewObject(t, u)
    <3>1. /\ new.type = t /\ new.under = u
          /\ DOMAIN new.fields = 1 .. Len(Layout[t])
          /\ \A i \in 1 .. Len(Layout[t]) : new.fields[i] = NewGetter
      <4>1. t \in Types
        BY <1>1
      <4> HIDE DEF t, u
      <4>2. \A i \in 1 .. Len(Layout[t]) : new.fields[i] = NewGetter
        BY <4>1 DEF NewObject
      <4> QED
        BY <4>1, <4>2, NewSlots
    <3>2. w[v] = new
      BY <1>5
    <3> HIDE DEF new, u
    <3>3. /\ w[v].type = t /\ w[v].under = u
          /\ DOMAIN w[v].fields = 1 .. Len(Layout[t])
          /\ \A i \in DOMAIN w[v].fields : w[v].fields[i] = NewGetter
      BY <3>1, <3>2
    <3> QED
      BY <3>3 DEF u
  <2>2. v # o
    BY <1>2, <1>6
  <2>3. DOMAIN w[v].fields \subseteq Nat \ {0}
    BY <1>1, <2>1, TypesAssumption
  <2>4. \A i \in DOMAIN w[v].fields : x[v].fields[i] = w[v].fields[i]
    BY <1>6, <1>12, <2>2
  <2> QED
    BY <1>6, <1>13, <2>1, <2>3, <2>4
<1>16. /\ heap'[o].fields[k].val = v /\ heap'[o].fields[k].addr = word
       /\ mem[word] = Unreadable => heap'[o].fields[k].err = "read"
  BY <1>6, <1>12, <1>13
<1> QED
  BY <1>1, <1>11, <1>13, <1>14, <1>15, <1>16 DEF v

\* The stack after a chase: one deeper, or at the next field when the read failed.
LEMMA ChaseFrames ==
  ASSUME IInv, Graph, Chase
  PROVE  LET n == Len(stack)
             v == Len(heap) + 1
         IN  /\ n \in Nat \ {0} /\ Busy' /\ stack[1].at \in Nat
             /\ Len(stack') = IF mem[word] = Unreadable THEN n ELSE n + 1
             /\ stack'[1].at = IF Len(stack') = 1 THEN stack[1].at + 1 ELSE stack[1].at
             /\ \A j \in 1 .. n :
                  /\ stack[j].obj \in Objects
                  /\ stack'[j].obj = stack[j].obj /\ stack'[j].addr = stack[j].addr
                  /\ stack'[j].words = stack[j].words
                  /\ j # n \/ mem[word] # Unreadable => stack'[j].at = stack[j].at
             /\ mem[word] # Unreadable =>
                  /\ stack'[n + 1].obj = v /\ stack'[n + 1].addr = word
                  /\ stack'[n + 1].words = mem[word]
                  /\ \A p : \A i \in Nat \ {0} : p = v => Pending(p, i)'
             /\ \A p \in Objects : \A i \in Nat :
                  /\ Pending(p, i)' => Pending(p, i) /\ ~(p = frame.obj /\ i = frame.at)
                  /\ Pending(p, i) => Pending(p, i)' \/ (p = frame.obj /\ i = frame.at)
<1> DEFINE n == Len(stack)
           v == Len(heap) + 1
           f == NewFrame(v, word)
<1>1. /\ AtField /\ Busy /\ TypeOK /\ Chain /\ n \in Nat \ {0}
      /\ stack \in Seq(Frames(Len(heap))) /\ Len(heap) \in Nat
  <2>1. AtField /\ Busy /\ TypeOK /\ Chain
    BY DEF Chase, AtPointer, AtField, IInv, Graph
  <2> QED
    BY <2>1, FrameType DEF TypeOK
<1>2. n \in 1 .. n /\ 1 \in 1 .. n /\ \A j \in 1 .. n : stack[j] \in Frames(Len(heap))
  BY <1>1
<1>3. \A j \in 1 .. n : stack[j].obj \in Objects /\ stack[j].at \in Nat /\ stack[j].obj # v
  BY <1>1, <1>2 DEF Frames, Objects
<1>4. stack[1].at \in Nat
  BY <1>2, <1>3
<1>5. IF mem[word] = Unreadable
      THEN stack' = [stack EXCEPT ![Len(stack)].at = @ + 1]
      ELSE stack' = Append(stack, f)
  BY ChaseHeap
<1>6. CASE mem[word] = Unreadable
  <2>1. stack' = [stack EXCEPT ![Len(stack)].at = @ + 1]
    BY <1>5, <1>6
  <2>2. /\ Len(stack') = n /\ Busy'
        /\ stack'[1].at = IF n = 1 THEN stack[1].at + 1 ELSE stack[1].at
        /\ \A j \in 1 .. n :
              /\ stack'[j].obj = stack[j].obj /\ stack'[j].addr = stack[j].addr
              /\ stack'[j].words = stack[j].words
              /\ stack'[j].at = IF j = n THEN frame.at + 1 ELSE stack[j].at
        /\ \A p : \A i \in Nat : Pending(p, i)' => Pending(p, i) /\ ~(p = frame.obj /\ i = frame.at)
        /\ \A p : \A i \in Nat : Pending(p, i) => Pending(p, i)' \/ (p = frame.obj /\ i = frame.at)
    BY <1>1, <2>1, NextSlot
  <2> QED
    BY <1>1, <1>3, <1>4, <1>6, <2>2
<1>7. CASE mem[word] # Unreadable
  <2>1. stack' = Append(stack, f) /\ f.obj = v /\ f.addr = word /\ f.words = mem[word] /\ f.at = 1
    BY <1>5, <1>7 DEF NewFrame
  <2> HIDE DEF f, v
  <2>2. /\ Len(stack') = n + 1 /\ stack'[n + 1] = f
        /\ \A j \in 1 .. n : stack'[j] = stack[j]
    BY <1>1, <2>1
  <2>3. n + 1 # 1 /\ n + 1 \in 1 .. n + 1 /\ \A j \in 1 .. n : j \in 1 .. n + 1 /\ j # n + 1
    BY <1>1
  <2>4. Busy'
    BY <2>2, <2>3 DEF Busy
  <2>5. stack'[1].at = stack[1].at
    BY <1>2, <2>2
  <2>6. ASSUME NEW p, NEW i \in Nat \ {0}, p = v PROVE Pending(p, i)'
    <3>1. i > 1 \/ i = 1
      OBVIOUS
    <3> QED
      BY <2>1, <2>2, <2>3, <2>6, <3>1 DEF Pending
  <2>7. ASSUME NEW p \in Objects, NEW i \in Nat, Pending(p, i)'
        PROVE  Pending(p, i) /\ ~(p = frame.obj /\ i = frame.at)
    <3>1. PICK j \in 1 .. n + 1 :
            stack'[j].obj = p /\ (i > stack'[j].at \/ (i = stack'[j].at /\ j = n + 1))
      BY <2>2, <2>7 DEF Pending
    <3>2. j # n + 1
      BY <1>1, <2>1, <2>2, <3>1 DEF Objects, v
    <3>3. j \in 1 .. n /\ stack[j].obj = p /\ i > stack[j].at
      BY <1>1, <2>2, <3>1, <3>2
    <3>4. p = frame.obj => i # frame.at
      <4> SUFFICES ASSUME p = frame.obj PROVE i # frame.at
        OBVIOUS
      <4>1. j = n
        BY <1>1, <1>2, <3>3 DEF Chain, frame
      <4> QED
        BY <1>3, <3>3, <4>1 DEF frame
    <3> QED
      BY <3>3, <3>4 DEF Pending
  <2>8. ASSUME NEW p \in Objects, NEW i \in Nat, Pending(p, i)
        PROVE  Pending(p, i)' \/ (p = frame.obj /\ i = frame.at)
    <3>1. PICK j \in 1 .. n : stack[j].obj = p /\ (i > stack[j].at \/ (i = stack[j].at /\ j = n))
      BY <2>8 DEF Pending
    <3>2. CASE i > stack[j].at
      BY <2>2, <2>3, <3>1, <3>2 DEF Pending
    <3>3. CASE i = stack[j].at /\ j = n
      BY <3>1, <3>3 DEF frame
    <3> QED
      BY <3>1, <3>2, <3>3
  <2> QED
    BY <1>1, <1>3, <1>4, <1>7, <2>1, <2>2, <2>3, <2>4, <2>5, <2>6, <2>7, <2>8 DEF v
<1> QED
  BY <1>6, <1>7

\* A chase keeps the graph a copy of the memory.
LEMMA ChaseGraph ==
  ASSUME IInv, Graph, Chase
  PROVE  Graph'
<1> DEFINE n == Len(stack)
<1>1. PICK o \in Objects, k \in Nat, v \in Nat, u \in Nat, a \in Addrs, t \in Types :
        /\ o = frame.obj /\ k = frame.at /\ v = Len(heap) + 1 /\ u = stack[1].at
        /\ a = word /\ t = layout[frame.at]
  <2>1. AtField /\ TypeOK /\ word # Null /\ layout[frame.at] # Text
    BY DEF Chase, AtPointer, IInv
  <2>2. word \in Addrs /\ layout[frame.at] \in Types
    BY <2>1, FieldType
  <2>3. frame.obj \in Objects /\ stack[1].at \in Nat
    BY <2>1, CurrentSlot
  <2>4. Len(heap) + 1 \in Nat /\ frame.at \in Nat
    BY <2>1, FrameType, FieldType DEF AtField
  <2> QED
    BY <2>2, <2>3, <2>4
<1>2. /\ TypeOK /\ AtField /\ Busy /\ k \in Slots(o) /\ Top(o, k) = u
      /\ Getter(o, k) = NewGetter /\ t = Layout[heap[o].type][k] /\ a \notin DOMAIN Visited
      /\ Made \subseteq Objects /\ v \notin Objects /\ 1 \in Objects /\ v # 1 /\ v # NoObject
  <2>1. TypeOK /\ AtField /\ Busy /\ word \notin DOMAIN Visited
    BY DEF Chase, AtPointer, AtField, IInv
  <2>2. /\ Top(o, k) = u /\ k \in Slots(o) /\ layout = Layout[heap[o].type]
        /\ Getter(o, k) = NewGetter
    BY <1>1, <2>1, CurrentSlot
  <2>3. Len(heap) \in Nat \ {0}
    BY <2>1, FrameType
  <2>4. Made \subseteq Objects /\ v \notin Objects /\ 1 \in Objects /\ v # 1 /\ v # NoObject
    BY <1>1, <2>3 DEF Made, Objects, NoObject
  <2> QED
    BY <1>1, <2>1, <2>2, <2>4
<1>3. /\ Len(heap') = v
      /\ \A p \in Objects :
           /\ heap'[p].type = heap[p].type /\ heap'[p].under = heap[p].under
           /\ heap'[p].from = heap[p].from /\ heap'[p].loaded = heap[p].loaded
           /\ DOMAIN heap'[p].fields = Slots(p)
           /\ \A i \in Slots(p) : ~(p = o /\ i = k) => heap'[p].fields[i] = Getter(p, i)
      /\ heap'[o].fields[k].val = v /\ heap'[o].fields[k].addr = a
      /\ heap'[v].type = t /\ heap'[v].under = u
      /\ heap'[v].from = a /\ heap'[v].loaded = (mem[a] # Unreadable)
      /\ \A i \in DOMAIN heap'[v].fields : heap'[v].fields[i] = NewGetter
      /\ DOMAIN heap'[v].fields \subseteq Nat \ {0}
      /\ visited' = Registered(v)
  BY <1>1, ChaseHeap
<1>4. /\ Objects' = Objects \cup {v} /\ Made' = Made \cup {v}
      /\ \A p \in Objects :
           /\ Slots(p)' = Slots(p) /\ (\A i : Top(p, i)' = Top(p, i))
           /\ \A i \in Slots(p) : ~(p = o /\ i = k) => Getter(p, i)' = Getter(p, i)
      /\ Getter(o, k)'.val = v /\ Getter(o, k)'.addr = a
      /\ Slots(v)' \subseteq Nat \ {0} /\ (\A i : Top(v, i)' = u)
      /\ \A i \in Slots(v)' : Getter(v, i)' = NewGetter
  <2>1. Objects' = Objects \cup {v} /\ Made' = Made \cup {v}
    <3>1. v - 1 = Len(heap) /\ Len(heap) \in Nat \ {0}
      BY <1>1, <1>2, FrameType
    <3> QED
      BY <1>3, <3>1 DEF Objects, Made
  <2> QED
    BY <1>2, <1>3, <2>1 DEF Slots, Top, Getter
<1>5. /\ n \in Nat \ {0} /\ Busy'
      /\ Len(stack') = IF mem[a] = Unreadable THEN n ELSE n + 1
      /\ stack'[1].at = IF Len(stack') = 1 THEN u + 1 ELSE u
      /\ \A j \in 1 .. n :
           /\ stack[j].obj \in Objects
           /\ stack'[j].obj = stack[j].obj /\ stack'[j].addr = stack[j].addr
           /\ stack'[j].words = stack[j].words
           /\ j # n \/ mem[a] # Unreadable => stack'[j].at = stack[j].at
      /\ mem[a] # Unreadable =>
           /\ stack'[n + 1].obj = v /\ stack'[n + 1].addr = a
           /\ stack'[n + 1].words = mem[a]
           /\ \A i \in Nat \ {0} : Pending(v, i)'
      /\ \A p \in Objects : \A i \in Nat :
           /\ Pending(p, i)' => Pending(p, i) /\ ~(p = o /\ i = k)
           /\ Pending(p, i) => Pending(p, i)' \/ (p = o /\ i = k)
  BY <1>1, ChaseFrames
<1>6. \A p \in Objects : Slots(p) \subseteq Nat
  <2>1. ASSUME NEW p \in Objects PROVE Slots(p) \subseteq Nat
    BY <1>2, SlotType
  <2> QED
    BY <2>1
<1>7. /\ \A p \in Made : heap[p].under <= u /\ heap[p].under \in Nat
      /\ \A p \in Made : heap[p].under = u => heap[p].from \in DOMAIN Visited /\ Visited[heap[p].from] = p
      /\ \A b \in DOMAIN Visited : /\ Visited[b] \in Made /\ heap[Visited[b]].from = b
                                   /\ heap[Visited[b]].under = u
  <2>1. \A p \in Made : heap[p].under <= u /\ heap[p].under \in Nat
    BY <1>1, <1>2, SlotType DEF Graph, Context
  <2>2. CASE n = 1
    BY <1>1, <1>2, <2>1, <2>2 DEF Graph, Context, Visited
  <2>3. CASE n # 1
    BY <1>1, <1>2, <2>1, <2>3 DEF Graph, Context, Visited
  <2> QED
    BY <2>2, <2>3
<1>8. /\ DOMAIN visited' = DOMAIN Visited \cup {a} /\ visited'[a] = v
      /\ \A b \in DOMAIN Visited : visited'[b] = Visited[b]
  BY <1>1, <1>2, <1>3 DEF Registered
<1>9. Distinct'
  <2>1. \A p \in Made : heap[p].under = u => heap[p].from # a
    BY <1>2, <1>7
  <2> QED
    BY <1>2, <1>3, <1>4, <2>1 DEF Graph, Distinct
<1>10. Context'
  <2>1. \A p \in Made' : heap'[p].under <= u /\ heap'[p].under \in Nat
    BY <1>2, <1>3, <1>4, <1>7
  <2>2. \A p \in Made' : heap'[p].under = u => heap'[p].from \in DOMAIN visited' /\ visited'[heap'[p].from] = p
    BY <1>2, <1>3, <1>4, <1>7, <1>8
  <2>3. \A b \in DOMAIN visited' : /\ visited'[b] \in Made' /\ heap'[visited'[b]].from = b
                                   /\ heap'[visited'[b]].under = u
    BY <1>2, <1>3, <1>4, <1>7, <1>8
  <2>4. CASE Len(stack') = 1
    <3>1. \A p \in Made' : heap'[p].under <= stack'[1].at /\ heap'[p].under # stack'[1].at
      BY <1>5, <2>1, <2>4
    <3> QED
      BY <2>4, <3>1 DEF Context
  <2>5. CASE Len(stack') # 1
    BY <1>5, <2>1, <2>2, <2>3, <2>5 DEF Context
  <2> QED
    BY <2>4, <2>5
<1>11. Edges'
  <2> SUFFICES ASSUME NEW p \in Objects', NEW i \in Slots(p)', Getter(p, i)'.val # NoObject
               PROVE  LET g == Getter(p, i)'
                      IN  /\ g.val \in Made' /\ heap'[g.val].under = Top(p, i)'
                          /\ heap'[g.val].from = g.addr
                          /\ heap'[g.val].type = Layout[heap'[p].type][i]
    BY DEF Edges
  <2>1. CASE p = v
    BY <1>4, <2>1 DEF NewGetter
  <2>2. CASE p = o /\ i = k
    BY <1>2, <1>3, <1>4, <2>2
  <2>3. CASE p # v /\ ~(p = o /\ i = k)
    <3>1. p \in Objects /\ i \in Slots(p) /\ Getter(p, i)' = Getter(p, i)
      BY <1>4, <2>3
    <3>2. LET g == Getter(p, i)
          IN  /\ g.val \in Made /\ heap[g.val].under = Top(p, i)
              /\ heap[g.val].from = g.addr
              /\ heap[g.val].type = Layout[heap[p].type][i]
      BY <3>1 DEF Graph, Edges
    <3> QED
      BY <1>2, <1>3, <1>4, <3>1, <3>2
  <2> QED
    BY <2>1, <2>2, <2>3
<1>12. Parents'
  <2> SUFFICES ASSUME NEW p \in Made'
               PROVE  \E q \in 1 .. p - 1 : \E i \in Slots(q)' :
                        Getter(q, i)'.val = p /\ Top(q, i)' = heap'[p].under
    BY DEF Parents
  <2>1. CASE p = v
    <3>1. o \in 1 .. v - 1
      BY <1>1, <1>2, FrameType DEF Objects
    <3> QED
      BY <1>2, <1>3, <1>4, <2>1, <3>1
  <2>2. CASE p # v
    <3>0. p \in Made
      BY <1>4, <2>2
    <3>1. PICK q \in 1 .. p - 1 : \E i \in Slots(q) : Getter(q, i).val = p /\ Top(q, i) = heap[p].under
      BY <3>0 DEF Graph, Parents
    <3>2. PICK i \in Slots(q) : Getter(q, i).val = p /\ Top(q, i) = heap[p].under
      BY <3>1
    <3>3. q \in Objects /\ p # NoObject
      BY <1>2, <3>0, FrameType DEF Made, Objects, NoObject
    <3>4. ~(q = o /\ i = k)
      BY <1>2, <3>2, <3>3 DEF NewGetter
    <3>5. Getter(q, i)' = Getter(q, i) /\ Top(q, i)' = Top(q, i) /\ Slots(q)' = Slots(q)
      BY <1>4, <3>3, <3>4
    <3>6. heap'[p].under = heap[p].under
      BY <1>2, <1>3, <3>0
    <3>7. i \in Slots(q)' /\ Getter(q, i)'.val = p /\ Top(q, i)' = heap'[p].under
      BY <3>2, <3>5, <3>6
    <3> QED
      BY <3>7
  <2> QED
    BY <2>1, <2>2
<1>13. Untouched'
  BY <1>4, <1>5, <1>6 DEF Graph, Untouched
<1>14. Skips'
  <2> SUFFICES ASSUME NEW p \in Objects', NEW i \in Slots(p)',
                      heap'[p].loaded, ~Pending(p, i)', Layout[heap'[p].type][i] # Text,
                      Getter(p, i)'.val = NoObject, Getter(p, i)'.err = "nil"
               PROVE  \E q \in Made' : /\ heap'[q].under = Top(p, i)'
                                       /\ heap'[q].from = Getter(p, i)'.addr
                                       /\ heap'[q].type # Layout[heap'[p].type][i]
    BY DEF Skips
  <2>1. p # v
    BY <1>3, <1>4, <1>5
  <2>2. ~(p = o /\ i = k)
    BY <1>2, <1>4 DEF NoObject
  <2>3. p \in Objects /\ i \in Slots(p) /\ i \in Nat /\ ~Pending(p, i) /\ Getter(p, i)' = Getter(p, i)
    BY <1>4, <1>5, <1>6, <2>1, <2>2
  <2>4. PICK q \in Made : /\ heap[q].under = Top(p, i) /\ heap[q].from = Getter(p, i).addr
                          /\ heap[q].type # Layout[heap[p].type][i]
    BY <1>3, <2>3 DEF Graph, Skips
  <2> QED
    BY <1>2, <1>3, <1>4, <2>3, <2>4
<1>15. Words'
  <2> SUFFICES ASSUME writes = 0 PROVE Words'
    BY DEF Words, Chase, target
  <2>1. mem' = mem
    BY DEF Chase, target
  <2>2. ASSUME NEW j \in 1 .. Len(stack') PROVE stack'[j].words = mem[stack'[j].addr]
    <3>1. CASE j \in 1 .. n
      BY <1>2, <1>5, <3>1 DEF Graph, Words
    <3>2. CASE j \notin 1 .. n
      <4>1. mem[a] # Unreadable /\ j = n + 1
        BY <1>5, <3>2
      <4> QED
        BY <1>5, <4>1
    <3> QED
      BY <3>1, <3>2
  <2>3. \A p \in Made' : heap'[p].loaded = (mem[heap'[p].from] # Unreadable)
    BY <1>2, <1>3, <1>4 DEF Graph, Words
  <2>4. ASSUME NEW p \in Objects', NEW i \in Slots(p)', heap'[p].loaded, ~Pending(p, i)'
        PROVE  Getter(p, i)'.addr = mem[heap'[p].from][i]
    <3>1. p # v
      BY <1>3, <1>4, <1>5, <2>4
    <3>2. CASE p = o /\ i = k
      <4>1. frame.words = mem[frame.addr] /\ heap[o].from = frame.addr
        <5>1. n \in 1 .. n
          BY <1>5
        <5> QED
          BY <1>1, <1>2, <5>1 DEF Graph, Words, Chain, frame
      <4>2. a = mem[heap[o].from][k]
        BY <1>1, <4>1 DEF word
      <4> QED
        BY <1>3, <1>4, <3>2, <4>2
    <3>3. CASE ~(p = o /\ i = k)
      <4>1. p \in Objects /\ i \in Slots(p) /\ i \in Nat /\ ~Pending(p, i) /\ Getter(p, i)' = Getter(p, i)
        BY <1>4, <1>5, <1>6, <2>4, <3>1, <3>3
      <4>2. heap[p].loaded /\ heap'[p].from = heap[p].from
        BY <1>3, <2>4, <4>1
      <4> QED
        BY <4>1, <4>2 DEF Graph, Words
    <3> QED
      BY <3>2, <3>3
  <2> QED
    BY <2>1, <2>2, <2>3, <2>4 DEF Words
<1>16. Chain'
  <2>1. \A j \in 1 .. n :
          /\ heap[stack[j].obj].from = stack[j].addr /\ heap[stack[j].obj].loaded
          /\ stack[j].obj # v
    BY <1>2, <1>5 DEF Graph, Chain
  <2>2. ASSUME NEW j \in 1 .. Len(stack')
        PROVE  heap'[stack'[j].obj].from = stack'[j].addr /\ heap'[stack'[j].obj].loaded
    <3>1. CASE j \in 1 .. n
      BY <1>3, <1>5, <2>1, <3>1
    <3>2. CASE j \notin 1 .. n
      <4>1. mem[a] # Unreadable /\ j = n + 1
        BY <1>5, <3>2
      <4> QED
        BY <1>3, <1>5, <4>1
    <3> QED
      BY <3>1, <3>2
  <2>3. stack'[1].obj = 1
    <3>1. 1 \in 1 .. n
      BY <1>5
    <3> QED
      BY <1>2, <1>5, <3>1 DEF Graph, Chain
  <2>4. ASSUME NEW j \in 2 .. Len(stack')
        PROVE  stack'[j].obj \in Made' /\ heap'[stack'[j].obj].under = stack'[1].at
    <3>1. stack'[1].at = u
      BY <1>5
    <3>2. CASE j \in 1 .. n
      <4>1. j \in 2 .. n
        BY <3>2
      <4>2. stack[j].obj \in Made /\ heap[stack[j].obj].under = u
        BY <1>1, <1>2, <4>1 DEF Graph, Chain
      <4> QED
        BY <1>3, <1>4, <1>5, <3>1, <3>2, <4>2
    <3>3. CASE j \notin 1 .. n
      <4>1. mem[a] # Unreadable /\ j = n + 1
        BY <1>5, <3>3
      <4> QED
        BY <1>3, <1>4, <1>5, <3>1, <4>1
    <3> QED
      BY <3>2, <3>3
  <2>5. ASSUME NEW j \in 1 .. Len(stack') - 1
        PROVE  /\ stack'[j].at \in DOMAIN heap'[stack'[j].obj].fields
               /\ heap'[stack'[j].obj].fields[stack'[j].at].val # NoObject
    <3>1. CASE j \in 1 .. n - 1
      <4>1. /\ stack[j].at \in Slots(stack[j].obj) /\ stack[j].obj # o
            /\ Getter(stack[j].obj, stack[j].at).val # NoObject
        <5>1. j \in 1 .. n /\ n \in 1 .. n /\ j # n
          BY <1>5, <3>1
        <5> QED
          BY <1>1, <1>2, <3>1, <5>1 DEF Graph, Chain, frame
      <4>2. stack'[j].at = stack[j].at /\ stack'[j].obj = stack[j].obj /\ stack[j].obj \in Objects
        BY <1>5, <3>1
      <4> QED
        BY <1>3, <4>1, <4>2
    <3>2. CASE j \notin 1 .. n - 1
      <4>1. mem[a] # Unreadable /\ j = n /\ n \in 1 .. n
        BY <1>5, <3>2
      <4>2. stack'[n].obj = o /\ stack'[n].at = k
        BY <1>1, <1>5, <4>1 DEF frame
      <4> QED
        BY <1>2, <1>3, <4>1, <4>2 DEF NoObject
    <3> QED
      BY <3>1, <3>2
  <2>6. ASSUME NEW i \in 1 .. Len(stack'), NEW j \in 1 .. Len(stack'), stack'[i].obj = stack'[j].obj
        PROVE  i = j
    <3>1. /\ i \in 1 .. n \/ (i = n + 1 /\ stack'[i].obj = v)
          /\ j \in 1 .. n \/ (j = n + 1 /\ stack'[j].obj = v)
      BY <1>5
    <3>2. \A m \in 1 .. n : stack'[m].obj = stack[m].obj /\ stack[m].obj # v
      BY <1>5, <2>1
    <3>3. \A l, m \in 1 .. n : stack[l].obj = stack[m].obj => l = m
      BY <1>2 DEF Graph, Chain
    <3> QED
      BY <2>6, <3>1, <3>2, <3>3
  <2> QED
    BY <1>5, <2>2, <2>3, <2>4, <2>5, <2>6 DEF Chain, Slots, Getter
<1> QED
  BY <1>9, <1>10, <1>11, <1>12, <1>13, <1>14, <1>15, <1>16 DEF Graph

\* The first Unmarshal starts with an empty graph.
LEMMA FirstCall ==
  ASSUME IInv, Calm, NEW a \in Addrs, Unmarshal(a), calls = << >>, mem[a] # Unreadable
  PROVE  Graph'
<1> DEFINE root == NewObject(RootType, 0)
           f == NewFrame(1, a)
<1>1. heap = <<root>> /\ RootType \in Types /\ TypeOK
  BY TypesAssumption DEF Calm, IInv
<1>2. root.type = RootType /\ DOMAIN root.fields = 1 .. Len(Layout[RootType])
  BY <1>1, NewSlots
<1>3. \A i \in 1 .. Len(Layout[RootType]) : root.fields[i] = NewGetter
  BY DEF NewObject
<1>4. Len(Layout[RootType]) \in Nat
  BY <1>1, TypesAssumption
<1>5. stack' = <<f>> /\ f.obj = 1 /\ f.addr = a /\ f.words = mem[a] /\ f.at = 1
  BY DEF Unmarshal, NewFrame
<1> HIDE DEF root, f
<1>6. Len(heap) = 1 /\ heap[1] = root
  BY <1>1
<1>7. WellFormed(heap, 1) /\ 1 \in 1 .. Len(heap)
  BY <1>1, <1>6 DEF TypeOK, WellFormed, Objects
<1>8. heap' = ReadInto(heap, 1, a)
  BY DEF Unmarshal, ReadInto
<1>9. /\ Len(heap') = 1 /\ heap'[1].type = RootType /\ heap'[1].from = a
      /\ heap'[1].loaded /\ heap'[1].fields = root.fields
  <2>1. Len(ReadInto(heap, 1, a)) = 1
    BY <1>6, <1>7, ReadAssigned
  <2>2. /\ ReadInto(heap, 1, a)[1].type = RootType /\ ReadInto(heap, 1, a)[1].from = a
        /\ ReadInto(heap, 1, a)[1].loaded = (mem[a] # Unreadable)
        /\ ReadInto(heap, 1, a)[1].fields = root.fields
    <3>1. \A p \in 1 .. Len(heap) :
             /\ ReadInto(heap, 1, a)[p].type = heap[p].type
             /\ ReadInto(heap, 1, a)[p].fields = heap[p].fields
             /\ ReadInto(heap, 1, a)[p].from = IF p = 1 THEN a ELSE heap[p].from
             /\ ReadInto(heap, 1, a)[p].loaded = IF p = 1 THEN mem[a] # Unreadable ELSE heap[p].loaded
      BY <1>7, ReadSlots
    <3> QED
      BY <1>2, <1>6, <1>7, <3>1
  <2> QED
    BY <1>8, <2>1, <2>2
<1>10. /\ Objects' = {1} /\ Made' = {} /\ Slots(1)' = 1 .. Len(Layout[RootType])
       /\ \A i \in Slots(1)' : Getter(1, i)' = NewGetter /\ i \in Nat \ {0}
  BY <1>2, <1>3, <1>4, <1>9 DEF Objects, Made, Slots, Getter
<1>11. Len(stack') = 1 /\ stack'[1] = f
  BY <1>5
<1>12. \A i \in Slots(1)' : Pending(1, i)'
  <2> SUFFICES ASSUME NEW i \in Slots(1)' PROVE Pending(1, i)'
    OBVIOUS
  <2>1. i > 1 \/ i = 1
    BY <1>10
  <2> QED
    BY <1>5, <1>11, <2>1 DEF Pending
<1>13. Chain'
  <2>1. 1 .. 1 = {1} /\ 2 .. 1 = {} /\ 1 .. 1 - 1 = {}
    OBVIOUS
  <2> QED
    BY <1>5, <1>9, <1>11, <2>1 DEF Chain
<1>14. Distinct' /\ Parents'
  BY <1>10 DEF Distinct, Parents
<1>15. Context'
  BY <1>10, <1>11 DEF Context
<1>16. Edges' /\ Untouched'
  BY <1>10 DEF Edges, Untouched, NewGetter
<1>17. Skips'
  BY <1>10, <1>12 DEF Skips
<1>18. Words'
  <2>1. \A j \in 1 .. Len(stack') : stack'[j].words = mem'[stack'[j].addr]
    BY <1>5, <1>11 DEF Unmarshal, target
  <2> QED
    BY <1>10, <1>12, <2>1 DEF Words
<1> QED
  BY <1>13, <1>14, <1>15, <1>16, <1>17, <1>18 DEF Graph

\* A write takes nothing from the graph but that it is the memory.
LEMMA WriteGraph ==
  ASSUME TypeOK, Graph, NEW a \in Addrs, NEW c \in Contents, Write(a, c)
  PROVE  Graph'
<1>1. UNCHANGED <<heap, stack, visited>> /\ writes' # 0
  BY DEF Write, TypeOK
<1>2. Objects' = Objects /\ Made' = Made
      /\ \A p, i : /\ Slots(p)' = Slots(p) /\ Top(p, i)' = Top(p, i)
                   /\ Getter(p, i)' = Getter(p, i) /\ Pending(p, i)' = Pending(p, i)
  BY <1>1 DEF Objects, Made, Slots, Top, Getter, Pending
<1>3. Chain' /\ Context'
  BY <1>1, <1>2 DEF Graph, Chain, Context, Busy
<1>4. Distinct' /\ Edges' /\ Parents'
  BY <1>1, <1>2 DEF Graph, Distinct, Edges, Parents
<1>5. Untouched' /\ Skips'
  BY <1>1, <1>2 DEF Graph, Untouched, Skips
<1>6. Words'
  BY <1>1 DEF Words
<1> QED
  BY <1>3, <1>4, <1>5, <1>6 DEF Graph

LEMMA GInvInit == Init => GInv
BY DEF Init, GInv, Calm, Busy, First

LEMMA GInvStep == IInv /\ GInv /\ [Next]_vars => GInv'
<1> SUFFICES ASSUME IInv, GInv, [Next]_vars PROVE GInv'
  OBVIOUS
<1>1. TypeOK /\ Calm /\ (First => Graph)
  BY DEF IInv, GInv
<1>2. CASE UNCHANGED vars
  <2>1. Graph' <=> Graph
    BY <1>2 DEF vars, client, target, Graph, Chain, Distinct, Context, Edges, Parents,
                Untouched, Skips, Words, Objects, Made, Getter, Slots, Top, Pending, Busy
  <2> QED
    BY <1>1, <1>2, <2>1 DEF vars, client, target, GInv, Calm, First, Busy
<1>3. ASSUME NEW a \in Addrs, Unmarshal(a) PROVE GInv'
  <2>1. calls' = Append(calls, a) /\ calls \in Seq(Addrs) /\ outcome' \in {"none", "error"}
        /\ (mem[a] = Unreadable => outcome' = "error" /\ stack' = << >>)
        /\ (mem[a] # Unreadable => outcome' = "none")
    BY <1>1, <1>3 DEF Unmarshal, TypeOK, Busy
  <2>2. calls' # << >> /\ Len(calls') = Len(calls) + 1 /\ (Len(calls') = 1 => calls = << >>)
    BY <2>1
  <2>3. Calm'
    BY <2>1, <2>2 DEF Calm, Busy
  <2>4. First' => Graph'
    BY <1>1, <1>3, <2>1, <2>2, FirstCall DEF First
  <2> QED
    BY <2>3, <2>4 DEF GInv
<1>4. ASSUME NEW a \in Addrs, NEW c \in Contents, Write(a, c) PROVE GInv'
  <2>1. Calm' /\ (First' => First)
    BY <1>1, <1>4 DEF Write, client, Calm, First, Busy
  <2> QED
    BY <1>1, <1>4, <2>1, WriteGraph DEF GInv
<1>5. CASE Step
  <2>1. Busy /\ calls # << >> /\ outcome = "none" /\ UNCHANGED calls
    BY <1>1, <1>5 DEF Step, ZeroPointer, TextRead, Reuse, Mismatch, Chase, Return,
                      AtPointer, AtField, client, Calm
  <2>2. First' => First
    BY <2>1 DEF First
  <2>3. Calm'
    <3>1. CASE Return /\ Len(stack) = 1
      BY <2>1, <3>1 DEF Return, Calm, Busy
    <3>2. CASE ~(Return /\ Len(stack) = 1)
      <4>1. outcome' = outcome
        BY <1>5, <3>2 DEF Step, ZeroPointer, TextRead, Reuse, Mismatch, Chase, Return, client
      <4> QED
        BY <2>1, <4>1 DEF Calm
    <3> QED
      BY <3>1, <3>2
  <2>4. ASSUME Graph PROVE Graph'
    <3>1. CASE ZeroPointer \/ TextRead \/ Reuse \/ Mismatch
      BY <2>4, <3>1, LeafStepGraph
    <3>2. CASE Chase
      BY <2>4, <3>2, ChaseGraph
    <3>3. CASE Return
      BY <2>4, <3>3, LastReturn, InnerReturn
    <3> QED
      BY <1>5, <3>1, <3>2, <3>3 DEF Step
  <2> QED
    BY <1>1, <2>2, <2>3, <2>4 DEF GInv
<1> QED
  BY <1>2, <1>3, <1>4, <1>5 DEF Next

(***************************************************************************)
(* What the finished graph shows to the client.                            *)
(***************************************************************************)
\* Every set of numbers has a least one.
LEMMA Oldest ==
  ASSUME NEW T, T \subseteq Nat, T # {}
  PROVE  \E x \in T : \A y \in T : x <= y
<1> DEFINE R == OpToRel(<, Nat)
<1>1. PICK x \in T : \A y \in T : ~(<<y, x>> \in R)
  <2>1. IsWellFoundedOn(R, Nat)
    BY NatLessThanWellFounded
  <2> HIDE DEF R
  <2> QED
    BY <2>1, WFMin
<1>2. \A y \in T : ~(y < x)
  BY <1>1 DEF OpToRel
<1> QED
  BY <1>2

Below(top) == {o \in Made : heap[o].under = top}

\* Reach finds the structs made below a field, all of them.
LEMMA ReachBelow ==
  ASSUME TypeOK, Graph, NEW top \in Slots(1)
  PROVE  Reach(Getter(1, top).val) = Below(top)
<1> DEFINE r == Getter(1, top).val
<1>1. 1 \in Objects /\ Made \subseteq Objects /\ Len(heap) \in Nat \ {0}
  BY DEF TypeOK, Made, Objects
<1>2. ASSUME NEW o \in Objects, NEW k \in Slots(o), Getter(o, k).val # NoObject
      PROVE  Getter(o, k).val \in Below(Top(o, k))
  BY <1>2 DEF Graph, Edges, Below
<1>3. r \in Below(top) \cup {NoObject}
  BY <1>1, <1>2 DEF Top
<1>4. Closed(Below(top))
  <2> SUFFICES ASSUME NEW o \in Below(top), NEW k \in Slots(o)
               PROVE  Getter(o, k).val \in Below(top) \cup {NoObject}
    BY DEF Closed, Slots, Getter
  <2>1. o \in Objects /\ Top(o, k) = top
    BY <1>1 DEF Below, Top, Made
  <2> QED
    BY <1>2, <2>1
<1>5. Reach(r) \subseteq Below(top)
  <2>1. Below(top) \in SUBSET Objects
    BY <1>1 DEF Below
  <2> HIDE DEF r
  <2> QED
    BY <1>3, <1>4, <2>1 DEF Reach
<1>6. ASSUME NEW os \in SUBSET Objects, Closed(os), r \in os \cup {NoObject}
      PROVE  Below(top) \subseteq os
  <2> SUFFICES ASSUME Below(top) \ os # {} PROVE FALSE
    OBVIOUS
  <2>1. Below(top) \ os \subseteq Nat
    BY <1>1 DEF Below, Made
  <2>2. PICK p \in Below(top) \ os : \A q \in Below(top) \ os : p <= q
    <3> DEFINE T == Below(top) \ os
    <3>1. T \subseteq Nat /\ T # {}
      BY <2>1
    <3> HIDE DEF T
    <3>2. \E x \in T : \A y \in T : x <= y
      BY <3>1, Oldest
    <3> QED
      BY <3>2 DEF T
  <2>3. p \in Made /\ p \in Nat /\ heap[p].under = top /\ p # NoObject
    BY <2>1, <2>2 DEF Below, Made, NoObject
  <2>4. PICK q \in 1 .. p - 1 : \E i \in Slots(q) : Getter(q, i).val = p /\ Top(q, i) = top
    BY <2>3 DEF Graph, Parents
  <2>5. PICK i \in Slots(q) : Getter(q, i).val = p /\ Top(q, i) = top
    BY <2>4
  <2>6. CASE q = 1
    <3>1. i = top
      BY <2>5, <2>6 DEF Top
    <3> QED
      BY <1>6, <2>2, <2>3, <2>5, <2>6, <3>1
  <2>7. CASE q # 1
    <3>1. q \in Made /\ q < p
      BY <1>1, <2>3, <2>7 DEF Made
    <3>2. q \in Below(top)
      BY <2>5, <2>7, <3>1 DEF Below, Top
    <3>3. q \in os
      BY <2>1, <2>2, <3>1, <3>2
    <3>4. Getter(q, i).val \in os \cup {NoObject}
      BY <1>6, <3>3 DEF Closed, Slots, Getter
    <3> QED
      BY <2>2, <2>3, <2>5, <3>4
  <2> QED
    BY <2>6, <2>7
<1>7. Below(top) \subseteq Reach(r)
  <2>1. Below(top) \subseteq Objects
    BY <1>1 DEF Below
  <2> HIDE DEF r
  <2> QED
    BY <1>6, <2>1 DEF Reach
<1> QED
  BY <1>5, <1>7

\* The getters of a client's field and of the structs below it.
LEMMA GettersBelow ==
  ASSUME TypeOK, Graph, NEW top \in Slots(1),
         NEW g \in FieldsOf(Below(top)) \cup {Getter(1, top)}
  PROVE  \E o \in Objects : \E k \in Slots(o) : g = Getter(o, k) /\ Top(o, k) = top
<1>1. 1 \in Objects /\ Made \subseteq Objects
  BY DEF TypeOK, Made, Objects
<1>2. CASE g = Getter(1, top)
  BY <1>1, <1>2 DEF Top
<1>3. CASE g \in FieldsOf(Below(top))
  <2>1. PICK o \in Below(top) : g \in {Getter(o, k) : k \in Slots(o)}
    BY <1>3 DEF FieldsOf, Getter, Slots
  <2>2. PICK k \in Slots(o) : g = Getter(o, k)
    BY <2>1
  <2>3. o \in Objects /\ Top(o, k) = top
    BY <1>1 DEF Below, Top, Made
  <2> QED
    BY <2>2, <2>3
<1> QED
  BY <1>2, <1>3

LEMMA SharingFromGraph == TypeOK /\ GInv => SharingKept
<1> SUFFICES ASSUME TypeOK, GInv, FilledOnce, NEW top \in Slots(1),
                    NEW g \in FieldsOf(Reach(Getter(1, top).val)) \cup {Getter(1, top)},
                    NEW h \in FieldsOf(Reach(Getter(1, top).val)) \cup {Getter(1, top)},
                    g.val # NoObject, h.val # NoObject
             PROVE  g.addr = h.addr <=> g.val = h.val
  BY DEF SharingKept, Slots, Getter
<1>1. Graph
  BY DEF FilledOnce, GInv, First
<1>2. Reach(Getter(1, top).val) = Below(top)
  BY <1>1, ReachBelow
<1>3. PICK o \in Objects : \E k \in Slots(o) : g = Getter(o, k) /\ Top(o, k) = top
  BY <1>1, <1>2, GettersBelow
<1>4. PICK p \in Objects : \E k \in Slots(p) : h = Getter(p, k) /\ Top(p, k) = top
  BY <1>1, <1>2, GettersBelow
<1>5. g.val \in Made /\ heap[g.val].under = top /\ heap[g.val].from = g.addr
  BY <1>1, <1>3 DEF Graph, Edges
<1>6. h.val \in Made /\ heap[h.val].under = top /\ heap[h.val].from = h.addr
  BY <1>1, <1>4 DEF Graph, Edges
<1>7. g.addr = h.addr => g.val = h.val
  BY <1>1, <1>5, <1>6 DEF Graph, Distinct
<1>8. g.val = h.val => g.addr = h.addr
  BY <1>5, <1>6
<1> QED
  BY <1>7, <1>8

LEMMA Idle == ~Busy => \A o, k : ~Pending(o, k)
BY DEF Busy, Pending

LEMMA MemoryFromGraph == TypeOK /\ GInv => GraphIsMemory
<1> SUFFICES ASSUME TypeOK, GInv, FilledOnce, writes = 0, NEW o \in Objects, heap[o].loaded,
                    NEW k \in Slots(o)
             PROVE  /\ Getter(o, k).addr = mem[heap[o].from][k]
                    /\ Getter(o, k).val # NoObject =>
                         LET v == Getter(o, k).val
                         IN  /\ heap[v].from = Getter(o, k).addr
                             /\ heap[v].type = Layout[heap[o].type][k]
                             /\ heap[v].loaded = (mem[Getter(o, k).addr] # Unreadable)
  BY DEF GraphIsMemory, Slots, Getter
<1>1. Graph /\ ~Pending(o, k)
  BY Idle DEF FilledOnce, GInv, First
<1> QED
  BY <1>1 DEF Graph, Edges, Words

LEMMA SkipsFromGraph == TypeOK /\ GInv => NothingSkipped
<1> SUFFICES ASSUME TypeOK, GInv, FilledOnce, NEW top \in Slots(1),
                    NEW o \in Reach(Getter(1, top).val), heap[o].loaded, NEW k \in Slots(o),
                    Layout[heap[o].type][k] # Text, Getter(o, k).val = NoObject,
                    Getter(o, k).err = "nil"
             PROVE  \E p \in Reach(Getter(1, top).val) :
                      heap[p].from = Getter(o, k).addr
                      /\ heap[p].type # Layout[heap[o].type][k]
  BY DEF NothingSkipped, Slots, Getter
<1>1. Graph /\ ~Pending(o, k)
  BY Idle DEF FilledOnce, GInv, First
<1>2. Reach(Getter(1, top).val) = Below(top)
  BY <1>1, ReachBelow
<1>3. o \in Objects /\ Top(o, k) = top
  BY <1>2 DEF Below, Made, Objects, Top
<1>4. PICK p \in Made : /\ heap[p].under = top /\ heap[p].from = Getter(o, k).addr
                        /\ heap[p].type # Layout[heap[o].type][k]
  BY <1>1, <1>3 DEF Graph, Skips
<1> QED
  BY <1>2, <1>4 DEF Below

LEMMA GInvAlways == Spec => [](TypeOK /\ GInv)
<1>1. IInv => TypeOK
  BY DEF IInv
<1> QED
  BY <1>1, IInvInit, IInvStep, GInvInit, GInvStep, PTL DEF Spec

\* Below one field of the client's struct, two pointers of the first Unmarshal are
\* the same in Go exactly when they are the same in the target, for cycles and
\* sharing of any shape and while the target writes.
THEOREM SharingKeptAlways == Spec => []SharingKept
BY SharingFromGraph, GInvAlways, PTL

\* If the target held still, the structs of the first Unmarshal are the memory, each
\* pointer of the type its field has.
THEOREM GraphIsMemoryAlways == Spec => []GraphIsMemory
BY MemoryFromGraph, GInvAlways, PTL

\* The first Unmarshal leaves a pointer empty without an error only for a struct of
\* another type at the same address below the same field.
THEOREM NothingSkippedAlways == Spec => []NothingSkipped
BY SkipsFromGraph, GInvAlways, PTL

-----------------------------------------------------------------------------
(***************************************************************************)
(* Reading again.  The structs of a first Unmarshal are numbered in the    *)
(* order in which it comes to them.  S[o][k] is the number of structs      *)
(* there were when it came to slot k of struct o: what it found in its     *)
(* context is told by that number, and so is what a second one finds.      *)
(***************************************************************************)
Stamps == [Nat -> [Nat -> Nat]]

LayoutOf(o) == Layout[heap[o].type]
Came(o, k) == heap[o].loaded /\ ~Pending(o, k)
Left(o, k) == heap[o].loaded /\ \A j \in 1 .. Len(stack) : stack[j].obj = o => k < stack[j].at

\* A pointer leads to a struct that was there, or to the next one, which is made for
\* it.  It is empty because its address is in the context as another type.
Decoded(S, o, k) ==
  LET g == Getter(o, k)
  IN  /\ g.val <= S[o][k] + 1
      /\ LayoutOf(o)[k] = Text => g.val = NoObject
      /\ g.addr = Null => g.val = NoObject /\ g.err = "zero"
      /\ LayoutOf(o)[k] # Text /\ g.addr # Null /\ g.val = NoObject =>
           \E p \in Made : p <= S[o][k] /\ heap[p].under = Top(o, k) /\ heap[p].from = g.addr
                           /\ heap[p].type # LayoutOf(o)[k]

LastOf(S, v) == IF heap[v].loaded THEN S[v][Len(LayoutOf(v)) + 1] ELSE v

\* Behind a pointer that a struct was made for come the structs below that one.
Followed(S, o, k) ==
  LET g == Getter(o, k)
  IN  /\ g.val # S[o][k] + 1 => S[o][k + 1] = S[o][k]
      /\ g.val = S[o][k] + 1 => /\ S[o][k + 1] = LastOf(S, g.val)
                                /\ g.err = IF heap[g.val].loaded THEN "nil" ELSE "read"
      /\ writes = 0 /\ LayoutOf(o)[k] = Text /\ g.addr # Null /\ mem[g.addr] = Unreadable =>
           g.err = "read"

Numbered(S) == \A o \in Objects : heap[o].loaded => S[o][1] = o

\* The structs below each field of the client's follow those below the fields before.
ByField(S, c) ==
  \A k \in 1 .. c : /\ S[1][k] <= Len(heap)
                    /\ \A p \in Made : heap[p].under < k <=> p <= S[1][k]

InLayout == \A j \in 1 .. Len(stack) : stack[j].at <= Len(LayoutOf(stack[j].obj)) + 1

Traced(S) ==
  /\ Numbered(S)
  /\ \A o \in Objects : \A k \in Slots(o) : Came(o, k) => Decoded(S, o, k)
  /\ \A o \in Objects : \A k \in Slots(o) : Left(o, k) =>
       /\ Followed(S, o, k)
       /\ Getter(o, k).val = S[o][k] + 1 =>
            \A j \in 1 .. Len(stack) : stack[j].obj # Getter(o, k).val
  /\ Busy =>
       /\ S[frame.obj][frame.at] = Len(heap)
       /\ \A j \in 1 .. Len(stack) - 1 :
            /\ Getter(stack[j].obj, stack[j].at).val = stack[j + 1].obj
            /\ stack[j + 1].obj = S[stack[j].obj][stack[j].at] + 1
       /\ ByField(S, stack[1].at)
       /\ InLayout
  /\ ~Busy => ByField(S, Len(LayoutOf(1)) + 1)

-----------------------------------------------------------------------------
(***************************************************************************)
(* Lemmas: a step that passes slot k of struct o.                          *)
(***************************************************************************)
\* The old structs keep everything but that slot.
Grown(o, k) ==
  /\ Len(heap) <= Len(heap') /\ Len(heap') \in Nat
  /\ \A p \in Objects :
       /\ heap'[p].type = heap[p].type /\ heap'[p].under = heap[p].under
       /\ heap'[p].from = heap[p].from /\ heap'[p].loaded = heap[p].loaded
       /\ DOMAIN heap'[p].fields = Slots(p)
       /\ \A i \in Slots(p) : ~(p = o /\ i = k) => heap'[p].fields[i] = Getter(p, i)
  /\ mem' = mem /\ writes' = writes

LEMMA GrownFacts ==
  ASSUME TypeOK, NEW o, NEW k, Grown(o, k)
  PROVE  /\ \A p \in Objects : p \in Objects' /\ (p \in Made <=> p \in Made')
         /\ \A p \in Made : p \in Made'
         /\ \A p \in Objects : /\ Slots(p)' = Slots(p) /\ LayoutOf(p)' = LayoutOf(p)
                               /\ \A i : Top(p, i)' = Top(p, i)
         /\ \A p \in Objects : \A i \in Slots(p) : ~(p = o /\ i = k) => Getter(p, i)' = Getter(p, i)
         /\ Objects \subseteq Nat /\ Len(heap) \in Nat
<1>1. Len(heap) \in Nat /\ Len(heap') \in Nat /\ Len(heap) <= Len(heap')
  BY DEF TypeOK, Grown
<1>2. /\ \A p \in Objects : p \in Objects' /\ (p \in Made <=> p \in Made')
      /\ \A p \in Made : p \in Made'
      /\ Objects \subseteq Nat
  BY <1>1 DEF Objects, Made
<1>3. \A p \in Objects : /\ Slots(p)' = Slots(p) /\ LayoutOf(p)' = LayoutOf(p)
                         /\ \A i : Top(p, i)' = Top(p, i)
  BY DEF Grown, Slots, LayoutOf, Top
<1>4. \A p \in Objects : \A i \in Slots(p) : ~(p = o /\ i = k) => Getter(p, i)' = Getter(p, i)
  BY DEF Grown, Getter
<1> QED
  BY <1>1, <1>2, <1>3, <1>4

\* The stamps that a step keeps.
Agree(S, T, o, k) == \A p \in Objects : \A i \in Nat : ~(p = o /\ i = k) => T[p][i] = S[p][i]

LEMMA DecodedKept ==
  ASSUME TypeOK, NEW o, NEW k, Grown(o, k), NEW S, NEW T, Agree(S, T, o, k + 1),
         NEW p \in Objects, NEW i \in Slots(p), ~(p = o /\ i = k), ~(p = o /\ i = k + 1),
         Decoded(S, p, i)
  PROVE  Decoded(T, p, i)'
<1>1. /\ Getter(p, i)' = Getter(p, i) /\ LayoutOf(p)' = LayoutOf(p) /\ Top(p, i)' = Top(p, i)
      /\ \A q \in Made : q \in Made' /\ q \in Objects
  BY GrownFacts DEF Made, Objects
<1>2. i \in Nat
  BY SlotType
<1>3. T[p][i] = S[p][i]
  BY <1>2 DEF Agree
<1>4. \A q \in Made : /\ heap'[q].under = heap[q].under /\ heap'[q].from = heap[q].from
                      /\ heap'[q].type = heap[q].type
  BY <1>1 DEF Grown
<1> QED
  BY <1>1, <1>3, <1>4 DEF Decoded

LEMMA FollowedKept ==
  ASSUME TypeOK, NEW o, NEW k \in Nat, Grown(o, k), NEW S, NEW T, Agree(S, T, o, k + 1),
         NEW p \in Objects, NEW i \in Slots(p), ~(p = o /\ i = k), ~(p = o /\ i = k + 1),
         Followed(S, p, i), Getter(p, i).val = S[p][i] + 1 => Getter(p, i).val # o,
         S[p][i] \in Nat
  PROVE  Followed(T, p, i)'
<1>1. /\ Getter(p, i)' = Getter(p, i) /\ LayoutOf(p)' = LayoutOf(p)
      /\ i \in Nat /\ Getter(p, i).val \in 0 .. Len(heap) /\ Len(heap) \in Nat
  BY GrownFacts, SlotType DEF Getters
<1>2. T[p][i] = S[p][i] /\ T[p][i + 1] = S[p][i + 1]
  BY <1>1 DEF Agree
<1>3. mem' = mem /\ writes' = writes
  BY DEF Grown
<1>4. ASSUME NEW v, v = Getter(p, i).val, v = S[p][i] + 1
      PROVE  heap'[v].loaded = heap[v].loaded /\ LastOf(T, v)' = LastOf(S, v)
  <2>1. v \in Objects /\ v # o
    <3>1. v \in 0 .. Len(heap) /\ v >= 1
      BY <1>1, <1>4
    <3>2. v \in Objects
      BY <1>1, <3>1 DEF Objects
    <3>3. v # o
      <4>1. Getter(p, i).val = S[p][i] + 1
        BY <1>4
      <4>2. Getter(p, i).val # o
        BY <4>1
      <4>3. QED
        BY <1>4, <4>2
    <3>4. QED
      BY <3>2, <3>3
  <2>2. heap'[v].loaded = heap[v].loaded /\ LayoutOf(v)' = LayoutOf(v)
    BY <2>1 DEF Grown, LayoutOf
  <2>3. Len(LayoutOf(v)) + 1 \in Nat
    <3>1. heap[v].type \in Types
      BY <2>1, SlotType
    <3> QED
      BY <3>1, TypesAssumption DEF LayoutOf
  <2>4. T[v][Len(LayoutOf(v)) + 1] = S[v][Len(LayoutOf(v)) + 1]
    BY <2>1, <2>3 DEF Agree
  <2> QED
    BY <2>2, <2>4 DEF LastOf
<1> QED
  BY <1>1, <1>2, <1>3, <1>4 DEF Followed

\* The innermost struct left, o at slot k, goes on to its next slot; what is taken
\* from the stack was decoded to its end.
Passing(o, k) ==
  LET m == Len(stack')
  IN  /\ m \in Nat \ {0} /\ m <= Len(stack) /\ Len(stack) \in Nat
      /\ o = stack[m].obj /\ k = stack[m].at /\ k \in Slots(o) /\ o \in Objects
      /\ \A j \in 1 .. m :
           /\ stack'[j].obj = stack[j].obj
           /\ stack'[j].at = IF j = m THEN stack[j].at + 1 ELSE stack[j].at
      /\ \A j \in 1 .. Len(stack) :
           /\ stack[j].at \in Nat \ {0} /\ stack[j].obj \in Objects
           /\ j > m => stack[j].at > Len(LayoutOf(stack[j].obj))

LEMMA PassedSlots ==
  ASSUME TypeOK, NEW o, NEW k, Passing(o, k), Grown(o, k), NEW p \in Objects, NEW i \in Slots(p)
  PROVE  /\ Came(p, i)' => Came(p, i) \/ (p = o /\ i = k)
         /\ Left(p, i)' => Left(p, i) \/ (p = o /\ i = k)
         /\ Came(p, i) => ~(p = o /\ i = k + 1)
         /\ Left(p, i) => ~(p = o /\ i = k) /\ Came(p, i)
<1> DEFINE m == Len(stack')
           n == Len(stack)
<1>1. /\ m \in Nat \ {0} /\ n \in Nat /\ m <= n /\ m \in 1 .. m /\ m \in 1 .. n
      /\ \A j \in 1 .. m : j \in 1 .. n
  BY DEF Passing
<1>2. /\ i \in 1 .. Len(LayoutOf(p)) /\ Len(LayoutOf(p)) \in Nat /\ i \in Nat
  BY SlotType, TypesAssumption DEF LayoutOf
<1>3. heap'[p].loaded = heap[p].loaded
  BY DEF Grown
<1>4. ASSUME Pending(p, i), ~(p = o /\ i = k) PROVE Pending(p, i)'
  <2>1. PICK j \in 1 .. n : stack[j].obj = p /\ (i > stack[j].at \/ (i = stack[j].at /\ j = n))
    BY <1>4 DEF Pending
  <2>2. stack[j].at \in Nat
    BY DEF Passing
  <2>3. j <= m
    <3>1. CASE j > m
      <4>1. stack[j].at > Len(LayoutOf(p))
        BY <2>1, <3>1 DEF Passing
      <4>2. QED
        BY <1>2, <2>1, <2>2, <4>1
    <3>2. QED
      BY <1>1, <3>1
  <2>4. j \in 1 .. m
    BY <1>1, <2>3
  <2>5. stack'[j].obj = p /\ stack'[j].at = IF j = m THEN stack[j].at + 1 ELSE stack[j].at
    BY <2>1, <2>4 DEF Passing
  <2>6. CASE j = m
    <3>1. ~(i = stack[j].at)
      BY <1>4, <2>1, <2>6 DEF Passing
    <3>2. i > stack'[j].at \/ (i = stack'[j].at /\ j = m)
      BY <1>2, <2>1, <2>2, <2>5, <2>6, <3>1
    <3>3. QED
      BY <2>4, <2>5, <3>2 DEF Pending
  <2>7. CASE j # m
    <3>1. i > stack'[j].at
      <4>1. j # n
        BY <1>1, <2>3, <2>7
      <4>2. QED
        BY <2>1, <2>5, <2>7, <4>1
    <3>2. QED
      BY <2>4, <2>5, <3>1 DEF Pending
  <2>8. QED
    BY <2>6, <2>7
<1>5. Came(p, i)' => Came(p, i) \/ (p = o /\ i = k)
  BY <1>3, <1>4 DEF Came
<1>6. ASSUME Left(p, i)', ~(p = o /\ i = k) PROVE Left(p, i)
  <2>1. ASSUME NEW j \in 1 .. n, stack[j].obj = p PROVE i < stack[j].at
    <3>1. stack[j].at \in Nat
      BY DEF Passing
    <3>2. CASE j > m
      <4>1. stack[j].at > Len(LayoutOf(p))
        BY <2>1, <3>2 DEF Passing
      <4>2. QED
        BY <1>2, <3>1, <4>1
    <3>3. CASE j <= m
      <4>1. j \in 1 .. m
        BY <1>1, <3>3
      <4>2. /\ stack'[j].obj = p
            /\ stack'[j].at = IF j = m THEN stack[j].at + 1 ELSE stack[j].at
        BY <2>1, <4>1 DEF Passing
      <4>3. i < stack'[j].at
        BY <1>6, <4>1, <4>2 DEF Left
      <4>4. j = m => i # stack[j].at
        BY <1>6, <2>1 DEF Passing
      <4>5. QED
        BY <1>2, <3>1, <4>2, <4>3, <4>4
    <3>4. QED
      BY <1>1, <3>2, <3>3
  <2>2. QED
    BY <1>3, <1>6, <2>1 DEF Left
<1>7. ASSUME p = o, i = k + 1 PROVE ~Came(p, i)
  <2>1. stack[m].obj = p /\ i > stack[m].at
    <3>1. stack[m].at \in Nat /\ o = stack[m].obj /\ k = stack[m].at
      BY <1>1 DEF Passing
    <3>2. QED
      BY <1>7, <3>1
  <2>2. QED
    BY <1>1, <2>1 DEF Came, Pending
<1>8. ASSUME Left(p, i) PROVE ~(p = o /\ i = k) /\ Came(p, i)
  <2>1. ASSUME p = o, i = k PROVE FALSE
    <3>1. stack[m].obj = p /\ stack[m].at \in Nat /\ i = stack[m].at
      BY <1>1, <2>1 DEF Passing
    <3>2. i < stack[m].at
      BY <1>1, <1>8, <3>1 DEF Left
    <3>3. QED
      BY <3>1, <3>2
  <2>2. ASSUME Pending(p, i) PROVE FALSE
    <3>1. PICK j \in 1 .. n : stack[j].obj = p /\ i >= stack[j].at
      <4>1. \A j \in 1 .. n : stack[j].at \in Nat
        BY DEF Passing
      <4>2. QED
        BY <1>2, <2>2, <4>1 DEF Pending
    <3>2. i < stack[j].at /\ stack[j].at \in Nat
      BY <1>8, <3>1 DEF Left, Passing
    <3>3. QED
      BY <1>2, <3>1, <3>2
  <2>3. QED
    BY <1>8, <2>1, <2>2 DEF Came, Left
<1>9. QED
  BY <1>5, <1>6, <1>7, <1>8

\* What is new is not read yet, and lies below the field that the client's struct is at.
Unread == \A p \in Objects' : p \notin Objects => /\ heap'[p].under = stack[1].at
                                                  /\ ~heap'[p].loaded
Stamped(S, o, k, c) == [p \in Nat |-> [i \in Nat |-> IF p = o /\ i = k THEN c ELSE S[p][i]]]

LEMMA StampedFacts ==
  ASSUME NEW S \in Stamps, NEW o, NEW k, NEW c \in Nat, NEW T, T = Stamped(S, o, k, c)
  PROVE  /\ T \in Stamps
         /\ \A p \in Nat : \A i \in Nat : T[p][i] = IF p = o /\ i = k THEN c ELSE S[p][i]
<1>1. \A p \in Nat : \A i \in Nat : T[p][i] = IF p = o /\ i = k THEN c ELSE S[p][i]
  BY DEF Stamped
<1>2. \A p \in Nat : \A i \in Nat : S[p][i] \in Nat
  BY DEF Stamps
<1>3. T \in Stamps
  BY <1>2 DEF Stamped, Stamps
<1> QED
  BY <1>1, <1>3

LEMMA PassingTraced ==
  ASSUME TypeOK, TypeOK', Graph, Busy, NEW S \in Stamps, Traced(S),
         NEW o, NEW k, Passing(o, k), Grown(o, k), Unread,
         NEW T, T = Stamped(S, o, k + 1, Len(heap')),
         Decoded(T, o, k)', Followed(T, o, k)',
         Getter(o, k)'.val = T[o][k] + 1 =>
           \A j \in 1 .. Len(stack') : stack'[j].obj # Getter(o, k)'.val
  PROVE  T \in Stamps /\ Traced(T)'
<1> DEFINE m == Len(stack')
           n == Len(stack)
<1>1. /\ m \in Nat \ {0} /\ n \in Nat /\ m <= n /\ m \in 1 .. m /\ m \in 1 .. n
      /\ \A j \in 1 .. m : j \in 1 .. n /\ stack'[j].obj = stack[j].obj
      /\ o = stack[m].obj /\ k = stack[m].at /\ k \in Nat \ {0} /\ o \in Objects /\ k \in Slots(o)
      /\ 1 \in 1 .. m /\ 1 \in 1 .. n
  BY DEF Passing
<1>2. /\ Objects \subseteq Nat /\ Len(heap) \in Nat /\ Len(heap') \in Nat /\ Len(heap) <= Len(heap')
      /\ o \in Nat /\ k + 1 \in Nat /\ 1 \in Nat
      /\ \A p \in Objects : (p \in Made <=> p \in Made') /\ heap'[p].under = heap[p].under
  <2>1. /\ Len(heap') \in Nat /\ Len(heap) <= Len(heap')
        /\ \A p \in Objects : heap'[p].under = heap[p].under
    BY DEF Grown
  <2>2. /\ Objects \subseteq Nat /\ Len(heap) \in Nat
        /\ \A p \in Objects : p \in Made <=> p \in Made'
    BY GrownFacts
  <2>3. o \in Nat /\ k + 1 \in Nat
    BY <1>1, <2>2
  <2>4. QED
    BY <2>1, <2>2, <2>3
<1>3. /\ T \in Stamps
      /\ \A p \in Nat : \A i \in Nat :
           T[p][i] = IF p = o /\ i = k + 1 THEN Len(heap') ELSE S[p][i]
  <2>1. PICK c \in Nat : c = Len(heap')
    BY <1>2
  <2>2. T = Stamped(S, o, k + 1, c)
    BY <2>1
  <2>3. QED
    BY <2>1, <2>2, StampedFacts
<1>4. Agree(S, T, o, k + 1)
  BY <1>2, <1>3 DEF Agree
<1>5. \A p \in Objects : \A i \in Slots(p) : i \in Nat \ {0} /\ S[p][i] \in Nat
  <2>1. \A p \in Objects : \A i \in Slots(p) : i \in Nat \ {0}
    BY SlotType
  <2>2. QED
    BY <1>2, <2>1 DEF Stamps
<1>6. Numbered(T)'
  <2>1. ASSUME NEW p \in Objects', heap'[p].loaded PROVE T[p][1] = p
    <3>1. p \in Objects
      BY <2>1 DEF Unread
    <3>2. heap[p].loaded
      BY <2>1, <3>1 DEF Grown
    <3>3. S[p][1] = p
      BY <3>1, <3>2 DEF Traced, Numbered
    <3>4. k + 1 # 1
      BY <1>1
    <3>5. QED
      BY <1>2, <1>3, <3>1, <3>3, <3>4
  <2>2. QED
    BY <2>1 DEF Numbered
<1>7. ASSUME NEW p \in Objects', NEW i \in Slots(p)', Came(p, i)' PROVE Decoded(T, p, i)'
  <2>1. p \in Objects
    BY <1>7 DEF Unread, Came
  <2>2. i \in Slots(p)
    BY <2>1, GrownFacts
  <2>3. CASE p = o /\ i = k
    BY <2>3
  <2>4. CASE ~(p = o /\ i = k)
    <3>1. Came(p, i) /\ ~(p = o /\ i = k + 1)
      BY <1>7, <2>1, <2>2, <2>4, PassedSlots
    <3>2. Decoded(S, p, i)
      BY <2>1, <2>2, <3>1 DEF Traced
    <3>3. QED
      BY <1>4, <2>1, <2>2, <2>4, <3>1, <3>2, DecodedKept
  <2>5. QED
    BY <2>3, <2>4
<1>8. ASSUME NEW p \in Objects', NEW i \in Slots(p)', Left(p, i)'
      PROVE  /\ Followed(T, p, i)'
             /\ Getter(p, i)'.val = T[p][i] + 1 =>
                  \A j \in 1 .. m : stack'[j].obj # Getter(p, i)'.val
  <2>1. p \in Objects
    BY <1>8 DEF Unread, Left
  <2>2. i \in Slots(p)
    BY <2>1, GrownFacts
  <2>3. CASE p = o /\ i = k
    BY <2>3
  <2>4. CASE ~(p = o /\ i = k)
    <3>1. Left(p, i) /\ ~(p = o /\ i = k + 1)
      BY <1>8, <2>1, <2>2, <2>4, PassedSlots
    <3>2. /\ Followed(S, p, i)
          /\ Getter(p, i).val = S[p][i] + 1 => \A j \in 1 .. n : stack[j].obj # Getter(p, i).val
      BY <2>1, <2>2, <3>1 DEF Traced
    <3>3. Getter(p, i).val = S[p][i] + 1 => Getter(p, i).val # o
      BY <1>1, <3>2
    <3>4. Followed(T, p, i)'
      <4>1. S[p][i] \in Nat /\ k \in Nat
        BY <1>1, <1>5, <2>1, <2>2
      <4>2. QED
        BY <1>4, <2>1, <2>2, <2>4, <3>1, <3>2, <3>3, <4>1, FollowedKept
    <3>5. Getter(p, i)' = Getter(p, i) /\ T[p][i] = S[p][i]
      <4>1. Getter(p, i)' = Getter(p, i)
        BY <2>1, <2>2, <2>4, GrownFacts
      <4>2. p \in Nat /\ i \in Nat
        BY <1>2, <1>5, <2>1, <2>2
      <4>3. QED
        BY <1>3, <3>1, <4>1, <4>2
    <3>6. QED
      BY <1>1, <3>2, <3>4, <3>5
  <2>5. QED
    BY <2>3, <2>4
<1>9. /\ Chain /\ Context /\ \A i, j \in 1 .. n : stack[i].obj = stack[j].obj => i = j
      /\ stack[1].obj = 1
  BY DEF Graph, Chain
<1>10. Busy'
  BY <1>1 DEF Busy
<1>11. T[frame.obj'][frame.at'] = Len(heap')
  <2>1. frame.obj' = o /\ frame.at' = k + 1
    <3>1. frame' = stack'[m] /\ stack'[m].obj = o /\ stack'[m].at = k + 1
      BY <1>1 DEF frame, Passing
    <3>2. QED
      BY <3>1
  <2>2. QED
    BY <1>2, <1>3, <2>1
<1>12. ASSUME NEW j \in 1 .. m - 1
       PROVE  /\ (Getter(stack[j].obj, stack[j].at).val = stack[j + 1].obj)'
              /\ (stack[j + 1].obj = T[stack[j].obj][stack[j].at] + 1)'
  <2>1. j \in 1 .. m /\ j + 1 \in 1 .. m /\ j # m /\ j \in 1 .. n - 1 /\ j \in 1 .. n
    BY <1>1
  <2>2. /\ stack'[j].obj = stack[j].obj /\ stack'[j].at = stack[j].at
        /\ stack'[j + 1].obj = stack[j + 1].obj
    BY <2>1 DEF Passing
  <2>3. /\ Getter(stack[j].obj, stack[j].at).val = stack[j + 1].obj
        /\ stack[j + 1].obj = S[stack[j].obj][stack[j].at] + 1
    BY <2>1 DEF Traced
  <2>4. stack[j].obj # o /\ stack[j].obj \in Objects /\ stack[j].at \in Slots(stack[j].obj)
    <3>1. stack[j].obj # o
      BY <1>1, <1>9, <2>1
    <3>2. stack[j].obj \in Objects
      BY <2>1 DEF Passing
    <3>3. stack[j].at \in Slots(stack[j].obj)
      BY <1>9, <2>1 DEF Chain
    <3>4. QED
      BY <3>1, <3>2, <3>3
  <2>5. PICK p \in Objects, i \in Slots(stack[j].obj) : p = stack[j].obj /\ i = stack[j].at
    BY <2>4
  <2>6. Getter(p, i)' = Getter(p, i) /\ T[p][i] = S[p][i]
    <3>1. i \in Slots(p) /\ p # o
      BY <2>4, <2>5
    <3>2. Getter(p, i)' = Getter(p, i)
      BY <3>1, GrownFacts
    <3>3. p \in Nat /\ i \in Nat
      BY <1>2, <1>5, <3>1
    <3>4. QED
      BY <1>3, <3>1, <3>2, <3>3
  <2>7. stack'[j].obj = p /\ stack'[j].at = i
    BY <2>2, <2>5
  <2>8. (Getter(stack[j].obj, stack[j].at))' = Getter(p, i)'
    BY <2>7 DEF Getter
  <2>9. Getter(p, i).val = stack[j + 1].obj /\ stack[j + 1].obj = S[p][i] + 1
    BY <2>3, <2>5
  <2>10. QED
    BY <2>2, <2>6, <2>7, <2>8, <2>9
<1>13. ByField(T, stack[1].at)'
  <2>1. stack[1].at \in Nat /\ stack'[1].at = IF m = 1 THEN stack[1].at + 1 ELSE stack[1].at
    BY <1>1 DEF Passing
  <2>2. ASSUME NEW c \in 1 .. stack'[1].at
        PROVE  /\ T[1][c] <= Len(heap')
               /\ \A p \in Made' : heap'[p].under < c <=> p <= T[1][c]
    <3>1. CASE o = 1 /\ c = k + 1
      <4>1. m = 1 /\ k = stack[1].at
        BY <1>1, <1>9, <3>1
      <4>2. T[1][c] = Len(heap')
        BY <1>2, <1>3, <3>1
      <4>3. ASSUME NEW p \in Made' PROVE heap'[p].under < c /\ p <= T[1][c]
        <5>1. p <= Len(heap') /\ p \in Objects'
          BY <1>2, <4>3 DEF Made, Objects
        <5>2. heap'[p].under \in Nat
          <6>1. heap'[p] \in Structs(Len(heap'))
            BY <1>2, <5>1 DEF TypeOK, Objects
          <6>2. QED
            BY <6>1 DEF Structs
        <5>3. heap'[p].under <= k
          <6>1. CASE p \in Objects
            <7>1. p \in Made /\ heap'[p].under = heap[p].under
              BY <1>2, <4>3, <6>1
            <7>2. QED
              BY <1>9, <4>1, <7>1 DEF Context
          <6>2. CASE p \notin Objects
            BY <4>1, <5>1, <5>2, <6>2 DEF Unread
          <6>3. QED
            BY <6>1, <6>2
        <5>4. QED
          BY <1>1, <3>1, <4>2, <5>1, <5>2, <5>3
      <4>4. QED
        BY <1>2, <4>2, <4>3
    <3>2. CASE ~(o = 1 /\ c = k + 1)
      <4>1. c \in Nat /\ T[1][c] = S[1][c]
        BY <1>2, <1>3, <2>1, <3>2
      <4>2. c \in 1 .. stack[1].at
        <5>1. CASE m = 1
          BY <1>1, <1>9, <2>1, <3>2, <5>1
        <5>2. CASE m # 1
          BY <2>1, <5>2
        <5>3. QED
          BY <5>1, <5>2
      <4>3. S[1][c] <= Len(heap) /\ \A p \in Made : heap[p].under < c <=> p <= S[1][c]
        BY <4>2 DEF Traced, ByField
      <4>4. S[1][c] \in Nat
        BY <4>1 DEF Stamps
      <4>5. ASSUME NEW p \in Made' PROVE heap'[p].under < c <=> p <= T[1][c]
        <5>1. CASE p \in Objects
          <6>1. p \in Made /\ heap'[p].under = heap[p].under
            BY <1>2, <4>5, <5>1
          <6>2. QED
            BY <4>1, <4>3, <6>1
        <5>2. CASE p \notin Objects
          <6>1. p \in Objects' /\ p \in Nat /\ p > Len(heap)
            BY <1>2, <4>5, <5>2 DEF Made, Objects
          <6>2. heap'[p].under = stack[1].at
            BY <5>2, <6>1 DEF Unread
          <6>3. ~(heap'[p].under < c) /\ ~(p <= S[1][c])
            BY <1>2, <2>1, <4>2, <4>3, <4>4, <6>1, <6>2
          <6>4. QED
            BY <4>1, <6>3
        <5>3. QED
          BY <5>1, <5>2
      <4>6. QED
        BY <1>2, <4>1, <4>3, <4>4, <4>5
    <3>3. QED
      BY <3>1, <3>2
  <2>3. QED
    BY <2>2 DEF ByField
<1>14. ASSUME NEW j \in 1 .. m PROVE stack'[j].at <= Len(LayoutOf(stack[j].obj)') + 1
  <2>1. /\ j \in 1 .. n /\ stack[j].at <= Len(LayoutOf(stack[j].obj)) + 1
        /\ stack'[j].at = IF j = m THEN stack[j].at + 1 ELSE stack[j].at
        /\ stack[j].obj \in Objects
    BY <1>1 DEF Traced, InLayout, Passing
  <2>2. stack'[j].obj = stack[j].obj
    BY <1>1
  <2>3. PICK p \in Objects : p = stack[j].obj
    BY <2>1
  <2>4. LayoutOf(p)' = LayoutOf(p)
    BY GrownFacts
  <2>5. LayoutOf(stack[j].obj)' = LayoutOf(p)
    BY <2>2, <2>3, <2>4 DEF LayoutOf
  <2>6. k \in 1 .. Len(LayoutOf(o)) /\ Len(LayoutOf(o)) \in Nat
    <3>1. heap[o].type \in Types /\ Slots(o) = 1 .. Len(Layout[heap[o].type])
      BY <1>1, SlotType
    <3>2. QED
      BY <1>1, <3>1, TypesAssumption DEF LayoutOf
  <2>7. CASE j = m
    BY <1>1, <2>1, <2>3, <2>5, <2>6, <2>7
  <2>8. CASE j # m
    BY <2>1, <2>3, <2>5, <2>8
  <2>9. QED
    BY <2>7, <2>8
<1>15. InLayout'
  BY <1>14 DEF InLayout
<1>16. QED
  BY <1>3, <1>6, <1>7, <1>8, <1>10, <1>11, <1>12, <1>13, <1>15 DEF Traced

-----------------------------------------------------------------------------
(***************************************************************************)
(* The steps of a first Unmarshal.                                         *)
(***************************************************************************)
LEMMA LeafTraced ==
  ASSUME IInv, IInv', Graph, AtField, NEW S \in Stamps, Traced(S),
         NEW g \in Getters(Len(heap)), FieldDone(g), UNCHANGED <<visited, client, target>>,
         g.addr = word,
         layout[frame.at] = Text => g.val = NoObject,
         word = Null => g.val = NoObject /\ g.err = "zero",
         layout[frame.at] # Text /\ word # Null /\ g.val = NoObject =>
           \E p \in Made : /\ heap[p].under = Top(frame.obj, frame.at) /\ heap[p].from = word
                           /\ heap[p].type # layout[frame.at],
         layout[frame.at] = Text /\ word # Null /\ mem[word] = Unreadable => g.err = "read"
  PROVE  \E T \in Stamps : Traced(T)'
<1> DEFINE n == Len(stack)
<1>1. /\ TypeOK /\ TypeOK' /\ Busy /\ Chain /\ n \in Nat \ {0} /\ n \in 1 .. n
      /\ \A j \in 1 .. n : stack[j].at \in Nat \ {0} /\ stack[j].obj \in Objects
  <2>1. TypeOK /\ TypeOK' /\ Busy /\ Chain /\ n \in Nat \ {0}
    BY FrameType DEF AtField, IInv, Graph
  <2>2. stack \in Seq(Frames(Len(heap)))
    BY <2>1 DEF TypeOK
  <2>3. \A j \in 1 .. n : stack[j] \in Frames(Len(heap))
    BY <2>2
  <2>4. QED
    BY <2>1, <2>3 DEF Frames, Objects
<1>2. PICK o \in Objects, k \in Slots(frame.obj) : o = frame.obj /\ k = frame.at
  BY <1>1, CurrentSlot
<1>3. k \in Slots(o) /\ layout = LayoutOf(o) /\ k \in Nat \ {0} /\ o \in Nat /\ Len(heap) \in Nat
  <2>1. k \in Slots(o) /\ layout = LayoutOf(o)
    BY <1>1, <1>2, CurrentSlot DEF LayoutOf
  <2>2. QED
    BY <1>1, <2>1, SlotType
<1>4. GetterSet(o, k, g)
  <2>1. heap' = Assigned(heap, o, k, g)
    BY <1>2 DEF FieldDone, Assigned
  <2>2. WellFormed(heap, Len(heap)) /\ o \in 1 .. Len(heap)
    BY <1>1, <1>2 DEF TypeOK, WellFormed, Objects
  <2>3. Len(heap') = Len(heap)
    BY <1>3, <2>1, <2>2, FieldAssigned
  <2>4. QED
    BY <1>3, <2>1, <2>2, <2>3, AssignedSlots DEF GetterSet, Objects, Slots, Getter
<1>5. Grown(o, k) /\ Unread /\ Getter(o, k)' = g /\ Len(heap') = Len(heap)
  <2>1. Len(heap') = Len(heap) /\ Getter(o, k)' = g /\ Objects' = Objects
    BY <1>3, <1>4, GetterSetFacts
  <2>2. Unread
    BY <2>1 DEF Unread
  <2>3. mem' = mem /\ writes' = writes
    BY DEF target
  <2>4. Grown(o, k)
    BY <1>3, <1>4, <2>1, <2>3 DEF Grown, GetterSet, SameStructs, Objects, Slots, Getter
  <2>5. QED
    BY <2>1, <2>2, <2>4
<1>6. /\ Len(stack') = n
      /\ \A j \in 1 .. n : /\ stack'[j].obj = stack[j].obj
                           /\ stack'[j].at = IF j = n THEN frame.at + 1 ELSE stack[j].at
  <2>1. stack' = [stack EXCEPT ![Len(stack)].at = @ + 1]
    BY DEF FieldDone
  <2>2. QED
    BY <1>1, <2>1, NextSlot
<1>7. Passing(o, k)
  BY <1>1, <1>2, <1>3, <1>6 DEF Passing, frame
<1>8. PICK T : T = Stamped(S, o, k + 1, Len(heap'))
  OBVIOUS
<1>9. T[o][k] = Len(heap) /\ T[o][k + 1] = Len(heap)
  <2>1. PICK c \in Nat : c = Len(heap)
    BY <1>3
  <2>2. \A p \in Nat : \A i \in Nat : T[p][i] = IF p = o /\ i = k + 1 THEN c ELSE S[p][i]
    BY <1>5, <1>8, <2>1, StampedFacts
  <2>3. S[o][k] = Len(heap)
    BY <1>1, <1>2 DEF Traced
  <2>4. QED
    BY <1>3, <2>1, <2>2, <2>3
<1>10. g.val \in 0 .. Len(heap)
  BY DEF Getters
<1>11. /\ LayoutOf(o)' = LayoutOf(o) /\ Top(o, k)' = Top(o, k) /\ Made' = Made
       /\ \A p \in Made : /\ heap'[p].under = heap[p].under /\ heap'[p].from = heap[p].from
                          /\ heap'[p].type = heap[p].type
                          /\ p <= Len(heap)
  <2>1. Made' = Made /\ LayoutOf(o)' = LayoutOf(o) /\ Top(o, k)' = Top(o, k)
    BY <1>4, GetterSetFacts DEF LayoutOf
  <2>2. \A p \in Made : p \in Objects /\ p <= Len(heap)
    BY <1>3 DEF Made, Objects
  <2>3. QED
    BY <1>4, <2>1, <2>2, GetterSetFacts
<1>12. Decoded(T, o, k)'
  <2>1. g.val <= T[o][k] + 1
    BY <1>3, <1>9, <1>10
  <2>2. LayoutOf(o)[k] # Text /\ g.addr # Null /\ g.val = NoObject =>
          \E p \in Made' : p <= T[o][k] /\ heap'[p].under = Top(o, k)' /\ heap'[p].from = g.addr
                           /\ heap'[p].type # LayoutOf(o)[k]
    BY <1>2, <1>3, <1>9, <1>11
  <2>3. QED
    BY <1>2, <1>3, <1>5, <1>11, <2>1, <2>2 DEF Decoded
<1>13. g.val # T[o][k] + 1
  BY <1>3, <1>9, <1>10
<1>14. Followed(T, o, k)'
  BY <1>2, <1>3, <1>5, <1>9, <1>11, <1>13 DEF Followed, Grown
<1>15. QED
  BY <1>1, <1>5, <1>7, <1>8, <1>12, <1>13, <1>14, PassingTraced

LEMMA LeafStepTraced ==
  ASSUME IInv, IInv', Graph, NEW S \in Stamps, Traced(S),
         ZeroPointer \/ TextRead \/ Reuse \/ Mismatch
  PROVE  \E T \in Stamps : Traced(T)'
<1>1. AtField /\ TypeOK /\ Busy /\ UNCHANGED <<visited, client, target>>
  BY DEF ZeroPointer, TextRead, Reuse, Mismatch, AtPointer, AtField, IInv
<1>2. /\ Top(frame.obj, frame.at) = stack[1].at /\ getter = NewGetter
      /\ word \in Addrs \cup {Null} /\ getter \in Getters(Len(heap))
  BY <1>1, CurrentSlot, FieldType
<1>3. Addressed = [addr |-> word, val |-> NoObject, text |-> << >>, err |-> "nil"]
      /\ Addressed \in Getters(Len(heap))
  <2>1. Addressed = [NewGetter EXCEPT !.addr = word]
    BY <1>2 DEF Addressed
  <2>2. Addressed = [addr |-> word, val |-> NoObject, text |-> << >>, err |-> "nil"]
    BY <2>1 DEF NewGetter
  <2>3. Addressed \in Getters(Len(heap))
    BY <1>2 DEF Addressed, Getters
  <2>4. QED
    BY <2>2, <2>3
<1>4. CASE ZeroPointer
  <2>1. PICK g : g = [Addressed EXCEPT !.err = "zero"]
    OBVIOUS
  <2>2. g \in Getters(Len(heap)) /\ g.addr = word /\ g.val = NoObject /\ g.err = "zero"
    BY <1>3, <2>1 DEF Getters
  <2>3. FieldDone(g) /\ word = Null
    BY <1>4, <2>1 DEF ZeroPointer
  <2>4. QED
    BY <1>1, <2>2, <2>3, LeafTraced
<1>5. CASE TextRead
  <2>1. PICK g : g = IF mem[word] = Unreadable THEN [Addressed EXCEPT !.err = "read"]
                     ELSE [Addressed EXCEPT !.text = Append(@, word)]
    OBVIOUS
  <2>2. word \in Addrs /\ word # Null /\ layout[frame.at] = Text
    BY <1>2, <1>5 DEF TextRead
  <2>3. /\ g \in Getters(Len(heap)) /\ g.addr = word /\ g.val = NoObject
        /\ mem[word] = Unreadable => g.err = "read"
    <3>1. [Addressed EXCEPT !.err = "read"] \in Getters(Len(heap))
      BY <1>3 DEF Getters
    <3>2. Append(<< >>, word) \in Seq(Addrs)
      BY <2>2
    <3>3. [Addressed EXCEPT !.text = Append(@, word)] \in Getters(Len(heap))
      BY <1>3, <3>2 DEF Getters
    <3>4. QED
      BY <1>3, <2>1, <3>1, <3>3
  <2>4. FieldDone(g)
    BY <1>5, <2>1 DEF TextRead
  <2>5. QED
    BY <1>1, <2>2, <2>3, <2>4, LeafTraced
<1>6. ASSUME Reuse \/ Mismatch
      PROVE  LET p == Visited[word]
             IN  /\ p \in Made /\ p \in Objects /\ heap[p].from = word
                 /\ heap[p].under = Top(frame.obj, frame.at)
                 /\ layout[frame.at] # Text /\ word # Null
  <2>1. word \in DOMAIN Visited /\ layout[frame.at] # Text /\ word # Null
    BY <1>6 DEF Reuse, Mismatch, AtPointer
  <2>2. Len(stack) # 1 /\ Visited = visited
    BY <2>1 DEF Visited
  <2>3. QED
    BY <1>1, <1>2, <2>1, <2>2 DEF Graph, Context, Made, Objects
<1>7. CASE Reuse
  <2>1. PICK g : g = [Addressed EXCEPT !.val = Visited[word]]
    OBVIOUS
  <2>2. Visited[word] \in 0 .. Len(heap) /\ Visited[word] # NoObject
    BY <1>6, <1>7 DEF Made, Objects, NoObject
  <2>3. g \in Getters(Len(heap)) /\ g.addr = word /\ g.val = Visited[word]
    BY <1>3, <2>1, <2>2 DEF Getters
  <2>4. FieldDone(g)
    BY <1>7, <2>1 DEF Reuse
  <2>5. layout[frame.at] # Text /\ word # Null
    BY <1>6, <1>7
  <2>6. QED
    BY <1>1, <2>2, <2>3, <2>4, <2>5, LeafTraced
<1>8. CASE Mismatch
  <2>1. FieldDone(Addressed) /\ heap[Visited[word]].type # layout[frame.at]
    BY <1>8 DEF Mismatch, TypesMatch
  <2>2. PICK g : g = Addressed
    OBVIOUS
  <2>3. g \in Getters(Len(heap)) /\ g.addr = word /\ g.val = NoObject /\ FieldDone(g)
    BY <1>3, <2>1, <2>2
  <2>4. /\ layout[frame.at] # Text /\ word # Null
        /\ \E p \in Made : /\ heap[p].under = Top(frame.obj, frame.at) /\ heap[p].from = word
                           /\ heap[p].type # layout[frame.at]
    BY <1>6, <1>8, <2>1
  <2>5. QED
    BY <1>1, <2>3, <2>4, LeafTraced
<1>9. QED
  BY <1>4, <1>5, <1>7, <1>8

\* The read behind a pointer failed: its struct is made, and nothing below it.
LEMMA FailedChaseTraced ==
  ASSUME IInv, IInv', Graph, NEW S \in Stamps, Traced(S), Chase, mem[word] = Unreadable
  PROVE  \E T \in Stamps : Traced(T)'
<1> DEFINE n == Len(stack)
<1>1. /\ TypeOK /\ TypeOK' /\ AtField /\ Busy /\ Chain /\ n \in Nat \ {0} /\ n \in 1 .. n
      /\ \A j \in 1 .. n : stack[j].at \in Nat \ {0} /\ stack[j].obj \in Objects
  <2>1. TypeOK /\ TypeOK' /\ AtField /\ Busy /\ Chain
    BY DEF Chase, AtPointer, AtField, IInv, Graph
  <2>2. stack \in Seq(Frames(Len(heap))) /\ n \in Nat \ {0}
    BY <2>1, FrameType DEF TypeOK
  <2>3. \A j \in 1 .. n : stack[j] \in Frames(Len(heap))
    BY <2>2
  <2>4. QED
    BY <2>1, <2>2, <2>3 DEF Frames, Objects
<1>2. PICK o \in Objects, k \in Slots(frame.obj) : o = frame.obj /\ k = frame.at
  BY <1>1, CurrentSlot
<1>3. k \in Slots(o) /\ layout = LayoutOf(o) /\ k \in Nat \ {0} /\ o \in Nat /\ Len(heap) \in Nat
  <2>1. k \in Slots(o) /\ layout = LayoutOf(o)
    BY <1>1, <1>2, CurrentSlot DEF LayoutOf
  <2>2. QED
    BY <1>1, <2>1, SlotType
<1>4. PICK v \in Nat : v = Len(heap) + 1
  BY <1>3
<1>5. /\ Len(heap') = v /\ layout[k] \in Types
      /\ \A p \in Objects :
           /\ heap'[p].type = heap[p].type /\ heap'[p].under = heap[p].under
           /\ heap'[p].from = heap[p].from /\ heap'[p].loaded = heap[p].loaded
           /\ DOMAIN heap'[p].fields = Slots(p)
           /\ \A i \in Slots(p) : ~(p = o /\ i = k) => heap'[p].fields[i] = Getter(p, i)
      /\ heap'[o].fields[k].val = v /\ heap'[o].fields[k].addr = word
      /\ heap'[o].fields[k].err = "read"
      /\ heap'[v].under = stack[1].at /\ ~heap'[v].loaded
      /\ stack' = [stack EXCEPT ![Len(stack)].at = @ + 1]
  BY <1>2, <1>4, ChaseHeap
<1>6. Objects' = 1 .. v /\ Objects = 1 .. v - 1 /\ v \notin Objects /\ v # NoObject
  BY <1>3, <1>4, <1>5 DEF Objects, NoObject
<1>7. Unread
  BY <1>5, <1>6 DEF Unread
<1>8. Grown(o, k)
  <2>1. mem' = mem /\ writes' = writes
    BY DEF Chase, target
  <2>2. QED
    BY <1>3, <1>4, <1>5, <2>1 DEF Grown
<1>9. /\ Len(stack') = n
      /\ \A j \in 1 .. n : /\ stack'[j].obj = stack[j].obj
                           /\ stack'[j].at = IF j = n THEN frame.at + 1 ELSE stack[j].at
  BY <1>1, <1>5, NextSlot
<1>10. Passing(o, k)
  BY <1>1, <1>2, <1>3, <1>9 DEF Passing, frame
<1>11. PICK T : T = Stamped(S, o, k + 1, Len(heap'))
  OBVIOUS
<1>12. T[o][k] = Len(heap) /\ T[o][k + 1] = v
  <2>1. \A p \in Nat : \A i \in Nat : T[p][i] = IF p = o /\ i = k + 1 THEN v ELSE S[p][i]
    BY <1>5, <1>11, StampedFacts
  <2>2. S[o][k] = Len(heap)
    BY <1>1, <1>2 DEF Traced
  <2>3. QED
    BY <1>3, <2>1, <2>2
<1>13. /\ Getter(o, k)'.val = v /\ Getter(o, k)'.addr = word /\ Getter(o, k)'.err = "read"
       /\ word # Null /\ LayoutOf(o)'[k] # Text
  <2>1. word # Null /\ layout[k] # Text
    BY <1>2 DEF Chase, AtPointer
  <2>2. LayoutOf(o)' = LayoutOf(o)
    BY <1>5 DEF LayoutOf
  <2>3. QED
    BY <1>3, <1>5, <2>1, <2>2 DEF Getter
<1>14. Decoded(T, o, k)'
  BY <1>3, <1>4, <1>6, <1>12, <1>13 DEF Decoded
<1>15. Followed(T, o, k)'
  <2>1. LastOf(T, v)' = v
    BY <1>5 DEF LastOf
  <2>2. QED
    BY <1>4, <1>5, <1>12, <1>13, <2>1 DEF Followed
<1>16. \A j \in 1 .. Len(stack') : stack'[j].obj # Getter(o, k)'.val
  BY <1>1, <1>6, <1>9, <1>13
<1>17. QED
  BY <1>1, <1>7, <1>8, <1>10, <1>11, <1>14, <1>15, <1>16, PassingTraced

\* A chase goes below its pointer: the new struct is numbered, nothing is left.
LEMMA DescendTraced ==
  ASSUME IInv, Graph, NEW S \in Stamps, Traced(S), Chase, mem[word] # Unreadable
  PROVE  \E T \in Stamps : Traced(T)'
<1> DEFINE n == Len(stack)
<1>1. /\ TypeOK /\ AtField /\ Busy /\ Chain /\ n \in Nat \ {0} /\ n \in 1 .. n /\ 1 \in 1 .. n
      /\ \A j \in 1 .. n : stack[j].at \in Nat \ {0} /\ stack[j].obj \in Objects
      /\ \A j \in 1 .. n - 1 : j \in 1 .. n /\ j + 1 \in 1 .. n /\ j # n
  <2>1. TypeOK /\ AtField /\ Busy /\ Chain
    BY DEF Chase, AtPointer, AtField, IInv, Graph
  <2>2. stack \in Seq(Frames(Len(heap))) /\ n \in Nat \ {0}
    BY <2>1, FrameType DEF TypeOK
  <2>3. \A j \in 1 .. n : stack[j] \in Frames(Len(heap))
    BY <2>2
  <2>4. QED
    BY <2>1, <2>2, <2>3 DEF Frames, Objects
<1>2. PICK o \in Objects, k \in Slots(frame.obj) : o = frame.obj /\ k = frame.at
  BY <1>1, CurrentSlot
<1>3. k \in Slots(o) /\ layout = LayoutOf(o) /\ k \in Nat \ {0} /\ o \in Nat /\ Len(heap) \in Nat
  <2>1. k \in Slots(o) /\ layout = LayoutOf(o)
    BY <1>1, <1>2, CurrentSlot DEF LayoutOf
  <2>2. o \in Nat /\ Len(heap) \in Nat
    BY <1>1, SlotType
  <2>3. k \in Nat \ {0}
    BY <1>1, <1>2 DEF frame
  <2>4. QED
    BY <2>1, <2>2, <2>3
<1>4. PICK v \in Nat : v = Len(heap) + 1
  BY <1>3
<1>5. /\ Len(heap') = v /\ layout[k] \in Types
      /\ \A p \in Objects :
           /\ heap'[p].type = heap[p].type /\ heap'[p].under = heap[p].under
           /\ heap'[p].from = heap[p].from /\ heap'[p].loaded = heap[p].loaded
           /\ DOMAIN heap'[p].fields = Slots(p)
           /\ \A i \in Slots(p) : ~(p = o /\ i = k) => heap'[p].fields[i] = Getter(p, i)
      /\ heap'[o].fields[k].val = v /\ heap'[o].fields[k].addr = word
      /\ heap'[v].under = stack[1].at /\ heap'[v].type = layout[k]
      /\ DOMAIN heap'[v].fields \subseteq Nat \ {0}
      /\ stack' = Append(stack, NewFrame(v, word))
  BY <1>2, <1>4, ChaseHeap
<1>6. Objects' = 1 .. v /\ Objects = 1 .. v - 1 /\ v \notin Objects /\ v # NoObject
      /\ Objects \subseteq Nat /\ \A p \in Objects' : p \in Objects \/ p = v
  BY <1>3, <1>4, <1>5 DEF Objects, NoObject
<1>7. Grown(o, k)
  <2>1. mem' = mem /\ writes' = writes
    BY DEF Chase, target
  <2>2. QED
    BY <1>3, <1>4, <1>5, <2>1 DEF Grown
<1>8. /\ Len(stack') = n + 1
      /\ \A j \in 1 .. n : stack'[j].obj = stack[j].obj /\ stack'[j].at = stack[j].at
      /\ stack'[n + 1].obj = v /\ stack'[n + 1].at = 1
  <2>1. \A j \in 1 .. n : stack'[j] = stack[j]
    BY <1>1, <1>5 DEF TypeOK
  <2>2. Len(stack') = n + 1 /\ stack'[n + 1] = NewFrame(v, word)
    BY <1>1, <1>5 DEF TypeOK
  <2>3. QED
    BY <2>1, <2>2 DEF NewFrame
<1>9. /\ \A p \in Objects : \A i \in Nat : Pending(p, i) => Pending(p, i)' \/ (p = o /\ i = k)
      /\ \A i \in Nat \ {0} : Pending(v, i)'
  BY <1>2, <1>4, ChaseFrames
<1>10. PICK T : T = Stamped(S, v, 1, v)
  OBVIOUS
<1>11. T \in Stamps /\ \A p \in Nat : \A i \in Nat : T[p][i] = IF p = v /\ i = 1 THEN v ELSE S[p][i]
  BY <1>4, <1>10, StampedFacts
<1>12. \A p \in Objects : \A i \in Nat : T[p][i] = S[p][i] /\ S[p][i] \in Nat
  <2>1. ASSUME NEW p \in Objects, NEW i \in Nat PROVE T[p][i] = S[p][i] /\ S[p][i] \in Nat
    <3>1. p \in Nat /\ p # v
      BY <1>6
    <3>2. T[p][i] = S[p][i]
      BY <1>11, <3>1
    <3>3. S[p][i] \in Nat
      BY <3>1 DEF Stamps
    <3>4. QED
      BY <3>2, <3>3
  <2>2. QED
    BY <2>1
<1>13. Agree(S, T, o, k + 1)
  BY <1>12 DEF Agree
<1>14. \A p \in Objects : \A i \in Slots(p) : i \in Nat \ {0}
  <2>1. ASSUME NEW p \in Objects, NEW i \in Slots(p) PROVE i \in Nat \ {0}
    <3>1. Slots(p) = 1 .. Len(Layout[heap[p].type])
      BY <1>1, SlotType
    <3>2. QED
      BY <3>1
  <2>2. QED
    BY <2>1
<1>15. T[o][k] = Len(heap)
  BY <1>1, <1>2, <1>3, <1>12 DEF Traced
<1>16. o = stack[n].obj /\ k = stack[n].at
  BY <1>2 DEF frame
<1>17. Numbered(T)'
  <2>1. ASSUME NEW p \in Objects, heap'[p].loaded PROVE T[p][1] = p
    <3>1. S[p][1] = p
      BY <1>5, <2>1 DEF Traced, Numbered
    <3>2. QED
      BY <1>12, <3>1
  <2>2. T[v][1] = v
    BY <1>11
  <2>3. QED
    BY <1>6, <2>1, <2>2 DEF Numbered
<1>18. ~Came(o, k + 1) /\ ~Left(o, k) /\ ~Left(o, k + 1)
  <2>1. Pending(o, k + 1)
    <3>1. stack[n].obj = o /\ k + 1 > stack[n].at
      BY <1>3, <1>16
    <3>2. QED
      BY <1>1, <3>1 DEF Pending
  <2>2. ASSUME NEW i \in Nat, i >= k, Left(o, i) PROVE FALSE
    <3>1. i < stack[n].at
      BY <1>1, <1>16, <2>2 DEF Left
    <3>2. QED
      BY <1>3, <1>16, <2>2, <3>1
  <2>3. k \in Nat /\ k >= k /\ k + 1 \in Nat /\ k + 1 >= k
    BY <1>3
  <2>4. ~Left(o, k) /\ ~Left(o, k + 1)
    BY <2>2, <2>3
  <2>5. QED
    BY <2>1, <2>4 DEF Came
<1>19. /\ Getter(o, k)'.val = v /\ Getter(o, k)'.addr = word
       /\ word # Null /\ LayoutOf(o)'[k] # Text
  <2>1. word # Null /\ layout[k] # Text
    BY <1>2 DEF Chase, AtPointer
  <2>2. LayoutOf(o)' = LayoutOf(o)
    BY <1>5 DEF LayoutOf
  <2>3. QED
    BY <1>3, <1>5, <2>1, <2>2 DEF Getter
<1>20. Decoded(T, o, k)'
  BY <1>3, <1>4, <1>6, <1>15, <1>19 DEF Decoded
<1>21. ASSUME NEW p \in Objects', NEW i \in Slots(p)', Came(p, i)' PROVE Decoded(T, p, i)'
  <2>1. p \in Objects
    <3>1. CASE p = v
      <4>1. i \in Nat \ {0}
        BY <1>5, <3>1 DEF Slots
      <4>2. QED
        BY <1>9, <1>21, <3>1, <4>1 DEF Came
    <3>2. QED
      BY <1>6, <3>1
  <2>2. i \in Slots(p) /\ i \in Nat
    <3>1. i \in Slots(p)
      BY <1>1, <1>7, <2>1, GrownFacts
    <3>2. QED
      BY <1>14, <2>1, <3>1
  <2>3. CASE p = o /\ i = k
    BY <1>20, <2>3
  <2>4. CASE ~(p = o /\ i = k)
    <3>1. Came(p, i)
      BY <1>5, <1>9, <1>21, <2>1, <2>2, <2>4 DEF Came
    <3>2. Decoded(S, p, i) /\ ~(p = o /\ i = k + 1)
      BY <1>18, <2>1, <2>2, <3>1 DEF Traced
    <3>3. QED
      BY <1>1, <1>7, <1>13, <2>1, <2>2, <2>4, <3>2, DecodedKept
  <2>5. QED
    BY <2>3, <2>4
<1>22. ASSUME NEW p \in Objects', NEW i \in Slots(p)', Left(p, i)'
       PROVE  /\ Followed(T, p, i)'
              /\ Getter(p, i)'.val = T[p][i] + 1 =>
                   \A j \in 1 .. n + 1 : stack'[j].obj # Getter(p, i)'.val
  <2>1. p \in Objects
    <3>1. CASE p = v
      <4>1. i \in Nat \ {0}
        BY <1>5, <3>1 DEF Slots
      <4>2. i < 1
        BY <1>1, <1>8, <1>22, <3>1 DEF Left
      <4>3. QED
        BY <4>1, <4>2
    <3>2. QED
      BY <1>6, <3>1
  <2>2. i \in Slots(p) /\ i \in Nat
    <3>1. i \in Slots(p)
      BY <1>1, <1>7, <2>1, GrownFacts
    <3>2. QED
      BY <1>14, <2>1, <3>1
  <2>3. Left(p, i)
    <3>1. \A j \in 1 .. n : j \in 1 .. n + 1
      BY <1>1
    <3>2. QED
      BY <1>5, <1>8, <1>22, <2>1, <3>1 DEF Left
  <2>4. ~(p = o /\ i = k) /\ ~(p = o /\ i = k + 1)
    BY <1>18, <2>3
  <2>5. /\ Followed(S, p, i)
        /\ Getter(p, i).val = S[p][i] + 1 => \A j \in 1 .. n : stack[j].obj # Getter(p, i).val
    BY <2>1, <2>2, <2>3 DEF Traced
  <2>6. Getter(p, i).val = S[p][i] + 1 => Getter(p, i).val # o
    BY <1>1, <1>16, <2>5
  <2>7. Followed(T, p, i)'
    <3>1. S[p][i] \in Nat
      BY <1>12, <2>1, <2>2
    <3>2. QED
      BY <1>1, <1>3, <1>7, <1>13, <2>1, <2>2, <2>4, <2>5, <2>6, <3>1, FollowedKept
  <2>8. Getter(p, i)' = Getter(p, i) /\ T[p][i] = S[p][i] /\ Getter(p, i).val # v
    <3>1. Getter(p, i)' = Getter(p, i)
      BY <1>1, <1>7, <2>1, <2>2, <2>4, GrownFacts
    <3>2. Getter(p, i).val \in 0 .. Len(heap)
      BY <1>1, <2>1, <2>2, SlotType DEF Getters
    <3>3. QED
      BY <1>3, <1>4, <1>12, <2>1, <2>2, <3>1, <3>2
  <2>9. ASSUME Getter(p, i).val = S[p][i] + 1, NEW j \in 1 .. n + 1
        PROVE  stack'[j].obj # Getter(p, i).val
    <3>1. CASE j = n + 1
      BY <1>8, <2>8, <3>1
    <3>2. CASE j # n + 1
      <4>1. j \in 1 .. n
        BY <1>1, <3>2
      <4>2. QED
        BY <1>8, <2>5, <2>9, <4>1
    <3>3. QED
      BY <3>1, <3>2
  <2>10. QED
    BY <2>7, <2>8, <2>9
<1>23. Busy'
  BY <1>1, <1>8 DEF Busy
<1>24. T[frame.obj'][frame.at'] = Len(heap')
  <2>1. frame' = stack'[n + 1]
    BY <1>8 DEF frame
  <2>2. frame.obj' = v /\ frame.at' = 1
    BY <1>8, <2>1
  <2>3. QED
    BY <1>5, <1>11, <2>2
<1>25. ASSUME NEW j \in 1 .. n
       PROVE  /\ (Getter(stack[j].obj, stack[j].at).val = stack[j + 1].obj)'
              /\ (stack[j + 1].obj = T[stack[j].obj][stack[j].at] + 1)'
  <2>1. CASE j = n
    <3>1. stack'[j].obj = o /\ stack'[j].at = k /\ stack'[j + 1].obj = v
      BY <1>8, <1>16, <2>1
    <3>2. (Getter(stack[j].obj, stack[j].at))' = Getter(o, k)'
      BY <3>1 DEF Getter
    <3>3. QED
      BY <1>4, <1>15, <1>19, <3>1, <3>2
  <2>2. CASE j # n
    <3>1. j \in 1 .. n - 1
      BY <1>1, <2>2
    <3>2. /\ Getter(stack[j].obj, stack[j].at).val = stack[j + 1].obj
          /\ stack[j + 1].obj = S[stack[j].obj][stack[j].at] + 1
      BY <1>1, <3>1 DEF Traced
    <3>3. PICK p \in Objects, i \in Slots(stack[j].obj) : p = stack[j].obj /\ i = stack[j].at
      BY <1>1, <3>1 DEF Chain
    <3>4. i \in Slots(p) /\ p # o
      BY <1>1, <1>16, <2>2, <3>3 DEF Chain
    <3>5. Getter(p, i)' = Getter(p, i)
      BY <1>1, <1>7, <3>4, GrownFacts
    <3>6. T[p][i] = S[p][i]
      BY <1>12, <1>14, <3>4
    <3>7. stack'[j].obj = p /\ stack'[j].at = i /\ stack'[j + 1].obj = stack[j + 1].obj
      BY <1>1, <1>8, <3>1, <3>3
    <3>8. (Getter(stack[j].obj, stack[j].at))' = Getter(p, i)'
      BY <3>7 DEF Getter
    <3>9. Getter(p, i).val = stack[j + 1].obj /\ stack[j + 1].obj = S[p][i] + 1
      BY <3>2, <3>3
    <3>10. QED
      BY <3>5, <3>6, <3>7, <3>8, <3>9
  <2>3. QED
    BY <2>1, <2>2
<1>26. ByField(T, stack[1].at)'
  <2>1. stack'[1].at = stack[1].at /\ stack[1].at \in Nat /\ 1 \in Objects
    <3>1. stack[1].obj = 1
      BY <1>1 DEF Chain
    <3>2. QED
      BY <1>1, <1>8, <3>1
  <2>2. ASSUME NEW c \in 1 .. stack[1].at
        PROVE  /\ T[1][c] <= Len(heap')
               /\ \A p \in Made' : heap'[p].under < c <=> p <= T[1][c]
    <3>1. S[1][c] <= Len(heap) /\ \A p \in Made : heap[p].under < c <=> p <= S[1][c]
      BY <1>1 DEF Traced, ByField
    <3>2. c \in Nat /\ T[1][c] = S[1][c] /\ S[1][c] \in Nat
      BY <1>12, <2>1
    <3>3. ASSUME NEW p \in Made' PROVE heap'[p].under < c <=> p <= T[1][c]
      <4>1. CASE p = v
        BY <1>3, <1>4, <1>5, <2>1, <3>1, <3>2, <4>1
      <4>2. CASE p # v
        <5>1. p \in Made /\ p \in Objects
          BY <1>3, <1>4, <1>5, <3>3, <4>2 DEF Made, Objects
        <5>2. heap'[p].under = heap[p].under
          BY <1>5, <5>1
        <5>3. QED
          BY <3>1, <3>2, <5>1, <5>2
      <4>3. QED
        BY <4>1, <4>2
    <3>4. QED
      BY <1>3, <1>4, <1>5, <3>1, <3>2, <3>3
  <2>3. QED
    BY <2>1, <2>2 DEF ByField
<1>27. ASSUME NEW j \in 1 .. n + 1 PROVE stack'[j].at <= Len(LayoutOf(stack[j].obj)') + 1
  <2>1. CASE j = n + 1
    <3>1. LayoutOf(stack[j].obj)' = Layout[layout[k]]
      BY <1>5, <1>8, <2>1 DEF LayoutOf
    <3>2. Len(Layout[layout[k]]) \in Nat
      BY <1>5, TypesAssumption
    <3>3. QED
      BY <1>8, <2>1, <3>1, <3>2
  <2>2. CASE j # n + 1
    <3>1. j \in 1 .. n
      BY <1>1, <2>2
    <3>2. PICK p \in Objects : p = stack[j].obj
      BY <1>1, <3>1
    <3>3. LayoutOf(stack[j].obj)' = LayoutOf(p)
      BY <1>5, <1>8, <3>1, <3>2 DEF LayoutOf
    <3>4. stack[j].at <= Len(LayoutOf(p)) + 1
      BY <1>1, <3>1, <3>2 DEF Traced, InLayout
    <3>5. QED
      BY <1>8, <3>1, <3>3, <3>4
  <2>3. QED
    BY <2>1, <2>2
<1>28. InLayout'
  BY <1>8, <1>27 DEF InLayout
<1>29. \A j \in 1 .. Len(stack') - 1 : j \in 1 .. n
  BY <1>1, <1>8
<1>30. Traced(T)'
  BY <1>8, <1>17, <1>21, <1>22, <1>23, <1>24, <1>25, <1>26, <1>28, <1>29 DEF Traced
<1>31. QED
  BY <1>11, <1>30

\* Back in the struct that holds the pointer, which is left now.
LEMMA InnerReturnTraced ==
  ASSUME IInv, IInv', Graph, NEW S \in Stamps, Traced(S), Return, Len(stack) # 1
  PROVE  \E T \in Stamps : Traced(T)'
<1> DEFINE n == Len(stack)
           m == n - 1
<1>1. /\ TypeOK /\ TypeOK' /\ Busy /\ Chain /\ n \in Nat \ {0} /\ n \in 1 .. n
      /\ \A j \in 1 .. n : stack[j].at \in Nat \ {0} /\ stack[j].obj \in Objects
  <2>1. TypeOK /\ TypeOK' /\ Busy /\ Chain
    BY DEF Return, IInv, Graph
  <2>2. stack \in Seq(Frames(Len(heap))) /\ n \in Nat \ {0}
    BY <2>1, FrameType DEF TypeOK
  <2>3. \A j \in 1 .. n : stack[j] \in Frames(Len(heap))
    BY <2>2
  <2>4. QED
    BY <2>1, <2>2, <2>3 DEF Frames, Objects
<1>2. /\ m \in Nat \ {0} /\ m \in 1 .. n - 1 /\ m \in 1 .. n /\ m # n /\ m + 1 = n
      /\ \A j \in 1 .. m : j \in 1 .. n /\ j # n
      /\ stack[m].at \in Slots(stack[m].obj)
      /\ Getter(stack[m].obj, stack[m].at).val # NoObject
      /\ GetterSet(stack[m].obj, stack[m].at, [Getter(stack[m].obj, stack[m].at) EXCEPT !.err = "nil"])
      /\ Len(stack') = m
      /\ \A j \in 1 .. m : /\ stack'[j].obj = stack[j].obj
                           /\ stack'[j].at = IF j = m THEN stack[j].at + 1 ELSE stack[j].at
      /\ mem' = mem /\ writes' = writes
  <2>1. \A i \in Nat \ {0} : i # 1 => i - 1 \in Nat \ {0} /\ i - 1 \in 1 .. i - 1 /\ i - 1 \in 1 .. i
                                      /\ i - 1 # i /\ (i - 1) + 1 = i
                                      /\ \A j \in 1 .. i - 1 : j \in 1 .. i /\ j # i
    OBVIOUS
  <2>2. /\ m \in Nat \ {0} /\ m \in 1 .. n - 1 /\ m \in 1 .. n /\ m # n /\ m + 1 = n
        /\ \A j \in 1 .. m : j \in 1 .. n /\ j # n
    BY <1>1, <2>1
  <2>3. QED
    BY <2>2, ReturnShape
<1> HIDE DEF m
<1>3. PICK o \in Objects, k \in Slots(stack[m].obj) : o = stack[m].obj /\ k = stack[m].at
  BY <1>1, <1>2
<1>4. PICK v \in Objects, e \in Nat \ {0} : v = stack[n].obj /\ e = stack[n].at
  BY <1>1
<1>5. /\ k \in Slots(o) /\ k \in Nat \ {0} /\ o \in Nat /\ v \in Nat /\ Len(heap) \in Nat
      /\ v # o /\ heap[v].loaded /\ heap[o].loaded
      /\ \A j \in 1 .. m : stack[j].obj # v
      /\ \A j \in 1 .. n : stack[j].obj = o => j = m
  <2>1. k \in Slots(o) /\ k \in Nat \ {0}
    BY <1>1, <1>2, <1>3
  <2>2. o \in Nat /\ v \in Nat /\ Len(heap) \in Nat
    BY <1>1, SlotType
  <2>3. \A i, j \in 1 .. n : stack[i].obj = stack[j].obj => i = j
    BY <1>1 DEF Chain
  <2>4. \A j \in 1 .. m : j \in 1 .. n /\ j # n
    BY <1>2
  <2>5. \A j \in 1 .. m : stack[j].obj # v
    BY <1>1, <1>4, <2>3, <2>4
  <2>6. v # o
    <3>1. m \in 1 .. m
      BY <1>2
    <3>2. QED
      BY <1>3, <2>5, <3>1
  <2>7. heap[v].loaded /\ heap[o].loaded
    BY <1>1, <1>2, <1>3, <1>4 DEF Chain
  <2>8. \A j \in 1 .. n : stack[j].obj = o => j = m
    BY <1>2, <1>3, <2>3
  <2>9. QED
    BY <2>1, <2>2, <2>5, <2>6, <2>7, <2>8
<1>6. e = Len(LayoutOf(v)) + 1 /\ S[v][e] = Len(heap)
  <2>1. e <= Len(LayoutOf(v)) + 1 /\ S[v][e] = Len(heap)
    BY <1>1, <1>4 DEF Traced, InLayout, frame
  <2>2. e > Len(LayoutOf(v))
    BY <1>4 DEF Return, frame, object, layout, LayoutOf
  <2>3. Len(LayoutOf(v)) \in Nat
    <3>1. heap[v].type \in Types
      BY <1>1, SlotType
    <3>2. QED
      BY <3>1, TypesAssumption DEF LayoutOf
  <2>4. QED
    BY <2>1, <2>2, <2>3
<1>7. Getter(o, k).val = v /\ v = S[o][k] + 1
  <2>1. Getter(stack[m].obj, stack[m].at).val = stack[m + 1].obj
        /\ stack[m + 1].obj = S[stack[m].obj][stack[m].at] + 1
    BY <1>1, <1>2 DEF Traced
  <2>2. QED
    BY <1>2, <1>3, <1>4, <2>1
<1>8. PICK g : g = [Getter(o, k) EXCEPT !.err = "nil"]
  OBVIOUS
<1>9. GetterSet(o, k, g)
  BY <1>2, <1>3, <1>8
<1>10. g.val = v /\ g.addr = Getter(o, k).addr /\ g.err = "nil"
  <2>1. Getter(o, k) \in Getters(Len(heap))
    BY <1>1, <1>5, SlotType
  <2>2. QED
    BY <1>7, <1>8, <2>1 DEF Getters
<1>11. /\ Grown(o, k) /\ Unread /\ Getter(o, k)' = g /\ Len(heap') = Len(heap)
  <2>1. Len(heap') = Len(heap) /\ Getter(o, k)' = g /\ Objects' = Objects
    BY <1>5, <1>9, GetterSetFacts
  <2>2. Unread
    BY <2>1 DEF Unread
  <2>3. Grown(o, k)
    <3>1. mem' = mem /\ writes' = writes
      BY <1>2
    <3>2. QED
      BY <1>5, <1>9, <2>1, <3>1 DEF Grown, GetterSet, SameStructs, Objects, Slots, Getter
  <2>4. QED
    BY <2>1, <2>2, <2>3
<1>12. Passing(o, k)
  <2>0. stack[n].at > Len(LayoutOf(stack[n].obj))
    BY DEF Return, frame, object, layout, LayoutOf
  <2>1. ASSUME NEW j \in 1 .. n, j > m PROVE stack[j].at > Len(LayoutOf(stack[j].obj))
    <3>1. j = n
      BY <1>1, <1>2, <2>1
    <3>2. QED
      BY <1>4, <2>0, <3>1
  <2>2. m <= n /\ n \in Nat /\ Len(stack') = m
    BY <1>1, <1>2
  <2>3. \A j \in 1 .. m : /\ stack'[j].obj = stack[j].obj
                          /\ stack'[j].at = IF j = m THEN stack[j].at + 1 ELSE stack[j].at
    BY <1>2
  <2>4. QED
    BY <1>1, <1>2, <1>3, <1>5, <2>1, <2>2, <2>3 DEF Passing
<1>13. PICK T : T = Stamped(S, o, k + 1, Len(heap'))
  OBVIOUS
<1>14. /\ T[o][k] = S[o][k] /\ T[o][k + 1] = Len(heap) /\ T[v][e] = Len(heap)
       /\ S[o][k] \in Nat
  <2>1. PICK c \in Nat : c = Len(heap)
    BY <1>5
  <2>2. \A p \in Nat : \A i \in Nat : T[p][i] = IF p = o /\ i = k + 1 THEN c ELSE S[p][i]
    BY <1>11, <1>13, <2>1, StampedFacts
  <2>3. k # k + 1 /\ k \in Nat /\ k + 1 \in Nat
    BY <1>5
  <2>4. S[o][k] \in Nat
    BY <1>5, <2>3 DEF Stamps
  <2>5. T[v][e] = S[v][e]
    BY <1>5, <2>2
  <2>6. QED
    BY <1>5, <1>6, <2>1, <2>2, <2>3, <2>4, <2>5
<1>15. Decoded(S, o, k)
  <2>1. ~Pending(o, k)
    <3>1. ASSUME NEW j \in 1 .. n, stack[j].obj = o PROVE ~(k > stack[j].at) /\ j # n
      <4>1. j = m
        BY <1>5, <3>1
      <4>2. QED
        BY <1>2, <1>3, <1>5, <4>1
    <3>2. QED
      BY <3>1 DEF Pending
  <2>2. QED
    BY <1>5, <2>1 DEF Came, Traced
<1>16. v # NoObject /\ LayoutOf(o)' = LayoutOf(o) /\ LayoutOf(o)[k] # Text /\ g.addr # Null
  <2>1. v # NoObject
    BY <1>1, SlotType DEF NoObject
  <2>2. LayoutOf(o)' = LayoutOf(o)
    BY <1>9, GetterSetFacts DEF LayoutOf
  <2>3. QED
    BY <1>7, <1>10, <1>15, <2>1, <2>2 DEF Decoded
<1>17. Decoded(T, o, k)'
  BY <1>7, <1>10, <1>11, <1>14, <1>16 DEF Decoded
<1>18. Followed(T, o, k)'
  <2>1. heap'[v].loaded /\ LayoutOf(v)' = LayoutOf(v)
    BY <1>5, <1>9, GetterSetFacts DEF LayoutOf
  <2>2. LastOf(T, v)' = Len(heap)
    BY <1>6, <1>14, <2>1 DEF LastOf
  <2>3. QED
    BY <1>7, <1>10, <1>11, <1>14, <1>16, <2>1, <2>2 DEF Followed
<1>19. \A j \in 1 .. Len(stack') : stack'[j].obj # Getter(o, k)'.val
  BY <1>2, <1>5, <1>10, <1>11
<1>20. QED
  BY <1>1, <1>11, <1>12, <1>13, <1>17, <1>18, <1>19, PassingTraced

\* Back at the client: all that was come to is left.
LEMMA LastReturnTraced ==
  ASSUME IInv, Graph, NEW S \in Stamps, Traced(S), Return, Len(stack) = 1
  PROVE  Traced(S)'
<1>1. /\ TypeOK /\ Busy /\ stack[1].obj = 1 /\ stack[1].at \in Nat
      /\ heap' = heap /\ stack' = << >> /\ mem' = mem /\ writes' = writes
  <2>1. TypeOK /\ Busy /\ Chain
    BY DEF Return, IInv, Graph
  <2>2. frame = stack[1] /\ frame \in Frames(Len(heap))
    BY <2>1, FrameType DEF frame
  <2>3. QED
    BY <2>1, <2>2 DEF Return, target, Frames, Chain
<1>2. stack[1].at > Len(LayoutOf(1))
  BY <1>1 DEF Return, frame, object, layout, LayoutOf
<1>3. /\ Objects' = Objects /\ Made' = Made /\ ~Busy'
      /\ \A p : /\ LayoutOf(p)' = LayoutOf(p) /\ Slots(p)' = Slots(p)
                /\ \A i : Getter(p, i)' = Getter(p, i) /\ Top(p, i)' = Top(p, i)
  BY <1>1 DEF Objects, Made, Busy, LayoutOf, Slots, Getter, Top
<1>4. \A p, i : /\ Decoded(S, p, i) => Decoded(S, p, i)'
                /\ Followed(S, p, i) => Followed(S, p, i)'
  BY <1>1, <1>3 DEF Decoded, Followed, LastOf
<1>5. ASSUME NEW p \in Objects, NEW i \in Slots(p), heap[p].loaded
      PROVE  Came(p, i) /\ Left(p, i)
  <2>1. p = 1 => i < stack[1].at
    <3>1. ASSUME p = 1 PROVE i < stack[1].at
      <4>1. i \in 1 .. Len(LayoutOf(1)) /\ Len(LayoutOf(1)) \in Nat
        <5>1. Slots(p) = 1 .. Len(LayoutOf(1)) /\ heap[p].type \in Types
          BY <1>1, <3>1, SlotType DEF LayoutOf
        <5>2. QED
          BY <3>1, <5>1, TypesAssumption DEF LayoutOf
      <4>2. QED
        BY <1>1, <1>2, <4>1
    <3>2. QED
      BY <3>1
  <2>2. i \in Nat
    <3>1. Slots(p) = 1 .. Len(LayoutOf(p))
      BY <1>1, SlotType DEF LayoutOf
    <3>2. QED
      BY <3>1
  <2>3. \A j \in 1 .. Len(stack) : j = 1
    OBVIOUS
  <2>4. ~Pending(p, i)
    BY <1>1, <2>1, <2>2, <2>3 DEF Pending
  <2>5. Left(p, i)
    BY <1>1, <1>5, <2>1, <2>3 DEF Left
  <2>6. QED
    BY <1>5, <2>4, <2>5 DEF Came
<1>6. ASSUME NEW p \in Objects', NEW i \in Slots(p)', heap'[p].loaded
      PROVE  Decoded(S, p, i)' /\ Followed(S, p, i)'
  <2>1. p \in Objects /\ i \in Slots(p) /\ heap[p].loaded
    BY <1>1, <1>3, <1>6
  <2>2. QED
    BY <1>4, <1>5, <2>1 DEF Traced
<1>7. ByField(S, Len(LayoutOf(1)) + 1)'
  <2>1. ByField(S, stack[1].at)
    BY <1>1 DEF Traced
  <2>2. Len(LayoutOf(1)) \in Nat
    <3>1. heap[1].type \in Types
      BY <1>1, SlotType DEF TypeOK, Objects
    <3>2. QED
      BY <3>1, TypesAssumption DEF LayoutOf
  <2>3. \A c \in 1 .. Len(LayoutOf(1)) + 1 : c \in 1 .. stack[1].at
    BY <1>1, <1>2, <2>2
  <2>4. ByField(S, Len(LayoutOf(1)) + 1)
    BY <2>1, <2>3 DEF ByField
  <2>5. QED
    BY <1>1, <1>3, <2>4 DEF ByField
<1>8. Numbered(S)'
  BY <1>1, <1>3 DEF Traced, Numbered
<1>9. \A j \in 1 .. Len(stack') : FALSE
  BY <1>1
<1>10. QED
  BY <1>3, <1>6, <1>7, <1>8, <1>9 DEF Traced, Came, Left

\* A write changes nothing that is traced, for a second Unmarshal of unchanged memory.
LEMMA WriteTraced ==
  ASSUME TypeOK, NEW S \in Stamps, Traced(S), NEW a \in Addrs, NEW c \in Contents, Write(a, c)
  PROVE  Traced(S)'
<1>1. heap' = heap /\ stack' = stack /\ writes' # 0
  BY DEF Write, TypeOK
<1>2. /\ Objects' = Objects /\ Made' = Made /\ Busy' = Busy /\ frame' = frame
      /\ \A p : /\ LayoutOf(p)' = LayoutOf(p) /\ Slots(p)' = Slots(p)
                /\ \A i : /\ Getter(p, i)' = Getter(p, i) /\ Top(p, i)' = Top(p, i)
                          /\ Came(p, i)' = Came(p, i) /\ Left(p, i)' = Left(p, i)
  BY <1>1 DEF Objects, Made, Busy, frame, LayoutOf, Slots, Getter, Top, Came, Left, Pending
<1>3. \A p, i : /\ Decoded(S, p, i) => Decoded(S, p, i)'
                /\ Followed(S, p, i) => Followed(S, p, i)'
  BY <1>1, <1>2 DEF Decoded, Followed, LastOf
<1>4. \A d : ByField(S, d) => ByField(S, d)'
  BY <1>1, <1>2 DEF ByField
<1>5. Numbered(S)' /\ (InLayout => InLayout')
  BY <1>1, <1>2 DEF Traced, Numbered, InLayout
<1>6. QED
  BY <1>1, <1>2, <1>3, <1>4, <1>5 DEF Traced

\* The first Unmarshal starts in the client's struct.
LEMMA FirstTraced ==
  ASSUME IInv, Calm, NEW a \in Addrs, Unmarshal(a), calls = << >>, mem[a] # Unreadable
  PROVE  \E S \in Stamps : Traced(S)'
<1>1. PICK S : S = [p \in Nat |-> [i \in Nat |-> 1]]
  OBVIOUS
<1>2. S \in Stamps /\ S[1][1] = 1
  BY <1>1 DEF Stamps
<1>3. Len(heap) = 1 /\ WellFormed(heap, 1) /\ 1 \in 1 .. Len(heap)
  <2>1. heap = <<NewObject(RootType, 0)>>
    BY DEF Calm
  <2>2. Len(heap) = 1
    BY <2>1
  <2>3. QED
    BY <2>2 DEF IInv, TypeOK, WellFormed, Objects
<1>4. heap' = ReadInto(heap, 1, a)
  BY DEF Unmarshal, ReadInto
<1>5. Len(heap') = 1 /\ DOMAIN heap'[1].fields = DOMAIN heap[1].fields
      /\ heap'[1].type = heap[1].type
  <2>1. Len(ReadInto(heap, 1, a)) = 1
    BY <1>3, ReadAssigned
  <2>2. \A p \in 1 .. Len(heap) : /\ ReadInto(heap, 1, a)[p].type = heap[p].type
                                 /\ ReadInto(heap, 1, a)[p].fields = heap[p].fields
    <3>1. 1 \in Nat
      OBVIOUS
    <3>2. QED
      BY <1>3, <3>1, ReadSlots
  <2>3. QED
    BY <1>3, <1>4, <2>1, <2>2
<1>6. DOMAIN heap[1].fields = 1 .. Len(Layout[heap[1].type]) /\ heap[1].type \in Types
  BY <1>3, SlotType DEF IInv, Objects, Slots
<1>7. Len(stack') = 1 /\ stack'[1].obj = 1 /\ stack'[1].at = 1 /\ Busy'
  BY DEF Unmarshal, NewFrame, Busy
<1>8. Objects' = {1} /\ Made' = {} /\ \A j \in 1 .. Len(stack') : j = 1
  BY <1>5, <1>7 DEF Objects, Made
<1>9. \A i \in Slots(1)' : ~Came(1, i)' /\ ~Left(1, i)'
  <2>1. ASSUME NEW i \in Slots(1)' PROVE ~Came(1, i)' /\ ~Left(1, i)'
    <3>1. i \in Nat \ {0} /\ 1 \in 1 .. Len(stack')
      BY <1>5, <1>6, <1>7, <2>1 DEF Slots
    <3>2. i > 1 \/ i = 1
      BY <3>1
    <3>3. Pending(1, i)'
      BY <1>7, <3>1, <3>2 DEF Pending
    <3>4. ~Left(1, i)'
      BY <1>7, <3>1 DEF Left
    <3>5. QED
      BY <3>3, <3>4 DEF Came
  <2>2. QED
    BY <2>1
<1>10. Numbered(S)'
  BY <1>2, <1>8 DEF Numbered
<1>11. S[frame.obj'][frame.at'] = Len(heap')
  <2>1. frame' = stack'[1]
    BY <1>7 DEF frame
  <2>2. QED
    BY <1>2, <1>5, <1>7, <2>1
<1>12. ByField(S, stack[1].at)'
  BY <1>2, <1>5, <1>7, <1>8 DEF ByField
<1>13. InLayout'
  <2>1. Len(LayoutOf(1)') \in Nat
    BY <1>5, <1>6, TypesAssumption DEF LayoutOf
  <2>2. LayoutOf(stack[1].obj)' = LayoutOf(1)'
    BY <1>7 DEF LayoutOf
  <2>3. QED
    BY <1>7, <1>8, <2>1, <2>2 DEF InLayout
<1>14. \A j \in 1 .. Len(stack') - 1 : FALSE
  BY <1>7
<1>15. QED
  BY <1>2, <1>7, <1>8, <1>9, <1>10, <1>11, <1>12, <1>13, <1>14 DEF Traced

-----------------------------------------------------------------------------
(***************************************************************************)
(* The second Unmarshal, of unchanged memory into the same struct.  It     *)
(* goes from struct to struct as the first did, in step with its numbers,  *)
(* and what its context holds is what the first one's held there.          *)
(***************************************************************************)
Again == Len(calls) = 2 /\ calls[1] = calls[2] /\ writes = 0 /\ outcome # "error"

\* What the first Unmarshal left and the second does not change.
Settled(S) ==
  /\ Numbered(S)
  /\ \A o \in Objects : \A k \in Slots(o) : heap[o].loaded =>
       Decoded(S, o, k) /\ Followed(S, o, k) /\ Getter(o, k).addr = mem[heap[o].from][k]
  /\ \A p \in Made : heap[p].loaded = (mem[heap[p].from] # Unreadable)
  /\ ByField(S, Len(LayoutOf(1)) + 1)
  /\ Distinct /\ Edges

\* The structs that the first Unmarshal had made below the current field when it came
\* to the current slot.
Seen(S) == {p \in Made : heap[p].under = stack[1].at /\ p <= S[frame.obj][frame.at]}
Remembers(S, context) ==
  /\ \A a \in DOMAIN context : context[a] \in Seen(S) /\ heap[context[a]].from = a
  /\ \A p \in Seen(S) : heap[p].from \in DOMAIN context /\ context[heap[p].from] = p

Synced(S) ==
  /\ stack[1].obj = 1
  /\ \A j \in 1 .. Len(stack) : /\ heap[stack[j].obj].loaded
                                /\ stack[j].words = mem[heap[stack[j].obj].from]
  /\ InLayout
  /\ \A j \in 2 .. Len(stack) : stack[j].obj \in Made /\ heap[stack[j].obj].under = stack[1].at
  /\ \A j \in 1 .. Len(stack) - 1 :
       /\ stack[j].at \in Slots(stack[j].obj)
       /\ Getter(stack[j].obj, stack[j].at).val = stack[j + 1].obj
       /\ stack[j + 1].obj = S[stack[j].obj][stack[j].at] + 1
  /\ Len(stack) # 1 => Remembers(S, visited)

Second(S) == /\ Settled(S)
             /\ Busy => Synced(S)
             /\ Pointers(heap) = Pointers(before)

-----------------------------------------------------------------------------
(***************************************************************************)
(* Lemmas: heaps with the same pointers.                                   *)
(***************************************************************************)
SamePointers(h, r) ==
  /\ Len(r) = Len(h) /\ SameStructs(h, r)
  /\ \A p \in 1 .. Len(h) : \A i \in DOMAIN h[p].fields :
       /\ r[p].fields[i].addr = h[p].fields[i].addr
       /\ r[p].fields[i].val = h[p].fields[i].val
       /\ r[p].fields[i].err = h[p].fields[i].err

LEMMA SameAssigned ==
  ASSUME NEW n \in Nat, NEW h, WellFormed(h, n), NEW o \in 1 .. Len(h),
         NEW k \in DOMAIN h[o].fields, NEW g \in Getters(n),
         g.addr = h[o].fields[k].addr, g.val = h[o].fields[k].val, g.err = h[o].fields[k].err
  PROVE  WellFormed(Assigned(h, o, k, g), n) /\ SamePointers(h, Assigned(h, o, k, g))
<1> DEFINE r == Assigned(h, o, k, g)
<1>1. WellFormed(r, n) /\ Len(r) = Len(h)
  BY FieldAssigned
<1>2. /\ SameStructs(h, r)
      /\ \A p \in 1 .. Len(h) : \A i \in DOMAIN h[p].fields :
           r[p].fields[i] = IF p = o /\ i = k THEN g ELSE h[p].fields[i]
  BY AssignedSlots
<1> HIDE DEF r
<1>3. SamePointers(h, r)
  BY <1>1, <1>2 DEF SamePointers
<1> QED
  BY <1>1, <1>3 DEF r

LEMMA SameRead ==
  ASSUME NEW n \in Nat, NEW h, WellFormed(h, n), NEW o \in 1 .. Len(h), NEW a \in Addrs,
         h[o].from = a, h[o].loaded = (mem[a] # Unreadable)
  PROVE  WellFormed(ReadInto(h, o, a), n) /\ SamePointers(h, ReadInto(h, o, a))
<1> DEFINE r == ReadInto(h, o, a)
<1>1. WellFormed(r, n) /\ Len(r) = Len(h)
  BY ReadAssigned
<1>2. \A p \in 1 .. Len(h) :
        /\ r[p].type = h[p].type /\ r[p].under = h[p].under /\ r[p].fields = h[p].fields
        /\ r[p].from = h[p].from /\ r[p].loaded = h[p].loaded
  BY ReadSlots
<1> HIDE DEF r
<1>3. SamePointers(h, r)
  BY <1>1, <1>2 DEF SamePointers, SameStructs
<1> QED
  BY <1>1, <1>3 DEF r

LEMMA SameTwice ==
  ASSUME NEW h, NEW r, NEW s, SamePointers(h, r), SamePointers(r, s)
  PROVE  SamePointers(h, s)
BY DEF SamePointers, SameStructs

LEMMA PointersKept ==
  ASSUME NEW n \in Nat, NEW h, NEW r, WellFormed(h, n), WellFormed(r, n), SamePointers(h, r)
  PROVE  Pointers(r) = Pointers(h)
<1>1. DOMAIN h = 1 .. Len(h) /\ DOMAIN r = DOMAIN h
  BY DEF WellFormed, SamePointers
<1>2. ASSUME NEW p \in 1 .. Len(h)
      PROVE  [k \in DOMAIN r[p].fields |-> [r[p].fields[k] EXCEPT !.text = << >>]]
             = [k \in DOMAIN h[p].fields |-> [h[p].fields[k] EXCEPT !.text = << >>]]
  <2>1. h[p].fields \in Seq(Getters(n)) /\ r[p].fields \in Seq(Getters(n))
        /\ DOMAIN r[p].fields = DOMAIN h[p].fields
    <3>1. h[p] \in Structs(n) /\ r[p] \in Structs(n) /\ DOMAIN r[p].fields = DOMAIN h[p].fields
      BY <1>1 DEF WellFormed, SamePointers, SameStructs
    <3>2. QED
      BY <3>1 DEF Structs
  <2>2. ASSUME NEW k \in DOMAIN h[p].fields
        PROVE  [r[p].fields[k] EXCEPT !.text = << >>] = [h[p].fields[k] EXCEPT !.text = << >>]
    <3>1. PICK g : g = h[p].fields[k]
      OBVIOUS
    <3>2. PICK f : f = r[p].fields[k]
      OBVIOUS
    <3>3. g \in Getters(n) /\ f \in Getters(n)
      BY <2>1, <3>1, <3>2
    <3>4. f.addr = g.addr /\ f.val = g.val /\ f.err = g.err
      BY <3>1, <3>2 DEF SamePointers
    <3>5. [f EXCEPT !.text = << >>] = [g EXCEPT !.text = << >>]
      BY <3>3, <3>4 DEF Getters
    <3>6. QED
      BY <3>1, <3>2, <3>5
  <2>3. QED
    BY <2>1, <2>2
<1>3. QED
  BY <1>1, <1>2 DEF Pointers

\* What a step with the same pointers keeps.
LEMMA SameFacts ==
  ASSUME SamePointers(heap, heap')
  PROVE  /\ Objects' = Objects /\ Made' = Made /\ Len(heap') = Len(heap)
         /\ \A p \in Objects :
              /\ Slots(p)' = Slots(p) /\ LayoutOf(p)' = LayoutOf(p)
              /\ heap'[p].type = heap[p].type /\ heap'[p].under = heap[p].under
              /\ heap'[p].from = heap[p].from /\ heap'[p].loaded = heap[p].loaded
              /\ \A i : Top(p, i)' = Top(p, i)
         /\ \A p \in Objects : \A i \in Slots(p) :
              /\ Getter(p, i)'.addr = Getter(p, i).addr
              /\ Getter(p, i)'.val = Getter(p, i).val
              /\ Getter(p, i)'.err = Getter(p, i).err
BY DEF SamePointers, SameStructs, Objects, Made, Slots, LayoutOf, Top, Getter

LEMMA SettledKept ==
  ASSUME TypeOK, NEW S \in Stamps, Settled(S), SamePointers(heap, heap'), mem' = mem,
         writes' = writes
  PROVE  Settled(S)'
<1>1. /\ Objects' = Objects /\ Made' = Made /\ Len(heap') = Len(heap)
      /\ \A p \in Objects :
           /\ Slots(p)' = Slots(p) /\ LayoutOf(p)' = LayoutOf(p)
           /\ heap'[p].type = heap[p].type /\ heap'[p].under = heap[p].under
           /\ heap'[p].from = heap[p].from /\ heap'[p].loaded = heap[p].loaded
           /\ \A i : Top(p, i)' = Top(p, i)
  BY SameFacts
<1>2. \A p \in Objects : \A i \in Slots(p) :
        /\ Getter(p, i)'.addr = Getter(p, i).addr
        /\ Getter(p, i)'.val = Getter(p, i).val
        /\ Getter(p, i)'.err = Getter(p, i).err
  BY SameFacts
<1>3. (\A p \in Made : p \in Objects) /\ 1 \in Objects
  BY SlotType DEF TypeOK, Made, Objects
<1>4. Numbered(S)'
  BY <1>1 DEF Settled, Numbered
<1>5. ASSUME NEW o \in Objects, NEW k \in Slots(o), heap[o].loaded
      PROVE  Decoded(S, o, k)' /\ Followed(S, o, k)' /\ Getter(o, k)'.addr = mem[heap'[o].from][k]
  <2>1. Decoded(S, o, k) /\ Followed(S, o, k) /\ Getter(o, k).addr = mem[heap[o].from][k]
    BY <1>5 DEF Settled
  <2>2. Decoded(S, o, k)'
    BY <1>1, <1>2, <1>3, <2>1 DEF Decoded
  <2>3. Followed(S, o, k)'
    <3>1. PICK v : v = Getter(o, k).val
      OBVIOUS
    <3>2. v = S[o][k] + 1 => heap'[v].loaded = heap[v].loaded /\ LastOf(S, v)' = LastOf(S, v)
      <4>1. ASSUME v = S[o][k] + 1 PROVE v \in Objects
        <5>1. v \in 0 .. Len(heap)
          BY <3>1, SlotType DEF Getters
        <5>2. S[o][k] \in Nat
          <6>1. o \in Nat /\ k \in Nat
            BY SlotType
          <6>2. QED
            BY <6>1 DEF Stamps
        <5>3. Len(heap) \in Nat
          BY SlotType
        <5>4. QED
          BY <4>1, <5>1, <5>2, <5>3 DEF Objects
      <4>2. QED
        BY <1>1, <4>1 DEF LastOf
    <3>3. QED
      BY <1>1, <1>2, <2>1, <3>1, <3>2 DEF Followed
  <2>4. QED
    BY <1>1, <1>2, <2>1, <2>2, <2>3
<1>6. ASSUME NEW p \in Made PROVE heap'[p].loaded = (mem[heap'[p].from] # Unreadable)
  BY <1>1, <1>3, <1>6 DEF Settled
<1>7. ByField(S, Len(LayoutOf(1)) + 1)'
  <2>1. ByField(S, Len(LayoutOf(1)) + 1)
    BY DEF Settled
  <2>2. ByField(S, Len(LayoutOf(1)) + 1)'
    BY <1>1, <1>3, <2>1 DEF ByField
  <2>3. QED
    BY <2>2
<1>8. Distinct'
  BY <1>1, <1>3 DEF Settled, Distinct
<1>9. Edges'
  <2>1. ASSUME NEW o \in Objects, NEW k \in Slots(o), Getter(o, k)'.val # NoObject
        PROVE  LET v == Getter(o, k)'.val
               IN  /\ v \in Made /\ heap'[v].under = Top(o, k)'
                   /\ heap'[v].from = Getter(o, k)'.addr
                   /\ heap'[v].type = Layout[heap'[o].type][k]
    <3>1. PICK v : v = Getter(o, k).val
      OBVIOUS
    <3>2. /\ v \in Made /\ heap[v].under = Top(o, k) /\ heap[v].from = Getter(o, k).addr
          /\ heap[v].type = Layout[heap[o].type][k]
      BY <1>2, <2>1, <3>1 DEF Settled, Edges
    <3>3. QED
      BY <1>1, <1>2, <1>3, <3>1, <3>2
  <2>2. QED
    BY <1>1, <2>1 DEF Edges
<1>10. QED
  BY <1>1, <1>4, <1>5, <1>6, <1>7, <1>8, <1>9 DEF Settled

-----------------------------------------------------------------------------
(***************************************************************************)
(* The steps of a second Unmarshal.                                        *)
(***************************************************************************)
LEMMA StackType ==
  ASSUME TypeOK, Busy
  PROVE  /\ Len(stack) \in Nat \ {0} /\ Len(stack) \in 1 .. Len(stack) /\ 1 \in 1 .. Len(stack)
         /\ \A j \in 1 .. Len(stack) : /\ stack[j].at \in Nat \ {0} /\ stack[j].obj \in Objects
                                       /\ j \in Nat
         /\ \A j \in 1 .. Len(stack) - 1 : /\ j \in 1 .. Len(stack) /\ j + 1 \in 2 .. Len(stack)
                                           /\ j # Len(stack) /\ j + 1 \in 1 .. Len(stack)
         /\ \A j \in 2 .. Len(stack) : j \in 1 .. Len(stack) /\ j # 1
         /\ \A o \in Objects : /\ Len(LayoutOf(o)) \in Nat /\ Slots(o) = 1 .. Len(LayoutOf(o))
                               /\ o \in Nat
         /\ Len(heap) \in Nat
<1>1. Len(stack) \in Nat \ {0} /\ Len(stack) \in 1 .. Len(stack) /\ 1 \in 1 .. Len(stack)
  BY FrameType
<1>2. stack \in Seq(Frames(Len(heap)))
  BY DEF TypeOK
<1>3. \A j \in 1 .. Len(stack) : stack[j] \in Frames(Len(heap))
  BY <1>2
<1>4. \A j \in 1 .. Len(stack) : stack[j].at \in Nat \ {0} /\ stack[j].obj \in Objects /\ j \in Nat
  BY <1>3 DEF Frames, Objects
<1>5. \A o \in Objects : Len(LayoutOf(o)) \in Nat /\ Slots(o) = 1 .. Len(LayoutOf(o)) /\ o \in Nat
  <2>1. ASSUME NEW o \in Objects PROVE Len(LayoutOf(o)) \in Nat /\ Slots(o) = 1 .. Len(LayoutOf(o))
                                       /\ o \in Nat
    <3>1. heap[o].type \in Types /\ Slots(o) = 1 .. Len(Layout[heap[o].type]) /\ o \in Nat
      BY SlotType
    <3>2. QED
      BY <3>1, TypesAssumption DEF LayoutOf
  <2>2. QED
    BY <2>1
<1>6. Len(heap) \in Nat
  BY FrameType
<1>7. QED
  BY <1>1, <1>4, <1>5, <1>6

\* What the second Unmarshal finds at the slot that it is at.
LEMMA CurrentSecond ==
  ASSUME TypeOK, AtField, NEW S \in Stamps, Settled(S), Synced(S)
  PROVE  /\ frame.obj \in Objects /\ frame.at \in Slots(frame.obj) /\ layout = LayoutOf(frame.obj)
         /\ heap[frame.obj].loaded /\ getter = Getter(frame.obj, frame.at)
         /\ word = getter.addr /\ getter \in Getters(Len(heap))
         /\ Top(frame.obj, frame.at) = stack[1].at
         /\ S[frame.obj][frame.at] \in Nat
         /\ Decoded(S, frame.obj, frame.at) /\ Followed(S, frame.obj, frame.at)
         /\ Remembers(S, Visited)
<1> DEFINE n == Len(stack)
<1>1. /\ Busy /\ n \in Nat \ {0} /\ n \in 1 .. n /\ frame = stack[n] /\ 1 \in 1 .. n
      /\ n # 1 => n \in 2 .. n
  <2>1. Busy /\ frame = stack[n]
    BY DEF AtField, frame
  <2>2. n \in Nat \ {0} /\ n \in 1 .. n /\ 1 \in 1 .. n
    BY <2>1, StackType
  <2>3. \A i \in Nat \ {0} : i # 1 => i \in 2 .. i
    OBVIOUS
  <2>4. QED
    BY <2>1, <2>2, <2>3
<1>2. frame.obj \in Objects /\ frame.at \in Nat \ {0}
  BY <1>1, StackType
<1>3. layout = LayoutOf(frame.obj) /\ getter = Getter(frame.obj, frame.at)
  BY DEF layout, object, LayoutOf, getter, Getter
<1>4. frame.at \in Slots(frame.obj)
  BY <1>1, <1>2, <1>3, StackType DEF AtField
<1>5. heap[frame.obj].loaded /\ frame.words = mem[heap[frame.obj].from]
  BY <1>1 DEF Synced
<1>6. Decoded(S, frame.obj, frame.at) /\ Followed(S, frame.obj, frame.at)
      /\ Getter(frame.obj, frame.at).addr = mem[heap[frame.obj].from][frame.at]
  BY <1>2, <1>4, <1>5 DEF Settled
<1>7. word = getter.addr
  BY <1>3, <1>5, <1>6 DEF word
<1>8. getter \in Getters(Len(heap))
  BY FieldType
<1>9. S[frame.obj][frame.at] \in Nat
  BY <1>1, <1>2, StackType DEF Stamps
<1>10. Top(frame.obj, frame.at) = stack[1].at
  <2>1. CASE n = 1
    BY <1>1, <2>1 DEF Synced, Top
  <2>2. CASE n # 1
    <3>1. frame.obj \in Made /\ heap[frame.obj].under = stack[1].at
      BY <1>1, <2>2 DEF Synced
    <3>2. frame.obj # 1
      BY <3>1, StackType DEF Made
    <3>3. QED
      BY <3>1, <3>2 DEF Top
  <2>3. QED
    BY <2>1, <2>2
<1>11. Remembers(S, Visited)
  <2>1. CASE n # 1
    BY <2>1 DEF Visited, Synced
  <2>2. CASE n = 1
    <3>1. frame.obj = 1 /\ frame.at = stack[1].at
      BY <1>1, <2>2 DEF Synced
    <3>2. PICK c \in Slots(frame.obj) : c = stack[1].at
      BY <1>4, <3>1
    <3>3. c \in 1 .. Len(LayoutOf(1)) + 1
      BY <1>1, <1>2, <3>1, <3>2, StackType
    <3>4. \A p \in Made : heap[p].under < c <=> p <= S[1][c]
      BY <3>3 DEF Settled, ByField
    <3>5. c \in Nat /\ \A p \in Made : p \in Objects
      BY <1>1, <3>2, StackType DEF Made, Objects
    <3>6. ASSUME NEW p \in Seen(S) PROVE FALSE
      <4>1. p \in Made /\ heap[p].under = c /\ p <= S[1][c]
        BY <3>1, <3>2, <3>6 DEF Seen
      <4>2. heap[p].under < c
        BY <3>4, <4>1
      <4>3. QED
        BY <3>5, <4>1, <4>2
    <3>7. Visited = << >>
      BY <2>2 DEF Visited
    <3>8. QED
      BY <3>6, <3>7 DEF Remembers
  <2>3. QED
    BY <2>1, <2>2
<1>12. QED
  BY <1>2, <1>3, <1>4, <1>5, <1>6, <1>7, <1>8, <1>9, <1>10, <1>11

\* The struct that the context holds for the current address is the one that the
\* pointer led to, if it led anywhere.
LEMMA Recalled ==
  ASSUME TypeOK, AtPointer, NEW S \in Stamps, Settled(S), Synced(S)
  PROVE  /\ word \in DOMAIN Visited =>
              LET p == Visited[word]
              IN  /\ p \in Made /\ p <= S[frame.obj][frame.at]
                  /\ heap[p].type = layout[frame.at] => getter.val = p
                  /\ heap[p].type # layout[frame.at] => getter.val = NoObject
         /\ word \notin DOMAIN Visited =>
              /\ getter.val = S[frame.obj][frame.at] + 1 /\ getter.val \in Made
              /\ heap[getter.val].under = stack[1].at /\ heap[getter.val].from = word
<1>1. AtField /\ word # Null /\ layout[frame.at] # Text
  BY DEF AtPointer
<1>2. PICK o \in Objects, k \in Slots(frame.obj) : o = frame.obj /\ k = frame.at
  BY <1>1, CurrentSecond
<1>3. PICK g \in Getters(Len(heap)) : g = getter
  BY <1>1, CurrentSecond
<1>4. /\ k \in Slots(o) /\ layout = LayoutOf(o) /\ g = Getter(o, k) /\ word = g.addr
      /\ Top(o, k) = stack[1].at /\ S[o][k] \in Nat /\ Decoded(S, o, k) /\ Remembers(S, Visited)
  BY <1>1, <1>2, <1>3, CurrentSecond
<1>5. g.val # NoObject => /\ g.val \in Made /\ heap[g.val].under = Top(o, k)
                          /\ heap[g.val].from = word /\ heap[g.val].type = layout[k]
  BY <1>4 DEF Settled, Edges, LayoutOf
<1>6. g.val = NoObject => \E p \in Made : /\ p <= S[o][k] /\ heap[p].under = Top(o, k)
                                          /\ heap[p].from = word /\ heap[p].type # layout[k]
  BY <1>1, <1>2, <1>4 DEF Decoded
<1>7. g.val <= S[o][k] + 1
  BY <1>4 DEF Decoded
<1>8. \A p, q \in Made : heap[p].under = heap[q].under /\ heap[p].from = heap[q].from => p = q
  BY DEF Settled, Distinct
<1>9. ASSUME NEW p, word \in DOMAIN Visited, p = Visited[word]
      PROVE  /\ p \in Made /\ p <= S[o][k]
             /\ heap[p].type = layout[k] => g.val = p
             /\ heap[p].type # layout[k] => g.val = NoObject
  <2>1. p \in Made /\ heap[p].under = Top(o, k) /\ p <= S[o][k] /\ heap[p].from = word
    BY <1>2, <1>4, <1>9 DEF Remembers, Seen
  <2>2. CASE g.val = NoObject
    <3>1. PICK q \in Made : /\ heap[q].under = Top(o, k) /\ heap[q].from = word
                            /\ heap[q].type # layout[k]
      BY <1>6, <2>2
    <3>2. q = p
      BY <1>8, <2>1, <3>1
    <3>3. QED
      BY <2>1, <2>2, <3>1, <3>2
  <2>3. CASE g.val # NoObject
    <3>1. g.val = p
      BY <1>5, <1>8, <2>1, <2>3
    <3>2. QED
      BY <1>5, <2>1, <2>3, <3>1
  <2>4. QED
    BY <2>2, <2>3
<1>10. ASSUME word \notin DOMAIN Visited
       PROVE  g.val = S[o][k] + 1 /\ g.val \in Made /\ heap[g.val].under = stack[1].at
              /\ heap[g.val].from = word
  <2>1. ASSUME NEW p \in Made, p <= S[o][k], heap[p].under = Top(o, k), heap[p].from = word
        PROVE  FALSE
    <3>1. p \in Seen(S)
      BY <1>2, <1>4, <2>1 DEF Seen
    <3>2. QED
      BY <1>4, <1>10, <2>1, <3>1 DEF Remembers
  <2>2. g.val # NoObject
    BY <1>6, <2>1
  <2>3. ~(g.val <= S[o][k])
    BY <1>5, <2>1, <2>2
  <2>4. g.val \in Nat
    BY DEF Getters
  <2>5. g.val = S[o][k] + 1
    BY <1>4, <1>7, <2>3, <2>4
  <2>6. QED
    BY <1>4, <1>5, <2>2, <2>5
<1>11. QED
  BY <1>2, <1>3, <1>9, <1>10

\* The context still holds what was seen, or the struct just come to as well.
LEMMA RemembersSame ==
  ASSUME TypeOK, SamePointers(heap, heap'), NEW S, NEW context, Remembers(S, context),
         stack'[1].at = stack[1].at, S[frame.obj'][frame.at'] = S[frame.obj][frame.at]
  PROVE  Remembers(S, context)'
<1>1. Made' = Made /\ \A p \in Made : p \in Objects
  BY SameFacts, SlotType DEF Made, Objects, TypeOK
<1>2. \A p \in Made : heap'[p].under = heap[p].under /\ heap'[p].from = heap[p].from
  BY <1>1, SameFacts
<1>3. Seen(S)' = Seen(S) /\ \A p \in Seen(S) : heap'[p].from = heap[p].from
  BY <1>1, <1>2 DEF Seen
<1>4. QED
  BY <1>3 DEF Remembers

LEMMA RemembersMore ==
  ASSUME TypeOK, SamePointers(heap, heap'), NEW S, NEW v \in Made, Remembers(S, Visited),
         word \notin DOMAIN Visited, heap[v].from = word, heap[v].under = stack[1].at,
         visited' = Registered(v), stack'[1].at = stack[1].at,
         \A p \in Made : p <= S[frame.obj'][frame.at'] <=> p <= S[frame.obj][frame.at] \/ p = v
  PROVE  Remembers(S, visited)'
<1>1. Made' = Made /\ \A p \in Made : p \in Objects
  BY SameFacts, SlotType DEF Made, Objects, TypeOK
<1>2. \A p \in Made : heap'[p].under = heap[p].under /\ heap'[p].from = heap[p].from
  BY <1>1, SameFacts
<1>3. Seen(S)' = Seen(S) \cup {v} /\ \A p \in Seen(S) : p \in Made
  BY <1>1, <1>2 DEF Seen
<1>4. /\ DOMAIN visited' = DOMAIN Visited \cup {word} /\ visited'[word] = v
      /\ \A a \in DOMAIN Visited : visited'[a] = Visited[a]
  <2>1. PICK w : w = word
    OBVIOUS
  <2>2. visited' = [a \in DOMAIN Visited \cup {w} |-> IF a = w THEN v ELSE Visited[a]]
    BY <2>1 DEF Registered
  <2>3. w \notin DOMAIN Visited
    BY <2>1
  <2>4. QED
    BY <2>1, <2>2, <2>3
<1>5. ASSUME NEW a \in DOMAIN visited' PROVE visited'[a] \in Seen(S)' /\ heap'[visited'[a]].from = a
  <2>1. CASE a = word
    BY <1>2, <1>3, <1>4, <2>1
  <2>2. CASE a # word
    <3>1. a \in DOMAIN Visited /\ visited'[a] = Visited[a]
      BY <1>4, <1>5, <2>2
    <3>2. Visited[a] \in Seen(S) /\ heap[Visited[a]].from = a
      BY <3>1 DEF Remembers
    <3>3. QED
      BY <1>2, <1>3, <3>1, <3>2
  <2>3. QED
    BY <2>1, <2>2
<1>6. ASSUME NEW p \in Seen(S)'
      PROVE  heap'[p].from \in DOMAIN visited' /\ visited'[heap'[p].from] = p
  <2>1. CASE p = v
    BY <1>2, <1>4, <2>1
  <2>2. CASE p # v
    <3>1. p \in Seen(S) /\ heap'[p].from = heap[p].from
      BY <1>2, <1>3, <1>6, <2>2
    <3>2. heap[p].from \in DOMAIN Visited /\ Visited[heap[p].from] = p
      BY <3>1 DEF Remembers
    <3>3. QED
      BY <1>4, <3>1, <3>2
  <2>3. QED
    BY <2>1, <2>2
<1>7. QED
  BY <1>5, <1>6 DEF Remembers

\* On to the next slot of the innermost struct.
LEMMA SyncedNext ==
  ASSUME TypeOK, AtField, NEW S \in Stamps, Settled(S), Synced(S),
         SamePointers(heap, heap'), mem' = mem,
         stack' = [stack EXCEPT ![Len(stack)].at = @ + 1],
         ASSUME Len(stack) # 1, frame.obj' = frame.obj, frame.at' = frame.at + 1,
                stack'[1].at = stack[1].at
         PROVE  Remembers(S, visited)'
  PROVE  Synced(S)'
<1> DEFINE n == Len(stack)
<1>1. Busy /\ n \in Nat \ {0} /\ n \in 1 .. n /\ 1 \in 1 .. n /\ frame = stack[n]
      /\ \A j \in 1 .. n : stack[j].obj \in Objects
  <2>1. Busy /\ frame = stack[n]
    BY DEF AtField, frame
  <2>2. QED
    BY <2>1, StackType
<1>2. /\ Len(stack') = n
      /\ \A j \in 1 .. n :
           /\ stack'[j].obj = stack[j].obj /\ stack'[j].words = stack[j].words
           /\ stack'[j].at = IF j = n THEN frame.at + 1 ELSE stack[j].at
  <2>1. \A j \in 1 .. n : stack[j] \in Frames(Len(heap))
    BY DEF TypeOK
  <2>2. PICK f : f = [stack[n] EXCEPT !.at = @ + 1]
    OBVIOUS
  <2>3. f.obj = frame.obj /\ f.words = frame.words /\ f.at = frame.at + 1
    BY <1>1, <2>1, <2>2 DEF Frames
  <2>4. stack' = [stack EXCEPT ![n] = f]
    BY <1>1, <2>2
  <2>5. Len(stack') = n /\ \A j \in 1 .. n : stack'[j] = IF j = n THEN f ELSE stack[j]
    BY <1>1, <2>4 DEF TypeOK
  <2>6. QED
    BY <1>1, <2>3, <2>5
<1>3. /\ Made' = Made
      /\ \A p \in Objects :
           /\ Slots(p)' = Slots(p) /\ LayoutOf(p)' = LayoutOf(p)
           /\ heap'[p].under = heap[p].under /\ heap'[p].from = heap[p].from
           /\ heap'[p].loaded = heap[p].loaded
      /\ \A p \in Objects : \A i \in Slots(p) : Getter(p, i)'.val = Getter(p, i).val
  BY SameFacts
<1>4. stack'[1].obj = 1
  BY <1>1, <1>2 DEF Synced
<1>5. \A j \in 1 .. n : /\ heap'[stack'[j].obj].loaded
                        /\ stack'[j].words = mem'[heap'[stack'[j].obj].from]
  BY <1>1, <1>2, <1>3 DEF Synced
<1>6. InLayout'
  <2>1. ASSUME NEW j \in 1 .. n PROVE stack'[j].at <= Len(LayoutOf(stack[j].obj)') + 1
    <3>1. PICK p \in Objects : p = stack[j].obj
      BY <1>1
    <3>2. LayoutOf(stack[j].obj)' = LayoutOf(p)
      BY <1>2, <1>3, <3>1 DEF LayoutOf
    <3>3. CASE j = n
      <4>1. frame.at <= Len(LayoutOf(p)) /\ Len(LayoutOf(p)) \in Nat /\ frame.at \in Nat
        <5>1. layout = LayoutOf(p)
          BY <1>1, <3>1, <3>3 DEF layout, object, LayoutOf
        <5>2. Len(LayoutOf(p)) \in Nat /\ frame.at \in Nat
          BY <1>1, StackType
        <5>3. QED
          BY <5>1, <5>2 DEF AtField
      <4>2. QED
        BY <1>2, <3>2, <3>3, <4>1
    <3>4. CASE j # n
      BY <1>2, <3>1, <3>2, <3>4 DEF Synced, InLayout
    <3>5. QED
      BY <3>3, <3>4
  <2>2. QED
    BY <1>2, <2>1 DEF InLayout
<1>7. ASSUME NEW j \in 2 .. n
      PROVE  stack'[j].obj \in Made' /\ heap'[stack'[j].obj].under = stack'[1].at
  <2>1. j \in 1 .. n /\ 1 # n
    BY <1>1
  <2>2. stack[j].obj \in Made /\ heap[stack[j].obj].under = stack[1].at
    BY DEF Synced
  <2>3. QED
    BY <1>1, <1>2, <1>3, <2>1, <2>2
<1>8. ASSUME NEW j \in 1 .. n - 1
      PROVE  /\ stack'[j].at \in Slots(stack[j].obj)'
             /\ Getter(stack[j].obj, stack[j].at)'.val = stack'[j + 1].obj
             /\ stack'[j + 1].obj = S[stack'[j].obj][stack'[j].at] + 1
  <2>1. j \in 1 .. n /\ j + 1 \in 1 .. n /\ j # n
    BY <1>1, StackType
  <2>2. /\ stack[j].at \in Slots(stack[j].obj)
        /\ Getter(stack[j].obj, stack[j].at).val = stack[j + 1].obj
        /\ stack[j + 1].obj = S[stack[j].obj][stack[j].at] + 1
    BY DEF Synced
  <2>3. PICK p \in Objects, i \in Slots(stack[j].obj) : p = stack[j].obj /\ i = stack[j].at
    BY <1>1, <2>1, <2>2
  <2>4. stack'[j].obj = p /\ stack'[j].at = i /\ stack'[j + 1].obj = stack[j + 1].obj
    BY <1>2, <2>1, <2>3
  <2>5. Slots(stack[j].obj)' = Slots(p)' /\ Getter(stack[j].obj, stack[j].at)' = Getter(p, i)'
    BY <2>4 DEF Slots, Getter
  <2>6. Slots(p)' = Slots(p) /\ Getter(p, i)'.val = Getter(p, i).val
    BY <1>3, <2>3
  <2>7. QED
    BY <2>2, <2>3, <2>4, <2>5, <2>6
<1>9. n # 1 => Remembers(S, visited)'
  <2>1. frame' = stack'[n]
    BY <1>2 DEF frame
  <2>2. frame.obj' = frame.obj /\ frame.at' = frame.at + 1
    BY <1>1, <1>2, <2>1
  <2>3. n # 1 => stack'[1].at = stack[1].at
    BY <1>1, <1>2
  <2>4. QED
    BY <2>2, <2>3
<1>10. QED
  BY <1>2, <1>4, <1>5, <1>6, <1>7, <1>8, <1>9 DEF Synced

LEMMA LeafSecond ==
  ASSUME TypeOK, TypeOK', AtField, NEW S \in Stamps, Second(S),
         NEW g \in Getters(Len(heap)), FieldDone(g), UNCHANGED <<visited, client, target>>,
         g.addr = word, g.val = getter.val, g.err = getter.err,
         g.val # S[frame.obj][frame.at] + 1
  PROVE  Second(S)'
<1>1. Settled(S) /\ Synced(S) /\ Pointers(heap) = Pointers(before) /\ Busy
  BY DEF Second, AtField
<1>2. PICK o \in Objects, k \in Slots(frame.obj) : o = frame.obj /\ k = frame.at
  BY <1>1, CurrentSecond
<1>3. /\ k \in Slots(o) /\ getter = Getter(o, k) /\ word = getter.addr /\ Followed(S, o, k)
      /\ Remembers(S, Visited)
  BY <1>1, <1>2, CurrentSecond
<1>4. S[o][k + 1] = S[o][k]
  BY <1>2, <1>3 DEF Followed
<1>5. WellFormed(heap, Len(heap)) /\ o \in 1 .. Len(heap) /\ Len(heap) \in Nat
  BY <1>1, StackType DEF TypeOK, WellFormed, Objects
<1>6. heap' = Assigned(heap, o, k, g)
  BY <1>2 DEF FieldDone, Assigned
<1>7. WellFormed(heap', Len(heap)) /\ SamePointers(heap, heap')
  <2>1. k \in DOMAIN heap[o].fields /\ getter = heap[o].fields[k]
    BY <1>3 DEF Slots, Getter
  <2>2. g.addr = heap[o].fields[k].addr /\ g.val = heap[o].fields[k].val
        /\ g.err = heap[o].fields[k].err
    BY <1>3, <2>1
  <2>3. QED
    BY <1>5, <1>6, <2>1, <2>2, SameAssigned
<1>8. mem' = mem /\ writes' = writes /\ before' = before /\ visited' = visited
      /\ stack' = [stack EXCEPT ![Len(stack)].at = @ + 1]
  BY DEF target, client, FieldDone
<1>9. Settled(S)'
  BY <1>1, <1>7, <1>8, SettledKept
<1>10. ASSUME Len(stack) # 1, frame.obj' = frame.obj, frame.at' = frame.at + 1,
              stack'[1].at = stack[1].at
       PROVE  Remembers(S, visited)'
  <2>1. Remembers(S, visited)
    BY <1>1, <1>10 DEF Synced
  <2>2. S[frame.obj'][frame.at'] = S[frame.obj][frame.at]
    BY <1>2, <1>4, <1>10
  <2>3. PICK w : w = visited
    OBVIOUS
  <2>4. Remembers(S, w)'
    BY <1>7, <1>10, <2>1, <2>2, <2>3, RemembersSame
  <2>5. QED
    BY <1>8, <2>3, <2>4 DEF Remembers
<1>11. Synced(S)'
  BY <1>1, <1>7, <1>8, <1>10, SyncedNext
<1>12. Pointers(heap)' = Pointers(before)'
  BY <1>1, <1>5, <1>7, <1>8, PointersKept
<1>13. QED
  BY <1>9, <1>11, <1>12 DEF Second

LEMMA LeafStepSecond ==
  ASSUME TypeOK, TypeOK', NEW S \in Stamps, Second(S), writes = 0,
         ZeroPointer \/ TextRead \/ Reuse \/ Mismatch
  PROVE  Second(S)'
<1>1. AtField /\ UNCHANGED <<visited, client, target>> /\ Settled(S) /\ Synced(S)
  BY DEF ZeroPointer, TextRead, Reuse, Mismatch, AtPointer, AtField, Second
<1>2. PICK g \in Getters(Len(heap)), b \in Nat : g = getter /\ b = S[frame.obj][frame.at]
  BY <1>1, CurrentSecond
<1>3. /\ g.addr = word /\ word \in Addrs \cup {Null} /\ layout = LayoutOf(frame.obj)
      /\ Getter(frame.obj, frame.at) = g
      /\ Decoded(S, frame.obj, frame.at) /\ Followed(S, frame.obj, frame.at)
  BY <1>1, <1>2, CurrentSecond, FieldType
<1>4. Addressed \in Getters(Len(heap)) /\ Addressed.addr = word /\ Addressed.val = g.val
      /\ Addressed.err = g.err
  BY <1>2, <1>3 DEF Addressed, Getters
<1>5. PICK x \in Getters(Len(heap)) : x = Addressed
  BY <1>4
<1>6. CASE ZeroPointer
  <2>1. g.val = NoObject /\ g.err = "zero"
    BY <1>3, <1>6 DEF ZeroPointer, Decoded
  <2>2. PICK f : f = [x EXCEPT !.err = "zero"]
    OBVIOUS
  <2>3. f \in Getters(Len(heap)) /\ f.addr = word /\ f.val = g.val /\ f.err = g.err
    BY <1>4, <1>5, <2>1, <2>2 DEF Getters
  <2>4. FieldDone(f) /\ f.val # b + 1
    <3>1. FieldDone(f)
      BY <1>5, <1>6, <2>2 DEF ZeroPointer
    <3>2. f.val = 0
      BY <2>1, <2>3 DEF NoObject
    <3>3. QED
      BY <1>2, <3>1, <3>2
  <2>5. QED
    BY <1>1, <1>2, <2>3, <2>4, LeafSecond
<1>7. CASE TextRead
  <2>1. word \in Addrs /\ word # Null /\ layout[frame.at] = Text
    BY <1>3, <1>7 DEF TextRead
  <2>2. g.val = NoObject
    BY <1>3, <2>1 DEF Decoded
  <2>3. PICK f : f = IF mem[word] = Unreadable THEN [x EXCEPT !.err = "read"]
                     ELSE [x EXCEPT !.text = Append(@, word)]
    OBVIOUS
  <2>4. f \in Getters(Len(heap)) /\ f.addr = word /\ f.val = g.val /\ f.err = g.err
    <3>1. CASE mem[word] = Unreadable
      <4>1. g.err = "read"
        BY <1>3, <2>1, <3>1 DEF Followed, Second
      <4>2. f = [x EXCEPT !.err = "read"]
        BY <2>3, <3>1
      <4>3. QED
        BY <1>4, <1>5, <4>1, <4>2 DEF Getters
    <3>2. CASE mem[word] # Unreadable
      <4>1. f = [x EXCEPT !.text = Append(@, word)]
        BY <2>3, <3>2
      <4>2. x.text \in Seq(Addrs)
        BY DEF Getters
      <4>3. Append(x.text, word) \in Seq(Addrs)
        BY <2>1, <4>2
      <4>4. QED
        BY <1>4, <1>5, <4>1, <4>3 DEF Getters
    <3>3. QED
      BY <3>1, <3>2
  <2>5. FieldDone(f) /\ f.val # b + 1
    <3>1. FieldDone(f)
      BY <1>5, <1>7, <2>3 DEF TextRead
    <3>2. f.val = 0
      BY <2>2, <2>4 DEF NoObject
    <3>3. QED
      BY <1>2, <3>1, <3>2
  <2>6. QED
    BY <1>1, <1>2, <2>4, <2>5, LeafSecond
<1>8. ASSUME Reuse \/ Mismatch
      PROVE  /\ Visited[word] \in Made /\ Visited[word] <= b
             /\ heap[Visited[word]].type = layout[frame.at] => g.val = Visited[word]
             /\ heap[Visited[word]].type # layout[frame.at] => g.val = NoObject
  <2>1. AtPointer /\ word \in DOMAIN Visited
    BY <1>8 DEF Reuse, Mismatch
  <2>2. QED
    BY <1>1, <1>2, <2>1, Recalled
<1>9. CASE Reuse
  <2>1. g.val = Visited[word] /\ FieldDone([Addressed EXCEPT !.val = Visited[word]])
    BY <1>8, <1>9 DEF Reuse, TypesMatch
  <2>2. PICK f : f = [x EXCEPT !.val = g.val]
    OBVIOUS
  <2>3. f \in Getters(Len(heap)) /\ f.addr = word /\ f.val = g.val /\ f.err = g.err
    BY <1>4, <1>5, <2>2 DEF Getters
  <2>4. FieldDone(f)
    BY <1>5, <2>1, <2>2
  <2>5. f.val # b + 1
    <3>1. g.val \in Nat /\ g.val <= b
      BY <1>8, <1>9, <2>1 DEF Getters
    <3>2. QED
      BY <2>3, <3>1
  <2>6. QED
    BY <1>1, <1>2, <2>3, <2>4, <2>5, LeafSecond
<1>10. CASE Mismatch
  <2>1. g.val = NoObject /\ FieldDone(x)
    BY <1>5, <1>8, <1>10 DEF Mismatch, TypesMatch
  <2>2. x.addr = word /\ x.val = g.val /\ x.err = g.err
    BY <1>4, <1>5
  <2>3. x.val # b + 1
    <3>1. x.val = 0
      BY <2>1, <2>2 DEF NoObject
    <3>2. QED
      BY <3>1
  <2>4. QED
    BY <1>1, <1>2, <2>1, <2>2, <2>3, LeafSecond
<1>11. QED
  BY <1>6, <1>7, <1>9, <1>10

\* A chase of the second Unmarshal finds the struct that the first one made.
LEMMA ChaseSecondHeap ==
  ASSUME TypeOK, NEW S \in Stamps, Settled(S), Synced(S), writes = 0, Chase
  PROVE  /\ WellFormed(heap', Len(heap)) /\ SamePointers(heap, heap')
         /\ getter.val \in Made /\ heap[getter.val].from = word
         /\ heap[getter.val].under = stack[1].at
         /\ heap[getter.val].loaded = (mem[word] # Unreadable)
         /\ getter.val = S[frame.obj][frame.at] + 1
         /\ Remembers(S, Visited) /\ word \notin DOMAIN Visited /\ word \in Addrs
         /\ visited' = Registered(getter.val)
         /\ IF mem[word] = Unreadable
            THEN stack' = [stack EXCEPT ![Len(stack)].at = @ + 1]
            ELSE stack' = Append(stack, NewFrame(getter.val, word))
<1> DEFINE n == Len(heap)
<1>1. AtPointer /\ AtField /\ word \notin DOMAIN Visited /\ word \in Addrs
  <2>1. AtPointer /\ AtField /\ word \notin DOMAIN Visited
    BY DEF Chase, AtPointer
  <2>2. QED
    BY <2>1, FieldType DEF AtPointer
<1>2. PICK o \in Objects, k \in Slots(frame.obj) : o = frame.obj /\ k = frame.at
  BY <1>1, CurrentSecond
<1>3. PICK g \in Getters(n) : g = getter
  BY <1>1, CurrentSecond
<1>4. PICK v : v = g.val
  OBVIOUS
<1>5. k \in Slots(o) /\ g = heap[o].fields[k] /\ g.addr = word /\ Followed(S, o, k)
      /\ Remembers(S, Visited)
  BY <1>1, <1>2, <1>3, CurrentSecond DEF Getter
<1>6. v = S[o][k] + 1 /\ v \in Made /\ heap[v].under = stack[1].at /\ heap[v].from = word
  BY <1>1, <1>2, <1>3, <1>4, Recalled
<1>7. heap[v].loaded = (mem[word] # Unreadable)
  BY <1>6 DEF Settled
<1>8. n \in Nat /\ v \in 1 .. n /\ v \in Objects /\ v # NoObject /\ o \in 1 .. n
      /\ WellFormed(heap, n)
  <2>1. n \in Nat
    BY <1>1, StackType DEF AtField
  <2>2. QED
    BY <1>6, <2>1 DEF Made, Objects, NoObject, TypeOK, WellFormed
<1>9. Val = v /\ WithVal = heap
  BY <1>3, <1>4, <1>8 DEF Val, WithVal
<1>10. PICK x : x = [Addressed EXCEPT !.val = v]
  OBVIOUS
<1>11. x \in Getters(n) /\ x.addr = g.addr /\ x.val = g.val /\ x.err = g.err
  <2>1. Addressed = [g EXCEPT !.addr = word]
    BY <1>3 DEF Addressed
  <2>2. v \in 0 .. n
    BY <1>8
  <2>3. QED
    BY <1>1, <1>4, <1>5, <1>10, <2>1, <2>2 DEF Getters
<1>12. PICK h : h = Assigned(heap, o, k, x)
  OBVIOUS
<1>13. /\ WellFormed(h, n) /\ SamePointers(heap, h) /\ Len(h) = n
       /\ k \in DOMAIN h[o].fields /\ h[o].fields[k] = x
  <2>1. k \in DOMAIN heap[o].fields /\ x.addr = heap[o].fields[k].addr
        /\ x.val = heap[o].fields[k].val /\ x.err = heap[o].fields[k].err
    BY <1>5, <1>11 DEF Slots
  <2>2. WellFormed(h, n) /\ SamePointers(heap, h)
    BY <1>8, <1>11, <1>12, <2>1, SameAssigned
  <2>3. h[o].fields[k] = x
    BY <1>8, <1>12, <2>1, AssignedSlots
  <2>4. QED
    BY <1>8, <2>1, <2>2, <2>3 DEF SamePointers, SameStructs
<1>14. PICK e : e = Assigned(h, o, k, [x EXCEPT !.err = "read"])
  OBVIOUS
<1>15. mem[word] = Unreadable => WellFormed(e, n) /\ SamePointers(heap, e)
  <2>1. ASSUME mem[word] = Unreadable PROVE WellFormed(e, n) /\ SamePointers(heap, e)
    <3>1. g.err = "read"
      BY <1>4, <1>5, <1>6, <1>7, <2>1 DEF Followed, Getter
    <3>2. PICK y : y = [x EXCEPT !.err = "read"]
      OBVIOUS
    <3>3. y \in Getters(n) /\ y.addr = x.addr /\ y.val = x.val /\ y.err = x.err
      BY <1>11, <3>1, <3>2 DEF Getters
    <3>4. WellFormed(e, n) /\ SamePointers(h, e)
      BY <1>8, <1>13, <1>14, <3>2, <3>3, SameAssigned
    <3>5. QED
      BY <1>13, <3>4, SameTwice
  <2>2. QED
    BY <2>1
<1>16. /\ heap' = IF mem[word] = Unreadable THEN ReadInto(e, v, word) ELSE ReadInto(h, v, word)
       /\ visited' = Registered(v)
       /\ IF mem[word] = Unreadable
          THEN stack' = [stack EXCEPT ![Len(stack)].at = @ + 1]
          ELSE stack' = Append(stack, NewFrame(v, word))
  <2> DEFINE h0 == Assigned(WithVal, frame.obj, frame.at, [Addressed EXCEPT !.val = Val])
             e0 == Assigned(h0, frame.obj, frame.at,
                            [h0[frame.obj].fields[frame.at] EXCEPT !.err = "read"])
  <2>1. /\ IF mem[word] = Unreadable
           THEN /\ heap' = ReadInto(e0, Val, word)
                /\ stack' = [stack EXCEPT ![Len(stack)].at = @ + 1]
           ELSE heap' = ReadInto(h0, Val, word) /\ stack' = Append(stack, NewFrame(Val, word))
        /\ visited' = Registered(Val)
    BY DEF Chase, Assigned, ReadInto
  <2>2. h0 = h
    BY <1>2, <1>9, <1>10, <1>12
  <2> HIDE DEF h0
  <2>3. e0 = e
    BY <1>2, <1>13, <1>14, <2>2
  <2> HIDE DEF e0
  <2>4. QED
    BY <1>9, <2>1, <2>2, <2>3
<1>17. PICK w : /\ w \in {h, e} /\ heap' = ReadInto(w, v, word)
                /\ WellFormed(w, n) /\ SamePointers(heap, w)
  BY <1>13, <1>15, <1>16
<1>18. WellFormed(heap', n) /\ SamePointers(heap, heap')
  <2>1. w[v].from = word /\ w[v].loaded = (mem[word] # Unreadable) /\ v \in 1 .. Len(w)
    BY <1>6, <1>7, <1>8, <1>17 DEF SamePointers, SameStructs
  <2>2. WellFormed(heap', n) /\ SamePointers(w, heap')
    BY <1>1, <1>8, <1>17, <2>1, SameRead
  <2>3. QED
    BY <1>17, <2>2, SameTwice
<1>19. QED
  BY <1>1, <1>2, <1>3, <1>4, <1>5, <1>6, <1>7, <1>16, <1>18

LEMMA ChaseSecond ==
  ASSUME TypeOK, NEW S \in Stamps, Second(S), writes = 0, Chase
  PROVE  Second(S)'
<1> DEFINE n == Len(stack)
<1>1. AtPointer /\ AtField /\ Busy /\ Settled(S) /\ Synced(S) /\ Pointers(heap) = Pointers(before)
  BY DEF Chase, AtPointer, AtField, Second
<1>2. PICK o \in Objects, k \in Slots(frame.obj) : o = frame.obj /\ k = frame.at
  BY <1>1, CurrentSecond
<1>3. PICK v \in Made : v = getter.val
  BY <1>1, ChaseSecondHeap
<1>4. /\ WellFormed(heap', Len(heap)) /\ SamePointers(heap, heap')
      /\ heap[v].from = word /\ heap[v].under = stack[1].at
      /\ heap[v].loaded = (mem[word] # Unreadable)
      /\ v = S[o][k] + 1 /\ Remembers(S, Visited) /\ word \notin DOMAIN Visited /\ word \in Addrs
      /\ visited' = Registered(v)
      /\ IF mem[word] = Unreadable
         THEN stack' = [stack EXCEPT ![Len(stack)].at = @ + 1]
         ELSE stack' = Append(stack, NewFrame(v, word))
  BY <1>1, <1>2, <1>3, ChaseSecondHeap
<1>5. /\ k \in Slots(o) /\ Getter(o, k).val = v /\ Followed(S, o, k) /\ S[o][k] \in Nat
      /\ k \in Nat \ {0}
  <2>1. k \in Nat \ {0}
    BY <1>1, <1>2, StackType
  <2>2. QED
    BY <1>1, <1>2, <1>3, <2>1, CurrentSecond
<1>6. mem' = mem /\ writes' = writes /\ before' = before
  BY DEF Chase, target, client
<1>7. Settled(S)'
  BY <1>1, <1>4, <1>6, SettledKept
<1>8. Pointers(heap)' = Pointers(before)'
  <2>1. WellFormed(heap, Len(heap)) /\ Len(heap) \in Nat
    BY <1>1, StackType DEF TypeOK, WellFormed, Objects
  <2>2. QED
    BY <1>1, <1>4, <1>6, <2>1, PointersKept
<1>9. \A p \in Made : p \in Nat /\ p \in Objects
  BY <1>1, StackType DEF Made, Objects
<1>10. \A p \in Made : p <= S[o][k] + 1 <=> p <= S[o][k] \/ p = v
  BY <1>4, <1>5, <1>9
<1>11. CASE mem[word] = Unreadable
  <2>1. S[o][k + 1] = S[o][k] + 1
    BY <1>4, <1>5, <1>11 DEF Followed, LastOf
  <2>2. ASSUME n # 1, frame.obj' = frame.obj, frame.at' = frame.at + 1,
               stack'[1].at = stack[1].at
        PROVE  Remembers(S, visited)'
    <3>1. \A p \in Made : p <= S[frame.obj'][frame.at'] <=> p <= S[frame.obj][frame.at] \/ p = v
      BY <1>2, <1>10, <2>1, <2>2
    <3>2. QED
      BY <1>3, <1>4, <2>2, <3>1, RemembersMore
  <2>3. Synced(S)'
    BY <1>1, <1>4, <1>6, <1>11, <2>2, SyncedNext
  <2>4. QED
    BY <1>7, <1>8, <2>3 DEF Second
<1>12. CASE mem[word] # Unreadable
  <2>1. /\ n \in Nat \ {0} /\ 1 \in 1 .. n /\ n \in 1 .. n /\ frame = stack[n]
        /\ \A j \in 1 .. n : stack[j].obj \in Objects /\ stack[j].at \in Nat
    BY <1>1, StackType DEF frame
  <2>2. /\ Len(stack') = n + 1 /\ \A j \in 1 .. n : stack'[j] = stack[j]
        /\ stack'[n + 1].obj = v /\ stack'[n + 1].at = 1 /\ stack'[n + 1].words = mem[word]
    <3>1. stack' = Append(stack, NewFrame(v, word)) /\ stack \in Seq(Frames(Len(heap)))
      BY <1>4, <1>12 DEF TypeOK
    <3>2. Len(stack') = n + 1 /\ \A j \in 1 .. n : stack'[j] = stack[j]
      BY <3>1
    <3>3. stack'[n + 1] = NewFrame(v, word)
      BY <3>1
    <3>4. QED
      BY <3>2, <3>3 DEF NewFrame
  <2>3. /\ Made' = Made
        /\ \A p \in Objects :
             /\ Slots(p)' = Slots(p) /\ LayoutOf(p)' = LayoutOf(p)
             /\ heap'[p].under = heap[p].under /\ heap'[p].from = heap[p].from
             /\ heap'[p].loaded = heap[p].loaded
        /\ \A p \in Objects : \A i \in Slots(p) : Getter(p, i)'.val = Getter(p, i).val
    BY <1>4, SameFacts
  <2>4. v \in Objects /\ S[v][1] = v /\ heap[v].loaded
    BY <1>1, <1>4, <1>9, <1>12 DEF Settled, Numbered
  <2>5. ASSUME NEW j \in 1 .. n + 1
        PROVE  /\ heap'[stack'[j].obj].loaded
               /\ stack'[j].words = mem'[heap'[stack'[j].obj].from]
               /\ stack'[j].at <= Len(LayoutOf(stack[j].obj)') + 1
    <3>1. CASE j = n + 1
      <4>1. heap'[v].loaded /\ heap'[v].from = word /\ LayoutOf(v)' = LayoutOf(v)
        BY <1>4, <2>3, <2>4
      <4>2. LayoutOf(stack[j].obj)' = LayoutOf(v)'
        BY <2>2, <3>1 DEF LayoutOf
      <4>3. Len(LayoutOf(v)) \in Nat
        BY <1>1, <2>4, StackType
      <4>4. QED
        BY <1>6, <2>2, <3>1, <4>1, <4>2, <4>3
    <3>2. CASE j # n + 1
      <4>1. j \in 1 .. n /\ stack'[j] = stack[j]
        BY <2>1, <2>2, <3>2
      <4>2. PICK p \in Objects : p = stack[j].obj
        BY <2>1, <4>1
      <4>3. heap[p].loaded /\ stack[j].words = mem[heap[p].from]
            /\ stack[j].at <= Len(LayoutOf(p)) + 1
        BY <1>1, <4>1, <4>2 DEF Synced, InLayout
      <4>4. LayoutOf(stack[j].obj)' = LayoutOf(p)'
        BY <4>1, <4>2 DEF LayoutOf
      <4>5. QED
        BY <1>6, <2>3, <4>1, <4>2, <4>3, <4>4
    <3>3. QED
      BY <3>1, <3>2
  <2>6. ASSUME NEW j \in 2 .. n + 1
        PROVE  stack'[j].obj \in Made' /\ heap'[stack'[j].obj].under = stack'[1].at
    <3>1. CASE j = n + 1
      BY <1>4, <2>1, <2>2, <2>3, <2>4, <3>1
    <3>2. CASE j # n + 1
      <4>1. j \in 2 .. n /\ j \in 1 .. n
        BY <2>1, <3>2
      <4>2. stack[j].obj \in Made /\ heap[stack[j].obj].under = stack[1].at
        BY <1>1, <4>1 DEF Synced
      <4>3. QED
        BY <2>1, <2>2, <2>3, <4>1, <4>2
    <3>3. QED
      BY <3>1, <3>2
  <2>7. ASSUME NEW j \in 1 .. n
        PROVE  /\ stack'[j].at \in Slots(stack[j].obj)'
               /\ Getter(stack[j].obj, stack[j].at)'.val = stack'[j + 1].obj
               /\ stack'[j + 1].obj = S[stack'[j].obj][stack'[j].at] + 1
    <3>1. PICK p \in Objects, i \in Nat : p = stack[j].obj /\ i = stack[j].at
      BY <2>1
    <3>2. stack'[j].obj = p /\ stack'[j].at = i
      BY <2>2, <3>1
    <3>3. /\ Slots(stack[j].obj)' = Slots(p)'
          /\ Getter(stack[j].obj, stack[j].at)' = Getter(p, i)'
      BY <3>2 DEF Slots, Getter
    <3>4. i \in Slots(p) /\ Getter(p, i).val = stack'[j + 1].obj /\ stack'[j + 1].obj = S[p][i] + 1
      <4>1. CASE j = n
        BY <1>2, <1>4, <1>5, <2>1, <2>2, <3>1, <4>1
      <4>2. CASE j # n
        <5>1. j \in 1 .. n - 1 /\ j + 1 \in 1 .. n
          BY <2>1, <4>2
        <5>2. i \in Slots(p) /\ Getter(p, i).val = stack[j + 1].obj /\ stack[j + 1].obj = S[p][i] + 1
          BY <1>1, <3>1, <5>1 DEF Synced
        <5>3. QED
          BY <2>2, <5>1, <5>2
      <4>3. QED
        BY <4>1, <4>2
    <3>5. QED
      BY <2>3, <3>2, <3>3, <3>4
  <2>8. Remembers(S, visited)'
    <3>1. frame' = stack'[n + 1]
      BY <2>2 DEF frame
    <3>2. frame.obj' = v /\ frame.at' = 1
      BY <2>2, <3>1
    <3>3. \A p \in Made : p <= S[frame.obj'][frame.at'] <=> p <= S[frame.obj][frame.at] \/ p = v
      BY <1>2, <1>4, <1>10, <2>4, <3>2
    <3>4. stack'[1].at = stack[1].at
      BY <2>1, <2>2
    <3>5. QED
      BY <1>4, <3>3, <3>4, RemembersMore
  <2>9. stack'[1].obj = 1
    BY <1>1, <2>1, <2>2 DEF Synced
  <2>10. InLayout'
    BY <2>2, <2>5 DEF InLayout
  <2>11. \A j \in 1 .. Len(stack') - 1 : j \in 1 .. n
    BY <2>1, <2>2
  <2>12. Synced(S)'
    BY <2>2, <2>5, <2>6, <2>7, <2>8, <2>9, <2>10, <2>11 DEF Synced
  <2>13. QED
    BY <1>7, <1>8, <2>12 DEF Second
<1>13. QED
  BY <1>11, <1>12

LEMMA ReturnSecond ==
  ASSUME TypeOK, NEW S \in Stamps, Second(S), Return
  PROVE  Second(S)'
<1> DEFINE n == Len(stack)
           m == n - 1
<1>1. Busy /\ Settled(S) /\ Synced(S) /\ Pointers(heap) = Pointers(before)
  BY DEF Return, Second
<1>2. mem' = mem /\ writes' = writes /\ before' = before /\ visited' = visited
  BY DEF Return, target
<1>3. /\ n \in Nat \ {0} /\ n \in 1 .. n /\ 1 \in 1 .. n
      /\ \A j \in 1 .. n : stack[j].obj \in Objects /\ stack[j].at \in Nat \ {0}
      /\ WellFormed(heap, Len(heap)) /\ Len(heap) \in Nat
  BY <1>1, StackType DEF TypeOK, WellFormed, Objects
<1>4. CASE n = 1
  <2>1. heap' = heap /\ stack' = << >>
    BY <1>4 DEF Return
  <2>2. SamePointers(heap, heap')
    BY <2>1 DEF SamePointers, SameStructs
  <2>3. Settled(S)' /\ ~Busy'
    BY <1>1, <1>2, <2>1, <2>2, SettledKept DEF Busy
  <2>4. QED
    BY <1>1, <1>2, <2>1, <2>3 DEF Second
<1>5. CASE n # 1
  <2>1. /\ m \in Nat \ {0} /\ m \in 1 .. n - 1 /\ m \in 1 .. n /\ m # n /\ m + 1 = n /\ m <= n
        /\ \A j \in 1 .. m : j \in 1 .. n
        /\ n \in 2 .. n
    <3>1. \A i \in Nat \ {0} : i # 1 => i - 1 \in Nat \ {0} /\ i - 1 \in 1 .. i - 1 /\ i - 1 \in 1 .. i
                                        /\ i - 1 # i /\ (i - 1) + 1 = i /\ i - 1 <= i
                                        /\ (\A j \in 1 .. i - 1 : j \in 1 .. i) /\ i \in 2 .. i
      OBVIOUS
    <3>2. QED
      BY <1>3, <1>5, <3>1
  <2>2. PICK o \in Objects, k \in Slots(stack[m].obj) : o = stack[m].obj /\ k = stack[m].at
    BY <1>1, <1>3, <2>1 DEF Synced
  <2>3. PICK v \in Objects : v = stack[n].obj
    BY <1>3
  <2>4. /\ k \in Slots(o) /\ k \in Nat \ {0} /\ Getter(o, k).val = v /\ v = S[o][k] + 1
        /\ heap[o].loaded /\ heap[v].loaded
    <3>1. /\ Getter(stack[m].obj, stack[m].at).val = stack[m + 1].obj
          /\ stack[m + 1].obj = S[stack[m].obj][stack[m].at] + 1
          /\ heap[stack[m].obj].loaded /\ heap[stack[n].obj].loaded
      BY <1>1, <1>3, <2>1 DEF Synced
    <3>2. k \in Slots(o)
      BY <2>2
    <3>3. k \in Nat \ {0}
      BY <1>3, <2>1, <2>2
    <3>4. m + 1 = n
      BY <2>1
    <3> HIDE DEF m
    <3>5. QED
      BY <2>2, <2>3, <3>1, <3>2, <3>3, <3>4
  <2>5. Followed(S, o, k)
    BY <1>1, <2>4 DEF Settled
  <2>6. Getter(o, k).err = "nil" /\ S[o][k + 1] = S[v][Len(LayoutOf(v)) + 1]
    BY <2>4, <2>5 DEF Followed, LastOf
  <2>7. stack[n].at = Len(LayoutOf(v)) + 1
    <3>1. stack[n].at <= Len(LayoutOf(v)) + 1
      BY <1>1, <1>3, <2>3 DEF Synced, InLayout
    <3>2. stack[n].at > Len(LayoutOf(v))
      BY <2>3 DEF Return, frame, object, layout, LayoutOf
    <3>3. Len(LayoutOf(v)) \in Nat /\ stack[n].at \in Nat
      BY <1>1, <1>3, StackType
    <3>4. QED
      BY <3>1, <3>2, <3>3
  <2>8. PICK g : g = [Getter(o, k) EXCEPT !.err = "nil"]
    OBVIOUS
  <2>9. WellFormed(heap', Len(heap)) /\ SamePointers(heap, heap')
    <3>1. Getter(o, k) \in Getters(Len(heap)) /\ k \in DOMAIN heap[o].fields
          /\ Getter(o, k) = heap[o].fields[k] /\ o \in 1 .. Len(heap)
      BY <2>4, SlotType DEF Slots, Getter, Objects
    <3>2. g \in Getters(Len(heap)) /\ g.addr = Getter(o, k).addr /\ g.val = Getter(o, k).val
          /\ g.err = Getter(o, k).err
      BY <2>6, <2>8, <3>1 DEF Getters
    <3>3. heap' = Assigned(heap, o, k, g)
      BY <1>5, <2>2, <2>8 DEF Return, Assigned, Getter
    <3>4. QED
      BY <1>3, <3>1, <3>2, <3>3, SameAssigned
  <2>10. /\ Len(stack') = m
         /\ \A j \in 1 .. m :
              /\ stack'[j].obj = stack[j].obj /\ stack'[j].words = stack[j].words
              /\ stack'[j].at = IF j = m THEN stack[j].at + 1 ELSE stack[j].at
    <3>1. PICK rest : rest = SubSeq(stack, 1, m)
      OBVIOUS
    <3>2. stack \in Seq(Frames(Len(heap))) /\ \A j \in 1 .. n : stack[j] \in Frames(Len(heap))
      BY DEF TypeOK
    <3> HIDE DEF m
    <3>3. /\ rest \in Seq(Frames(Len(heap))) /\ Len(rest) = m
          /\ \A j \in 1 .. m : rest[j] = stack[j]
      <4>1. \A j \in 1 .. m : stack[j] \in Frames(Len(heap))
        BY <2>1, <3>2
      <4>2. QED
        BY <1>3, <2>1, <3>1, <3>2, <4>1, SubSeqProperties
    <3>4. PICK f : f = [rest[m] EXCEPT !.at = @ + 1]
      OBVIOUS
    <3>5. f.obj = stack[m].obj /\ f.words = stack[m].words /\ f.at = stack[m].at + 1
      BY <2>1, <3>2, <3>3, <3>4 DEF Frames
    <3>6. stack' = [rest EXCEPT ![m] = f]
      BY <1>5, <3>1, <3>3, <3>4 DEF Return, m
    <3>7. Len(stack') = m /\ \A j \in 1 .. m : stack'[j] = IF j = m THEN f ELSE rest[j]
      BY <2>1, <3>3, <3>6
    <3>8. QED
      BY <3>3, <3>5, <3>7
  <2> HIDE DEF m
  <2>11. Settled(S)'
    BY <1>1, <1>2, <2>9, SettledKept
  <2>12. Pointers(heap)' = Pointers(before)'
    BY <1>1, <1>2, <1>3, <2>9, PointersKept
  <2>13. /\ Made' = Made
         /\ \A p \in Objects :
              /\ Slots(p)' = Slots(p) /\ LayoutOf(p)' = LayoutOf(p)
              /\ heap'[p].under = heap[p].under /\ heap'[p].from = heap[p].from
              /\ heap'[p].loaded = heap[p].loaded
         /\ \A p \in Objects : \A i \in Slots(p) : Getter(p, i)'.val = Getter(p, i).val
    BY <2>9, SameFacts
  <2>14. ASSUME NEW j \in 1 .. m
         PROVE  /\ heap'[stack'[j].obj].loaded
                /\ stack'[j].words = mem'[heap'[stack'[j].obj].from]
                /\ stack'[j].at <= Len(LayoutOf(stack[j].obj)') + 1
    <3>1. PICK p \in Objects : p = stack[j].obj
      BY <1>3, <2>1
    <3>2. heap[p].loaded /\ stack[j].words = mem[heap[p].from] /\ stack[j].at <= Len(LayoutOf(p)) + 1
      BY <1>1, <2>1, <3>1 DEF Synced, InLayout
    <3>3. stack'[j].obj = p /\ LayoutOf(stack[j].obj)' = LayoutOf(p)'
      BY <2>10, <3>1 DEF LayoutOf
    <3>4. stack'[j].at <= Len(LayoutOf(p)) + 1
      <4>1. CASE j = m
        <5>1. k <= Len(LayoutOf(p)) /\ k \in Nat /\ Len(LayoutOf(p)) \in Nat
          BY <1>1, <2>2, <2>4, <3>1, <4>1, StackType
        <5>2. QED
          BY <2>2, <2>10, <4>1, <5>1
      <4>2. CASE j # m
        BY <2>10, <3>2, <4>2
      <4>3. QED
        BY <4>1, <4>2
    <3>5. QED
      BY <1>2, <2>10, <2>13, <3>1, <3>2, <3>3, <3>4
  <2>15. ASSUME NEW j \in 2 .. m
         PROVE  stack'[j].obj \in Made' /\ heap'[stack'[j].obj].under = stack'[1].at
    <3>1. j \in 2 .. n /\ j \in 1 .. m /\ 1 \in 1 .. m /\ 1 # m
      BY <1>3, <2>1
    <3>2. stack[j].obj \in Made /\ heap[stack[j].obj].under = stack[1].at
      BY <1>1, <3>1 DEF Synced
    <3>3. QED
      BY <1>3, <2>1, <2>10, <2>13, <3>1, <3>2
  <2>16. ASSUME NEW j \in 1 .. m - 1
         PROVE  /\ stack'[j].at \in Slots(stack[j].obj)'
                /\ Getter(stack[j].obj, stack[j].at)'.val = stack'[j + 1].obj
                /\ stack'[j + 1].obj = S[stack'[j].obj][stack'[j].at] + 1
    <3>1. j \in 1 .. m /\ j # m /\ j + 1 \in 1 .. m /\ j \in 1 .. n - 1 /\ j \in 1 .. n
      BY <1>3, <2>1
    <3>2. PICK p \in Objects, i \in Nat : p = stack[j].obj /\ i = stack[j].at
      BY <1>3, <3>1
    <3>3. i \in Slots(p) /\ Getter(p, i).val = stack[j + 1].obj /\ stack[j + 1].obj = S[p][i] + 1
      BY <1>1, <3>1, <3>2 DEF Synced
    <3>4. stack'[j].obj = p /\ stack'[j].at = i /\ stack'[j + 1].obj = stack[j + 1].obj
      BY <2>10, <3>1, <3>2
    <3>5. /\ Slots(stack[j].obj)' = Slots(p)'
          /\ Getter(stack[j].obj, stack[j].at)' = Getter(p, i)'
      BY <3>4 DEF Slots, Getter
    <3>6. QED
      BY <2>13, <3>3, <3>4, <3>5
  <2>17. m # 1 => Remembers(S, visited)'
    <3>1. ASSUME m # 1 PROVE Remembers(S, visited)'
      <4>1. frame' = stack'[m] /\ frame = stack[n]
        BY <2>10 DEF frame
      <4>2. frame.obj' = o /\ frame.at' = k + 1 /\ frame.obj = v
        BY <2>1, <2>2, <2>3, <2>10, <4>1
      <4>3. S[frame.obj'][frame.at'] = S[frame.obj][frame.at]
        BY <2>3, <2>6, <2>7, <4>1, <4>2
      <4>4. stack'[1].at = stack[1].at
        BY <2>1, <2>10, <3>1
      <4>5. Remembers(S, visited)
        BY <1>1, <1>5 DEF Synced
      <4>6. PICK w : w = visited
        OBVIOUS
      <4>7. Remembers(S, w)'
        BY <2>9, <4>3, <4>4, <4>5, <4>6, RemembersSame
      <4>8. QED
        BY <1>2, <4>6, <4>7 DEF Remembers
    <3>2. QED
      BY <3>1
  <2>18. stack'[1].obj = 1
    BY <1>1, <2>1, <2>10 DEF Synced
  <2>19. InLayout'
    BY <2>10, <2>14 DEF InLayout
  <2>20. Synced(S)'
    BY <2>10, <2>14, <2>15, <2>16, <2>17, <2>18, <2>19 DEF Synced
  <2>21. QED
    BY <2>11, <2>12, <2>20 DEF Second
<1>6. QED
  BY <1>4, <1>5

-----------------------------------------------------------------------------
(***************************************************************************)
(* From one Unmarshal to the other.                                        *)
(***************************************************************************)
\* What the first Unmarshal read into the client's struct.
Root ==
  Len(calls) = 1 /\ writes = 0 =>
    IF outcome = "error" THEN mem[calls[1]] = Unreadable
                         ELSE heap[1].from = calls[1] /\ heap[1].loaded

RereadInv ==
  /\ First => \E S \in Stamps : Traced(S)
  /\ Root
  /\ Again => \E S \in Stamps : Second(S)

LEMMA FirstKeepsRead ==
  ASSUME IInv, Graph, Step
  PROVE  heap'[1].from = heap[1].from /\ heap'[1].loaded = heap[1].loaded
<1>1. TypeOK /\ Busy /\ 1 \in Objects
  <2>1. TypeOK /\ Busy
    BY DEF Step, ZeroPointer, TextRead, Reuse, Mismatch, Chase, Return, AtPointer, AtField, IInv
  <2>2. QED
    BY <2>1, FrameType DEF Objects
<1>2. CASE ZeroPointer \/ TextRead \/ Reuse \/ Mismatch
  <2>1. PICK g : heap' = Assigned(heap, frame.obj, frame.at, g)
    BY <1>2 DEF ZeroPointer, TextRead, Reuse, Mismatch, FieldDone, Assigned
  <2>2. WellFormed(heap, Len(heap)) /\ frame.obj \in 1 .. Len(heap) /\ Len(heap) \in Nat
    BY <1>1, FrameType DEF TypeOK, WellFormed, Objects
  <2>3. SameStructs(heap, heap')
    BY <2>1, <2>2, AssignedSlots
  <2>4. QED
    BY <1>1, <2>3 DEF SameStructs, Objects
<1>3. CASE Chase
  BY <1>1, <1>3, ChaseHeap
<1>4. CASE Return
  <2>1. CASE Len(stack) = 1
    BY <1>4, <2>1 DEF Return
  <2>2. CASE Len(stack) # 1
    <3>1. SameStructs(heap, heap')
      BY <1>4, <2>2, ReturnShape DEF GetterSet
    <3>2. QED
      BY <1>1, <3>1 DEF SameStructs, Objects
  <2>3. QED
    BY <2>1, <2>2
<1>5. QED
  BY <1>2, <1>3, <1>4 DEF Step

\* The first Unmarshal returned: everything is settled.
LEMMA FirstSettled ==
  ASSUME TypeOK, Graph, NEW S \in Stamps, Traced(S), ~Busy, writes = 0
  PROVE  Settled(S)
<1>1. \A j \in 1 .. Len(stack) : FALSE
  BY DEF Busy
<1>2. \A o, k : ~Pending(o, k)
  BY Idle
<1>3. ASSUME NEW o \in Objects, NEW k \in Slots(o), heap[o].loaded
      PROVE  Decoded(S, o, k) /\ Followed(S, o, k) /\ Getter(o, k).addr = mem[heap[o].from][k]
  <2>1. Came(o, k) /\ Left(o, k)
    BY <1>1, <1>2, <1>3 DEF Came, Left
  <2>2. Decoded(S, o, k) /\ Followed(S, o, k)
    BY <2>1 DEF Traced
  <2>3. QED
    BY <1>2, <1>3, <2>2 DEF Graph, Words
<1>4. Numbered(S) /\ ByField(S, Len(LayoutOf(1)) + 1)
  BY DEF Traced
<1>5. Distinct /\ Edges /\ \A p \in Made : heap[p].loaded = (mem[heap[p].from] # Unreadable)
  BY DEF Graph, Words
<1>6. QED
  BY <1>3, <1>4, <1>5 DEF Settled

LEMMA SecondStarts ==
  ASSUME IInv, Graph, NEW S \in Stamps, Traced(S), NEW a \in Addrs, Unmarshal(a), writes = 0,
         mem[a] # Unreadable, heap[1].from = a, heap[1].loaded
  PROVE  Second(S)'
<1>1. TypeOK /\ ~Busy /\ 1 \in Objects /\ Len(heap) \in Nat /\ WellFormed(heap, Len(heap))
      /\ 1 \in 1 .. Len(heap)
  BY DEF Unmarshal, IInv, TypeOK, Objects, WellFormed
<1>2. Settled(S)
  BY <1>1, FirstSettled
<1>3. heap' = ReadInto(heap, 1, a) /\ before' = heap /\ mem' = mem /\ writes' = writes
      /\ stack' = <<NewFrame(1, a)>>
  BY DEF Unmarshal, ReadInto, target
<1>4. WellFormed(heap', Len(heap)) /\ SamePointers(heap, heap')
  BY <1>1, <1>3, SameRead
<1>5. Settled(S)' /\ Pointers(heap)' = Pointers(before)'
  BY <1>1, <1>2, <1>3, <1>4, SettledKept, PointersKept
<1>6. Len(stack') = 1 /\ stack'[1].obj = 1 /\ stack'[1].at = 1 /\ stack'[1].words = mem[a]
  BY <1>3 DEF NewFrame
<1>7. heap'[1].loaded /\ heap'[1].from = a /\ LayoutOf(1)' = LayoutOf(1)
  BY <1>1, <1>4, SameFacts
<1>8. Len(LayoutOf(1)) \in Nat
  <2>1. heap[1].type \in Types
    BY <1>1, SlotType
  <2>2. QED
    BY <2>1, TypesAssumption DEF LayoutOf
<1>9. InLayout'
  <2>1. LayoutOf(stack[1].obj)' = LayoutOf(1)'
    BY <1>6 DEF LayoutOf
  <2>2. \A j \in 1 .. Len(stack') : j = 1
    BY <1>6
  <2>3. QED
    BY <1>6, <1>7, <1>8, <2>1, <2>2 DEF InLayout
<1>10. (\A j \in 1 .. Len(stack') : j = 1) /\ (\A j \in 2 .. Len(stack') : FALSE)
       /\ (\A j \in 1 .. Len(stack') - 1 : FALSE)
  BY <1>6
<1>11. Synced(S)'
  BY <1>3, <1>6, <1>7, <1>9, <1>10 DEF Synced
<1>12. QED
  BY <1>5, <1>11 DEF Second

LEMMA RereadInvInit == Init => RereadInv
BY DEF Init, RereadInv, First, Root, Again

LEMMA RereadStutter ==
  ASSUME UNCHANGED vars, RereadInv
  PROVE  RereadInv'
<1>1. /\ mem' = mem /\ heap' = heap /\ stack' = stack /\ visited' = visited /\ calls' = calls
      /\ outcome' = outcome /\ before' = before /\ writes' = writes
  BY DEF vars
<1>2. \A S : Traced(S)' <=> Traced(S)
  BY <1>1 DEF Traced, Numbered, Came, Left, Decoded, Followed, LastOf, ByField, InLayout, LayoutOf,
              Objects, Made, Getter, Slots, Top, Pending, Busy, frame
<1>3. \A S : Second(S)' <=> Second(S)
  BY <1>1 DEF Second, Settled, Synced, Remembers, Seen, Distinct, Edges, Pointers,
              Numbered, Decoded, Followed, LastOf, ByField, InLayout, LayoutOf,
              Objects, Made, Getter, Slots, Top, Busy, frame
<1>4. QED
  BY <1>1, <1>2, <1>3 DEF RereadInv, First, Root, Again

LEMMA RereadInvStep == IInv /\ GInv /\ RereadInv /\ [Next]_vars => RereadInv'
<1> SUFFICES ASSUME IInv, GInv, RereadInv, [Next]_vars PROVE RereadInv'
  OBVIOUS
<1>1. /\ IInv' /\ TypeOK /\ TypeOK' /\ Calm /\ (First => Graph)
      /\ calls \in Seq(Addrs) /\ writes \in Nat
  <2>1. IInv'
    BY IInvStep
  <2>2. QED
    BY <2>1 DEF IInv, GInv, TypeOK
<1>2. CASE UNCHANGED vars
  BY <1>2, RereadStutter
<1>3. ASSUME NEW a \in Addrs, Unmarshal(a) PROVE RereadInv'
  <2>1. /\ calls' = Append(calls, a) /\ mem' = mem /\ writes' = writes /\ ~Busy
        /\ Len(calls') = Len(calls) + 1 /\ Len(calls) \in Nat /\ calls'[Len(calls) + 1] = a
        /\ \A i \in 1 .. Len(calls) : calls'[i] = calls[i]
    BY <1>1, <1>3 DEF Unmarshal, target
  <2>2. /\ mem[a] = Unreadable => outcome' = "error"
        /\ mem[a] # Unreadable => outcome' = "none"
    BY <1>3 DEF Unmarshal
  <2>3. CASE Len(calls) = 0
    <3>1. calls = << >> /\ Len(calls') = 1 /\ calls'[1] = a
      BY <1>1, <2>1, <2>3
    <3>2. First' => \E S \in Stamps : Traced(S)'
      BY <1>1, <1>3, <2>2, <3>1, FirstTraced DEF First
    <3>3. heap'[1].from = a /\ heap'[1].loaded = (mem[a] # Unreadable)
      <4>1. WellFormed(heap, Len(heap)) /\ 1 \in 1 .. Len(heap) /\ Len(heap) \in Nat
        BY <1>1 DEF TypeOK, WellFormed, Objects
      <4>2. heap' = ReadInto(heap, 1, a)
        BY <1>3 DEF Unmarshal, ReadInto
      <4>3. QED
        BY <4>1, <4>2, ReadSlots
    <3>4. Root'
      BY <2>1, <2>2, <3>1, <3>3 DEF Root
    <3>5. ~Again'
      BY <3>1 DEF Again
    <3>6. QED
      BY <3>2, <3>4, <3>5 DEF RereadInv
  <2>4. CASE Len(calls) = 1
    <3>1. Len(calls') = 2 /\ calls'[2] = a /\ calls'[1] = calls[1]
      BY <2>1, <2>4
    <3>2. ~First' /\ Root'
      BY <3>1 DEF First, Root
    <3>3. ASSUME Again' PROVE \E S \in Stamps : Second(S)'
      <4>1. calls[1] = a /\ writes = 0 /\ mem[a] # Unreadable
        BY <2>1, <2>2, <3>1, <3>3 DEF Again
      <4>2. outcome # "error" /\ heap[1].from = a /\ heap[1].loaded
        BY <2>4, <4>1 DEF RereadInv, Root
      <4>3. First
        BY <2>4, <4>2 DEF First
      <4>4. PICK S \in Stamps : Traced(S)
        BY <4>3 DEF RereadInv
      <4>5. Second(S)'
        BY <1>1, <1>3, <4>1, <4>2, <4>3, <4>4, SecondStarts
      <4>6. QED
        BY <4>5
    <3>4. QED
      BY <3>2, <3>3 DEF RereadInv
  <2>5. CASE Len(calls) \notin {0, 1}
    <3>1. Len(calls') # 1 /\ Len(calls') # 2
      <4>1. \A i \in Nat : i \notin {0, 1} => i + 1 # 1 /\ i + 1 # 2
        OBVIOUS
      <4>2. QED
        BY <2>1, <2>5, <4>1
    <3>2. QED
      BY <3>1 DEF RereadInv, First, Root, Again
  <2>6. QED
    BY <2>3, <2>4, <2>5
<1>4. ASSUME NEW a \in Addrs, NEW c \in Contents, Write(a, c) PROVE RereadInv'
  <2>1. writes' # 0 /\ calls' = calls /\ outcome' = outcome
    BY <1>1, <1>4 DEF Write, client
  <2>2. ~Again' /\ Root'
    BY <2>1 DEF Again, Root
  <2>3. ASSUME First' PROVE \E S \in Stamps : Traced(S)'
    <3>1. First
      BY <2>1, <2>3 DEF First
    <3>2. PICK S \in Stamps : Traced(S)
      BY <3>1 DEF RereadInv
    <3>3. Traced(S)'
      BY <1>1, <1>4, <3>2, WriteTraced
    <3>4. QED
      BY <3>3
  <2>4. QED
    BY <2>2, <2>3 DEF RereadInv
<1>5. CASE Step
  <2>1. /\ Busy /\ calls # << >> /\ outcome = "none" /\ calls' = calls /\ mem' = mem
        /\ writes' = writes
    BY <1>1, <1>5 DEF Step, ZeroPointer, TextRead, Reuse, Mismatch, Chase, Return,
                      AtPointer, AtField, client, target, Calm
  <2>2. outcome' # "error"
    BY <1>5, <2>1 DEF Step, ZeroPointer, TextRead, Reuse, Mismatch, Chase, Return, client
  <2>3. ASSUME First' PROVE \E T \in Stamps : Traced(T)'
    <3>1. First /\ Graph
      BY <1>1, <2>1, <2>3 DEF First
    <3>2. PICK S \in Stamps : Traced(S)
      BY <3>1 DEF RereadInv
    <3>3. CASE ZeroPointer \/ TextRead \/ Reuse \/ Mismatch
      BY <1>1, <3>1, <3>2, <3>3, LeafStepTraced
    <3>4. CASE Chase
      BY <1>1, <3>1, <3>2, <3>4, FailedChaseTraced, DescendTraced
    <3>5. CASE Return
      BY <1>1, <3>1, <3>2, <3>5, InnerReturnTraced, LastReturnTraced
    <3>6. QED
      BY <1>5, <3>3, <3>4, <3>5 DEF Step
  <2>4. Root'
    <3>1. ASSUME Len(calls) = 1, writes = 0 PROVE heap'[1].from = calls[1] /\ heap'[1].loaded
      <4>1. heap[1].from = calls[1] /\ heap[1].loaded
        BY <2>1, <3>1 DEF RereadInv, Root
      <4>2. Graph
        BY <1>1, <2>1, <3>1 DEF First
      <4>3. QED
        BY <1>5, <4>1, <4>2, FirstKeepsRead
    <3>2. QED
      BY <2>1, <2>2, <3>1 DEF Root
  <2>5. ASSUME Again' PROVE \E S \in Stamps : Second(S)'
    <3>1. Again /\ writes = 0
      BY <2>1, <2>5 DEF Again
    <3>2. PICK S \in Stamps : Second(S)
      BY <3>1 DEF RereadInv
    <3>3. CASE ZeroPointer \/ TextRead \/ Reuse \/ Mismatch
      BY <1>1, <3>1, <3>2, <3>3, LeafStepSecond
    <3>4. CASE Chase
      BY <1>1, <3>1, <3>2, <3>4, ChaseSecond
    <3>5. CASE Return
      BY <1>1, <3>2, <3>5, ReturnSecond
    <3>6. QED
      BY <1>5, <3>2, <3>3, <3>4, <3>5 DEF Step
  <2>6. QED
    BY <2>3, <2>4, <2>5 DEF RereadInv
<1>6. QED
  BY <1>2, <1>3, <1>4, <1>5 DEF Next

LEMMA RereadFromSecond == RereadInv => RereadSame
BY DEF RereadInv, RereadSame, Again, Second

\* A second Unmarshal of unchanged memory into the same struct comes to the structs
\* in the order of the first, finds in each context what the first had put there,
\* and so changes no pointer, no address and no error, for every memory and layout.
THEOREM RereadSameAlways == Spec => []RereadSame
<1>1. Init => IInv /\ GInv /\ RereadInv
  BY IInvInit, GInvInit, RereadInvInit
<1>2. IInv /\ GInv /\ RereadInv /\ [Next]_vars => (IInv /\ GInv /\ RereadInv)'
  BY IInvStep, GInvStep, RereadInvStep
<1> QED
  BY <1>1, <1>2, RereadFromSecond, PTL DEF Spec
=============================================================================
