-------------------------- MODULE SparseUnmarshal --------------------------
(***************************************************************************)
(* sparsestruct.Unmarshal following PointerGetter and StringPointer fields *)
(* through the memory of a live target (src/sparsestruct/sparsestruct.go). *)
(* One action per field decoded; the recursion of Unmarshal, Read and      *)
(* unmarshalStructFields is the explicit stack.  Numbers, arrays and       *)
(* embedded structs are left out: they end no chase and start none.        *)
(***************************************************************************)
EXTENDS Integers, Sequences

CONSTANTS
  Addrs,      \* addresses pointers can hold
  Null,       \* address 0
  Types,      \* struct types T of PointerGetter[T]
  Text,       \* stands for StringPointer in a layout
  RootType,   \* the type of the struct the client passes
  Layout,     \* the pointer fields of each type, in order: a pointee type or Text
  Contents,   \* what the target can hold at an address: words, or Unreadable
  MaxCalls,   \* bound: Unmarshals into one struct
  MaxWrites   \* bound: writes by the target

Unreadable == << >>
ASSUME AddrsAssumption == Null \notin Addrs
ASSUME TypesAssumption ==
  /\ Text \notin Types /\ RootType \in Types
  /\ Layout \in [Types -> Seq(Types \cup {Text})]
ASSUME ContentsAssumption ==
  /\ Contents \subseteq Seq(Addrs \cup {Null})
  /\ \A c \in Contents, t \in Types : c # Unreadable => Len(Layout[t]) <= Len(c)
ASSUME BoundsAssumption == MaxCalls \in Nat /\ MaxWrites \in Nat

VARIABLES
  mem,       \* the target's memory
  heap,      \* the structs built so far; the client's is heap[1]
  stack,     \* structs being decoded, the innermost last
  visited,   \* readContext.visited of the current chase
  calls,     \* addresses of the client's Unmarshals so far
  outcome,   \* how the last one ended
  before,    \* history: the heap when the last one started
  writes     \* number of writes by the target

vars == <<mem, heap, stack, visited, calls, outcome, before, writes>>
client == <<calls, outcome, before>>
target == <<mem, writes>>

Objects == 1 .. Len(heap)
NoObject == 0

\* `under`, `from` and `loaded` are history: the field of the client's struct below
\* which the struct was made, the address last read for it, and whether that read
\* succeeded.
NewGetter == [addr |-> Null, val |-> NoObject, text |-> << >>, err |-> "nil"]
NewObject(t, u) == [type |-> t, under |-> u, from |-> Null, loaded |-> FALSE,
                    fields |-> [k \in 1 .. Len(Layout[t]) |-> NewGetter]]

Init == /\ mem \in [Addrs -> Contents]
        /\ heap = <<NewObject(RootType, 0)>>
        /\ stack = << >>
        /\ visited = << >>
        /\ calls = << >> /\ outcome = "none" /\ before = << >>
        /\ writes = 0

\* Every read sees the memory of its own moment.
Write(a, c) == /\ writes < MaxWrites
               /\ mem[a] # c
               /\ mem' = [mem EXCEPT ![a] = c]
               /\ writes' = writes + 1
               /\ UNCHANGED <<heap, stack, visited, client>>

Busy == stack # << >>
frame == stack[Len(stack)]
object == heap[frame.obj]
layout == Layout[object.type]
AtField == Busy /\ frame.at <= Len(layout)
word == frame.words[frame.at]
getter == object.fields[frame.at]

NewFrame(o, a) == [obj |-> o, addr |-> a, words |-> mem[a], at |-> 1]
Read(o, a) == [o EXCEPT !.from = a, !.loaded = mem[a] # Unreadable]

(***************************************************************************)
(* The client calls Unmarshal(r, a, &heap[1]), perhaps once more into the  *)
(* same struct.                                                            *)
(***************************************************************************)
Unmarshal(a) ==
  /\ ~Busy /\ Len(calls) < MaxCalls
  /\ calls' = Append(calls, a)
  /\ before' = heap
  /\ heap' = [heap EXCEPT ![1] = Read(@, a)]
  /\ IF mem[a] = Unreadable
     THEN outcome' = "error" /\ UNCHANGED stack
     ELSE outcome' = "none" /\ stack' = <<NewFrame(1, a)>>
  /\ UNCHANGED <<visited, target>>

(***************************************************************************)
(* decodePointerField: make the getter, set its address, call Read.        *)
(***************************************************************************)
\* The current field becomes g, and decoding goes on to the next one.
FieldDone(g) ==
  /\ heap' = [heap EXCEPT ![frame.obj].fields[frame.at] = g]
  /\ stack' = [stack EXCEPT ![Len(stack)].at = @ + 1]

Addressed == [getter EXCEPT !.addr = word]

ZeroPointer == /\ AtField /\ word = Null
               /\ FieldDone([Addressed EXCEPT !.err = "zero"])
               /\ UNCHANGED <<visited, client, target>>

TextRead ==
  /\ AtField /\ word # Null /\ layout[frame.at] = Text
  /\ FieldDone(IF mem[word] = Unreadable
               THEN [Addressed EXCEPT !.err = "read"]
               ELSE [Addressed EXCEPT !.text = Append(@, word)])
  /\ UNCHANGED <<visited, client, target>>

AtPointer == AtField /\ word # Null /\ layout[frame.at] # Text

\* asReadContext: the fields of the client's struct get a context each.
Visited == IF Len(stack) = 1 THEN << >> ELSE visited

\* Mutant: asserts T, which is never what is stored.
MutTypesMatch(o, t) == FALSE

\* existing.(*T)
TypesMatch(o, t) == heap[o].type = t

Reuse ==
  /\ AtPointer /\ word \in DOMAIN Visited
  /\ TypesMatch(Visited[word], layout[frame.at])
  /\ FieldDone([Addressed EXCEPT !.val = Visited[word]])
  /\ UNCHANGED <<visited, client, target>>

Mismatch ==
  /\ AtPointer /\ word \in DOMAIN Visited
  /\ ~TypesMatch(Visited[word], layout[frame.at])
  /\ FieldDone(Addressed)
  /\ UNCHANGED <<visited, client, target>>

\* Mutant: always a new struct.
MutVal == Len(heap) + 1

\* p.Val, or a new struct
Val == IF getter.val # NoObject THEN getter.val ELSE Len(heap) + 1

\* Mutants: nothing registered; p.Val registered before it is made; registered
\* under the address of the struct that holds the pointer.
MutRegisteredNot(v) == Visited
MutRegisteredEarly(v) ==
  [a \in DOMAIN Visited \cup {word} |-> IF a = word THEN getter.val ELSE Visited[a]]
MutRegisteredHolder(v) ==
  [a \in DOMAIN Visited \cup {frame.addr} |-> IF a = frame.addr THEN v ELSE Visited[a]]

Registered(v) ==
  [a \in DOMAIN Visited \cup {word} |-> IF a = word THEN v ELSE Visited[a]]

WithVal == IF Val \in Objects THEN heap
           ELSE Append(heap, NewObject(layout[frame.at], stack[1].at))

\* Register p.Val, then Unmarshal(ctx, p.Address(), p.Val); the getter's error is
\* assigned when that returns.
Chase ==
  /\ AtPointer /\ word \notin DOMAIN Visited
  /\ visited' = Registered(Val)
  /\ LET g == [Addressed EXCEPT !.val = Val]
         h == [WithVal EXCEPT ![frame.obj].fields[frame.at] = g]
     IN  IF mem[word] = Unreadable
         THEN /\ heap' = [h EXCEPT ![frame.obj].fields[frame.at].err = "read",
                                   ![Val] = Read(@, word)]
              /\ stack' = [stack EXCEPT ![Len(stack)].at = @ + 1]
         ELSE /\ heap' = [h EXCEPT ![Val] = Read(@, word)]
              /\ stack' = Append(stack, NewFrame(Val, word))
  /\ UNCHANGED <<client, target>>

\* Mutant: the field is decoded again after the call.
MutReturn ==
  /\ Busy /\ frame.at > Len(layout)
  /\ stack' = SubSeq(stack, 1, Len(stack) - 1)
  /\ outcome' = IF Len(stack) = 1 THEN "ok" ELSE outcome
  /\ UNCHANGED <<heap, visited, calls, before, target>>

\* All fields are decoded: back to the Read that made the call, or to the client.
Return ==
  /\ Busy /\ frame.at > Len(layout)
  /\ IF Len(stack) = 1
     THEN stack' = << >> /\ outcome' = "ok" /\ UNCHANGED heap
     ELSE LET rest == SubSeq(stack, 1, Len(stack) - 1)
              up == stack[Len(stack) - 1]
          IN  /\ heap' = [heap EXCEPT ![up.obj].fields[up.at].err = "nil"]
              /\ stack' = [rest EXCEPT ![Len(rest)].at = @ + 1]
              /\ UNCHANGED outcome
  /\ UNCHANGED <<visited, calls, before, target>>

Step == ZeroPointer \/ TextRead \/ Reuse \/ Mismatch \/ Chase \/ Return

Next == \/ \E a \in Addrs : Unmarshal(a) \/ \E c \in Contents : Write(a, c)
        \/ Step

\* Fairness: an Unmarshal is one call that nothing suspends.
Spec == Init /\ [][Next]_vars /\ WF_vars(Step)

-----------------------------------------------------------------------------
\* Type invariant.
Getters(n) == [addr : Addrs \cup {Null}, val : 0 .. n, text : Seq(Addrs),
               err : {"nil", "zero", "read"}]
Structs(n) == [type : Types, under : Nat, from : Addrs \cup {Null}, loaded : BOOLEAN,
               fields : Seq(Getters(n))]
Frames(n) == [obj : 1 .. n, addr : Addrs, words : Contents \ {Unreadable},
              at : Nat \ {0}]

TypeOK ==
  /\ mem \in [Addrs -> Contents]
  /\ heap \in Seq(Structs(Len(heap))) /\ heap # << >>
  /\ \A o \in Objects : Len(heap[o].fields) = Len(Layout[heap[o].type])
  /\ stack \in Seq(Frames(Len(heap)))
  /\ visited \in [DOMAIN visited -> Objects] /\ DOMAIN visited \subseteq Addrs
  /\ calls \in Seq(Addrs) /\ outcome \in {"none", "ok", "error"}
  /\ writes \in Nat

\* While an address is being decoded as the target of a pointer, no second
\* decoding of it starts below: whatever the target writes meanwhile, the
\* recursion is no deeper than there are addresses.
NoReentry ==
  \A j, k \in 2 .. Len(stack) : j # k => stack[j].addr # stack[k].addr

\* Every Unmarshal returns, for cyclic memory and while the target writes.
UnmarshalReturns == Busy ~> ~Busy

(***************************************************************************)
(* What a struct that was filled once shows of the memory.                 *)
(***************************************************************************)
FilledOnce == ~Busy /\ Len(calls) = 1 /\ outcome = "ok"

FieldsOf(os) == UNION {{heap[o].fields[k] : k \in DOMAIN heap[o].fields} : o \in os}

\* The structs reachable from o: those in every set that pointers do not lead out of
\* and that has o.
Closed(os) == \A o \in os : \A k \in DOMAIN heap[o].fields :
                heap[o].fields[k].val \in os \cup {NoObject}
Reach(o) == {p \in Objects : \A os \in SUBSET Objects :
                              Closed(os) /\ o \in os \cup {NoObject} => p \in os}

\* Below one field of the client's struct, pointers that are equal in memory are
\* equal in Go and pointers that differ, differ: the cycles and the sharing of
\* the target's structs are kept.
SharingKept ==
  FilledOnce =>
    \A top \in DOMAIN heap[1].fields :
      LET gs == {g \in FieldsOf(Reach(heap[1].fields[top].val)) \cup {heap[1].fields[top]} :
                   g.val # NoObject}
      IN  \A g, h \in gs : g.addr = h.addr <=> g.val = h.val

\* If the target held still, each pointer leads to a struct of the field's type
\* with the words at its address, and a word read is the word kept.
GraphIsMemory ==
  FilledOnce /\ writes = 0 =>
    \A o \in Objects : heap[o].loaded =>
      \A k \in DOMAIN heap[o].fields :
        LET g == heap[o].fields[k]
        IN  /\ g.addr = mem[heap[o].from][k]
            /\ g.val # NoObject => /\ heap[g.val].from = g.addr
                                   /\ heap[g.val].type = Layout[heap[o].type][k]
                                   /\ heap[g.val].loaded = (mem[g.addr] # Unreadable)

\* A pointer field is left empty without an error only when its address is held,
\* as another type, somewhere below the same field of the client's struct.
NothingSkipped ==
  FilledOnce =>
    \A top \in DOMAIN heap[1].fields :
      LET below == Reach(heap[1].fields[top].val)
      IN  \A o \in {p \in below : heap[p].loaded} : \A k \in DOMAIN heap[o].fields :
            LET g == heap[o].fields[k]
            IN  Layout[heap[o].type][k] # Text /\ g.val = NoObject /\ g.err = "nil" =>
                  \E p \in below : heap[p].from = g.addr
                                   /\ heap[p].type # Layout[heap[o].type][k]

\* Reading an unchanged memory again into the same struct changes no pointer, no
\* address and no error, and builds no new struct.
Pointers(h) == [o \in DOMAIN h |-> [k \in DOMAIN h[o].fields |->
                                      [h[o].fields[k] EXCEPT !.text = << >>]]]

RereadSame ==
  ~Busy /\ outcome = "ok" /\ writes = 0 /\ Len(calls) = 2 /\ calls[1] = calls[2] =>
    Pointers(heap) = Pointers(before)

(***************************************************************************)
(* What the comments say and the code does not do.                         *)
(***************************************************************************)
\* sparsestruct.go:468, "Already loaded this address - reuse the pointer if types
\* match": a pointer without an error leads to a struct that was loaded.
ReusedIsLoaded ==
  FilledOnce => \A g \in FieldsOf(Objects) :
                  g.val # NoObject /\ g.err = "nil" => heap[g.val].loaded
=============================================================================
