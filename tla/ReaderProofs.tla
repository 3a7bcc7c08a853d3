---------------------------- MODULE ReaderProofs ----------------------------
(***************************************************************************)
(* Theorems about GenReader, for every set of files, every length that an  *)
(* array has at run time and every limit of the recursion: the state of    *)
(* the generated readers, and the address at which they read each field.   *)
(*                                                                         *)
(* In the definitions r is the map of the structs (resolved), R the set of *)
(* those that are rigid, G that of those whose readers keep the place, s   *)
(* the active calls, and c one of them.                                    *)
(***************************************************************************)
EXTENDS GenReader, ResolverProofs

USE LengthsAssumption, FarAssumption

MembersOf(r, c) == r[c.name].members

(***************************************************************************)
(* A call between its steps.                                               *)
(***************************************************************************)
Shape(r, c) ==
  LET ms == MembersOf(r, c)
      f  == Head(c.todo)
  IN  /\ c.at <= Len(ms) + 1
      /\ c.at = 0 => c.todo = << >> /\ c.elems = 0 /\ c.offset = 0 /\ c.place = c.from
      /\ c.todo # << >> =>
           /\ c.at >= 2
           /\ ms[c.at - 1].is = "field" => c.todo = <<ms[c.at - 1]>>
           /\ \A i \in 1 .. Len(c.todo) : Holds(Part(ms[c.at - 1]), c.todo[i])
      /\ c.elems = 0 => c.elem = 0
      /\ c.elems > 0 =>
           /\ c.todo # << >> /\ ByValue(f) /\ c.elem < c.elems
           /\ f.len = Single => c.elems = 1
           /\ f.len >= 0 => c.elems = f.len
           /\ f.len = Expr => c.elems <= MaxLen

\* Each call but the newest reads, with the one above it, an element of its field.
Chained(s) ==
  \A k \in 1 .. Len(s) :
    /\ k = Len(s) <=> s[k].elems = 0
    /\ k < Len(s) => /\ s[k + 1].name = Head(s[k].todo).ref
                     /\ ~Head(s[k].todo).remote => s[k + 1].from = s[k].place

Reads == /\ calls # << >> => phase = "done" /\ outcome = "reading"
         /\ \A k \in 1 .. Len(calls) : Shape(resolved, calls[k])
         /\ Chained(calls)

(***************************************************************************)
(* Where a call is: at the member Cur, of whose field Elapsed bytes are    *)
(* read.  In a struct of known length the place is told by the members     *)
(* before it.                                                              *)
(***************************************************************************)
Cur(c) == IF c.at = 0 THEN 1 ELSE IF c.todo = << >> THEN c.at ELSE c.at - 1

Elapsed(c) == IF c.elems > 0 /\ ~Head(c.todo).remote THEN c.elem * Head(c.todo).elem ELSE 0

Measured(r, c) ==
  \E p \in [1 .. Len(MembersOf(r, c)) + 1 -> Nat] :
    /\ Along(r, MembersOf(r, c), r[c.name].inline, p)
    /\ c.place = c.from + p[Cur(c)] + Elapsed(c)

\* Behind a struct whose length nobody knows, there is nothing.
Beyond(r, R, c) ==
  LET ms == MembersOf(r, c)
  IN  /\ c.todo = << >> /\ c.at = Len(ms) + 1 /\ c.at >= 2
      /\ ms[Len(ms)].is = "field" /\ ms[Len(ms)].kind = "struct" /\ ms[Len(ms)].ref \notin R

\* The reader's address and its offset are where the bytes are.
Sync(r, R, c) ==
  /\ c.addr = c.from
  /\ \/ Beyond(r, R, c)
     \/ IF HasDynamicFields(MembersOf(r, c)) THEN c.place = c.from + c.offset + Elapsed(c)
                                             ELSE Measured(r, c)

Trusted(G, s, k) == \A j \in 1 .. k : s[j].name \in G

FitsAt(r, R, G, s, k) == /\ s[k].name \in R => Measured(r, s[k])
                         /\ Trusted(G, s, k) => Sync(r, R, s[k])
Fits(r, R, G, s) == \A k \in 1 .. Len(s) : FitsAt(r, R, G, s, k)

Fine == {n \in Names : Predictable(n) /\ Advances(n)}

InSync == Orderly /\ Positional => Fits(resolved, Rigid, Fine, calls)

(***************************************************************************)
(* What that takes of the resolved structs.                                *)
(***************************************************************************)
Outside(f) == f.kind # "flat" /\ ~f.remote

Layout(r, R, G) ==
  /\ R \subseteq Names /\ G \subseteq Names
  /\ \A n \in Names :
       /\ ~HasDynamicFields(r[n].members) =>
            Lined(r, r[n].members, r[n].inline) /\ r[n].size = r[n].inline
       /\ r[n].size \in {-1, r[n].inline}
       /\ \A f \in ToSet(FieldsOf(r[n].members)) : ByValue(f) => SizeFinal(r, f)
  /\ \A n \in R :
       /\ Lined(r, r[n].members, r[n].inline)
       /\ \A k \in 1 .. Len(r[n].members) : r[n].members[k].is # "cond"
       /\ \A f \in ToSet(FieldsOf(r[n].members)) :
            /\ f.len = Expr => f.remote
            /\ Outside(f) => f.ref \in R /\ (f.kind = "structs" => r[f.ref].size >= 0)
  /\ \A n \in G : \A k \in 1 .. Len(r[n].members) :
       \A f \in ToSet(Part(r[n].members[k])) :
         /\ f.kind = "struct" => \/ f.remote \/ f.ref \in R
                                 \/ k = Len(r[n].members) /\ r[n].members[k].is = "field"
         /\ f.kind = "structs" => f.ref \in R /\ r[f.ref].size >= 0
         /\ HasDynamicFields(r[n].members) /\ Outside(f) => r[f.ref].size >= 0 \/ f.ref \notin R

-----------------------------------------------------------------------------
(***************************************************************************)
(* Types.                                                                  *)
(***************************************************************************)
Setup == TypeOK /\ RTypeOK /\ Reads /\ Reading

LEMMA CallFacts ==
  ASSUME Setup
  PROVE  /\ calls \in Seq(Calls) /\ calls # << >> /\ Len(calls) \in 1 .. Len(calls)
         /\ Len(calls) \in Nat /\ Len(calls) <= MaxCalls
         /\ \A k \in 1 .. Len(calls) : calls[k] \in Calls /\ Shape(resolved, calls[k])
         /\ top = calls[Len(calls)] /\ top \in Calls /\ Shape(resolved, top)
         /\ top.elems = 0 /\ top.elem = 0
         /\ resolved \in [Names -> Structs] /\ top.name \in Names
         /\ members = MembersOf(resolved, top) /\ members \in Seq(Members)
         /\ Len(members) \in Nat
<1>1. calls \in Seq(Calls) /\ calls # << >> /\ Len(calls) <= MaxCalls
  BY DEF Setup, RTypeOK, Reading
<1>2. Len(calls) \in Nat /\ Len(calls) \in 1 .. Len(calls)
  BY <1>1, EmptySeq
<1>3. \A k \in 1 .. Len(calls) : calls[k] \in Calls /\ Shape(resolved, calls[k])
  BY <1>1, ElementOfSeq DEF Setup, Reads
<1>4. top = calls[Len(calls)] /\ top \in Calls /\ Shape(resolved, top)
  BY <1>2, <1>3 DEF top
<1>5. top.elems = 0
  BY <1>2, <1>4 DEF Setup, Reads, Chained
<1>6. top.elem = 0
  BY <1>4, <1>5 DEF Shape
<1>7. resolved \in [Names -> Structs] /\ top.name \in Names
  BY <1>4 DEF Setup, TypeOK, Structs, Calls
<1>8. members = MembersOf(resolved, top) /\ members \in Seq(Members)
  BY <1>7 DEF members, MembersOf, Structs
<1>9. QED
  BY <1>1, <1>2, <1>3, <1>4, <1>5, <1>6, <1>7, <1>8, LenProperties

\* A call on its own.
Call(r, c) == r \in [Names -> Structs] /\ c \in Calls /\ Shape(r, c)

LEMMA CallOn ==
  ASSUME NEW r, NEW c, Call(r, c)
  PROVE  /\ MembersOf(r, c) \in Seq(Members) /\ Len(MembersOf(r, c)) \in Nat
         /\ Len(MembersOf(r, c)) + 1 \in 1 .. Len(MembersOf(r, c)) + 1
         /\ Cur(c) \in 1 .. Len(MembersOf(r, c)) + 1
         /\ c.todo # << >> =>
              /\ Cur(c) = c.at - 1 /\ Cur(c) \in 1 .. Len(MembersOf(r, c))
              /\ Head(c.todo) \in Fields /\ Tail(c.todo) \in Seq(Fields)
              /\ Holds(Part(MembersOf(r, c)[Cur(c)]), Head(c.todo))
              /\ Head(c.todo) \in ToSet(Part(MembersOf(r, c)[Cur(c)]))
              /\ Head(c.todo) \in ToSet(FieldsOf(MembersOf(r, c)))
              /\ Head(c.todo).elem \in Int
         /\ Elapsed(c) \in Int
         /\ c.name \in Names /\ c.at \in Nat /\ c.elems \in Nat /\ c.elem \in Nat
         /\ c.todo \in Seq(Fields) /\ Len(c.todo) \in Nat
         /\ c.addr \in Int /\ c.offset \in Int /\ c.place \in Int /\ c.from \in Int
<1> DEFINE ms == MembersOf(r, c)
           f == Head(c.todo)
<1>1. /\ c.name \in Names /\ c.at \in Nat /\ c.elems \in Nat /\ c.elem \in Nat
      /\ c.todo \in Seq(Fields)
      /\ c.addr \in Int /\ c.offset \in Int /\ c.place \in Int /\ c.from \in Int
  BY DEF Call, Calls
<1>2. ms \in Seq(Members)
  BY <1>1 DEF Call, MembersOf, Structs
<1>3. Len(ms) \in Nat /\ Len(c.todo) \in Nat
  BY <1>1, <1>2, LenProperties
<1>4. /\ c.at <= Len(ms) + 1
      /\ c.at = 0 => c.todo = << >>
      /\ c.todo # << >> => /\ c.at >= 2
                           /\ \A i \in 1 .. Len(c.todo) : Holds(Part(ms[c.at - 1]), c.todo[i])
      /\ c.elems > 0 => c.todo # << >>
  BY DEF Call, Shape
<1>5. /\ Cur(c) \in 1 .. Len(ms) + 1
      /\ c.todo # << >> => Cur(c) = c.at - 1 /\ Cur(c) \in 1 .. Len(ms)
  BY <1>1, <1>3, <1>4 DEF Cur
<1>6. ASSUME c.todo # << >>
      PROVE  /\ f \in Fields /\ Tail(c.todo) \in Seq(Fields)
             /\ Holds(Part(ms[Cur(c)]), f)
             /\ f \in ToSet(Part(ms[Cur(c)])) /\ f \in ToSet(FieldsOf(ms)) /\ f.elem \in Int
  <2>1. f \in Fields /\ Tail(c.todo) \in Seq(Fields)
    BY <1>1, <1>6, HeadTailProperties
  <2>2. Len(c.todo) # 0 /\ f = c.todo[1]
    BY <1>1, <1>6, EmptySeq
  <2>3. Holds(Part(ms[Cur(c)]), f)
    BY <1>3, <1>4, <1>5, <1>6, <2>2
  <2>4. ms[Cur(c)] \in Members
    BY <1>2, <1>5, <1>6, ElementOfSeq
  <2>5. Part(ms[Cur(c)]) \in Seq(Fields)
    BY <2>4, PartType
  <2>6. f \in ToSet(Part(ms[Cur(c)]))
    BY <2>3, <2>5, HoldsToSet
  <2>7. f \in ToSet(FieldsOf(ms))
    BY <1>2, <1>5, <1>6, <2>3, FieldsOfHolds
  <2>8. QED
    BY <2>1, <2>3, <2>6, <2>7 DEF Fields
<1>7. Elapsed(c) \in Int
  <2>1. CASE c.elems > 0
    <3>1. f.elem \in Int /\ c.elem \in Int
      BY <1>1, <1>4, <1>6, <2>1
    <3>2. c.elem * f.elem \in Int
      BY <3>1
    <3>3. QED
      BY <3>2 DEF Elapsed
  <2>2. CASE ~(c.elems > 0)
    BY <2>2 DEF Elapsed
  <2>3. QED
    BY <2>1, <2>2
<1>8. Len(ms) + 1 \in 1 .. Len(ms) + 1
  BY <1>3
<1>9. QED
  BY <1>1, <1>2, <1>3, <1>5, <1>6, <1>7, <1>8

-----------------------------------------------------------------------------
(***************************************************************************)
(* What a step does to the newest call: b bytes are behind it.             *)
(***************************************************************************)
Same(c, c2) == c2.name = c.name /\ c2.addr = c.addr /\ c2.from = c.from

Counts(r, c, c2, b) ==
  \/ Cur(c2) = Cur(c) /\ b = 0
  \/ /\ Cur(c2) = Cur(c) + 1 /\ Cur(c) \in 1 .. Len(MembersOf(r, c))
     /\ b = BytesOf(r, MembersOf(r, c)[Cur(c)])

LEMMA Shifted ==
  ASSUME NEW x \in Int, NEW y \in Int, NEW u \in Int, NEW v \in Int, NEW b \in Int,
         NEW q \in Int, NEW a \in Int, x = a + q + u, y - v = x - u + b
  PROVE  y = a + (q + b) + v
<1>1. QED
  OBVIOUS

LEMMA MeasuredMoves ==
  ASSUME NEW r, NEW c, NEW c2, Call(r, c), Call(r, c2), Same(c, c2), Measured(r, c),
         NEW b \in Int, c2.place - Elapsed(c2) = c.place - Elapsed(c) + b, Counts(r, c, c2, b)
  PROVE  Measured(r, c2)
<1> DEFINE ms == MembersOf(r, c)
<1>1. PICK p \in [1 .. Len(ms) + 1 -> Nat] : /\ Along(r, ms, r[c.name].inline, p)
                                             /\ c.place = c.from + p[Cur(c)] + Elapsed(c)
  BY DEF Measured
<1>2. MembersOf(r, c2) = ms /\ c2.name = c.name /\ c2.from = c.from
  BY DEF Same, MembersOf
<1>3. /\ Cur(c) \in 1 .. Len(ms) + 1 /\ Cur(c2) \in 1 .. Len(ms) + 1
      /\ c.place \in Int /\ c2.place \in Int /\ Elapsed(c) \in Int /\ Elapsed(c2) \in Int
      /\ c.from \in Int
  BY <1>2, CallOn
<1>4. p[Cur(c)] \in Nat /\ p[Cur(c2)] \in Nat
  BY <1>1, <1>3
<1>5. p[Cur(c2)] = p[Cur(c)] + b
  <2>1. CASE Cur(c2) = Cur(c) /\ b = 0
    BY <1>4, <2>1
  <2>2. CASE /\ Cur(c2) = Cur(c) + 1 /\ Cur(c) \in 1 .. Len(ms)
             /\ b = BytesOf(r, ms[Cur(c)])
    BY <1>1, <2>2 DEF Along
  <2>3. QED
    BY <2>1, <2>2 DEF Counts
<1>6. c2.place = c2.from + p[Cur(c2)] + Elapsed(c2)
  <2>1. PICK q \in Int : q = p[Cur(c)]
    BY <1>4
  <2>2. c.place = c.from + q + Elapsed(c)
    BY <1>1, <2>1
  <2>3. c2.place = c.from + (q + b) + Elapsed(c2)
    <3>1. /\ c.place \in Int /\ c2.place \in Int /\ Elapsed(c) \in Int /\ Elapsed(c2) \in Int
          /\ c.from \in Int
      BY <1>3
    <3>2. QED
      BY <2>2, <3>1, Shifted
  <2>4. QED
    BY <1>2, <1>5, <2>1, <2>3
<1>7. QED
  BY <1>1, <1>2, <1>6 DEF Measured

KeepsPlace(r, R, G, c, c2) ==
  Layout(r, R, G) => /\ c.name \in R /\ Measured(r, c) => Measured(r, c2)
                     /\ c.name \in G /\ Sync(r, R, c) => Sync(r, R, c2)

LEMMA Advancing ==
  ASSUME NEW r, NEW R, NEW G, NEW c, NEW c2, Call(r, c), Call(r, c2), Same(c, c2),
         ~Beyond(r, R, c),
         NEW b \in Int, c2.place - Elapsed(c2) = c.place - Elapsed(c) + b,
         Layout(r, R, G) /\ c.name \in R => Counts(r, c, c2, b),
         Layout(r, R, G) /\ c.name \in G =>
           \/ Beyond(r, R, c2)
           \/ IF HasDynamicFields(MembersOf(r, c)) THEN c2.offset = c.offset + b
                                                   ELSE Counts(r, c, c2, b)
  PROVE  KeepsPlace(r, R, G, c, c2)
<1>1. ASSUME Layout(r, R, G), c.name \in R, Measured(r, c)
      PROVE  Measured(r, c2)
  BY <1>1, MeasuredMoves
<1>2. ASSUME Layout(r, R, G), c.name \in G, Sync(r, R, c)
      PROVE  Sync(r, R, c2)
  <2>1. MembersOf(r, c2) = MembersOf(r, c) /\ c2.addr = c2.from
    BY <1>2 DEF Same, MembersOf, Sync
  <2>2. CASE Beyond(r, R, c2)
    BY <2>1, <2>2 DEF Sync
  <2>3. CASE HasDynamicFields(MembersOf(r, c)) /\ c2.offset = c.offset + b
    <3>1. c.place = c.from + c.offset + Elapsed(c)
      BY <1>2, <2>3 DEF Sync
    <3>2. /\ c.place \in Int /\ c2.place \in Int /\ Elapsed(c) \in Int /\ Elapsed(c2) \in Int
          /\ c.offset \in Int /\ c.from \in Int /\ c2.from = c.from
      BY CallOn DEF Same
    <3>3. c2.place = c.from + (c.offset + b) + Elapsed(c2)
      BY <3>1, <3>2, Shifted
    <3>4. c2.place = c2.from + c2.offset + Elapsed(c2)
      BY <2>3, <3>2, <3>3
    <3>5. QED
      BY <2>1, <2>3, <3>4 DEF Sync
  <2>4. CASE ~HasDynamicFields(MembersOf(r, c)) /\ Counts(r, c, c2, b)
    <3>1. Measured(r, c)
      BY <1>2, <2>4 DEF Sync
    <3>2. Measured(r, c2)
      BY <2>4, <3>1, MeasuredMoves
    <3>3. QED
      BY <2>1, <2>4, <3>2 DEF Sync
  <2>5. QED
    BY <1>2, <2>2, <2>3, <2>4
<1>3. QED
  BY <1>1, <1>2 DEF KeepsPlace

\* A member that is no conditional has one field.
LEMMA OneField ==
  ASSUME NEW r, NEW c, Call(r, c), c.todo # << >>, MembersOf(r, c)[Cur(c)].is # "cond"
  PROVE  /\ MembersOf(r, c)[Cur(c)].is = "field"
         /\ Head(c.todo) = MembersOf(r, c)[Cur(c)] /\ Tail(c.todo) = << >>
<1> DEFINE m == MembersOf(r, c)[Cur(c)]
<1>1. m \in Members /\ Holds(Part(m), Head(c.todo)) /\ Cur(c) = c.at - 1
  BY CallOn, ElementOfSeq
<1>2. m.is # "pad"
  <2>1. Part(m) = << >> => ~Holds(Part(m), Head(c.todo))
    BY DEF Holds
  <2>2. QED
    BY <1>1, <2>1, PartType
<1>3. m.is = "field"
  BY <1>1, <1>2, PartType
<1>4. c.todo = <<m>>
  BY <1>1, <1>3 DEF Call, Shape
<1> HIDE DEF m
<1>5. Head(<<m>>) = m /\ Tail(<<m>>) = << >>
  OBVIOUS
<1>6. QED
  BY <1>3, <1>4, <1>5 DEF m

\* A struct that is not dynamic has no conditionals.
LEMMA StaticMembers ==
  ASSUME NEW ms \in Seq(Members), ~HasDynamicFields(ms)
  PROVE  /\ \A k \in 1 .. Len(ms) : ms[k].is # "cond"
         /\ \A f \in ToSet(FieldsOf(ms)) : f.len # Expr /\ ~f.remote
<1>1. DOMAIN ms = 1 .. Len(ms)
  BY LenProperties
<1>2. QED
  BY <1>1 DEF HasDynamicFields

\* The field that is read is behind the call; it has b bytes.
LEMMA FieldBehind ==
  ASSUME NEW r, NEW R, NEW G, NEW c, Call(r, c), c.todo # << >>,
         NEW c2 \in Calls, Same(c, c2), c2.at = c.at, c2.todo = Tail(c.todo),
         c2.elems = 0, c2.elem = 0,
         NEW b \in Int, c2.place = c.place - Elapsed(c) + b,
         Layout(r, R, G) /\ c.name \in R => b = BytesOf(r, Head(c.todo)),
         Layout(r, R, G) /\ c.name \in G =>
           \/ Head(c.todo).kind = "struct" /\ ~Head(c.todo).remote /\ Head(c.todo).ref \notin R
           \/ IF HasDynamicFields(MembersOf(r, c)) THEN c2.offset = c.offset + b
                                                   ELSE b = BytesOf(r, Head(c.todo))
  PROVE  Call(r, c2) /\ KeepsPlace(r, R, G, c, c2)
<1> DEFINE ms == MembersOf(r, c)
           f == Head(c.todo)
<1>1. /\ ms \in Seq(Members) /\ Len(ms) \in Nat /\ Cur(c) = c.at - 1 /\ Cur(c) \in 1 .. Len(ms)
      /\ f \in Fields /\ Holds(Part(ms[Cur(c)]), f) /\ f \in ToSet(FieldsOf(ms))
      /\ f \in ToSet(Part(ms[Cur(c)])) /\ c.at \in Nat /\ c.name \in Names
      /\ c.todo \in Seq(Fields) /\ r \in [Names -> Structs]
  BY CallOn DEF Call
<1>2. /\ Len(Tail(c.todo)) \in Nat
      /\ \A i \in 1 .. Len(Tail(c.todo)) : i + 1 \in 1 .. Len(c.todo)
                                           /\ Tail(c.todo)[i] = c.todo[i + 1]
  <2>1. /\ Tail(c.todo) \in Seq(Fields) /\ Len(Tail(c.todo)) = Len(c.todo) - 1
        /\ \A i \in 1 .. Len(Tail(c.todo)) : Tail(c.todo)[i] = c.todo[i + 1]
    BY <1>1, HeadTailProperties
  <2>2. Len(Tail(c.todo)) \in Nat /\ Len(c.todo) \in Nat
    BY <1>1, <2>1, LenProperties
  <2>3. QED
    BY <2>1, <2>2
<1>3. MembersOf(r, c2) = ms /\ c2.name = c.name
  BY DEF Same, MembersOf
<1>4. Shape(r, c2)
  <2>1. /\ c.at <= Len(ms) + 1 /\ c.at >= 2
        /\ \A i \in 1 .. Len(c.todo) : Holds(Part(ms[c.at - 1]), c.todo[i])
    BY DEF Call, Shape
  <2>2. ASSUME ms[c.at - 1].is = "field"
        PROVE  Tail(c.todo) = << >>
    BY <1>1, <2>2, OneField
  <2>3. \A i \in 1 .. Len(c2.todo) : Holds(Part(ms[c2.at - 1]), c2.todo[i])
    BY <1>2, <2>1
  <2>4. QED
    BY <1>3, <2>1, <2>2, <2>3 DEF Shape
<1>5. Call(r, c2)
  BY <1>1, <1>4 DEF Call
<1>6. ~Beyond(r, R, c)
  BY DEF Beyond
<1>7. Elapsed(c2) = 0 /\ c2.place \in Int
  BY <1>5, CallOn DEF Elapsed
<1>8. ASSUME ms[Cur(c)].is # "cond"
      PROVE  /\ Cur(c2) = Cur(c) + 1 /\ f = ms[Cur(c)] /\ c2.todo = << >>
             /\ b = BytesOf(r, f) => Counts(r, c, c2, b)
  <2>1. f = ms[Cur(c)] /\ c2.todo = << >>
    BY <1>8, OneField
  <2>2. c2.at # 0 /\ c2.at = Cur(c) + 1
    BY <1>1
  <2>3. Cur(c2) = c2.at
    BY <2>1, <2>2 DEF Cur
  <2>4. QED
    BY <1>1, <2>1, <2>2, <2>3 DEF Counts
<1>9. ASSUME Layout(r, R, G), c.name \in R
      PROVE  Counts(r, c, c2, b)
  <2>1. ms[Cur(c)].is # "cond"
    BY <1>1, <1>9 DEF Layout, MembersOf
  <2>2. QED
    BY <1>8, <1>9, <2>1
<1>10. ASSUME Layout(r, R, G), c.name \in G
       PROVE  \/ Beyond(r, R, c2)
              \/ IF HasDynamicFields(ms) THEN c2.offset = c.offset + b ELSE Counts(r, c, c2, b)
  <2>1. CASE f.kind = "struct" /\ ~f.remote /\ f.ref \notin R
    <3>1. Cur(c) = Len(ms) /\ ms[Cur(c)].is = "field"
      BY <1>1, <1>10, <2>1 DEF Layout, MembersOf
    <3>2. f = ms[Len(ms)] /\ c2.todo = << >> /\ c2.at = Len(ms) + 1 /\ c2.at >= 2
      BY <1>1, <1>8, <3>1
    <3>3. QED
      BY <1>3, <2>1, <3>1, <3>2 DEF Beyond
  <2>2. CASE HasDynamicFields(ms) /\ c2.offset = c.offset + b
    BY <2>2
  <2>3. CASE ~HasDynamicFields(ms) /\ b = BytesOf(r, f)
    BY <1>1, <1>8, <2>3, StaticMembers
  <2>4. QED
    BY <1>10, <2>1, <2>2, <2>3
<1>11. c2.place - Elapsed(c2) = c.place - Elapsed(c) + b
  BY <1>7
<1>12. KeepsPlace(r, R, G, c, c2)
  BY <1>5, <1>6, <1>9, <1>10, <1>11, Advancing
<1>13. QED
  BY <1>5, <1>12

-----------------------------------------------------------------------------
(***************************************************************************)
(* The steps within a call.                                                *)
(***************************************************************************)
Becomes(c) ==
  /\ calls' = [calls EXCEPT ![Len(calls)] = c]
  /\ Call(resolved, c) /\ Same(top, c) /\ c.elems = 0
  /\ KeepsPlace(resolved, Rigid, Fine, top, c)

LEMMA TopCall ==
  ASSUME Setup
  PROVE  Call(resolved, top) /\ Elapsed(top) = 0
<1>1. QED
  BY CallFacts DEF Call, Elapsed

\* A call begins with its first member.
LEMMA BeginMoves ==
  ASSUME Setup, top.at = 0, calls' = [calls EXCEPT ![Len(calls)] = [top EXCEPT !.at = 1]]
  PROVE  \E c \in Calls : Becomes(c)
<1> DEFINE c == [top EXCEPT !.at = 1]
<1>1. /\ Call(resolved, top) /\ Elapsed(top) = 0 /\ top.elems = 0 /\ top.elem = 0
      /\ top.at = 0 /\ top.todo = << >> /\ top \in Calls
      /\ top.place \in Int /\ top.offset \in Int /\ Len(MembersOf(resolved, top)) \in Nat
  <2>1. Call(resolved, top) /\ Elapsed(top) = 0 /\ top.at = 0
    BY TopCall
  <2>2. top.todo = << >>
    BY <2>1 DEF Call, Shape
  <2>3. QED
    BY <2>1, <2>2, CallFacts, CallOn
<1>2. /\ c \in Calls /\ Same(top, c) /\ c.at = 1 /\ c.todo = << >> /\ c.elems = 0 /\ c.elem = 0
      /\ c.place = top.place /\ c.offset = top.offset /\ c.name = top.name
      /\ calls' = [calls EXCEPT ![Len(calls)] = c]
  BY <1>1 DEF Calls, Same
<1> HIDE DEF c
<1>3. Call(resolved, c)
  BY <1>1, <1>2 DEF Call, Shape, MembersOf
<1>4. Elapsed(c) = 0 /\ Cur(c) = 1 /\ Cur(top) = 1
  BY <1>1, <1>2 DEF Elapsed, Cur
<1>5. ~Beyond(resolved, Rigid, top)
  BY <1>1 DEF Beyond
<1>6. Counts(resolved, top, c, 0) /\ c.offset = top.offset + 0
  BY <1>1, <1>2, <1>4 DEF Counts
<1>7. c.place - Elapsed(c) = top.place - Elapsed(top) + 0
  BY <1>1, <1>2, <1>4
<1>8. KeepsPlace(resolved, Rigid, Fine, top, c)
  BY <1>1, <1>2, <1>3, <1>5, <1>6, <1>7, Advancing
<1>9. QED
  BY <1>2, <1>3, <1>8 DEF Becomes

LEMMA StartFieldsMoves ==
  ASSUME Setup, StartFields
  PROVE  \E c \in Calls : Becomes(c)
<1>1. QED
  BY BeginMoves DEF StartFields, SetTop

\* writeBulkReadFunc has read the bytes of the struct, or has not.
LEMMA BulkReadMoves ==
  ASSUME Setup, BulkRead
  PROVE  \E c \in Calls : Becomes(c)
<1> DEFINE ms == MembersOf(resolved, top)
<1>1. /\ Call(resolved, top) /\ Elapsed(top) = 0 /\ top.elems = 0 /\ top.elem = 0
      /\ members = ms /\ Len(ms) \in Nat /\ top.at = 0 /\ top.todo = << >>
      /\ top.place = top.from /\ top.place \in Int /\ top.from \in Int /\ top \in Calls
      /\ resolved \in [Names -> Structs] /\ top.name \in Names
      /\ resolved[top.name].size \in Int
  <2>1. Call(resolved, top) /\ Elapsed(top) = 0 /\ top.at = 0
    BY TopCall DEF BulkRead
  <2>2. top.todo = << >> /\ top.place = top.from
    BY <2>1 DEF Call, Shape
  <2>3. resolved[top.name].size \in Int
    BY CallFacts DEF Structs
  <2>4. QED
    BY <2>1, <2>2, <2>3, CallFacts, CallOn
<1>2. CASE SetTop([top EXCEPT !.at = 1])
  BY <1>1, <1>2, BeginMoves DEF SetTop
<1>3. CASE SetTop([top EXCEPT !.at = Len(members) + 1, !.place = @ + resolved[top.name].size])
  <2> DEFINE c == [top EXCEPT !.at = Len(ms) + 1, !.place = @ + resolved[top.name].size]
  <2>1. /\ c \in Calls /\ Same(top, c) /\ c.at = Len(ms) + 1 /\ c.todo = << >> /\ c.elems = 0
        /\ c.elem = 0 /\ c.name = top.name /\ c.from = top.from /\ c.addr = top.addr
        /\ c.place = top.from + resolved[top.name].size
    <3>1. Len(ms) + 1 \in Nat /\ top.from + resolved[top.name].size \in Int
      BY <1>1
    <3> HIDE DEF ms
    <3>2. QED
      BY <1>1, <3>1 DEF Calls, Same
  <2>2. calls' = [calls EXCEPT ![Len(calls)] = c]
    BY <1>1, <1>3 DEF SetTop
  <2>3. ~HasDynamicFields(ms) /\ MembersOf(resolved, c) = ms
    BY DEF BulkRead, canBulkRead, dynamic, MembersOf
  <2> HIDE DEF c
  <2>4. Call(resolved, c)
    BY <1>1, <2>1, <2>3 DEF Call, Shape
  <2>5. ASSUME Layout(resolved, Rigid, Fine)
        PROVE  Measured(resolved, c)
    <3>1. /\ Lined(resolved, ms, resolved[top.name].inline)
          /\ resolved[top.name].size = resolved[top.name].inline
      BY <1>1, <2>3, <2>5 DEF Layout, MembersOf
    <3>2. PICK p \in [1 .. Len(ms) + 1 -> Nat] : Along(resolved, ms, resolved[top.name].inline, p)
      BY <3>1 DEF Lined
    <3>3. Cur(c) = Len(ms) + 1 /\ Elapsed(c) = 0
      BY <1>1, <2>1 DEF Cur, Elapsed
    <3>4. p[Cur(c)] = resolved[top.name].size
      BY <3>1, <3>2, <3>3 DEF Along
    <3>5. c.place = c.from + p[Cur(c)] + Elapsed(c)
      BY <1>1, <2>1, <3>3, <3>4
    <3>6. QED
      BY <2>1, <2>3, <3>2, <3>5 DEF Measured
  <2>6. Sync(resolved, Rigid, top) /\ Measured(resolved, c) => Sync(resolved, Rigid, c)
    BY <2>1, <2>3 DEF Sync
  <2>7. KeepsPlace(resolved, Rigid, Fine, top, c)
    BY <2>5, <2>6 DEF KeepsPlace
  <2>8. QED
    BY <2>1, <2>2, <2>4, <2>7 DEF Becomes
<1>4. QED
  BY <1>2, <1>3 DEF BulkRead

\* The call takes up its next member: b bytes are behind it, those of the member or none.
LEMMA MemberMoves ==
  ASSUME Setup, AtMember, NEW b \in Int,
         NEW c \in Calls, calls' = [calls EXCEPT ![Len(calls)] = c],
         Same(top, c), c.at = top.at + 1, c.elems = 0, c.elem = 0, c.place = top.place + b,
         IF c.todo = << >> THEN b = BytesOf(resolved, members[top.at])
         ELSE /\ b = 0
              /\ members[top.at].is = "field" => c.todo = <<members[top.at]>>
              /\ \A i \in 1 .. Len(c.todo) : Holds(Part(members[top.at]), c.todo[i]),
         HasDynamicFields(members) => c.offset = top.offset + b
  PROVE  Becomes(c)
<1>1. /\ Call(resolved, top) /\ Elapsed(top) = 0 /\ members = MembersOf(resolved, top)
      /\ top.at \in 1 .. Len(members) /\ top.todo = << >> /\ top.place \in Int
      /\ Len(members) \in Nat /\ resolved \in [Names -> Structs]
      /\ MembersOf(resolved, c) = members
  <2>1. MembersOf(resolved, c) = MembersOf(resolved, top)
    BY DEF Same, MembersOf
  <2>2. QED
    BY <2>1, TopCall, CallFacts, CallOn DEF AtMember
<1>2. Shape(resolved, c)
  <2>1. c.at <= Len(members) + 1 /\ c.at >= 2 /\ c.at - 1 = top.at /\ c.at # 0
    BY <1>1
  <2>2. QED
    BY <1>1, <2>1 DEF Shape
<1>3. Call(resolved, c)
  BY <1>1, <1>2 DEF Call
<1>4. Elapsed(c) = 0 /\ ~Beyond(resolved, Rigid, top)
  BY <1>1 DEF Elapsed, Beyond
<1>5. c.place - Elapsed(c) = top.place - Elapsed(top) + b
  BY <1>1, <1>4
<1>6. Counts(resolved, top, c, b)
  <2>1. Cur(top) = top.at
    BY <1>1 DEF Cur
  <2>2. c.at # 0 /\ c.at - 1 = top.at
    BY <1>1
  <2>3. CASE c.todo = << >>
    <3>1. Cur(c) = c.at
      BY <2>2, <2>3 DEF Cur
    <3>2. QED
      BY <1>1, <2>1, <2>3, <3>1 DEF Counts
  <2>4. CASE c.todo # << >>
    <3>1. Cur(c) = c.at - 1
      BY <2>2, <2>4 DEF Cur
    <3>2. QED
      BY <2>1, <2>2, <2>4, <3>1 DEF Counts
  <2>5. QED
    BY <2>3, <2>4
<1>7. KeepsPlace(resolved, Rigid, Fine, top, c)
  BY <1>1, <1>3, <1>4, <1>5, <1>6, Advancing
<1>8. QED
  BY <1>3, <1>7 DEF Becomes

LEMMA FieldMemberMoves ==
  ASSUME Setup, FieldMember
  PROVE  \E c \in Calls : Becomes(c)
<1>1. PICK m : m = members[top.at]
  OBVIOUS
<1> DEFINE c == [top EXCEPT !.at = @ + 1, !.todo = <<m>>]
<1>2. /\ AtMember /\ m.is = "field" /\ calls' = [calls EXCEPT ![Len(calls)] = c]
  BY <1>1 DEF FieldMember, SetTop
<1>3. /\ m \in Fields /\ Part(m) = <<m>> /\ top \in Calls /\ top.at \in Nat
      /\ top.elems = 0 /\ top.elem = 0 /\ top.place \in Int /\ top.offset \in Int
  BY <1>1, <1>2, CallFacts, TopCall, CallOn, ElementOfSeq, PartType DEF AtMember
<1>4. <<m>> \in Seq(Fields) /\ <<m>> # << >> /\ \A i \in 1 .. Len(<<m>>) : Holds(<<m>>, <<m>>[i])
  <2>1. Len(<<m>>) = 1 /\ <<m>>[1] = m
    OBVIOUS
  <2>2. QED
    BY <1>3, <2>1 DEF Holds
<1>5. /\ c \in Calls /\ Same(top, c) /\ c.at = top.at + 1 /\ c.elems = 0 /\ c.elem = 0
      /\ c.todo = <<m>> /\ c.place = top.place + 0 /\ c.offset = top.offset + 0
  <2>1. PICK a \in Nat : a = top.at + 1
    BY <1>3
  <2>2. PICK t \in Seq(Fields) : t = <<m>>
    BY <1>4
  <2>3. c = [top EXCEPT !.at = a, !.todo = t]
    BY <2>1, <2>2
  <2> HIDE DEF c
  <2>4. /\ c \in Calls /\ Same(top, c) /\ c.at = a /\ c.elems = 0 /\ c.elem = 0
        /\ c.todo = t /\ c.place = top.place /\ c.offset = top.offset
    BY <1>3, <2>3 DEF Calls, Same
  <2>5. QED
    BY <1>3, <2>1, <2>2, <2>4
<1> HIDE DEF c
<1>6. /\ c.todo # << >>
      /\ members[top.at].is = "field" => c.todo = <<members[top.at]>>
      /\ \A i \in 1 .. Len(c.todo) : Holds(Part(members[top.at]), c.todo[i])
  BY <1>1, <1>3, <1>4, <1>5
<1>7. Becomes(c)
  <2>1. PICK b \in Int : b = 0
    OBVIOUS
  <2>2. c.place = top.place + b /\ c.offset = top.offset + b
    BY <1>5, <2>1
  <2>3. QED
    BY <1>2, <1>5, <1>6, <2>1, <2>2, MemberMoves
<1>8. QED
  BY <1>5, <1>7

LEMMA PaddingMemberMoves ==
  ASSUME Setup, PaddingMember
  PROVE  \E c \in Calls : Becomes(c)
<1>1. PICK m : m = members[top.at]
  OBVIOUS
<1> DEFINE o == IF dynamic(top.name) THEN top.offset + m.size ELSE top.offset
           c == [top EXCEPT !.at = @ + 1, !.place = @ + m.size, !.offset = o]
<1>2. /\ AtMember /\ m.is = "pad" /\ calls' = [calls EXCEPT ![Len(calls)] = c]
  BY <1>1 DEF PaddingMember, SetTop
<1>3. /\ m \in Members /\ top \in Calls /\ top.at \in Nat /\ top.todo = << >>
      /\ top.elems = 0 /\ top.elem = 0 /\ top.place \in Int /\ top.offset \in Int
      /\ dynamic(top.name) <=> HasDynamicFields(members)
  BY <1>1, <1>2, CallFacts, TopCall, CallOn, ElementOfSeq DEF AtMember, dynamic, members
<1>4. m.size \in Nat /\ BytesOf(resolved, m) = m.size /\ m.size \in Int
  BY <1>2, <1>3 DEF Members, Fields, Pads, BytesOf
<1>5. /\ c \in Calls /\ Same(top, c) /\ c.at = top.at + 1 /\ c.elems = 0 /\ c.elem = 0
      /\ c.todo = << >> /\ c.place = top.place + m.size /\ c.offset = o
  <2>1. PICK a \in Nat : a = top.at + 1
    BY <1>3
  <2>2. PICK q \in Int : q = top.place + m.size
    BY <1>3, <1>4
  <2>3. PICK u \in Int : u = o
    BY <1>3, <1>4
  <2>4. c = [top EXCEPT !.at = a, !.place = q, !.offset = u]
    BY <2>1, <2>2, <2>3
  <2> HIDE DEF c, o
  <2>5. /\ c \in Calls /\ Same(top, c) /\ c.at = a /\ c.elems = 0 /\ c.elem = 0
        /\ c.todo = << >> /\ c.place = q /\ c.offset = u
    BY <1>3, <2>4 DEF Calls, Same
  <2>6. QED
    BY <2>1, <2>2, <2>3, <2>5
<1>6. HasDynamicFields(members) => c.offset = top.offset + m.size
  BY <1>3, <1>5
<1> HIDE DEF c, o
<1>7. c.todo = << >> /\ m.size = BytesOf(resolved, members[top.at])
  BY <1>1, <1>4, <1>5
<1>8. Becomes(c)
  BY <1>2, <1>4, <1>5, <1>6, <1>7, MemberMoves
<1>9. QED
  BY <1>5, <1>8

LEMMA ConditionalMemberMoves ==
  ASSUME Setup, ConditionalMember
  PROVE  \E c \in Calls : Becomes(c)
<1>1. PICK m : m = members[top.at]
  OBVIOUS
<1>2. PICK fs : fs = m.fields
  OBVIOUS
<1>3. PICK lo \in 1 .. Len(fs) + 1, hi \in 0 .. Len(fs) :
        calls' = [calls EXCEPT ![Len(calls)] =
                    [top EXCEPT !.at = @ + 1, !.todo = SubSeq(fs, lo, hi)]]
  BY <1>1, <1>2 DEF ConditionalMember, SetTop
<1> DEFINE c == [top EXCEPT !.at = @ + 1, !.todo = SubSeq(fs, lo, hi)]
<1>4. AtMember /\ m.is = "cond" /\ calls' = [calls EXCEPT ![Len(calls)] = c]
  BY <1>1, <1>3 DEF ConditionalMember
<1>5. /\ Part(m) = fs /\ fs \in Seq(Fields) /\ top \in Calls /\ top.at \in Nat
      /\ top.elems = 0 /\ top.elem = 0 /\ top.place \in Int /\ top.offset \in Int
      /\ BytesOf(resolved, m) = 0
  <2>1. m \in Members
    BY <1>1, <1>4, CallFacts, ElementOfSeq DEF AtMember
  <2>2. Part(m) = fs /\ fs \in Seq(Fields)
    BY <1>2, <1>4, <2>1, PartType
  <2>3. QED
    BY <1>4, <2>2, CallFacts, TopCall, CallOn DEF BytesOf
<1>6. PICK t \in Seq(Fields) : t = SubSeq(fs, lo, hi) /\ \A i \in 1 .. Len(t) : Holds(fs, t[i])
  <2>1. Len(fs) \in Nat /\ lo \in Int /\ hi \in Int
    BY <1>5, LenProperties
  <2>2. \A i \in lo .. hi : i \in 1 .. Len(fs) /\ fs[i] \in Fields
    BY <1>5, <2>1, ElementOfSeq
  <2>3. /\ SubSeq(fs, lo, hi) \in Seq(Fields)
        /\ Len(SubSeq(fs, lo, hi)) = IF lo <= hi THEN hi - lo + 1 ELSE 0
        /\ \A i \in 1 .. hi - lo + 1 : SubSeq(fs, lo, hi)[i] = fs[lo + i - 1]
    BY <2>1, <2>2, SubSeqProperties
  <2>4. \A i \in 1 .. Len(SubSeq(fs, lo, hi)) : /\ i \in 1 .. hi - lo + 1
                                                /\ lo + i - 1 \in 1 .. Len(fs)
    BY <2>1, <2>3
  <2>5. QED
    BY <2>3, <2>4 DEF Holds
<1>7. /\ c \in Calls /\ Same(top, c) /\ c.at = top.at + 1 /\ c.elems = 0 /\ c.elem = 0
      /\ c.todo = t /\ c.place = top.place + 0 /\ c.offset = top.offset + 0
  <2>1. PICK a \in Nat : a = top.at + 1
    BY <1>5
  <2>2. c = [top EXCEPT !.at = a, !.todo = t]
    BY <1>6, <2>1
  <2> HIDE DEF c
  <2>3. /\ c \in Calls /\ Same(top, c) /\ c.at = a /\ c.elems = 0 /\ c.elem = 0
        /\ c.todo = t /\ c.place = top.place /\ c.offset = top.offset
    BY <1>5, <2>2 DEF Calls, Same
  <2>4. QED
    BY <1>5, <2>1, <2>3
<1> HIDE DEF c
<1>8. /\ c.todo = << >> => 0 = BytesOf(resolved, members[top.at])
      /\ members[top.at].is # "field"
      /\ \A i \in 1 .. Len(c.todo) : Holds(Part(members[top.at]), c.todo[i])
  BY <1>1, <1>4, <1>5, <1>6, <1>7
<1>9. Becomes(c)
  <2>1. PICK b \in Int : b = 0
    OBVIOUS
  <2>2. c.place = top.place + b /\ c.offset = top.offset + b
    BY <1>7, <2>1
  <2>3. QED
    BY <1>4, <1>7, <1>8, <2>1, <2>2, MemberMoves
<1>10. QED
  BY <1>7, <1>9

\* What Advance adds to the running offset.
Progress(f, count) == IF f.remote THEN 0
                      ELSE IF f.size > 0 THEN f.size
                      ELSE IF f.len = Expr THEN count * f.elem ELSE 0

LEMMA ProgressType ==
  ASSUME NEW f \in Fields, NEW count \in Int
  PROVE  Progress(f, count) \in Int
<1>1. f.elem \in Int /\ f.size \in Int
  BY DEF Fields
<1>2. count * f.elem \in Int
  BY <1>1
<1>3. QED
  BY <1>1, <1>2 DEF Progress

LEMMA AdvanceAdds ==
  ASSUME NEW c \in Calls, NEW f \in Fields, NEW count \in Int
  PROVE  Advance(c, f, count) = [c EXCEPT !.offset = @ + Progress(f, count)]
<1>1. c.offset \in Int /\ c = [c EXCEPT !.offset = c.offset] /\ c.offset + 0 = c.offset
  BY DEF Calls
<1>2. CASE f.remote
  BY <1>1, <1>2 DEF Advance, Progress
<1>3. CASE ~f.remote /\ f.size > 0
  BY <1>3 DEF Advance, Progress
<1>4. CASE ~f.remote /\ ~(f.size > 0) /\ f.len = Expr
  BY <1>4 DEF Advance, Progress
<1>5. CASE ~f.remote /\ ~(f.size > 0) /\ f.len # Expr
  BY <1>1, <1>5 DEF Advance, Progress
<1>6. QED
  BY <1>2, <1>3, <1>4, <1>5

LEMMA PassFacts ==
  ASSUME NEW c \in Calls, c.todo # << >>, NEW f \in Fields, NEW count \in Int, NEW n \in Int,
         NEW c2, c2 = NextField(Placed(Advance(c, f, count), f, n))
  PROVE  /\ c2 \in Calls /\ Same(c, c2) /\ c2.at = c.at /\ c2.todo = Tail(c.todo)
         /\ c2.elems = 0 /\ c2.elem = 0
         /\ c2.offset = c.offset + Progress(f, count)
         /\ c2.place = c.place + (IF f.remote THEN 0 ELSE n)
<1>1. c.offset \in Int /\ c.place \in Int /\ c.todo \in Seq(Fields)
  BY DEF Calls
<1>2. PICK t \in Seq(Fields) : t = Tail(c.todo)
  <2>1. Tail(c.todo) \in Seq(Fields)
    BY <1>1, HeadTailProperties
  <2>2. QED
    BY <2>1
<1>3. PICK u \in Int : u = c.offset + Progress(f, count)
  <2>1. PICK w \in Int : w = Progress(f, count)
    BY ProgressType
  <2>2. c.offset + w \in Int
    BY <1>1
  <2>3. QED
    BY <2>1, <2>2
<1>4. PICK q \in Int : q = c.place + (IF f.remote THEN 0 ELSE n)
  BY <1>1
<1>5. PICK x \in Calls : x = [c EXCEPT !.offset = u]
  <2>1. [c EXCEPT !.offset = u] \in Calls
    BY DEF Calls
  <2>2. QED
    BY <2>1
<1>6. x = Advance(c, f, count)
  BY <1>3, <1>5, AdvanceAdds
<1>7. /\ x.name = c.name /\ x.addr = c.addr /\ x.from = c.from /\ x.at = c.at /\ x.todo = c.todo
      /\ x.place = c.place /\ x.offset = u /\ x.elems = c.elems /\ x.elem = c.elem
  BY <1>5 DEF Calls
<1>8. PICK y \in Calls : y = [x EXCEPT !.place = q]
  <2>1. [x EXCEPT !.place = q] \in Calls
    BY DEF Calls
  <2>2. QED
    BY <2>1
<1>9. /\ y.name = c.name /\ y.addr = c.addr /\ y.from = c.from /\ y.at = c.at /\ y.todo = c.todo
      /\ y.place = q /\ y.offset = u
  BY <1>7, <1>8 DEF Calls
<1>10. y = Placed(x, f, n)
  <2>1. CASE f.remote
    <3>1. q = x.place
      BY <1>1, <1>4, <1>7, <2>1
    <3>2. y = x
      BY <1>8, <3>1 DEF Calls
    <3>3. QED
      BY <2>1, <3>2 DEF Placed
  <2>2. CASE ~f.remote
    BY <1>4, <1>7, <1>8, <2>2 DEF Placed
  <2>3. QED
    BY <2>1, <2>2
<1>11. c2 = [y EXCEPT !.todo = t, !.elems = 0, !.elem = 0]
  BY <1>2, <1>6, <1>9, <1>10 DEF NextField
<1>12. /\ c2 \in Calls /\ c2.name = y.name /\ c2.addr = y.addr /\ c2.from = y.from
       /\ c2.at = y.at /\ c2.todo = t /\ c2.elems = 0 /\ c2.elem = 0
       /\ c2.offset = y.offset /\ c2.place = y.place
  <2>1. PICK z \in Nat : z = 0
    OBVIOUS
  <2>2. c2 = [y EXCEPT !.todo = t, !.elems = z, !.elem = z]
    BY <1>11, <2>1
  <2>3. c2 \in Calls
    BY <2>2 DEF Calls
  <2>4. /\ c2.name = y.name /\ c2.addr = y.addr /\ c2.from = y.from
        /\ c2.at = y.at /\ c2.todo = t /\ c2.elems = z /\ c2.elem = z
        /\ c2.offset = y.offset /\ c2.place = y.place
    BY <2>2 DEF Calls
  <2>5. QED
    BY <2>1, <2>3, <2>4
<1>13. QED
  BY <1>2, <1>3, <1>4, <1>9, <1>12 DEF Same

\* A field of bytes is behind the call.
LEMMA FlatMoves ==
  ASSUME Setup, top.todo # << >>, field.kind = "flat", NEW count \in Int, NEW n \in Int,
         calls' = [calls EXCEPT ![Len(calls)] =
                     NextField(Placed(Advance(top, field, count), field, n))],
         field.len # Expr => n = field.size,
         field.len = Expr /\ HasDynamicFields(members) => n = count * field.elem
  PROVE  \E c \in Calls : Becomes(c)
<1>1. PICK f : f = field
  OBVIOUS
<1>2. PICK c : c = NextField(Placed(Advance(top, field, count), field, n))
  OBVIOUS
<1>3. /\ Call(resolved, top) /\ Elapsed(top) = 0 /\ top \in Calls /\ f = Head(top.todo)
      /\ members = MembersOf(resolved, top) /\ members \in Seq(Members)
      /\ f \in Fields /\ f \in ToSet(FieldsOf(members))
      /\ top.place \in Int /\ top.offset \in Int
  BY <1>1, TopCall, CallFacts, CallOn DEF field
<1>4. PICK b \in Int : b = IF f.remote THEN 0 ELSE n
  OBVIOUS
<1>5. /\ c \in Calls /\ Same(top, c) /\ c.at = top.at /\ c.todo = Tail(top.todo)
      /\ c.elems = 0 /\ c.elem = 0
      /\ c.offset = top.offset + Progress(f, count) /\ c.place = top.place + b
  BY <1>1, <1>2, <1>3, <1>4, PassFacts
<1>6. c.place = top.place - Elapsed(top) + b
  BY <1>3, <1>5
<1>7. /\ f.kind = "flat" /\ f.is = "field" /\ f.size \in Int /\ f.elem \in Int
      /\ f.len = Expr => f.size = -1
      /\ f.len # Expr => f.size >= 0
  BY <1>1, <1>3 DEF Fields, ByValue
<1>8. f.remote \/ f.len # Expr => b = BytesOf(resolved, f)
  BY <1>1, <1>4, <1>7 DEF BytesOf
<1>9. ASSUME HasDynamicFields(members)
      PROVE  c.offset = top.offset + b
  <2>1. Progress(f, count) = b
    BY <1>1, <1>4, <1>7, <1>9 DEF Progress
  <2>2. QED
    BY <1>5, <2>1
<1>10. Layout(resolved, Rigid, Fine) /\ top.name \in Rigid => b = BytesOf(resolved, f)
  BY <1>3, <1>8 DEF Layout, MembersOf
<1>11. ~HasDynamicFields(members) => b = BytesOf(resolved, f)
  BY <1>3, <1>8, StaticMembers
<1>12. Call(resolved, c) /\ KeepsPlace(resolved, Rigid, Fine, top, c)
  BY <1>3, <1>5, <1>6, <1>9, <1>10, <1>11, FieldBehind
<1>13. QED
  BY <1>2, <1>5, <1>12 DEF Becomes

LEMMA FlatStepMoves ==
  ASSUME Setup, BulkField \/ FlatField \/ FlatArray
  PROVE  \E c \in Calls : Becomes(c)
<1>1. top.todo # << >> /\ field.kind = "flat" /\ field \in Fields
  BY TopCall, CallOn DEF BulkField, FlatField, FlatArray, AtField, field
<1>2. field.size \in Int /\ field.elem \in Int /\ 0 \in Int
  BY <1>1 DEF Fields
<1>3. CASE BulkField \/ FlatField
  <2>1. calls' = [calls EXCEPT ![Len(calls)] =
                    NextField(Placed(Advance(top, field, 0), field, field.size))]
    BY <1>3 DEF BulkField, FlatField, PassField, SetTop
  <2>2. field.len # Expr \/ ~HasDynamicFields(members)
    BY <1>3 DEF BulkField, FlatField, canBulkRead, dynamic, members
  <2>3. PICK z \in Int : z = 0
    OBVIOUS
  <2>4. QED
    BY <1>1, <1>2, <2>1, <2>2, <2>3, FlatMoves
<1>4. CASE FlatArray
  <2>1. PICK l \in Lengths :
          calls' = [calls EXCEPT ![Len(calls)] =
                      NextField(Placed(Advance(top, field, BoundedLen(l)), field,
                                       BoundedLen(l) * field.elem))]
    BY <1>4 DEF FlatArray, SetTop
  <2>2. PICK count \in Int : count = BoundedLen(l)
    BY DEF BoundedLen
  <2>3. PICK n \in Int : n = count * field.elem
    BY <1>2, <2>2
  <2>4. field.len = Expr
    BY <1>4 DEF FlatArray
  <2>5. QED
    BY <1>1, <2>1, <2>2, <2>3, <2>4, FlatMoves
<1>5. QED
  BY <1>3, <1>4

-----------------------------------------------------------------------------
(***************************************************************************)
(* The calls after a step: those below stay, the j-th from the bottom goes *)
(* on, and another may be above it.                                        *)
(***************************************************************************)
Stack(r, s) ==
  /\ s \in Seq(Calls) /\ Len(s) <= MaxCalls
  /\ \A k \in 1 .. Len(s) : Shape(r, s[k])
  /\ Chained(s)

LEMMA StackNow ==
  ASSUME Setup
  PROVE  Stack(resolved, calls)
<1>1. QED
  BY DEF Setup, RTypeOK, Reads, Stack

GoesOn(s, t, j) ==
  /\ t \in Seq(Calls) /\ j \in 1 .. Len(s)
  /\ \A k \in 1 .. j : k < j => t[k] = s[k]
  /\ Same(s[j], t[j])

LEMMA EndsHere ==
  ASSUME NEW r, NEW s, Stack(r, s), NEW t, NEW j, GoesOn(s, t, j), Len(t) = j,
         Shape(r, t[j]), t[j].elems = 0
  PROVE  Stack(r, t)
<1>1. Len(s) \in Nat /\ j \in Nat /\ j \in 1 .. Len(s) /\ j <= Len(s)
  BY LenProperties DEF Stack, GoesOn
<1>2. \A k \in 1 .. Len(t) : k = j \/ (k < j /\ k \in 1 .. Len(s) /\ t[k] = s[k] /\ k + 1 \in 1 .. j)
  BY <1>1 DEF GoesOn
<1>3. \A k \in 1 .. Len(t) : Shape(r, t[k])
  BY <1>2 DEF Stack
<1>4. Chained(t)
  <2>1. \A k \in 1 .. Len(t) : k = Len(t) <=> t[k].elems = 0
    <3>1. \A k \in 1 .. Len(t) : k < j => t[k].elems # 0
      BY <1>1, <1>2 DEF Stack, Chained
    <3>2. QED
      BY <1>1, <1>2, <3>1
  <2>2. ASSUME NEW k \in 1 .. Len(t), k < Len(t)
        PROVE  /\ t[k + 1].name = Head(t[k].todo).ref
               /\ ~Head(t[k].todo).remote => t[k + 1].from = t[k].place
    <3>1. k \in 1 .. Len(s) /\ k < Len(s) /\ t[k] = s[k]
      BY <1>1, <1>2, <2>2
    <3>2. t[k + 1].name = s[k + 1].name /\ t[k + 1].from = s[k + 1].from
      BY <1>1, <1>2, <2>2 DEF GoesOn, Same
    <3>3. QED
      BY <3>1, <3>2 DEF Stack, Chained
  <2>3. QED
    BY <2>1, <2>2 DEF Chained
<1>5. Len(t) <= MaxCalls
  BY <1>1, FarAssumption DEF Stack
<1>6. QED
  BY <1>3, <1>4, <1>5 DEF Stack, GoesOn

LEMMA EndsAbove ==
  ASSUME NEW r, NEW s, Stack(r, s), NEW t, NEW j, GoesOn(s, t, j), Len(t) = j + 1,
         j + 1 <= MaxCalls, Shape(r, t[j]), t[j].elems # 0,
         Shape(r, t[j + 1]), t[j + 1].elems = 0,
         t[j + 1].name = Head(t[j].todo).ref,
         ~Head(t[j].todo).remote => t[j + 1].from = t[j].place
  PROVE  Stack(r, t)
<1>1. Len(s) \in Nat /\ j \in Nat /\ j \in 1 .. Len(s) /\ j <= Len(s)
  BY LenProperties DEF Stack, GoesOn
<1>2. \A k \in 1 .. Len(t) : \/ k = j + 1 \/ k = j
                             \/ k < j /\ k \in 1 .. Len(s) /\ t[k] = s[k] /\ k + 1 \in 1 .. j
  BY <1>1 DEF GoesOn
<1>3. \A k \in 1 .. Len(t) : Shape(r, t[k])
  BY <1>2 DEF Stack
<1>4. Chained(t)
  <2>1. \A k \in 1 .. Len(t) : k = Len(t) <=> t[k].elems = 0
    <3>1. \A k \in 1 .. Len(t) : k < j => t[k].elems # 0
      BY <1>1, <1>2 DEF Stack, Chained
    <3>2. QED
      BY <1>1, <1>2, <3>1
  <2>2. ASSUME NEW k \in 1 .. Len(t), k < j
        PROVE  /\ t[k + 1].name = Head(t[k].todo).ref
               /\ ~Head(t[k].todo).remote => t[k + 1].from = t[k].place
    <3>1. k \in 1 .. Len(s) /\ k < Len(s) /\ t[k] = s[k]
      BY <1>1, <1>2, <2>2
    <3>2. t[k + 1].name = s[k + 1].name /\ t[k + 1].from = s[k + 1].from
      BY <1>1, <1>2, <2>2 DEF GoesOn, Same
    <3>3. QED
      BY <3>1, <3>2 DEF Stack, Chained
  <2>3. \A k \in 1 .. Len(t) : k < Len(t) => k < j \/ k = j
    BY <1>1
  <2>4. QED
    BY <2>1, <2>2, <2>3 DEF Chained
<1>5. QED
  BY <1>3, <1>4 DEF Stack, GoesOn

LEMMA FitsBelow ==
  ASSUME NEW r, NEW R, NEW G, NEW s, Stack(r, s), Fits(r, R, G, s), NEW t, NEW j, GoesOn(s, t, j)
  PROVE  /\ \A k \in 1 .. j : k < j => FitsAt(r, R, G, t, k)
         /\ Trusted(G, t, j) => Trusted(G, s, j)
         /\ FitsAt(r, R, G, s, j)
<1>1. Len(s) \in Nat /\ j \in Nat /\ j \in 1 .. Len(s) /\ j <= Len(s)
  BY LenProperties DEF Stack, GoesOn
<1>2. ASSUME NEW k \in 1 .. j, k < j
      PROVE  FitsAt(r, R, G, t, k)
  <2>1. t[k] = s[k] /\ k \in 1 .. Len(s)
    BY <1>1, <1>2 DEF GoesOn
  <2>2. \A i \in 1 .. k : t[i] = s[i]
    BY <1>1, <1>2 DEF GoesOn
  <2>3. Trusted(G, t, k) => Trusted(G, s, k)
    BY <2>2 DEF Trusted
  <2>4. QED
    BY <2>1, <2>3 DEF Fits, FitsAt
<1>3. \A i \in 1 .. j : t[i].name = s[i].name
  <2>1. \A i \in 1 .. j : i < j \/ i = j
    BY <1>1
  <2>2. QED
    BY <2>1 DEF GoesOn, Same
<1>4. QED
  BY <1>1, <1>2, <1>3 DEF Trusted, Fits

Goes(t) == /\ Stack(resolved, t)
           /\ Layout(resolved, Rigid, Fine) /\ Fits(resolved, Rigid, Fine, calls)
                => Fits(resolved, Rigid, Fine, t)

LEMMA GoesHere ==
  ASSUME Setup, NEW t, NEW j, GoesOn(calls, t, j), Len(t) = j,
         Call(resolved, t[j]), t[j].elems = 0,
         Layout(resolved, Rigid, Fine) /\ Fits(resolved, Rigid, Fine, calls) =>
           KeepsPlace(resolved, Rigid, Fine, calls[j], t[j])
  PROVE  Goes(t)
<1>1. Stack(resolved, t)
  BY StackNow, EndsHere DEF Call
<1>2. ASSUME Layout(resolved, Rigid, Fine), Fits(resolved, Rigid, Fine, calls)
      PROVE  Fits(resolved, Rigid, Fine, t)
  <2>1. /\ \A k \in 1 .. j : k < j => FitsAt(resolved, Rigid, Fine, t, k)
        /\ Trusted(Fine, t, j) => Trusted(Fine, calls, j)
        /\ FitsAt(resolved, Rigid, Fine, calls, j)
    BY <1>2, StackNow, FitsBelow
  <2>2. j \in Nat /\ j \in 1 .. j /\ t[j].name = calls[j].name
    BY DEF GoesOn, Same
  <2>3. FitsAt(resolved, Rigid, Fine, t, j)
    <3>1. Trusted(Fine, t, j) => t[j].name \in Fine
      BY <2>2 DEF Trusted
    <3>2. QED
      BY <1>2, <2>1, <2>2, <3>1 DEF FitsAt, KeepsPlace
  <2>4. \A k \in 1 .. Len(t) : k < j \/ k = j
    BY <2>2
  <2>5. QED
    BY <2>1, <2>3, <2>4 DEF Fits
<1>3. QED
  BY <1>1, <1>2 DEF Goes

\* A call that begins.
LEMMA NewCallType ==
  ASSUME NEW r \in [Names -> Structs], NEW n \in Names, NEW a \in Int, NEW p \in Int
  PROVE  /\ Call(r, NewCall(n, a, p)) /\ NewCall(n, a, p).elems = 0
         /\ NewCall(n, a, p).name = n /\ NewCall(n, a, p).from = p
<1> DEFINE c == NewCall(n, a, p)
<1>1. /\ c.name = n /\ c.addr = a /\ c.from = p /\ c.place = p /\ c.at = 0 /\ c.todo = << >>
      /\ c.elems = 0 /\ c.elem = 0 /\ c.offset = 0
  BY DEF NewCall
<1>2. c \in Calls
  <2>1. << >> \in Seq(Fields) /\ 0 \in Nat /\ 0 \in Int
    OBVIOUS
  <2>2. QED
    BY <2>1 DEF NewCall, Calls
<1> HIDE DEF c
<1>3. Len(r[n].members) \in Nat
  BY LenProperties DEF Structs
<1>4. Shape(r, c)
  BY <1>1, <1>3 DEF Shape, MembersOf
<1>5. QED
  BY <1>1, <1>2, <1>4 DEF Call, c

LEMMA NewCallFits ==
  ASSUME NEW r \in [Names -> Structs], NEW n \in Names, NEW a \in Int, NEW p \in Int,
         NEW R, NEW G, Layout(r, R, G), NEW c, c = NewCall(n, a, p)
  PROVE  /\ n \in R => Measured(r, c)
         /\ a = p => Sync(r, R, c)
<1>1. /\ c.name = n /\ c.addr = a /\ c.from = p /\ c.place = p /\ c.at = 0 /\ c.todo = << >>
      /\ c.elems = 0 /\ c.elem = 0 /\ c.offset = 0
  BY DEF NewCall
<1>2. MembersOf(r, c) = r[n].members /\ Cur(c) = 1 /\ Elapsed(c) = 0
  BY <1>1 DEF MembersOf, Cur, Elapsed
<1>3. ASSUME Lined(r, r[n].members, r[n].inline)
      PROVE  Measured(r, c)
  <2>1. PICK q \in [1 .. Len(r[n].members) + 1 -> Nat] : Along(r, r[n].members, r[n].inline, q)
    BY <1>3 DEF Lined
  <2>2. q[1] = 0
    BY <2>1 DEF Along
  <2>3. c.place = c.from + q[Cur(c)] + Elapsed(c)
    BY <1>1, <1>2, <2>2
  <2>4. QED
    BY <1>1, <1>2, <2>1, <2>3 DEF Measured
<1>4. n \in R => Measured(r, c)
  BY <1>3 DEF Layout
<1>5. ASSUME a = p
      PROVE  Sync(r, R, c)
  <2>1. CASE HasDynamicFields(r[n].members)
    <3>1. c.place = c.from + c.offset + Elapsed(c)
      BY <1>1, <1>2
    <3>2. QED
      BY <1>1, <1>2, <1>5, <2>1, <3>1 DEF Sync
  <2>2. CASE ~HasDynamicFields(r[n].members)
    <3>1. Measured(r, c)
      BY <1>3, <2>2 DEF Layout
    <3>2. QED
      BY <1>1, <1>2, <1>5, <2>2, <3>1 DEF Sync
  <2>3. QED
    BY <2>1, <2>2
<1>6. QED
  BY <1>4, <1>5

\* The j-th call goes on below one of the struct n that begins.
LEMMA GoesAbove ==
  ASSUME Setup, NEW t, NEW j, GoesOn(calls, t, j), Len(t) = j + 1, j + 1 <= MaxCalls,
         Call(resolved, t[j]), t[j].elems # 0,
         NEW n \in Names, NEW a \in Int, NEW p \in Int, t[j + 1] = NewCall(n, a, p),
         n = Head(t[j].todo).ref, ~Head(t[j].todo).remote => p = t[j].place,
         Layout(resolved, Rigid, Fine) /\ Fits(resolved, Rigid, Fine, calls) =>
           /\ KeepsPlace(resolved, Rigid, Fine, calls[j], t[j])
           /\ Trusted(Fine, t, j) /\ Trusted(Fine, t, j + 1) => a = p
  PROVE  Goes(t)
<1>1. resolved \in [Names -> Structs]
  BY CallFacts
<1>2. /\ Call(resolved, t[j + 1]) /\ t[j + 1].elems = 0
      /\ t[j + 1].name = n /\ t[j + 1].from = p
  BY <1>1, NewCallType
<1>3. Stack(resolved, t)
  BY <1>2, StackNow, EndsAbove DEF Call
<1>4. ASSUME Layout(resolved, Rigid, Fine), Fits(resolved, Rigid, Fine, calls)
      PROVE  Fits(resolved, Rigid, Fine, t)
  <2>1. /\ \A k \in 1 .. j : k < j => FitsAt(resolved, Rigid, Fine, t, k)
        /\ Trusted(Fine, t, j) => Trusted(Fine, calls, j)
        /\ FitsAt(resolved, Rigid, Fine, calls, j)
    BY <1>4, StackNow, FitsBelow
  <2>2. j \in Nat /\ j \in 1 .. j /\ t[j].name = calls[j].name
    BY DEF GoesOn, Same
  <2>3. FitsAt(resolved, Rigid, Fine, t, j)
    <3>1. Trusted(Fine, t, j) => t[j].name \in Fine
      BY <2>2 DEF Trusted
    <3>2. QED
      BY <1>4, <2>1, <2>2, <3>1 DEF FitsAt, KeepsPlace
  <2>4. FitsAt(resolved, Rigid, Fine, t, j + 1)
    <3>1. Trusted(Fine, t, j + 1) => Trusted(Fine, t, j)
      BY <2>2 DEF Trusted
    <3>2. PICK c : c = NewCall(n, a, p)
      OBVIOUS
    <3>3. /\ n \in Rigid => Measured(resolved, c)
          /\ a = p => Sync(resolved, Rigid, c)
      BY <1>1, <1>4, <3>2, NewCallFits
    <3>4. t[j + 1] = c
      BY <3>2
    <3>5. Trusted(Fine, t, j + 1) => a = p
      BY <1>4, <3>1
    <3>6. QED
      BY <1>2, <3>3, <3>4, <3>5 DEF FitsAt
  <2>5. \A k \in 1 .. Len(t) : (k < j /\ k \in 1 .. j) \/ k = j \/ k = j + 1
    BY <2>2
  <2>6. QED
    BY <2>1, <2>3, <2>4, <2>5 DEF Fits
<1>5. QED
  BY <1>3, <1>4 DEF Goes

\* A step within a call.
LEMMA TopGoes ==
  ASSUME Setup, NEW c \in Calls, Becomes(c)
  PROVE  Goes(calls') /\ calls' # << >>
<1>1. calls \in Seq(Calls) /\ Len(calls) \in 1 .. Len(calls) /\ top = calls[Len(calls)]
  BY CallFacts
<1>2. /\ calls' \in Seq(Calls) /\ Len(calls') = Len(calls)
      /\ \A k \in 1 .. Len(calls) : calls'[k] = IF k = Len(calls) THEN c ELSE calls[k]
  BY <1>1, ExceptSeq DEF Becomes
<1>3. PICK j : j = Len(calls)
  OBVIOUS
<1>4. calls'[j] = c /\ GoesOn(calls, calls', j)
  <2>1. calls'[j] = c /\ calls[j] = top /\ Same(top, c) /\ j \in 1 .. Len(calls)
    BY <1>1, <1>2, <1>3 DEF Becomes
  <2>2. \A k \in 1 .. j : k < j => calls'[k] = calls[k]
    BY <1>1, <1>2, <1>3
  <2>3. QED
    BY <1>2, <2>1, <2>2 DEF GoesOn
<1>5. Goes(calls')
  BY <1>1, <1>2, <1>3, <1>4, GoesHere DEF Becomes
<1>6. calls' # << >>
  <2>1. Len(calls') \in 1 .. Len(calls')
    BY <1>1, <1>2
  <2>2. QED
    BY <2>1
<1>7. QED
  BY <1>5, <1>6

\* The address at which the generated code reads a field.
LEMMA FieldAddress ==
  ASSUME Setup, Layout(resolved, Rigid, Fine), Sync(resolved, Rigid, top),
         top.todo # << >>, ~field.remote
  PROVE  Address(field) = top.place
<1> DEFINE ms == MembersOf(resolved, top)
<1>1. /\ Call(resolved, top) /\ Elapsed(top) = 0 /\ field = Head(top.todo)
      /\ ms = resolved[top.name].members /\ ms \in Seq(Members)
      /\ top.place \in Int /\ top.from \in Int /\ top.offset \in Int
      /\ Cur(top) \in 1 .. Len(ms) /\ Len(ms) \in Nat
      /\ top.addr = top.from /\ ~Beyond(resolved, Rigid, top)
  <2>1. ~Beyond(resolved, Rigid, top) /\ top.addr = top.from
    BY DEF Beyond, Sync
  <2>2. QED
    BY <2>1, TopCall, CallFacts, CallOn DEF field, MembersOf
<1>2. CASE HasDynamicFields(ms)
  <2>1. top.place = top.from + top.offset + 0
    BY <1>1, <1>2 DEF Sync
  <2>2. Address(field) = top.addr + top.offset
    BY <1>1, <1>2 DEF Address, dynamic
  <2>3. QED
    BY <1>1, <2>1, <2>2
<1>3. CASE ~HasDynamicFields(ms)
  <2>1. Measured(resolved, top)
    BY <1>1, <1>3 DEF Sync
  <2>2. PICK p \in [1 .. Len(ms) + 1 -> Nat] :
          /\ Along(resolved, ms, resolved[top.name].inline, p)
          /\ top.place = top.from + p[Cur(top)] + Elapsed(top)
    BY <2>1 DEF Measured
  <2>3. PICK q \in Nat : q = p[Cur(top)]
    BY <1>1
  <2>4. ms[Cur(top)].is = "field" /\ field = ms[Cur(top)]
    BY <1>1, <1>3, StaticMembers, OneField
  <2>5. field.off = q
    BY <1>1, <2>2, <2>3, <2>4 DEF Along
  <2>6. Address(field) = top.addr + field.off
    BY <1>1, <1>3 DEF Address, dynamic
  <2>7. QED
    BY <1>1, <2>2, <2>3, <2>5, <2>6
<1>4. QED
  BY <1>2, <1>3

-----------------------------------------------------------------------------
(***************************************************************************)
(* Calls and returns.                                                      *)
(***************************************************************************)

\* An array without elements is behind the call at once.
LEMMA EmptyArrayMoves ==
  ASSUME Setup, top.todo # << >>, field.kind = "structs", field.len # Expr => field.len = 0,
         SetTop(NextField(top))
  PROVE  \E c \in Calls : Becomes(c)
<1>1. PICK f : f = field
  OBVIOUS
<1>2. PICK c : c = NextField(top)
  OBVIOUS
<1>3. /\ Call(resolved, top) /\ Elapsed(top) = 0 /\ top \in Calls /\ f = Head(top.todo)
      /\ members = MembersOf(resolved, top) /\ members \in Seq(Members)
      /\ f \in Fields /\ f \in ToSet(FieldsOf(members)) /\ Tail(top.todo) \in Seq(Fields)
      /\ top.place \in Int /\ top.offset \in Int /\ top.name \in Names
      /\ resolved \in [Names -> Structs]
  BY <1>1, TopCall, CallFacts, CallOn DEF field
<1>4. /\ c \in Calls /\ Same(top, c) /\ c.at = top.at /\ c.todo = Tail(top.todo)
      /\ c.elems = 0 /\ c.elem = 0 /\ c.offset = top.offset /\ c.place = top.place
  <2>1. PICK t : t = Tail(top.todo)
    OBVIOUS
  <2>2. c = [top EXCEPT !.todo = t, !.elems = 0, !.elem = 0] /\ t \in Seq(Fields)
    BY <1>2, <1>3, <2>1 DEF NextField
  <2>3. PICK z \in Nat : z = 0
    OBVIOUS
  <2>4. c = [top EXCEPT !.todo = t, !.elems = z, !.elem = z]
    BY <2>2, <2>3
  <2>5. c \in Calls
    BY <1>3, <2>2, <2>4 DEF Calls
  <2>6. /\ c.name = top.name /\ c.addr = top.addr /\ c.from = top.from
        /\ c.at = top.at /\ c.todo = t /\ c.elems = z /\ c.elem = z
        /\ c.offset = top.offset /\ c.place = top.place
    BY <1>3, <2>4 DEF Calls
  <2>7. QED
    BY <2>1, <2>3, <2>5, <2>6 DEF Same
<1>5. PICK b \in Int : b = 0
  OBVIOUS
<1>6. c.place = top.place - Elapsed(top) + b /\ c.offset = top.offset + b
  BY <1>3, <1>4, <1>5
<1>7. f.kind = "structs" /\ f.is = "field" /\ ByValue(f) /\ f.ref \in Names
  BY <1>1, <1>3 DEF Fields, ByValue
<1>8. ASSUME Layout(resolved, Rigid, Fine), f.remote \/ f.len # Expr
      PROVE  b = BytesOf(resolved, f)
  <2>1. CASE f.remote
    BY <1>5, <1>7, <2>1 DEF BytesOf
  <2>2. CASE f.len = 0
    <3>1. SizeFinal(resolved, f) /\ resolved[f.ref].size \in Int
      BY <1>3, <1>7, <1>8 DEF Layout, MembersOf, Structs
    <3>2. f.size = 0 * resolved[f.ref].size
      BY <1>7, <2>2, <3>1 DEF SizeFinal
    <3>3. f.size = 0
      BY <3>1, <3>2
    <3>4. QED
      BY <1>5, <1>7, <3>3 DEF BytesOf
  <2>3. QED
    BY <1>1, <1>8, <2>1, <2>2
<1>9. Layout(resolved, Rigid, Fine) /\ top.name \in Rigid => b = BytesOf(resolved, f)
  BY <1>3, <1>8 DEF Layout, MembersOf
<1>10. Layout(resolved, Rigid, Fine) /\ ~HasDynamicFields(members) => b = BytesOf(resolved, f)
  BY <1>3, <1>8, StaticMembers
<1>11. Call(resolved, c) /\ KeepsPlace(resolved, Rigid, Fine, top, c)
  BY <1>3, <1>4, <1>6, <1>9, <1>10, FieldBehind
<1>12. calls' = [calls EXCEPT ![Len(calls)] = c]
  BY <1>2 DEF SetTop
<1>13. QED
  BY <1>4, <1>11, <1>12 DEF Becomes

\* The caller of a struct stays where it is.
LEMMA CallerStays ==
  ASSUME Setup, top.todo # << >>, ByValue(field), NEW count \in Nat \ {0},
         field.len = Single => count = 1,
         field.len >= 0 => count = field.len,
         field.len = Expr => count <= MaxLen,
         NEW c, c = [top EXCEPT !.elems = count]
  PROVE  /\ Call(resolved, c) /\ Same(top, c) /\ c.elems = count /\ c.todo = top.todo
         /\ c.place = top.place
         /\ KeepsPlace(resolved, Rigid, Fine, top, c)
<1>1. /\ Call(resolved, top) /\ Elapsed(top) = 0 /\ top \in Calls /\ top.elem = 0
      /\ resolved \in [Names -> Structs] /\ Head(top.todo) = field /\ field.elem \in Int
      /\ top.place \in Int /\ top.offset \in Int
  BY TopCall, CallFacts, CallOn DEF field
<1>2. /\ c \in Calls /\ Same(top, c) /\ c.elems = count /\ c.elem = 0 /\ c.todo = top.todo
      /\ c.place = top.place /\ c.at = top.at /\ c.offset = top.offset /\ c.name = top.name
      /\ c.from = top.from
  BY <1>1 DEF Calls, Same
<1>3. Shape(resolved, c)
  <2>1. c.at # 0
    BY <1>1 DEF Call, Shape
  <2>2. count # 0 /\ count > 0 /\ c.elem < c.elems
    BY <1>2
  <2>3. QED
    BY <1>1, <1>2, <2>1, <2>2 DEF Call, Shape, MembersOf
<1>4. Call(resolved, c)
  BY <1>1, <1>2, <1>3 DEF Call
<1>5. Elapsed(c) = 0
  <2>1. PICK e \in Int : e = Head(c.todo).elem
    BY <1>1, <1>2
  <2>2. 0 * e = 0
    OBVIOUS
  <2>3. QED
    BY <1>2, <2>1, <2>2 DEF Elapsed
<1>6. PICK b \in Int : b = 0
  OBVIOUS
<1>7. ~Beyond(resolved, Rigid, top) /\ Cur(c) = Cur(top)
  BY <1>2 DEF Beyond, Cur
<1>8. Counts(resolved, top, c, b)
  BY <1>6, <1>7 DEF Counts
<1>9. c.place - Elapsed(c) = top.place - Elapsed(top) + b /\ c.offset = top.offset + b
  BY <1>1, <1>2, <1>5, <1>6
<1>10. KeepsPlace(resolved, Rigid, Fine, top, c)
  BY <1>1, <1>2, <1>4, <1>7, <1>8, <1>9, Advancing
<1>11. QED
  BY <1>2, <1>4, <1>10

LEMMA AddressType ==
  ASSUME Setup, top.todo # << >>
  PROVE  Address(field) \in Int /\ field \in Fields /\ field = Head(top.todo)
<1>1. /\ field \in Fields /\ field = Head(top.todo)
      /\ top.addr \in Int /\ top.offset \in Int
  BY TopCall, CallOn DEF field
<1>2. field.off \in Int /\ Far \in Int
  BY <1>1, FarAssumption DEF Fields
<1>3. QED
  BY <1>1, <1>2 DEF Address

LEMMA NothingLeft == Goes(<< >>)
<1>1. << >> \in Seq(Calls) /\ Len(<< >>) = 0 /\ 0 <= MaxCalls
  BY FarAssumption
<1>2. QED
  BY <1>1 DEF Goes, Stack, Chained, Fits

LEMMA EnterGoes ==
  ASSUME Setup, top.todo # << >>, ByValue(field), NEW count \in Nat \ {0},
         field.len = Single => count = 1,
         field.len >= 0 => count = field.len,
         field.len = Expr => count <= MaxLen,
         Enter(field.ref, Address(field), IF field.remote THEN Far ELSE top.place,
               [top EXCEPT !.elems = count])
  PROVE  Goes(calls') /\ (calls' # << >> => outcome' = outcome)
<1>1. PICK c : c = [top EXCEPT !.elems = count]
  OBVIOUS
<1>2. PICK a \in Int : a = Address(field)
  BY AddressType
<1>3. PICK p \in Int : p = IF field.remote THEN Far ELSE top.place
  BY FarAssumption, TopCall, CallOn
<1>4. PICK n \in Names : n = field.ref
  BY AddressType DEF Fields
<1>5. /\ Call(resolved, c) /\ Same(top, c) /\ c.elems = count /\ c.todo = top.todo
      /\ c.place = top.place
      /\ KeepsPlace(resolved, Rigid, Fine, top, c)
  BY <1>1, CallerStays
<1>6. CASE Len(calls) < MaxCalls
  <2>1. PICK w : w = [calls EXCEPT ![Len(calls)] = c]
    OBVIOUS
  <2>2. calls' = Append(w, NewCall(n, a, p)) /\ UNCHANGED outcome
    BY <1>1, <1>2, <1>3, <1>4, <1>6, <2>1 DEF Enter
  <2>3. /\ calls \in Seq(Calls) /\ Len(calls) \in 1 .. Len(calls) /\ top = calls[Len(calls)]
        /\ resolved \in [Names -> Structs]
    BY CallFacts
  <2>4. /\ w \in Seq(Calls) /\ Len(w) = Len(calls)
        /\ \A k \in 1 .. Len(calls) : w[k] = IF k = Len(calls) THEN c ELSE calls[k]
    <3>1. c \in Calls
      BY <1>5 DEF Call
    <3>2. QED
      BY <2>1, <2>3, <3>1, ExceptSeq
  <2>5. PICK e : e = NewCall(n, a, p)
    OBVIOUS
  <2>6. e \in Calls
    BY <2>3, <2>5, NewCallType DEF Call
  <2>7. PICK t : t = calls'
    OBVIOUS
  <2>8. /\ t \in Seq(Calls) /\ Len(t) = Len(calls) + 1 /\ t[Len(calls) + 1] = e
        /\ \A k \in 1 .. Len(calls) : t[k] = IF k = Len(calls) THEN c ELSE calls[k]
    BY <2>2, <2>4, <2>5, <2>6, <2>7, AppendProperties
  <2>9. PICK j \in Nat : j = Len(calls)
    BY <2>3
  <2>10. t[j] = c /\ calls[j] = top /\ GoesOn(calls, t, j)
    <3>1. t[j] = c /\ calls[j] = top /\ j \in 1 .. Len(calls)
      BY <2>3, <2>8, <2>9
    <3>2. \A k \in 1 .. j : k < j => t[k] = calls[k]
      BY <2>8, <2>9, <3>1
    <3>3. QED
      BY <1>5, <2>8, <3>1, <3>2 DEF GoesOn
  <2>11. ASSUME Layout(resolved, Rigid, Fine), Fits(resolved, Rigid, Fine, calls),
                Trusted(Fine, t, j)
         PROVE  a = p
    <3>1. Trusted(Fine, calls, j) /\ FitsAt(resolved, Rigid, Fine, calls, j)
      BY <2>10, <2>11, StackNow, FitsBelow
    <3>2. Sync(resolved, Rigid, top)
      BY <2>10, <3>1 DEF FitsAt
    <3>3. ~field.remote => Address(field) = top.place
      BY <2>11, <3>2, FieldAddress
    <3>4. field.remote => Address(field) = Far
      BY DEF Address
    <3>5. QED
      BY <1>2, <1>3, <3>3, <3>4
  <2>12. n = Head(c.todo).ref /\ (~Head(c.todo).remote => p = c.place)
    BY <1>3, <1>4, <1>5 DEF field
  <2>13. Len(t) = j + 1 /\ j + 1 <= MaxCalls /\ c.elems # 0 /\ t[j + 1] = NewCall(n, a, p)
    BY <1>5, <1>6, <2>5, <2>8, <2>9, FarAssumption
  <2>14. Goes(t)
    BY <1>5, <2>10, <2>11, <2>12, <2>13, GoesAbove
  <2>15. QED
    BY <2>2, <2>7, <2>14
<1>7. CASE ~(Len(calls) < MaxCalls)
  <2>1. calls' = << >>
    BY <1>7 DEF Enter
  <2>2. QED
    BY <2>1, NothingLeft
<1>8. QED
  BY <1>6, <1>7

\* StructField and StructArray.
LEMMA StructGoes ==
  ASSUME Setup, StructField \/ StructArray
  PROVE  Goes(calls') /\ (calls' # << >> => outcome' = outcome)
<1>1. /\ top.todo # << >> /\ field.kind \in {"struct", "structs"} /\ field \in Fields
      /\ ByValue(field)
  BY AddressType DEF StructField, StructArray, AtField, ByValue
<1>2. field.len \in Nat \cup {Single, Expr} /\ (field.kind = "struct" <=> field.len = Single)
  BY <1>1 DEF Fields
<1>3. Single = -1 /\ Expr = -2
  BY DEF Single, Expr
<1>4. CASE StructField
  <2>1. PICK count \in Nat \ {0} : count = 1
    OBVIOUS
  <2>2. field.len = Single
    BY <1>2, <1>4 DEF StructField, AtField
  <2>3. QED
    BY <1>1, <1>3, <1>4, <2>1, <2>2, EnterGoes DEF StructField
<1>5. CASE StructArray
  <2>1. PICK n \in (IF field.len = Expr THEN Lengths ELSE {field.len}) :
          LET count == IF field.len = Expr THEN BoundedLen(n) ELSE n
          IN  IF count = 0 THEN SetTop(NextField(top)) /\ UNCHANGED outcome
              ELSE Enter(field.ref, Address(field), IF field.remote THEN Far ELSE top.place,
                         [top EXCEPT !.elems = count])
    BY <1>5 DEF StructArray
  <2>2. PICK count : count = IF field.len = Expr THEN BoundedLen(n) ELSE n
    OBVIOUS
  <2>3. field.kind = "structs" /\ field.len # Single
    BY <1>2, <1>5 DEF StructArray, AtField
  <2>4. count \in Nat /\ (field.len = Expr => count <= MaxLen)
    <3>1. CASE field.len = Expr
      <4>1. n \in Int /\ count = BoundedLen(n) /\ MaxLen \in Nat
        BY <2>1, <2>2, <3>1, LengthsAssumption
      <4>2. QED
        BY <4>1 DEF BoundedLen, Refused
    <3>2. CASE field.len # Expr
      BY <1>2, <2>1, <2>2, <2>3, <3>2
    <3>3. QED
      BY <3>1, <3>2
  <2>5. field.len # Expr => count = field.len
    BY <2>1, <2>2
  <2>6. CASE count = 0
    <3>1. SetTop(NextField(top)) /\ UNCHANGED outcome
      BY <2>1, <2>2, <2>6
    <3>2. \E c \in Calls : Becomes(c)
      BY <1>1, <2>3, <2>5, <2>6, <3>1, EmptyArrayMoves
    <3>3. QED
      BY <3>1, <3>2, TopGoes
  <2>7. CASE count # 0
    <3>1. count \in Nat \ {0}
      BY <2>4, <2>7
    <3>2. Enter(field.ref, Address(field), IF field.remote THEN Far ELSE top.place,
                [top EXCEPT !.elems = count])
      BY <2>1, <2>2, <2>7
    <3>3. field.len >= 0 => count = field.len
      BY <1>3, <2>5
    <3>4. QED
      BY <1>1, <2>3, <2>4, <3>1, <3>2, <3>3, EnterGoes
  <2>8. QED
    BY <2>6, <2>7
<1>6. QED
  BY <1>4, <1>5

\* The structs in an array that is laid out have the length of their struct.
LEMMA ElementBytes ==
  ASSUME NEW r, NEW R, NEW G, Layout(r, R, G), NEW c, Call(r, c), c.todo # << >>,
         NEW f, f = Head(c.todo), f.kind = "structs", c.name \in G \/ (c.name \in R /\ ~f.remote)
  PROVE  /\ f.ref \in R /\ f.elem = r[f.ref].inline /\ f.elem \in Nat
         /\ f.len >= 0 => f.size = f.len * f.elem
<1>1. /\ r \in [Names -> Structs] /\ c.name \in Names /\ ByValue(f) /\ f \in Fields
      /\ f \in ToSet(FieldsOf(MembersOf(r, c))) /\ f.ref \in Names
      /\ Cur(c) \in 1 .. Len(MembersOf(r, c)) /\ f \in ToSet(Part(MembersOf(r, c)[Cur(c)]))
  <2>1. f \in Fields /\ ByValue(f)
    BY CallOn DEF ByValue
  <2>2. QED
    BY <2>1, CallOn DEF Call, Fields
<1>2. r[f.ref].size \in {-1, r[f.ref].inline} /\ r[f.ref].inline \in Nat
  BY <1>1 DEF Layout, Structs
<1>3. SizeFinal(r, f)
  BY <1>1 DEF Layout, MembersOf
<1>4. f.ref \in R /\ r[f.ref].size >= 0
  <2>1. CASE c.name \in G
    BY <1>1, <2>1 DEF Layout, MembersOf
  <2>2. CASE c.name \in R /\ ~f.remote
    BY <1>1, <2>2 DEF Layout, MembersOf, Outside
  <2>3. QED
    BY <2>1, <2>2
<1>5. r[f.ref].size = r[f.ref].inline
  BY <1>2, <1>4
<1>6. QED
  BY <1>2, <1>3, <1>4, <1>5 DEF SizeFinal

\* So has a rigid struct in a field.
LEMMA StructBytes ==
  ASSUME NEW r, NEW R, NEW G, Layout(r, R, G), NEW c, Call(r, c), c.todo # << >>,
         NEW f, f = Head(c.todo), f.kind = "struct", ~f.remote,
         c.name \in R \/ (c.name \in G /\ f.ref \in R)
  PROVE  /\ f.ref \in R /\ r[f.ref].inline \in Nat
         /\ BytesOf(r, f) = r[f.ref].inline
         /\ c.name \in G /\ HasDynamicFields(MembersOf(r, c)) => f.size = r[f.ref].inline
<1>1. /\ r \in [Names -> Structs] /\ c.name \in Names /\ ByValue(f) /\ f \in Fields /\ Outside(f)
      /\ f \in ToSet(FieldsOf(MembersOf(r, c))) /\ f.ref \in Names /\ f.is = "field"
      /\ Cur(c) \in 1 .. Len(MembersOf(r, c)) /\ f \in ToSet(Part(MembersOf(r, c)[Cur(c)]))
  <2>1. f \in Fields /\ ByValue(f) /\ Outside(f)
    BY CallOn DEF ByValue, Outside
  <2>2. QED
    BY <2>1, CallOn DEF Call, Fields
<1>2. r[f.ref].size \in {-1, r[f.ref].inline} /\ r[f.ref].inline \in Nat
  BY <1>1 DEF Layout, Structs
<1>3. SizeFinal(r, f)
  BY <1>1 DEF Layout, MembersOf
<1>4. f.ref \in R
  BY <1>1 DEF Layout, MembersOf
<1>5. ASSUME c.name \in G, HasDynamicFields(MembersOf(r, c))
      PROVE  r[f.ref].size >= 0
  BY <1>1, <1>4, <1>5 DEF Layout, MembersOf
<1>6. BytesOf(r, f) = r[f.ref].inline
  BY <1>1 DEF BytesOf
<1>7. QED
  BY <1>2, <1>3, <1>4, <1>5, <1>6 DEF SizeFinal

\* The caller of a struct that is read.
Returning == Setup /\ top.at = Len(members) + 1 /\ top.todo = << >> /\ Len(calls) # 1
Calling(c, f) == c = calls[Len(calls) - 1] /\ f = Head(c.todo)

LEMMA ReturnFacts ==
  ASSUME Returning, NEW c, NEW f, Calling(c, f)
  PROVE  /\ Len(calls) \in Nat /\ Len(calls) - 1 \in 1 .. Len(calls)
         /\ Call(resolved, c) /\ c \in Calls /\ c.elems \in Nat \ {0} /\ c.elem \in Nat
         /\ c.todo # << >> /\ ByValue(f) /\ c.elem < c.elems /\ f \in Fields
         /\ f.len = Single => c.elems = 1
         /\ f.len >= 0 => c.elems = f.len
         /\ f.len = Expr => c.elems <= MaxLen
         /\ top.name = f.ref /\ (~f.remote => top.from = c.place)
         /\ c.place \in Int /\ c.offset \in Int /\ top.place \in Int /\ top.from \in Int
         /\ top.addr \in Int /\ f.elem \in Int /\ f = Head(c.todo)
<1>1. Setup /\ Len(calls) \in Nat /\ Len(calls) - 1 \in 1 .. Len(calls)
  <2>1. Setup /\ Len(calls) # 1
    BY DEF Returning
  <2>2. PICK n \in Nat : n = Len(calls) /\ n \in 1 .. n
    BY <2>1, CallFacts
  <2>3. n - 1 \in 1 .. n
    BY <2>1, <2>2
  <2>4. QED
    BY <2>1, <2>2, <2>3
<1> f = Head(c.todo) /\ c = calls[Len(calls) - 1]
  BY DEF Calling
<1>2. Call(resolved, c) /\ c \in Calls
  BY <1>1, CallFacts DEF Call
<1>3. c.elems # 0
  <2>1. Len(calls) - 1 # Len(calls)
    BY <1>1
  <2>2. QED
    BY <1>1, <2>1 DEF Setup, Reads, Chained
<1>4. c.elems \in Nat \ {0} /\ c.elem \in Nat /\ c.place \in Int /\ c.offset \in Int
  BY <1>2, <1>3, CallOn
<1>5. /\ c.todo # << >> /\ ByValue(f) /\ c.elem < c.elems
      /\ f.len = Single => c.elems = 1
      /\ f.len >= 0 => c.elems = f.len
      /\ f.len = Expr => c.elems <= MaxLen
  BY <1>2, <1>4 DEF Call, Shape
<1>6. f \in Fields /\ f.elem \in Int
  BY <1>2, <1>5, CallOn
<1>7. top.name = f.ref /\ (~f.remote => top.from = c.place)
  <2>1. PICK j : j = Len(calls) - 1
    OBVIOUS
  <2>2. j \in 1 .. Len(calls) /\ j < Len(calls) /\ calls[j + 1] = top /\ calls[j] = c
    BY <1>1, <2>1, CallFacts
  <2>3. QED
    BY <1>1, <2>2 DEF Setup, Reads, Chained
<1>8. top.place \in Int /\ top.from \in Int /\ top.addr \in Int
  BY <1>1, TopCall, CallOn
<1>9. QED
  BY <1>1, <1>2, <1>4, <1>5, <1>6, <1>7, <1>8

LEMMA ReturnedBytes ==
  ASSUME Returning, Layout(resolved, Rigid, Fine), Fits(resolved, Rigid, Fine, calls),
         top.name \in Rigid
  PROVE  top.place = top.from + resolved[top.name].inline
<1>1. /\ Call(resolved, top) /\ Elapsed(top) = 0 /\ members = MembersOf(resolved, top)
      /\ Len(calls) \in 1 .. Len(calls) /\ top = calls[Len(calls)] /\ Len(members) \in Nat
      /\ top.name \in Names /\ resolved \in [Names -> Structs] /\ top.from \in Int
  BY TopCall, CallFacts, CallOn DEF Returning
<1>2. Measured(resolved, top)
  BY <1>1 DEF Fits, FitsAt
<1>3. Cur(top) = Len(members) + 1
  BY <1>1 DEF Cur, Returning
<1>4. PICK p \in [1 .. Len(members) + 1 -> Nat] :
        /\ Along(resolved, members, resolved[top.name].inline, p)
        /\ top.place = top.from + p[Cur(top)] + Elapsed(top)
  BY <1>1, <1>2 DEF Measured
<1>5. p[Len(members) + 1] = resolved[top.name].inline
  BY <1>4 DEF Along
<1>6. resolved[top.name].inline \in Int
  BY <1>1 DEF Structs
<1>7. QED
  BY <1>1, <1>3, <1>4, <1>5, <1>6

LEMMA OneMore ==
  ASSUME NEW i \in Int, NEW e \in Int
  PROVE  (i + 1) * e = i * e + e /\ i * e \in Int /\ (i + 1) * e \in Int
<1>1. QED
  OBVIOUS

\* The next element of the array begins.
NextElement(c, f, d, a, t) ==
  /\ d = [c EXCEPT !.elem = @ + 1, !.place = IF f.remote THEN @ ELSE top.place]
  /\ a = top.addr - c.elem * f.elem + (c.elem + 1) * f.elem
  /\ t = [calls EXCEPT ![Len(calls) - 1] = d,
                       ![Len(calls)] = NewCall(f.ref, a, top.place)]

LEMMA NextElementGoes ==
  ASSUME Returning, NEW c, NEW f, Calling(c, f), c.elem + 1 < c.elems,
         NEW d, NEW a, NEW t, NextElement(c, f, d, a, t)
  PROVE  Goes(t)
<1>1. Setup
  BY DEF Returning
<1>2. /\ Len(calls) \in Nat /\ Len(calls) - 1 \in 1 .. Len(calls)
      /\ Call(resolved, c) /\ c \in Calls /\ c.elems \in Nat \ {0} /\ c.elem \in Nat
      /\ c.todo # << >> /\ ByValue(f) /\ c.elem < c.elems /\ f \in Fields
      /\ f.len = Single => c.elems = 1
      /\ f.len >= 0 => c.elems = f.len
      /\ f.len = Expr => c.elems <= MaxLen
      /\ top.name = f.ref /\ (~f.remote => top.from = c.place)
      /\ c.place \in Int /\ c.offset \in Int /\ top.place \in Int /\ top.from \in Int
      /\ top.addr \in Int /\ f.elem \in Int /\ f = Head(c.todo) /\ c = calls[Len(calls) - 1]
  BY ReturnFacts DEF Calling
<1>3. f.ref \in Names /\ resolved \in [Names -> Structs]
  BY <1>2 DEF Fields, Call
<1>4. /\ a = top.addr + f.elem /\ a \in Int
      /\ c.elem * f.elem \in Int /\ (c.elem + 1) * f.elem = c.elem * f.elem + f.elem
  <2>1. PICK i \in Int, e \in Int : i = c.elem /\ e = f.elem
    BY <1>2
  <2>2. PICK x \in Int : x = i * e
    OBVIOUS
  <2>3. (i + 1) * e = x + e
    BY <2>2, OneMore
  <2>4. c.elem * f.elem = x /\ (c.elem + 1) * f.elem = x + e
    BY <2>1, <2>2, <2>3
  <2>5. a = top.addr - x + (x + e)
    BY <2>4 DEF NextElement
  <2>6. a = top.addr + e
    <3>1. PICK u \in Int : u = top.addr
      BY <1>2
    <3>2. a = u - x + (x + e)
      BY <2>5, <3>1
    <3>3. a = u + e
      BY <3>2
    <3>4. QED
      BY <3>1, <3>3
  <2>7. top.addr + e \in Int
    BY <1>2
  <2>8. QED
    BY <2>1, <2>4, <2>6, <2>7
<1>5. /\ d \in Calls /\ Same(c, d) /\ d.elems = c.elems /\ d.elem = c.elem + 1 /\ d.todo = c.todo
      /\ d.place = (IF f.remote THEN c.place ELSE top.place) /\ d.at = c.at
      /\ d.offset = c.offset
  <2>1. PICK e \in Nat : e = c.elem + 1
    BY <1>2
  <2>2. PICK q \in Int : q = IF f.remote THEN c.place ELSE top.place
    BY <1>2
  <2>3. d = [c EXCEPT !.elem = e, !.place = q]
    BY <1>2, <2>1, <2>2 DEF NextElement, Calls
  <2>4. /\ d \in Calls /\ Same(c, d) /\ d.elems = c.elems /\ d.elem = e /\ d.todo = c.todo
        /\ d.place = q /\ d.at = c.at /\ d.offset = c.offset
    BY <1>2, <2>3 DEF Calls, Same
  <2>5. QED
    BY <2>1, <2>2, <2>4
<1>6. Call(resolved, d)
  <2>1. d.elem < d.elems /\ d.elems # 0 /\ MembersOf(resolved, d) = MembersOf(resolved, c)
    BY <1>2, <1>5 DEF Same, MembersOf
  <2>2. c.at # 0
    BY <1>2 DEF Call, Shape
  <2>3. Shape(resolved, d)
    BY <1>2, <1>5, <2>1, <2>2 DEF Call, Shape
  <2>4. QED
    BY <1>2, <1>5, <2>3 DEF Call
<1>7. f.kind = "structs"
  <2>1. f.len # Single
    BY <1>2
  <2>2. QED
    BY <1>2, <2>1 DEF Fields, ByValue
<1>8. /\ Elapsed(c) = (IF f.remote THEN 0 ELSE c.elem * f.elem)
      /\ Elapsed(d) = (IF f.remote THEN 0 ELSE (c.elem + 1) * f.elem)
  BY <1>2, <1>5 DEF Elapsed
<1>9. ASSUME Layout(resolved, Rigid, Fine), Fits(resolved, Rigid, Fine, calls)
      PROVE  /\ KeepsPlace(resolved, Rigid, Fine, c, d)
             /\ c.name \in Fine /\ top.addr = top.from => a = top.place
  <2>1. ASSUME f.ref \in Rigid, f.elem = resolved[f.ref].inline
        PROVE  top.place = top.from + f.elem
    BY <1>2, <1>9, <2>1, ReturnedBytes
  <2>2. ASSUME c.name \in Fine \/ (c.name \in Rigid /\ ~f.remote)
        PROVE  top.place = top.from + f.elem
    <3>1. f.ref \in Rigid /\ f.elem = resolved[f.ref].inline
      BY <1>2, <1>7, <1>9, <2>2, ElementBytes
    <3>2. QED
      BY <2>1, <3>1
  <2>3. ASSUME c.name \in Fine \/ c.name \in Rigid
        PROVE  d.place - Elapsed(d) = c.place - Elapsed(c)
    <3>1. CASE f.remote
      BY <1>5, <1>8, <3>1
    <3>2. CASE ~f.remote
      <4>1. d.place = c.place + f.elem
        BY <1>2, <1>5, <2>2, <2>3, <3>2
      <4>2. PICK x \in Int : x = c.elem * f.elem
        BY <1>4
      <4>3. Elapsed(c) = x /\ Elapsed(d) = x + f.elem
        BY <1>4, <1>8, <3>2, <4>2
      <4>4. QED
        BY <1>2, <4>1, <4>3
    <3>3. QED
      BY <3>1, <3>2
  <2>4. PICK b \in Int : b = 0
    OBVIOUS
  <2>5. Cur(d) = Cur(c) /\ ~Beyond(resolved, Rigid, c)
    BY <1>2, <1>5 DEF Cur, Beyond
  <2>6. Counts(resolved, c, d, b) /\ d.offset = c.offset + b
    BY <1>2, <1>5, <2>4, <2>5 DEF Counts
  <2>7. ASSUME c.name \in Fine \/ c.name \in Rigid
        PROVE  KeepsPlace(resolved, Rigid, Fine, c, d)
    <3>1. d.place - Elapsed(d) = c.place - Elapsed(c) + b
      <4>1. c.place - Elapsed(c) \in Int
        BY <1>2, CallOn
      <4>2. QED
        BY <2>3, <2>4, <2>7, <4>1
    <3>2. QED
      BY <1>2, <1>5, <1>6, <2>5, <2>6, <3>1, Advancing
  <2>8. KeepsPlace(resolved, Rigid, Fine, c, d)
    BY <2>7 DEF KeepsPlace
  <2>9. c.name \in Fine /\ top.addr = top.from => a = top.place
    BY <1>2, <1>4, <2>2
  <2>10. QED
    BY <2>8, <2>9
<1>10. PICK n \in Names : n = f.ref
  BY <1>3
<1>11. PICK j \in Nat : j = Len(calls) - 1
  <2>1. PICK m \in Nat : m = Len(calls)
    BY <1>2
  <2>2. m - 1 \in Nat
    BY <1>2, <2>1
  <2>3. QED
    BY <2>1, <2>2
<1>12. PICK e : e = NewCall(n, a, top.place)
  OBVIOUS
<1>13. e \in Calls
  BY <1>2, <1>3, <1>4, <1>12, NewCallType DEF Call
<1>14. /\ calls \in Seq(Calls) /\ j \in 1 .. Len(calls) /\ Len(calls) \in 1 .. Len(calls)
       /\ Len(calls) = j + 1 /\ Len(calls) <= MaxCalls /\ calls[j] = c /\ top = calls[j + 1]
  BY <1>1, <1>2, <1>11, CallFacts
<1>15. /\ t \in Seq(Calls) /\ Len(t) = j + 1 /\ t[j] = d /\ t[j + 1] = e
       /\ \A k \in 1 .. j : k < j => t[k] = calls[k]
  <2>1. PICK w : w = [calls EXCEPT ![j] = d]
    OBVIOUS
  <2>2. /\ w \in Seq(Calls) /\ Len(w) = Len(calls)
        /\ \A k \in 1 .. Len(calls) : w[k] = IF k = j THEN d ELSE calls[k]
    BY <1>5, <1>14, <2>1, ExceptSeq
  <2>3. t = [w EXCEPT ![Len(calls)] = e]
    BY <1>10, <1>11, <1>12, <2>1 DEF NextElement
  <2>4. /\ t \in Seq(Calls) /\ Len(t) = Len(calls)
        /\ \A k \in 1 .. Len(calls) : t[k] = IF k = Len(calls) THEN e ELSE w[k]
    BY <1>13, <1>14, <2>2, <2>3, ExceptSeq
  <2>5. QED
    BY <1>11, <1>14, <2>2, <2>4
<1>16. GoesOn(calls, t, j)
  BY <1>5, <1>14, <1>15 DEF GoesOn
<1>17. ASSUME Layout(resolved, Rigid, Fine), Fits(resolved, Rigid, Fine, calls),
              Trusted(Fine, t, j), Trusted(Fine, t, j + 1)
       PROVE  a = top.place
  <2>1. j + 1 \in 1 .. j + 1 /\ j \in 1 .. j + 1
    BY <1>14
  <2>2. \A k \in 1 .. j + 1 : t[k].name = calls[k].name
    <3>1. e.name = n
      BY <1>12 DEF NewCall
    <3>2. t[j].name = calls[j].name /\ t[j + 1].name = calls[j + 1].name
      BY <1>2, <1>5, <1>10, <1>14, <1>15, <3>1 DEF Same
    <3>3. \A k \in 1 .. j + 1 : (k < j /\ k \in 1 .. j) \/ k = j \/ k = j + 1
      BY <1>14
    <3>4. QED
      BY <1>15, <3>2, <3>3
  <2>3. Trusted(Fine, calls, j + 1)
    BY <1>17, <2>2 DEF Trusted
  <2>4. c.name \in Fine
    BY <1>14, <2>1, <2>3 DEF Trusted
  <2>5. Sync(resolved, Rigid, top)
    BY <1>14, <1>17, <2>3 DEF Fits, FitsAt
  <2>6. QED
    BY <1>9, <1>17, <2>4, <2>5 DEF Sync
<1>18. /\ Call(resolved, t[j]) /\ t[j].elems # 0 /\ n = Head(t[j].todo).ref
       /\ ~Head(t[j].todo).remote => top.place = t[j].place
  BY <1>2, <1>5, <1>6, <1>10, <1>15
<1>19. Layout(resolved, Rigid, Fine) /\ Fits(resolved, Rigid, Fine, calls) =>
         KeepsPlace(resolved, Rigid, Fine, calls[j], t[j])
  BY <1>9, <1>14, <1>15
<1>20. j + 1 <= MaxCalls /\ t[j + 1] = NewCall(n, a, top.place) /\ Len(t) = j + 1
  BY <1>12, <1>14, <1>15
<1>21. PICK p \in Int : p = top.place
  BY <1>2
<1>22. a \in Int
  BY <1>4
<1>23. QED
  BY <1>1, <1>16, <1>17, <1>18, <1>19, <1>20, <1>21, <1>22, GoesAbove

\* The field is behind the caller, with all its elements.
FieldDone(c, f, d, u, t) ==
  /\ d = [c EXCEPT !.elem = @ + 1, !.place = IF f.remote THEN @ ELSE top.place]
  /\ u = NextField(Advance(d, f, d.elems))
  /\ t = Append(SubSeq(calls, 1, Len(calls) - 2), u)

LEMMA FieldDoneCall ==
  ASSUME Returning, NEW c, NEW f, Calling(c, f), NEW d, NEW u, NEW t, FieldDone(c, f, d, u, t)
  PROVE  /\ u \in Calls /\ Same(c, u) /\ u.at = c.at /\ u.todo = Tail(c.todo)
         /\ u.elems = 0 /\ u.elem = 0
         /\ u.offset = c.offset + Progress(f, c.elems)
         /\ u.place = (IF f.remote THEN c.place ELSE top.place)
<1>1. /\ c \in Calls /\ Call(resolved, c) /\ c.elem \in Nat /\ c.elems \in Nat /\ c.todo # << >>
      /\ f \in Fields /\ f = Head(c.todo)
      /\ c.place \in Int /\ top.place \in Int /\ c.offset \in Int
  BY ReturnFacts
<1>2. Tail(c.todo) \in Seq(Fields)
  BY <1>1, CallOn
<1>3. PICK e \in Nat : e = c.elem + 1
  BY <1>1
<1>4. PICK q \in Int : q = IF f.remote THEN c.place ELSE top.place
  BY <1>1
<1>5. d = [c EXCEPT !.elem = e, !.place = q]
  BY <1>1, <1>3, <1>4 DEF FieldDone, Calls
<1>6. /\ d \in Calls /\ Same(c, d) /\ d.elems = c.elems /\ d.todo = c.todo /\ d.place = q
      /\ d.at = c.at /\ d.offset = c.offset
  BY <1>1, <1>5 DEF Calls, Same
<1>7. PICK o \in Int : o = c.offset + Progress(f, c.elems)
  <2>1. PICK w \in Int : w = Progress(f, c.elems)
    <3>1. f \in Fields /\ c.elems \in Int
      BY <1>1
    <3>2. Progress(f, c.elems) \in Int
      BY <3>1, ProgressType
    <3>3. QED
      BY <3>2
  <2>2. c.offset + w \in Int
    BY <1>1
  <2>3. QED
    BY <2>1, <2>2
<1>8. PICK x : x = Advance(d, f, d.elems)
  OBVIOUS
<1>9. x = [d EXCEPT !.offset = o]
  <2>1. PICK i \in Int : i = d.elems
    BY <1>1, <1>6
  <2>2. x = [d EXCEPT !.offset = @ + Progress(f, i)]
    BY <1>1, <1>6, <1>8, <2>1, AdvanceAdds
  <2>3. o = d.offset + Progress(f, i)
    BY <1>6, <1>7, <2>1
  <2>4. QED
    BY <2>2, <2>3
<1>10. PICK r : r = Tail(c.todo)
  OBVIOUS
<1>11. u = [x EXCEPT !.todo = r, !.elems = 0, !.elem = 0]
  <2>1. x.todo = c.todo
    BY <1>6, <1>9 DEF Calls
  <2>2. QED
    BY <1>8, <1>10, <2>1 DEF FieldDone, NextField
<1>12. /\ x \in Calls /\ x.name = d.name /\ x.addr = d.addr /\ x.from = d.from /\ x.at = d.at
       /\ x.place = d.place /\ x.offset = o
  BY <1>6, <1>9 DEF Calls
<1>13. PICK z \in Nat : z = 0
  OBVIOUS
<1>14. u = [x EXCEPT !.todo = r, !.elems = z, !.elem = z] /\ r \in Seq(Fields)
  BY <1>2, <1>10, <1>11, <1>13
<1>15. u \in Calls
  BY <1>12, <1>14 DEF Calls
<1>16. /\ u.name = x.name /\ u.addr = x.addr /\ u.from = x.from /\ u.at = x.at /\ u.todo = r
       /\ u.elems = z /\ u.elem = z /\ u.offset = x.offset /\ u.place = x.place
  BY <1>12, <1>14 DEF Calls
<1>17. QED
  BY <1>4, <1>6, <1>7, <1>10, <1>12, <1>13, <1>15, <1>16 DEF Same

\* The bytes of the field.
LEMMA FieldBytes ==
  ASSUME Returning, NEW c, NEW f, Calling(c, f), ~(c.elem + 1 < c.elems), ~f.remote,
         Layout(resolved, Rigid, Fine), Fits(resolved, Rigid, Fine, calls),
         c.name \in Rigid \/ (c.name \in Fine /\ (f.kind = "struct" => f.ref \in Rigid)),
         NEW b \in Int, b = top.place - c.place + Elapsed(c)
  PROVE  /\ f.len # Expr => b = BytesOf(resolved, f)
         /\ c.name \in Fine /\ HasDynamicFields(MembersOf(resolved, c)) =>
              b = Progress(f, c.elems)
<1>1. /\ Call(resolved, c) /\ c.elem \in Nat /\ c.elems \in Nat \ {0} /\ c.todo # << >>
      /\ c.elem < c.elems /\ f \in Fields /\ f = Head(c.todo) /\ ByValue(f)
      /\ f.len = Single => c.elems = 1
      /\ f.len >= 0 => c.elems = f.len
      /\ top.name = f.ref /\ top.from = c.place
      /\ c.place \in Int /\ top.place \in Int /\ f.elem \in Int
  BY ReturnFacts
<1>2. c.elems = c.elem + 1
  BY <1>1
<1>3. Elapsed(c) = c.elem * f.elem
  BY <1>1 DEF Elapsed
<1>4. /\ f.is = "field" /\ f.len \in Nat \cup {Single, Expr} /\ (f.kind = "struct" <=> f.len = Single)
      /\ f.len = Expr => f.size = -1
      /\ f.kind \in {"struct", "structs"}
  BY <1>1 DEF Fields, ByValue
<1>5. Single = -1 /\ Expr = -2
  BY DEF Single, Expr
<1>6. ASSUME f.ref \in Rigid
      PROVE  top.place = c.place + resolved[f.ref].inline
  BY <1>1, <1>6, ReturnedBytes
<1>7. CASE f.kind = "struct"
  <2>1. /\ f.ref \in Rigid /\ resolved[f.ref].inline \in Nat
        /\ BytesOf(resolved, f) = resolved[f.ref].inline
        /\ c.name \in Fine /\ HasDynamicFields(MembersOf(resolved, c)) =>
             f.size = resolved[f.ref].inline
    BY <1>1, <1>7, StructBytes
  <2>2. PICK n \in Nat : n = resolved[f.ref].inline
    BY <2>1
  <2>3. Elapsed(c) = 0
    <3>1. c.elem = 0
      BY <1>1, <1>2, <1>4, <1>7
    <3>2. QED
      BY <1>1, <1>3, <3>1
  <2>4. b = n
    <3>1. top.place = c.place + n
      BY <1>6, <2>1, <2>2
    <3>2. QED
      BY <1>1, <2>3, <3>1
  <2>5. f.len # Expr
    BY <1>4, <1>5, <1>7
  <2>6. f.size = n => Progress(f, c.elems) = n
    BY <2>5 DEF Progress
  <2>7. QED
    BY <2>1, <2>2, <2>4, <2>6
<1>8. CASE f.kind = "structs"
  <2>1. /\ f.ref \in Rigid /\ f.elem = resolved[f.ref].inline /\ f.elem \in Nat
        /\ f.len >= 0 => f.size = f.len * f.elem
    BY <1>1, <1>8, ElementBytes
  <2>2. PICK n \in Nat : n = f.elem
    BY <2>1
  <2>3. PICK i \in Nat : i = c.elem
    BY <1>1
  <2>4. PICK x \in Nat : x = i * n
    OBVIOUS
  <2>5. (i + 1) * n = x + n
    BY <2>4, OneMore
  <2>6. b = x + n
    <3>1. top.place = c.place + n
      BY <1>6, <2>1, <2>2
    <3>2. Elapsed(c) = x
      BY <1>3, <2>2, <2>3, <2>4
    <3>3. QED
      BY <1>1, <3>1, <3>2
  <2>7. c.elems * f.elem = x + n
    BY <1>2, <2>2, <2>3, <2>5
  <2>8. CASE f.len = Expr
    <3>1. f.size = -1
      BY <1>4, <2>8
    <3>2. Progress(f, c.elems) = c.elems * f.elem
      BY <2>8, <3>1 DEF Progress
    <3>3. QED
      BY <2>6, <2>7, <2>8, <3>2
  <2>9. CASE f.len # Expr
    <3>1. f.len \in Nat /\ f.len = c.elems
      BY <1>1, <1>4, <1>8, <2>9
    <3>2. f.size = x + n
      BY <2>1, <2>7, <3>1
    <3>3. Progress(f, c.elems) = x + n
      BY <2>9, <3>2 DEF Progress
    <3>4. BytesOf(resolved, f) = x + n
      BY <1>4, <1>8, <3>2 DEF BytesOf
    <3>5. QED
      BY <2>6, <3>3, <3>4
  <2>10. QED
    BY <2>8, <2>9
<1>9. QED
  BY <1>4, <1>7, <1>8

LEMMA FieldDoneMoves ==
  ASSUME Returning, NEW c, NEW f, Calling(c, f), ~(c.elem + 1 < c.elems),
         NEW d, NEW u, NEW t, FieldDone(c, f, d, u, t)
  PROVE  /\ Call(resolved, u) /\ Same(c, u) /\ u.elems = 0
         /\ Layout(resolved, Rigid, Fine) /\ Fits(resolved, Rigid, Fine, calls) =>
              KeepsPlace(resolved, Rigid, Fine, c, u)
<1>1. /\ c \in Calls /\ Call(resolved, c) /\ c.elem \in Nat /\ c.elems \in Nat /\ c.todo # << >>
      /\ f \in Fields /\ f = Head(c.todo) /\ ByValue(f)
      /\ c.place \in Int /\ top.place \in Int /\ c.offset \in Int
      /\ Elapsed(c) \in Int
      /\ MembersOf(resolved, c) \in Seq(Members) /\ c.name \in Names
      /\ f \in ToSet(FieldsOf(MembersOf(resolved, c)))
  BY ReturnFacts, CallOn
<1>2. /\ u \in Calls /\ Same(c, u) /\ u.at = c.at /\ u.todo = Tail(c.todo)
      /\ u.elems = 0 /\ u.elem = 0
      /\ u.offset = c.offset + Progress(f, c.elems)
      /\ u.place = (IF f.remote THEN c.place ELSE top.place)
  BY FieldDoneCall
<1>3. PICK b \in Int : b = u.place - c.place + Elapsed(c)
  BY <1>1, <1>2
<1>4. u.place = c.place - Elapsed(c) + b
  BY <1>1, <1>2, <1>3
<1>5. Call(resolved, u)
  <2>1. PICK S : S = {}
    OBVIOUS
  <2>2. c.name \notin S
    BY <2>1
  <2>3. QED
    BY <1>1, <1>2, <1>4, <2>2, FieldBehind
<1>6. ASSUME Layout(resolved, Rigid, Fine), Fits(resolved, Rigid, Fine, calls)
      PROVE  KeepsPlace(resolved, Rigid, Fine, c, u)
  <2>1. CASE f.remote
    <3>1. Elapsed(c) = 0 /\ b = 0
      BY <1>1, <1>2, <1>3, <2>1 DEF Elapsed
    <3>2. Progress(f, c.elems) = 0
      BY <2>1 DEF Progress
    <3>3. BytesOf(resolved, f) = 0
      BY <1>1, <2>1 DEF BytesOf, Fields
    <3>4. b = BytesOf(resolved, Head(c.todo)) /\ u.offset = c.offset + b
      BY <1>1, <1>2, <3>1, <3>2, <3>3
    <3>5. QED
      BY <1>1, <1>2, <1>4, <3>4, FieldBehind
  <2>2. CASE ~f.remote
    <3>1. b = top.place - c.place + Elapsed(c)
      BY <1>2, <1>3, <2>2
    <3>2. ASSUME c.name \in Rigid \/ (c.name \in Fine /\ (f.kind = "struct" => f.ref \in Rigid))
          PROVE  /\ f.len # Expr => b = BytesOf(resolved, f)
                 /\ c.name \in Fine /\ HasDynamicFields(MembersOf(resolved, c)) =>
                      b = Progress(f, c.elems)
      BY <1>6, <2>2, <3>1, <3>2, FieldBytes
    <3>3. ASSUME c.name \in Rigid
          PROVE  b = BytesOf(resolved, f)
      <4>1. f.len # Expr
        BY <1>1, <1>6, <2>2, <3>3 DEF Layout, MembersOf
      <4>2. QED
        BY <3>2, <3>3, <4>1
    <3>4. ASSUME c.name \in Fine, ~(f.kind = "struct" /\ f.ref \notin Rigid)
          PROVE  IF HasDynamicFields(MembersOf(resolved, c)) THEN u.offset = c.offset + b
                                                             ELSE b = BytesOf(resolved, f)
      <4>1. CASE HasDynamicFields(MembersOf(resolved, c))
        BY <1>2, <3>2, <3>4, <4>1
      <4>2. CASE ~HasDynamicFields(MembersOf(resolved, c))
        <5>1. f.len # Expr
          BY <1>1, <4>2, StaticMembers
        <5>2. QED
          BY <3>2, <3>4, <4>2, <5>1
      <4>3. QED
        BY <4>1, <4>2
    <3>5. QED
      BY <1>1, <1>2, <1>4, <2>2, <3>3, <3>4, FieldBehind
  <2>3. QED
    BY <2>1, <2>2
<1>7. QED
  BY <1>2, <1>5, <1>6

LEMMA FieldDoneGoes ==
  ASSUME Returning, NEW c, NEW f, Calling(c, f), ~(c.elem + 1 < c.elems),
         NEW d, NEW u, NEW t, FieldDone(c, f, d, u, t)
  PROVE  Goes(t)
<1>1. Setup
  BY DEF Returning
<1>2. /\ Call(resolved, u) /\ Same(c, u) /\ u.elems = 0
      /\ Layout(resolved, Rigid, Fine) /\ Fits(resolved, Rigid, Fine, calls) =>
           KeepsPlace(resolved, Rigid, Fine, c, u)
  BY FieldDoneMoves
<1>3. PICK m \in Nat : /\ m = Len(calls) /\ m - 1 \in 1 .. m /\ calls \in Seq(Calls)
                       /\ c = calls[m - 1]
  BY <1>1, ReturnFacts, CallFacts DEF Calling
<1>4. PICK w : w = SubSeq(calls, 1, m - 2)
  OBVIOUS
<1>5. /\ w \in Seq(Calls) /\ Len(w) = m - 2
      /\ \A k \in 1 .. m - 2 : w[k] = calls[k]
  <2>1. 1 \in Int /\ m - 2 \in Int /\ \A i \in 1 .. m - 2 : i \in 1 .. m
    BY <1>3
  <2>2. \A i \in 1 .. m - 2 : calls[i] \in Calls
    BY <1>3, <2>1, ElementOfSeq
  <2>3. /\ w \in Seq(Calls)
        /\ Len(w) = IF 1 <= m - 2 THEN m - 2 - 1 + 1 ELSE 0
        /\ \A i \in 1 .. m - 2 - 1 + 1 : w[i] = calls[1 + i - 1]
    BY <1>4, <2>1, <2>2, SubSeqProperties
  <2>4. m - 2 - 1 + 1 = m - 2 /\ \A i \in 1 .. m - 2 : 1 + i - 1 = i
    BY <1>3
  <2>5. m - 2 >= 0
    BY <1>3
  <2>6. QED
    BY <1>3, <2>3, <2>4, <2>5
<1>6. PICK j \in Nat : j = m - 1
  BY <1>3
<1>7. t = Append(w, u) /\ u \in Calls
  BY <1>2, <1>3, <1>4 DEF FieldDone, Call
<1>8. /\ t \in Seq(Calls) /\ Len(t) = j /\ t[j] = u
      /\ \A k \in 1 .. j : k < j => t[k] = calls[k]
  <2>1. /\ t \in Seq(Calls) /\ Len(t) = Len(w) + 1 /\ t[Len(w) + 1] = u
        /\ \A k \in 1 .. Len(w) : t[k] = w[k]
    BY <1>5, <1>7, AppendProperties
  <2>2. Len(w) + 1 = j /\ \A k \in 1 .. j : k < j => k \in 1 .. m - 2
    BY <1>3, <1>5, <1>6
  <2>3. QED
    BY <1>5, <2>1, <2>2
<1>9. GoesOn(calls, t, j) /\ calls[j] = c
  BY <1>2, <1>3, <1>6, <1>8 DEF GoesOn
<1>10. QED
  BY <1>1, <1>2, <1>8, <1>9, GoesHere

LEMMA ReadReturnGoes ==
  ASSUME Setup, ReadReturn
  PROVE  Goes(calls') /\ (calls' # << >> => outcome' = outcome)
<1>1. CASE Len(calls) = 1
  BY <1>1, NothingLeft DEF ReadReturn
<1>2. CASE Len(calls) # 1
  <2>1. Returning
    BY <1>2 DEF Returning, ReadReturn
  <2>2. PICK c, f : Calling(c, f)
    BY DEF Calling
  <2>3. PICK d : d = [c EXCEPT !.elem = @ + 1, !.place = IF f.remote THEN @ ELSE top.place]
    OBVIOUS
  <2>4. Calling(c, f) => c = calls[Len(calls) - 1] /\ f = Head(c.todo)
    BY DEF Calling
  <2>5. d.elem = c.elem + 1 /\ d.elems = c.elems
    <3>1. c \in Calls
      BY <2>1, <2>2, ReturnFacts
    <3>2. QED
      BY <2>3, <3>1 DEF Calls
  <2>6. PICK a : a = top.addr - c.elem * f.elem + (c.elem + 1) * f.elem
    OBVIOUS
  <2>7. IF d.elem < d.elems
        THEN /\ calls' = [calls EXCEPT ![Len(calls) - 1] = d,
                                       ![Len(calls)] = NewCall(f.ref, a, top.place)]
             /\ UNCHANGED outcome
        ELSE /\ calls' = Append(SubSeq(calls, 1, Len(calls) - 2), NextField(Advance(d, f, d.elems)))
             /\ UNCHANGED outcome
    BY <1>2, <2>2, <2>3, <2>4, <2>5, <2>6 DEF ReadReturn
  <2>8. PICK t : t = calls'
    OBVIOUS
  <2>9. CASE d.elem < d.elems
    <3>1. NextElement(c, f, d, a, t)
      BY <2>3, <2>6, <2>7, <2>8, <2>9 DEF NextElement
    <3>2. Goes(t)
      BY <2>1, <2>2, <2>5, <2>9, <3>1, NextElementGoes
    <3>3. QED
      BY <2>7, <2>8, <2>9, <3>2
  <2>10. CASE ~(d.elem < d.elems)
    <3>1. PICK u : u = NextField(Advance(d, f, d.elems))
      OBVIOUS
    <3>2. FieldDone(c, f, d, u, t)
      BY <2>3, <2>7, <2>8, <2>10, <3>1 DEF FieldDone
    <3>3. Goes(t)
      BY <2>1, <2>2, <2>5, <2>10, <3>2, FieldDoneGoes
    <3>4. QED
      BY <2>7, <2>8, <2>10, <3>3
  <2>11. QED
    BY <2>9, <2>10
<1>3. QED
  BY <1>1, <1>2

-----------------------------------------------------------------------------
(***************************************************************************)
(* The resolved structs are laid out as the readers need it.               *)
(***************************************************************************)
LEMMA RigidSet ==
  /\ Rigid \subseteq Names
  /\ \A n \in Rigid : \E S \in SUBSET Names : n \in S /\ S \subseteq Rigid /\ Uniform(n, S)
<1>1. \A n \in Rigid : \E S \in SUBSET Names : n \in S /\ \A m \in S : Uniform(m, S)
  BY DEF Rigid
<1>2. \A S \in SUBSET Names : (\A m \in S : Uniform(m, S)) => S \subseteq Rigid
  BY DEF Rigid
<1>3. QED
  BY <1>1, <1>2

LEMMA PositionalPlaces ==
  ASSUME TypeOK, Positional
  PROVE  ByPosition(prog.def)
<1>1. ASSUME NEW n \in Names, NEW k \in 1 .. Len(prog.def[n].body), prog.def[n].body[k].is = "var"
      PROVE  prog.def[n].body[k].at \in {Here, Expr}
  <2>1. prog.def[n].body \in Seq(Decls \cup Pads \cup Ifs)
    BY ProgType
  <2>2. prog.def[n].body[k] \in ToSet(prog.def[n].body)
    BY <2>1, HoldsToSet DEF Holds
  <2>3. QED
    BY <1>1, <2>2 DEF Positional
<1>2. QED
  BY <1>1 DEF Positional, ByPosition

LEMMA LaidOut ==
  ASSUME TypeOK, ParentsKnown, RInv, phase = "done", Orderly, Positional
  PROVE  Layout(resolved, Rigid, Fine)
<1> DEFINE ms(n) == resolved[n].members
<1>1. /\ \A n \in Names : CompleteOK(prog.def, resolved, n, Names)
      /\ Sizes(prog.def, resolved, stack, Names)
      /\ Lines(prog.def, resolved, stack, Names)
      /\ NoMissing
  BY AtTheEnd DEF Resolved, ParentsKnown
<1>2. ByPosition(prog.def)
  BY PositionalPlaces
<1>3. \A n \in Names : /\ resolved[n].size = -1 => HasDynamicFields(ms(n))
                       /\ Even(prog.def, resolved, n, resolved[n].inline)
                       /\ resolved[n].size \in {-1, resolved[n].inline}
  BY <1>1, <1>2 DEF Lines, CompleteOK, ByPosition
<1>4. \A n \in Names : ms(n) \in Seq(Members) /\ DOMAIN ms(n) = 1 .. Len(ms(n))
  BY LenProperties DEF TypeOK
<1>5. ASSUME NEW n \in Names
      PROVE  /\ ~HasDynamicFields(ms(n)) => /\ Lined(resolved, ms(n), resolved[n].inline)
                                            /\ resolved[n].size = resolved[n].inline
             /\ resolved[n].size \in {-1, resolved[n].inline}
             /\ \A f \in ToSet(FieldsOf(ms(n))) : ByValue(f) => SizeFinal(resolved, f)
  <2>1. \A f \in ToSet(FieldsOf(ms(n))) : ByValue(f) => SizeFinal(resolved, f)
    BY <1>1 DEF Sizes, Captured
  <2>2. QED
    BY <1>3, <2>1 DEF Even
<1>6. ASSUME NEW n \in Rigid
      PROVE  /\ Lined(resolved, ms(n), resolved[n].inline)
             /\ \A k \in 1 .. Len(ms(n)) : ms(n)[k].is # "cond"
             /\ \A f \in ToSet(FieldsOf(ms(n))) :
                  /\ f.len = Expr => f.remote
                  /\ Outside(f) => f.ref \in Rigid
                                   /\ (f.kind = "structs" => resolved[f.ref].size >= 0)
  <2>1. PICK S \in SUBSET Names : n \in S /\ S \subseteq Rigid /\ Uniform(n, S)
    BY RigidSet
  <2>2. n \in Names
    BY <2>1
  <2>3. Straight(prog.def, resolved, n)
    <3>1. prog.def[n].parent # None => prog.def[n].parent \in Names
      BY <1>1, <2>2, ProgType DEF NoMissing
    <3>2. QED
      BY <2>1, <3>1 DEF Uniform, Straight, dynamic
  <2>4. Lined(resolved, ms(n), resolved[n].inline)
    BY <1>3, <2>2, <2>3 DEF Even
  <2>5. \A k \in 1 .. Len(ms(n)) : ms(n)[k].is # "cond"
    BY <1>4, <2>1, <2>2 DEF Uniform
  <2>6. ASSUME NEW f \in ToSet(FieldsOf(ms(n)))
        PROVE  /\ f.len = Expr => f.remote
               /\ Outside(f) => f.ref \in Rigid
                                /\ (f.kind = "structs" => resolved[f.ref].size >= 0)
    <3>1. f.len = Expr => f.remote
      BY <2>1 DEF Uniform
    <3>2. Outside(f) => f \in Inline(n)
      BY DEF Outside, Inline
    <3>3. QED
      BY <2>1, <3>1, <3>2 DEF Uniform
  <2>7. QED
    BY <2>4, <2>5, <2>6
<1>7. ASSUME NEW n \in Fine, NEW k \in 1 .. Len(ms(n)), NEW f \in ToSet(Part(ms(n)[k]))
      PROVE  /\ f.kind = "struct" => \/ f.remote \/ f.ref \in Rigid
                                     \/ k = Len(ms(n)) /\ ms(n)[k].is = "field"
             /\ f.kind = "structs" => f.ref \in Rigid /\ resolved[f.ref].size >= 0
             /\ HasDynamicFields(ms(n)) /\ Outside(f) =>
                  resolved[f.ref].size >= 0 \/ f.ref \notin Rigid
  <2>1. n \in Names /\ Predictable(n) /\ Advances(n)
    BY DEF Fine
  <2>2. PICK m \in Members : m = ms(n)[k]
    BY <1>4, <2>1, ElementOfSeq
  <2>3. Holds(Part(m), f)
    BY <2>2, PartType, HoldsToSet
  <2>4. f \in ToSet(FieldsOf(<<ms(n)[k]>>))
    BY <2>2, FieldsOfOne
  <2>5. f \in ToSet(FieldsOf(ms(n)))
    BY <1>4, <2>1, <2>2, <2>3, FieldsOfHolds
  <2>6. /\ f.kind = "struct" => f.remote \/ f.ref \in Rigid \/ EndsWithStruct(n, k)
        /\ f.kind = "structs" => f.ref \in Rigid /\ resolved[f.ref].size >= 0
    BY <1>4, <2>1, <2>4 DEF Predictable
  <2>7. EndsWithStruct(n, k) => k = Len(ms(n)) /\ ms(n)[k].is = "field"
    BY DEF EndsWithStruct
  <2>8. HasDynamicFields(ms(n)) /\ Outside(f) => resolved[f.ref].size >= 0 \/ f.ref \notin Rigid
    BY <2>1, <2>5 DEF Advances, dynamic, Outside, Inline
  <2>9. QED
    BY <2>6, <2>7, <2>8
<1>8. QED
  BY <1>5, <1>6, <1>7, RigidSet DEF Layout, Fine

-----------------------------------------------------------------------------
(***************************************************************************)
(* The invariants are kept.                                                *)
(***************************************************************************)
LEMMA ReadNextGoes ==
  ASSUME TypeOK, RTypeOK, Reads, ReadNext
  PROVE  /\ Setup /\ Goes(calls') /\ (calls' # << >> => outcome' = outcome)
         /\ UNCHANGED vars
<1>1. Reading /\ UNCHANGED vars
  BY DEF ReadNext, BulkRead, StartFields, FieldMember, PaddingMember, ConditionalMember, BulkPanic,
         BulkField, FlatField, FlatArray, StructField, StructArray, ReadReturn, AtMember, AtField
<1>2. Setup
  BY <1>1 DEF Setup
<1>3. CASE StructField \/ StructArray
  BY <1>1, <1>2, <1>3, StructGoes
<1>4. CASE ReadReturn
  BY <1>1, <1>2, <1>4, ReadReturnGoes
<1>5. CASE BulkRead \/ StartFields \/ FieldMember \/ PaddingMember \/ ConditionalMember
           \/ BulkField \/ FlatField \/ FlatArray
  <2>1. \E c \in Calls : Becomes(c)
    BY <1>2, <1>5, BulkReadMoves, StartFieldsMoves, FieldMemberMoves, PaddingMemberMoves,
       ConditionalMemberMoves, FlatStepMoves
  <2>2. outcome' = outcome
    BY <1>5 DEF BulkRead, StartFields, FieldMember, PaddingMember, ConditionalMember, BulkField,
                FlatField, FlatArray
  <2>3. QED
    BY <1>1, <1>2, <2>1, <2>2, TopGoes
<1>6. CASE BulkPanic
  BY <1>1, <1>2, <1>6, NothingLeft DEF BulkPanic
<1>7. QED
  BY <1>3, <1>4, <1>5, <1>6 DEF ReadNext

LEMMA StartGoes ==
  ASSUME TypeOK, NEW n \in Names, StartRead(n)
  PROVE  Goes(calls') /\ phase = "done" /\ outcome' = "reading" /\ UNCHANGED <<vars, failed>>
<1>1. /\ phase = "done" /\ outcome' = "reading" /\ UNCHANGED <<vars, failed>>
      /\ calls' = <<NewCall(n, 0, 0)>>
  BY DEF StartRead
<1>2. resolved \in [Names -> Structs]
  BY DEF TypeOK, Structs
<1>3. PICK z \in Int : z = 0
  OBVIOUS
<1>4. PICK c : c = NewCall(n, z, z)
  OBVIOUS
<1>5. Call(resolved, c) /\ c.elems = 0 /\ c.name = n
  BY <1>2, <1>4, NewCallType
<1>6. PICK t : t = <<c>>
  OBVIOUS
<1>7. t \in Seq(Calls) /\ Len(t) = 1 /\ t[1] = c
  BY <1>5, <1>6 DEF Call
<1>8. \A k \in 1 .. Len(t) : k = 1 /\ k = Len(t)
  BY <1>7
<1>9. Stack(resolved, t)
  <2>1. Len(t) <= MaxCalls
    BY <1>7, FarAssumption
  <2>2. Chained(t)
    BY <1>5, <1>7, <1>8 DEF Chained
  <2>3. QED
    BY <1>5, <1>7, <1>8, <2>1, <2>2 DEF Stack, Call
<1>10. ASSUME Layout(resolved, Rigid, Fine)
       PROVE  Fits(resolved, Rigid, Fine, t)
  <2>1. (n \in Rigid => Measured(resolved, c)) /\ Sync(resolved, Rigid, c)
    BY <1>2, <1>4, <1>10, NewCallFits
  <2>2. QED
    BY <1>5, <1>7, <1>8, <2>1 DEF Fits, FitsAt
<1>11. QED
  BY <1>1, <1>3, <1>4, <1>6, <1>9, <1>10 DEF Goes

\* Resolve has nothing to do any more when the generated code runs.
LEMMA NoNext ==
  ASSUME Next
  PROVE  phase # "done"
<1>1. QED
  BY DEF Next, MainLoop, AlreadyResolved, UnknownParent, CallParent, Inherit, CallType,
         DeclareInUnion, DeclareRemote, Declare, SkipBadDecl, Pad, ConditionalDecl, CloseIf,
         Return, StartSort, VisitRoot, VisitDependency, SkipField, EmitStruct, Done,
         InPrologue, InBody, AtDecl, InIf, Running, AtDependency

LEMMA StackTypes ==
  ASSUME NEW r, NEW s, Stack(r, s)
  PROVE  /\ s \in Seq(Calls) /\ Len(s) <= MaxCalls
         /\ \A k \in DOMAIN s :
              s[k].elems > 0 => /\ s[k].elem < s[k].elems
                                /\ Head(s[k].todo).len = Expr => s[k].elems <= MaxLen
<1>1. DOMAIN s = 1 .. Len(s)
  BY LenProperties DEF Stack
<1>2. QED
  BY <1>1 DEF Stack, Shape

LEMMA ReadTypes ==
  ASSUME TypeOK, RTypeOK, Reads, [RNext]_allvars
  PROVE  RTypeOK' /\ Reads'
<1>1. ASSUME Goes(calls'), UNCHANGED vars, calls # << >> \/ phase = "done",
             calls' # << >> => outcome' = "reading",
             failed' \in BOOLEAN, outcome' \in {"none", "reading", "returned", "overflow", "panicked"}
      PROVE  RTypeOK' /\ Reads'
  <2>1. Stack(resolved, calls') /\ resolved' = resolved
    BY <1>1 DEF Goes, vars
  <2>2. RTypeOK'
    BY <1>1, <2>1, StackTypes DEF RTypeOK
  <2>3. phase' = "done"
    BY <1>1 DEF vars, Reads
  <2>4. Reads'
    BY <1>1, <2>1, <2>3 DEF Reads, Stack
  <2>5. QED
    BY <2>2, <2>4
<1>2. CASE UNCHANGED allvars
  BY <1>2 DEF allvars, vars, RTypeOK, Reads
<1>3. CASE Next /\ UNCHANGED rvars
  <2>1. calls = << >> /\ UNCHANGED rvars
    BY <1>3, NoNext DEF Reads
  <2>2. RTypeOK'
    BY <2>1 DEF rvars, RTypeOK
  <2>3. Reads'
    BY <2>1 DEF rvars, Reads, Chained
  <2>4. QED
    BY <2>2, <2>3
<1>4. ASSUME NEW n \in Names, StartRead(n)
      PROVE  RTypeOK' /\ Reads'
  <2>1. Goes(calls') /\ phase = "done" /\ outcome' = "reading" /\ UNCHANGED vars /\ failed' = failed
    BY <1>4, StartGoes
  <2>2. QED
    BY <1>1, <2>1 DEF RTypeOK
<1>5. CASE ReadNext
  <2>1. Setup /\ Goes(calls') /\ (calls' # << >> => outcome' = outcome) /\ UNCHANGED vars
    BY <1>5, ReadNextGoes
  <2>2. calls # << >> /\ outcome = "reading"
    BY <2>1 DEF Setup, Reading
  <2>3. failed' \in BOOLEAN
    <3>1. failed \in BOOLEAN
      BY DEF RTypeOK
    <3>2. QED
      BY <1>5, <3>1 DEF ReadNext, BulkRead, StartFields, FieldMember, PaddingMember,
            ConditionalMember, BulkPanic, BulkField, FlatField, FlatArray, StructField, StructArray,
            ReadReturn
  <2>4. outcome' \in {"reading", "returned", "overflow", "panicked"}
    BY <1>5, <2>2 DEF ReadNext, BulkRead, StartFields, FieldMember, PaddingMember,
            ConditionalMember, BulkPanic, BulkField, FlatField, FlatArray, StructField, StructArray,
            ReadReturn,
            Enter
  <2>5. QED
    BY <1>1, <2>1, <2>2, <2>3, <2>4
<1>6. QED
  BY <1>2, <1>3, <1>4, <1>5 DEF RNext

LEMMA SameLayout ==
  ASSUME UNCHANGED vars
  PROVE  /\ Rigid' = Rigid /\ Fine' = Fine
         /\ Orderly' <=> Orderly
         /\ Positional' <=> Positional
<1>1. prog' = prog /\ resolved' = resolved
  BY DEF vars
<1>2. \A n, S : Uniform(n, S)' <=> Uniform(n, S)
  BY <1>1 DEF Uniform, Inline, dynamic
<1>3. Rigid' = Rigid
  BY <1>2 DEF Rigid
<1>4. \A n : /\ Predictable(n)' <=> Predictable(n)
             /\ Advances(n)' <=> Advances(n)
  BY <1>1, <1>3 DEF Predictable, Advances, EndsWithStruct, Inline, dynamic
<1>5. Fine' = Fine
  BY <1>4 DEF Fine
<1>6. Positional' <=> Positional
  BY <1>1 DEF Positional
<1>7. QED
  BY <1>1, <1>3, <1>5, <1>6, SameProgram

LEMMA SyncStep ==
  ASSUME TypeOK, ParentsKnown, RInv, RTypeOK, Reads, InSync, [RNext]_allvars
  PROVE  InSync'
<1>1. ASSUME UNCHANGED vars, phase = "done", Goes(calls')
      PROVE  InSync'
  <2>1. SUFFICES ASSUME Orderly', Positional'
                 PROVE  Fits(resolved, Rigid, Fine, calls)'
    BY DEF InSync
  <2>2. Orderly /\ Positional /\ Rigid' = Rigid /\ Fine' = Fine /\ resolved' = resolved
    BY <1>1, <2>1, SameLayout DEF vars
  <2>3. Layout(resolved, Rigid, Fine) /\ Fits(resolved, Rigid, Fine, calls)
    BY <1>1, <2>2, LaidOut DEF InSync
  <2>4. Fits(resolved, Rigid, Fine, calls')
    BY <1>1, <2>3 DEF Goes
  <2>5. QED
    BY <2>2, <2>4
<1>2. CASE UNCHANGED allvars
  <2>1. UNCHANGED vars /\ calls' = calls /\ resolved' = resolved
    BY <1>2 DEF allvars, vars
  <2>2. Rigid' = Rigid /\ Fine' = Fine /\ (Orderly' <=> Orderly) /\ (Positional' <=> Positional)
    BY <2>1, SameLayout
  <2>3. QED
    BY <2>1, <2>2 DEF InSync
<1>3. CASE Next /\ UNCHANGED rvars
  <2>1. calls' = << >>
    BY <1>3, NoNext DEF Reads, rvars
  <2>2. QED
    BY <2>1 DEF InSync, Fits
<1>4. ASSUME NEW n \in Names, StartRead(n)
      PROVE  InSync'
  BY <1>1, <1>4, StartGoes
<1>5. CASE ReadNext
  <2>1. Setup /\ Goes(calls') /\ UNCHANGED vars
    BY <1>5, ReadNextGoes
  <2>2. phase = "done"
    BY <2>1 DEF Setup, Reads, Reading
  <2>3. QED
    BY <1>1, <2>1, <2>2
<1>6. QED
  BY <1>2, <1>3, <1>4, <1>5 DEF RNext

-----------------------------------------------------------------------------
(***************************************************************************)
(* The theorems.                                                           *)
(***************************************************************************)
Resolving == TypeOK /\ ParentsKnown /\ RInv
ReadInv == Resolving /\ RTypeOK /\ Reads /\ InSync

LEMMA ReadInvInit == RInit => ReadInv
<1>1. SUFFICES ASSUME RInit PROVE ReadInv
  OBVIOUS
<1>2. Init /\ calls = << >> /\ failed = FALSE /\ outcome = "none"
  BY <1>1 DEF RInit
<1>3. Resolving
  BY <1>2, TypeInit, KnownInit, RInvInit DEF Resolving
<1>4. RTypeOK
  <2>1. Stack(resolved, calls)
    BY <1>2, NothingLeft DEF Goes
  <2>2. QED
    BY <1>2, <2>1, StackTypes DEF RTypeOK
<1>5. Reads /\ InSync
  BY <1>2 DEF Reads, Chained, InSync, Fits
<1>6. QED
  BY <1>3, <1>4, <1>5 DEF ReadInv

LEMMA ReadInvStep ==
  ASSUME ReadInv, [RNext]_allvars
  PROVE  ReadInv'
<1>1. TypeOK /\ ParentsKnown /\ RInv /\ RTypeOK /\ Reads /\ InSync
  BY DEF ReadInv, Resolving
<1>2. [Next]_vars
  <2>1. CASE UNCHANGED allvars
    BY <2>1 DEF allvars
  <2>2. CASE ReadNext
    BY <1>1, <2>2, ReadNextGoes
  <2>3. CASE \E n \in Names : StartRead(n)
    BY <2>3 DEF StartRead
  <2>4. QED
    BY <2>1, <2>2, <2>3 DEF RNext
<1>3. Resolving'
  BY <1>1, <1>2, TypeStep, KnownStep, RInvStep DEF Resolving
<1>4. QED
  BY <1>1, <1>3, ReadTypes, SyncStep DEF ReadInv

LEMMA ReadInvAlways == RSpec => []ReadInv
<1>1. QED
  BY ReadInvInit, ReadInvStep, PTL DEF RSpec

\* Whatever the structs and the lengths are, and wherever the recursion ends, the
\* active ReadFoo functions keep their types, no call reads past the elements of its
\* field, and no array of run-time length has more than MaxDynamicArrayLen.
THEOREM ReaderTypeCorrect == RSpec => []RTypeOK
<1>1. ReadInv => RTypeOK
  BY DEF ReadInv
<1>2. QED
  BY <1>1, ReadInvAlways, PTL

\* The invariant puts the newest call where its next field is.
LEMMA SyncInPlace ==
  ASSUME ReadInv
  PROVE  FieldsInPlace
<1>1. SUFFICES ASSUME Reading, Orderly, Positional,
                      \A k \in DOMAIN calls : Predictable(calls[k].name) /\ Advances(calls[k].name)
               PROVE  InPlace
  BY DEF FieldsInPlace
<1>2. Setup /\ phase = "done"
  BY <1>1 DEF ReadInv, Resolving, Setup, Reads, Reading
<1>3. Layout(resolved, Rigid, Fine) /\ Fits(resolved, Rigid, Fine, calls)
  BY <1>1, <1>2, LaidOut DEF ReadInv, Resolving, InSync
<1>4. /\ calls \in Seq(Calls) /\ Len(calls) \in 1 .. Len(calls) /\ top = calls[Len(calls)]
      /\ \A k \in 1 .. Len(calls) : calls[k].name \in Names
      /\ top.elems = 0 /\ Shape(resolved, top)
  BY <1>2, CallFacts DEF Calls
<1>5. Trusted(Fine, calls, Len(calls))
  <2>1. DOMAIN calls = 1 .. Len(calls)
    BY <1>4, LenProperties
  <2>2. QED
    BY <1>1, <1>4, <2>1 DEF Trusted, Fine
<1>6. Sync(resolved, Rigid, top)
  BY <1>3, <1>4, <1>5 DEF Fits, FitsAt
<1>7. top.at = 0 => top.addr = top.place
  BY <1>4, <1>6 DEF Sync, Shape
<1>8. top.todo # << >> /\ ~field.remote => Address(field) = top.place
  BY <1>2, <1>3, <1>6, FieldAddress
<1>9. QED
  BY <1>7, <1>8 DEF InPlace, AtField

\* In files that place everything by position the generated code reads each field at
\* the address of the first byte behind all members before it, in structs read at
\* once and in structs with a running offset, after errors and at any depth.
THEOREM FieldsInPlaceAlways == RSpec => []FieldsInPlace
<1>1. ReadInv => FieldsInPlace
  BY SyncInPlace
<1>2. QED
  BY <1>1, ReadInvAlways, PTL
=============================================================================
