-------------------------- MODULE MemBufferProofs --------------------------
(***************************************************************************)
(* Theorems about MemBuffer, for every region, capacity, set of page edges *)
(* and set of call arguments.                                              *)
(***************************************************************************)
EXTENDS MemBuffer, BufferLemmas

USE RegionAssumption, CapAssumption, EdgesAssumption, ClientAssumption

(***************************************************************************)
(* Type correctness.                                                       *)
(***************************************************************************)

\* One step of any client keeps the types.
LEMMA TypeStep ==
  ASSUME TypeOK, [Next]_vars
  PROVE  TypeOK'
<1>1. ASSUME NEW a \in Targets, Reset(a)
      PROVE  TypeOK'
  BY <1>1, ClearedType DEF TypeOK, Reset, Return, Calls, Outcomes
<1>2. ASSUME NEW l \in Lens, NextFails(l)
      PROVE  TypeOK'
  <2>1. PICK b \in Refilled(buf) : b.err # "nil" /\ buf' = b /\ Return("Next", b.err, << >>)
    BY <1>2 DEF NextFails
  <2>2. b \in Buffers
    BY <1>2, RefilledType DEF TypeOK, NextFails
  <2>3. b.err \in Outcomes
    BY <2>1, <2>2 DEF Buffers, Errors, Outcomes
  <2>4. QED
    BY <1>2, <2>1, <2>2, <2>3 DEF TypeOK, NextFails, Return, Calls
<1>3. ASSUME NEW l \in Lens, NextDelivers(l)
      PROVE  TypeOK'
  <2>1. PICK b \in Ready(buf, l) :
          /\ b.i + l <= Cap
          /\ buf' = Advanced(b, l)
          /\ Return("Next", "ok", Slice(b, b.i, l))
          /\ seen' = seen \cup Genuine(Slice(b, b.i, l))
    BY <1>3 DEF NextDelivers
  <2>2. b \in Buffers
    BY <1>3, RefilledType DEF TypeOK, NextDelivers, Ready
  <2>3. Advanced(b, l) \in Buffers
    BY <2>2 DEF Advanced, Buffers
  <2>4. Slice(b, b.i, l) \in Seq(Cells)
    BY <2>1, <2>2, SliceType DEF Buffers
  <2>5. Genuine(Slice(b, b.i, l)) \subseteq Nat
    BY <2>4 DEF Genuine, Cells
  <2>6. QED
    BY <2>1, <2>3, <2>4, <2>5 DEF TypeOK, Return, Calls, Outcomes
<1>4. ASSUME NEW l \in Lens, NextPanics(l)
      PROVE  TypeOK'
  BY <1>4 DEF TypeOK, NextPanics, Panic, Return, Calls, Outcomes
<1>5. CASE PeekReturns \/ PeekPanics
  <2>1. CASE PeekPanics
    BY <2>1 DEF TypeOK, PeekPanics, Panic, Return, Calls, Outcomes
  <2>2. CASE PeekReturns
    <3>1. Slice(buf, buf.i, Cap - buf.i) \in Seq(Cells)
      BY <2>2, SliceType DEF TypeOK, PeekReturns, Buffers
    <3>2. QED
      BY <2>2, <3>1 DEF TypeOK, PeekReturns, Return, Calls, Outcomes
  <2>3. QED
    BY <1>5, <2>1, <2>2
<1>6. ASSUME NEW l \in Lens, Rewind(l)
      PROVE  TypeOK'
  <2>1. Rewound(buf, l) \in Buffers
    BY DEF TypeOK, Rewound, Buffers
  <2>2. QED
    BY <1>6, <2>1 DEF TypeOK, Rewind, Return, Calls, Outcomes
<1>7. ASSUME NEW n \in Lens, Discard(n)
      PROVE  TypeOK'
  <2>1. Advanced(buf, n) \in Buffers
    BY DEF TypeOK, Advanced, Buffers
  <2>2. QED
    BY <1>7, <2>1 DEF TypeOK, Discard, Return, Calls, Outcomes
<1>8. CASE RefillReturns
  <2>1. buf' \in Buffers
    BY <1>8, RefilledType DEF TypeOK, RefillReturns
  <2>2. (IF buf'.err = "nil" THEN "ok" ELSE buf'.err) \in Outcomes
    BY <2>1 DEF Buffers, Errors, Outcomes
  <2>3. QED
    BY <1>8, <2>1, <2>2 DEF TypeOK, RefillReturns, Return, Calls
<1>9. CASE RefillCrashes
  BY <1>9 DEF TypeOK, RefillCrashes, Panic, Return, Calls, Outcomes
<1>10. CASE UNCHANGED vars
  BY <1>10 DEF TypeOK, vars
<1>11. QED
  BY <1>1, <1>2, <1>3, <1>4, <1>5, <1>6, <1>7, <1>8, <1>9, <1>10 DEF Next

\* NewBuffer makes a well-formed buffer.
LEMMA TypeInit == Init => TypeOK
BY ClearedType DEF Init, TypeOK, Calls, Outcomes

\* Whatever the client calls, in whatever order, the buffer keeps its shape and
\* every call hands out a sequence of cells or nothing.
THEOREM TypeCorrect == Spec => []TypeOK
<1>1. QED
  BY TypeInit, TypeStep, PTL DEF Spec

-----------------------------------------------------------------------------
(***************************************************************************)
(* Order, region and freshness of the bytes in the buffer.                 *)
(***************************************************************************)

\* The unread bytes of a buffer are none of the addresses in S, and nothing
\* that is still to be fetched will be.
Fresh(b, S) == /\ \A k \in b.i .. Cap - 1 : b.data[k] \notin S
               /\ \A a \in S : a < b.addr

\* The inductive invariant.  InOrder alone does not give NoRepeat: that needs
\* the link between what was delivered and what is left.
IInv == /\ TypeOK
        /\ InOrder
        /\ WithinRegion
        /\ buf.err = "nil" => Fresh(buf, seen)

\* Refill keeps the order of the bytes.
LEMMA FilledOrdered ==
  ASSUME NEW b \in Buffers, b.i <= Cap, NEW n \in Nat, NEW c, Ordered(b),
         c = Filled(Shifted(b), Kept(b), n)
  PROVE  Ordered(c)
<1>1. SUFFICES ASSUME NEW k \in Slots, c.data[k] # Fill
               PROVE  /\ c.data[k] < c.addr
                      /\ \A j \in 0 .. k - 1 : c.data[j] < c.data[k]
  BY DEF Ordered
<1>2. b.addr \in Nat /\ b.i \in Nat /\ Kept(b) \in Nat /\ c.addr = b.addr + n
  BY ShiftedType, FilledCells DEF Buffers
<1>3. CASE k < Kept(b)
  <2>1. k + b.i \in Slots /\ c.data[k] = b.data[k + b.i]
    BY <1>3, FilledCells
  <2>2. c.data[k] < b.addr
    BY <1>1, <2>1 DEF Ordered
  <2>3. ASSUME NEW j \in 0 .. k - 1
        PROVE  c.data[j] < c.data[k]
    <3>1. j \in Slots /\ j < Kept(b) /\ j + b.i \in 0 .. (k + b.i) - 1
      BY <1>2, <1>3 DEF Slots
    <3>2. c.data[j] = b.data[j + b.i]
      BY <3>1, FilledCells
    <3>3. QED
      BY <1>1, <2>1, <3>1, <3>2 DEF Ordered
  <2>4. c.data[k] \in Cells
    BY <2>1 DEF Buffers
  <2>5. QED
    BY <1>2, <2>2, <2>3, <2>4 DEF Cells, Fill
<1>4. CASE Kept(b) <= k
  <2>1. k < Kept(b) + n /\ c.data[k] = b.addr + (k - Kept(b))
    BY <1>1, <1>2, <1>4, FilledCells DEF Slots
  <2>2. ASSUME NEW j \in 0 .. k - 1
        PROVE  c.data[j] < c.data[k]
    <3>1. j \in Slots
      BY DEF Slots
    <3>2. CASE j < Kept(b)
      <4>1. j + b.i \in Slots /\ c.data[j] = b.data[j + b.i]
        BY <3>1, <3>2, FilledCells
      <4>2. b.data[j + b.i] \in Cells
        BY <4>1 DEF Buffers
      <4>3. b.data[j + b.i] < b.addr
        BY <1>2, <4>1, <4>2 DEF Ordered, Cells, Fill
      <4>4. b.data[j + b.i] \in Int /\ k \in Int
        BY <4>2 DEF Cells, Fill, Slots
      <4>5. QED
        BY <1>2, <1>4, <2>1, <4>1, <4>3, <4>4
    <3>3. CASE Kept(b) <= j
      <4>1. j < Kept(b) + n /\ j < k /\ j \in Int /\ k \in Int
        BY <1>2, <2>1 DEF Slots
      <4>2. c.data[j] = b.addr + (j - Kept(b))
        BY <3>1, <3>3, <4>1, FilledCells
      <4>3. QED
        BY <1>2, <2>1, <4>1, <4>2
    <3>4. QED
      BY <1>2, <3>2, <3>3
  <2>3. QED
    BY <1>2, <2>1, <2>2 DEF Slots
<1>5. QED
  BY <1>2, <1>3, <1>4 DEF Slots

\* Refill fetches nothing from past the end.
LEMMA RefilledInside ==
  ASSUME NEW b \in Buffers, ~RefillPanics(b), NEW c \in Refilled(b), Inside(b)
  PROVE  Inside(c)
<1>1. CASE b.err # "nil" /\ c = b
  BY <1>1
<1>2. ASSUME b.i <= Cap, NEW e \in {"EOF", "fault"}, c = Failed(Shifted(b), e)
      PROVE  Inside(c)
  <2>1. c.data = Shifted(b).data
    BY <1>2, ShiftedType DEF Failed, Buffers
  <2>2. ASSUME NEW k \in Slots
        PROVE  Shifted(b).data[k] < End
    <3>1. k < Kept(b) => k + b.i \in Slots
      BY <1>2, ShiftedType DEF Kept, Buffers, Slots
    <3>2. QED
      BY <3>1 DEF Shifted, Inside, Buffers
  <2>3. QED
    BY <2>1, <2>2 DEF Inside
<1>3. ASSUME b.i <= Cap, NEW n \in Nat, n <= End - b.addr,
             c = Filled(Shifted(b), Kept(b), n)
      PROVE  Inside(c)
  <2>1. SUFFICES ASSUME NEW k \in Slots PROVE c.data[k] < End
    BY DEF Inside
  <2>2. b.addr \in Nat /\ Kept(b) \in Nat /\ k \in Int
    BY <1>3, ShiftedType DEF Buffers, Slots
  <2>3. CASE k < Kept(b)
    BY <1>3, <2>3, FilledCells DEF Inside
  <2>4. CASE Kept(b) <= k /\ k < Kept(b) + n
    <3>1. c.data[k] = b.addr + (k - Kept(b))
      BY <1>3, <2>4, FilledCells
    <3>2. QED
      BY <1>3, <2>2, <2>4, <3>1
  <2>5. CASE Kept(b) + n <= k
    BY <1>3, <2>5, FilledCells DEF Fill
  <2>6. QED
    BY <1>3, <2>2, <2>3, <2>4, <2>5
<1>4. QED
  BY <1>1, <1>2, <1>3, RefilledCases

\* A Refill that returns nil keeps the order, and what it leaves to be read is
\* still fresh.
LEMMA RefilledFresh ==
  ASSUME NEW b \in Buffers, ~RefillPanics(b), NEW c \in Refilled(b), c.err = "nil",
         Ordered(b), NEW S \in SUBSET Nat, Fresh(b, S)
  PROVE  Ordered(c) /\ Fresh(c, S)
<1>1. b.err = "nil" /\ b.i <= Cap
  <2>1. ASSUME NEW e \in {"EOF", "fault"}
        PROVE  Failed(Shifted(b), e).err = e
    BY DEF Failed, Shifted, Buffers
  <2>2. QED
    BY <2>1, RefilledCases
<1>2. PICK n \in Nat : c = Filled(Shifted(b), Kept(b), n)
  <2>1. ASSUME NEW e \in {"EOF", "fault"}
        PROVE  Failed(Shifted(b), e).err = e
    BY DEF Failed, Shifted, Buffers
  <2>2. QED
    BY <1>1, <2>1, RefilledCases
<1>3. Ordered(c)
  BY <1>1, <1>2, FilledOrdered
<1>4. b.addr \in Nat /\ b.i \in Nat /\ Kept(b) \in Nat /\ c.i = 0 /\ c.addr = b.addr + n
  BY <1>1, <1>2, ShiftedType, FilledCells DEF Buffers
<1>5. ASSUME NEW k \in c.i .. Cap - 1
      PROVE  c.data[k] \notin S
  <2>1. k \in Slots
    BY <1>4 DEF Slots
  <2>2. CASE k < Kept(b)
    <3>1. k + b.i \in Slots /\ c.data[k] = b.data[k + b.i]
      BY <1>1, <1>2, <2>1, <2>2, FilledCells
    <3>2. k + b.i \in b.i .. Cap - 1
      BY <1>4, <2>1, <3>1 DEF Slots
    <3>3. QED
      BY <3>1, <3>2 DEF Fresh
  <2>3. CASE Kept(b) <= k /\ k < Kept(b) + n
    <3>1. c.data[k] = b.addr + (k - Kept(b))
      BY <1>1, <1>2, <2>1, <2>3, FilledCells
    <3>2. ~(c.data[k] < b.addr)
      BY <1>4, <2>1, <2>3, <3>1 DEF Slots
    <3>3. QED
      BY <3>2 DEF Fresh
  <2>4. CASE Kept(b) + n <= k
    <3>1. c.data[k] = -1
      BY <1>1, <1>2, <2>1, <2>4, FilledCells DEF Fill
    <3>2. QED
      BY <3>1
  <2>5. QED
    BY <1>4, <2>1, <2>2, <2>3, <2>4 DEF Slots
<1>6. \A a \in S : a < c.addr
  BY <1>4 DEF Fresh
<1>7. QED
  BY <1>3, <1>5, <1>6 DEF Fresh

\* A call of Next that succeeds while no Refill has failed slices its result from
\* an ordered buffer whose unread bytes are fresh.
LEMMA ReadyFresh ==
  ASSUME NEW b \in Buffers, NEW l \in Nat, ~(NeedsRefill(b, l) /\ RefillPanics(b)),
         NEW c \in Ready(b, l), c.err = "nil",
         b.err = "nil" => Ordered(b),
         NEW S \in SUBSET Nat, b.err = "nil" => Fresh(b, S)
  PROVE  Ordered(c) /\ Fresh(c, S)
<1>1. CASE ~NeedsRefill(b, l)
  BY <1>1 DEF Ready
<1>2. CASE NeedsRefill(b, l)
  <2>1. c \in Refilled(b) /\ ~RefillPanics(b)
    BY <1>2 DEF Ready
  <2>2. b.err = "nil"
    BY <2>1 DEF Refilled
  <2>3. QED
    BY <2>1, <2>2, RefilledFresh
<1>3. QED
  BY <1>1, <1>2

\* Delivering l bytes leaves the rest fresh with respect to what is now seen.
LEMMA AdvancedFresh ==
  ASSUME NEW c \in Buffers, NEW l \in Nat, c.i + l <= Cap, Ordered(c),
         NEW S \in SUBSET Nat, Fresh(c, S)
  PROVE  /\ Fresh(Advanced(c, l), S \cup Genuine(Slice(c, c.i, l)))
         /\ Genuine(Slice(c, c.i, l)) \cap S = {}
<1> DEFINE G == Genuine(Slice(c, c.i, l))
<1>1. c.i \in Nat /\ c.addr \in Nat
  BY DEF Buffers
<1>2. \A a \in G : \E j \in c.i .. c.i + l - 1 :
        j \in Slots /\ c.data[j] = a /\ a # Fill
  <2>1. SUFFICES ASSUME NEW k \in 1 .. l, Slice(c, c.i, l)[k] # Fill
                 PROVE  \E j \in c.i .. c.i + l - 1 :
                          /\ j \in Slots /\ c.data[j] = Slice(c, c.i, l)[k]
                          /\ Slice(c, c.i, l)[k] # Fill
    BY DEF Genuine, Slice
  <2>2. c.i + k - 1 \in c.i .. c.i + l - 1 /\ c.i + k - 1 \in Slots
    BY <1>1 DEF Slots
  <2>3. Slice(c, c.i, l)[k] = c.data[c.i + k - 1]
    BY DEF Slice
  <2>4. QED
    BY <2>1, <2>2, <2>3
<1>3. G \cap S = {}
  <2>1. ASSUME NEW a \in G
        PROVE  a \notin S
    <3>1. PICK j \in c.i .. c.i + l - 1 : j \in Slots /\ c.data[j] = a
      BY <1>2
    <3>2. j \in c.i .. Cap - 1
      BY <1>1, <3>1 DEF Slots
    <3>3. QED
      BY <3>1, <3>2 DEF Fresh
  <2>2. QED
    BY <2>1
<1>4. Advanced(c, l).i = c.i + l /\ Advanced(c, l).data = c.data
      /\ Advanced(c, l).addr = c.addr
  BY DEF Advanced, Buffers
<1>5. ASSUME NEW k \in c.i + l .. Cap - 1
      PROVE  c.data[k] \notin S \cup G
  <2>1. k \in Slots /\ k \in c.i .. Cap - 1
    BY <1>1 DEF Slots
  <2>2. c.data[k] \notin S
    BY <2>1 DEF Fresh
  <2>3. ASSUME c.data[k] \in G
        PROVE  FALSE
    <3>1. PICK j \in c.i .. c.i + l - 1 : /\ j \in Slots /\ c.data[j] = c.data[k]
                                          /\ c.data[k] # Fill
      BY <1>2, <2>3
    <3>2. j \in 0 .. k - 1
      BY <1>1, <3>1 DEF Slots
    <3>3. c.data[j] < c.data[k]
      BY <2>1, <3>1, <3>2 DEF Ordered
    <3>4. c.data[k] \in Int
      BY <2>1 DEF Buffers, Cells, Fill
    <3>5. QED
      BY <3>1, <3>3, <3>4
  <2>4. QED
    BY <2>2, <2>3
<1>6. \A a \in S \cup G : a < c.addr
  BY <1>2 DEF Fresh, Ordered
<1>7. QED
  BY <1>3, <1>4, <1>5, <1>6 DEF Fresh

\* One step of any client keeps the inductive invariant.
LEMMA IInvStep ==
  ASSUME IInv, [Next]_vars
  PROVE  IInv'
<1>1. TypeOK'
  BY TypeStep DEF IInv
<1>2. ASSUME NEW a \in Targets, Reset(a)
      PROVE  IInv'
  <2>1. buf'.err = "nil" /\ \A k \in Slots : buf'.data[k] = Fill
    BY <1>2 DEF Reset, Cleared, Zeroed
  <2>2. InOrder' /\ WithinRegion'
    BY <2>1 DEF InOrder, Ordered, WithinRegion, Inside, Fill
  <2>3. seen' = {}
    BY <1>2 DEF Reset
  <2>4. QED
    BY <1>1, <2>2, <2>3 DEF IInv, Fresh
<1>3. ASSUME NEW l \in Lens, NextFails(l)
      PROVE  IInv'
  <2>1. PICK b \in Refilled(buf) : b.err # "nil" /\ buf' = b
    BY <1>3 DEF NextFails
  <2>2. Inside(b)
    BY <1>3, RefilledInside DEF IInv, TypeOK, WithinRegion, NextFails
  <2>3. QED
    BY <1>1, <2>1, <2>2 DEF IInv, InOrder, WithinRegion, Inside
<1>4. ASSUME NEW l \in Lens, NextDelivers(l)
      PROVE  IInv'
  <2>1. PICK b \in Ready(buf, l) :
          /\ b.i + l <= Cap
          /\ buf' = Advanced(b, l)
          /\ seen' = seen \cup Genuine(Slice(b, b.i, l))
    BY <1>4 DEF NextDelivers
  <2>2. b \in Buffers /\ Inside(b)
    BY <1>4, RefilledType, RefilledInside
       DEF IInv, TypeOK, WithinRegion, NextDelivers, Ready
  <2>3. buf'.data = b.data /\ buf'.err = b.err /\ buf'.addr = b.addr
    BY <2>1, <2>2 DEF Advanced, Buffers
  <2>4. WithinRegion'
    BY <2>2, <2>3 DEF WithinRegion, Inside
  <2>5. CASE b.err = "nil"
    <3>1. Ordered(b) /\ Fresh(b, seen)
      BY <1>4, <2>5, ReadyFresh DEF IInv, TypeOK, InOrder, NextDelivers
    <3>2. Fresh(buf', seen')
      BY <2>1, <2>2, <3>1, AdvancedFresh DEF IInv, TypeOK
    <3>3. QED
      BY <1>1, <2>3, <2>4, <3>1, <3>2 DEF IInv, InOrder, Ordered, Fresh
  <2>6. CASE b.err # "nil"
    BY <1>1, <2>3, <2>4, <2>6 DEF IInv, InOrder
  <2>7. QED
    BY <2>5, <2>6
<1>5. ASSUME NEW l \in Lens, Rewind(l)
      PROVE  IInv'
  <2>1. buf'.data = buf.data /\ buf'.err = buf.err /\ buf'.addr = buf.addr /\ seen' = {}
    BY <1>5 DEF IInv, TypeOK, Rewind, Rewound, Buffers
  <2>2. QED
    BY <1>1, <2>1 DEF IInv, InOrder, Ordered, WithinRegion, Inside, Fresh
<1>6. ASSUME NEW n \in Lens, Discard(n)
      PROVE  IInv'
  <2>1. /\ buf'.data = buf.data /\ buf'.err = buf.err /\ buf'.addr = buf.addr
        /\ buf'.i = buf.i + n /\ seen' = seen
    BY <1>6 DEF IInv, TypeOK, Discard, Advanced, Buffers
  <2>2. buf'.i .. Cap - 1 \subseteq buf.i .. Cap - 1
    BY <2>1 DEF IInv, TypeOK, Buffers
  <2>3. QED
    BY <1>1, <2>1, <2>2 DEF IInv, InOrder, Ordered, WithinRegion, Inside, Fresh
<1>7. CASE RefillReturns
  <2>1. PICK b \in Refilled(buf) : buf' = b /\ ~RefillPanics(buf) /\ seen' = seen
    BY <1>7 DEF RefillReturns
  <2>2. Inside(b)
    BY <2>1, RefilledInside DEF IInv, TypeOK, WithinRegion
  <2>3. CASE b.err = "nil"
    <3>1. buf.err = "nil"
      BY <2>1, <2>3 DEF Refilled
    <3>2. Ordered(b) /\ Fresh(b, seen)
      BY <2>1, <2>3, <3>1, RefilledFresh DEF IInv, TypeOK, InOrder
    <3>3. QED
      BY <1>1, <2>1, <2>2, <3>2 DEF IInv, InOrder, Ordered, WithinRegion, Inside, Fresh
  <2>4. CASE b.err # "nil"
    BY <1>1, <2>1, <2>2, <2>4 DEF IInv, InOrder, WithinRegion, Inside
  <2>5. QED
    BY <2>3, <2>4
<1>8. CASE UNCHANGED <<buf, seen>>
  BY <1>1, <1>8 DEF IInv, InOrder, Ordered, WithinRegion, Inside, Fresh
<1>9. QED
  BY <1>2, <1>3, <1>4, <1>5, <1>6, <1>7, <1>8
     DEF Next, vars, NextPanics, PeekReturns, PeekPanics, RefillCrashes, Panic

\* A new buffer satisfies it.
LEMMA IInvInit == Init => IInv
<1>1. SUFFICES ASSUME Init PROVE IInv
  OBVIOUS
<1>2. \A k \in Slots : buf.data[k] = Fill
  BY <1>1 DEF Init, Cleared, Zeroed
<1>3. seen = {}
  BY <1>1 DEF Init
<1>4. QED
  BY <1>1, <1>2, <1>3, TypeInit
     DEF IInv, InOrder, Ordered, WithinRegion, Inside, Fresh, Fill

\* However a client mixes the calls and however short the reads are, the bytes
\* in a buffer that has not failed are in address order without repetition.
THEOREM InOrderAlways == Spec => []InOrder
<1>1. IInv => InOrder
  BY DEF IInv
<1>2. QED
  BY IInvInit, IInvStep, <1>1, PTL DEF Spec

\* No byte from past the end of the region ever enters the buffer.
THEOREM WithinRegionAlways == Spec => []WithinRegion
<1>1. IInv => WithinRegion
  BY DEF IInv
<1>2. QED
  BY IInvInit, IInvStep, <1>1, PTL DEF Spec

\* No byte is delivered twice unless the client rewinds or resets in between.
THEOREM NoRepeatAlways == Spec => NoRepeat
<1> DEFINE A == (res'.op = "Next" /\ res'.outcome = "ok" /\ buf'.err = "nil")
                   => Genuine(res'.out) \cap seen = {}
<1>1. ASSUME IInv, Next
      PROVE  A
  <2>1. ASSUME NEW l \in Lens, NextDelivers(l)
        PROVE  A
    <3>1. SUFFICES ASSUME buf'.err = "nil" PROVE Genuine(res'.out) \cap seen = {}
      OBVIOUS
    <3>2. PICK b \in Ready(buf, l) :
            /\ b.i + l <= Cap
            /\ buf' = Advanced(b, l)
            /\ res' = [op |-> "Next", outcome |-> "ok", out |-> Slice(b, b.i, l)]
      BY <2>1 DEF NextDelivers, Return
    <3>3. b \in Buffers
      BY <1>1, <2>1, RefilledType DEF IInv, TypeOK, NextDelivers, Ready
    <3>4. b.err = "nil"
      BY <3>1, <3>2, <3>3 DEF Advanced, Buffers
    <3>5. Ordered(b) /\ Fresh(b, seen)
      BY <1>1, <2>1, <3>4, ReadyFresh DEF IInv, TypeOK, InOrder, NextDelivers
    <3>6. Genuine(Slice(b, b.i, l)) \cap seen = {}
      BY <1>1, <3>2, <3>3, <3>5, AdvancedFresh DEF IInv, TypeOK
    <3>7. QED
      BY <3>2, <3>6
  <2>2. ASSUME NEW l \in Lens, NextFails(l)
        PROVE  A
    <3>1. res'.outcome # "nil" /\ res'.outcome = buf'.err
      BY <2>2 DEF NextFails, Return
    <3>2. QED
      BY <3>1
  <2>3. ASSUME NEW l \in Lens, NextPanics(l)
        PROVE  A
    BY <2>3 DEF NextPanics, Panic, Return
  <2>4. ASSUME NEW a \in Targets, Reset(a)
        PROVE  A
    BY <2>4 DEF Reset, Return
  <2>5. ASSUME NEW l \in Lens, Rewind(l) \/ Discard(l)
        PROVE  A
    BY <2>5 DEF Rewind, Discard, Return
  <2>6. CASE PeekReturns \/ PeekPanics \/ RefillReturns \/ RefillCrashes
    BY <2>6 DEF PeekReturns, PeekPanics, RefillReturns, RefillCrashes, Panic, Return
  <2>7. QED
    BY <1>1, <2>1, <2>2, <2>3, <2>4, <2>5, <2>6 DEF Next
<1>2. QED
  BY IInvInit, IInvStep, <1>1, PTL DEF Spec, NoRepeat

-----------------------------------------------------------------------------
(***************************************************************************)
(* A failure is final and costs nothing.                                   *)
(***************************************************************************)

Clean == /\ buf.err # "nil" /\ res'.op # "Reset" =>
                buf'.err = buf.err /\ buf'.addr = buf.addr
         /\ buf.err = "nil" /\ buf'.err # "nil" =>
                Slice(buf', buf'.i, Cap - buf.i) = Slice(buf, buf.i, Cap - buf.i)

\* Every outcome of Refill is clean.
LEMMA RefillClean ==
  ASSUME TypeOK, ~RefillPanics(buf), buf' \in Refilled(buf)
  PROVE  Clean
<1>1. buf \in Buffers
  BY DEF TypeOK
<1>2. CASE buf.err # "nil"
  BY <1>2 DEF Refilled, Clean
<1>3. CASE buf.err = "nil" /\ buf'.err # "nil"
  <2>1. PICK e \in {"EOF", "fault"} : buf' = Failed(Shifted(buf), e)
    BY <1>1, <1>3, FailingRefill
  <2>2. buf.i <= Cap /\ buf.i \in Nat
    BY <1>1, <1>3, FailingRefill DEF Buffers
  <2>3. /\ buf'.i = 0
        /\ \A k \in 0 .. Cap - buf.i - 1 : buf'.data[k] = buf.data[k + buf.i]
    BY <1>1, <2>1, <2>2, FailedCells
  <2>4. ASSUME NEW k \in 1 .. Cap - buf.i
        PROVE  buf'.data[0 + k - 1] = buf.data[buf.i + k - 1]
    <3>1. k - 1 \in 0 .. Cap - buf.i - 1
      BY <2>2
    <3>2. buf'.data[k - 1] = buf.data[(k - 1) + buf.i]
      BY <2>3, <3>1
    <3>3. (k - 1) + buf.i = buf.i + k - 1 /\ 0 + k - 1 = k - 1
      BY <2>2
    <3>4. QED
      BY <3>2, <3>3
  <2>5. Slice(buf', buf'.i, Cap - buf.i) = Slice(buf, buf.i, Cap - buf.i)
    BY <2>3, <2>4 DEF Slice
  <2>6. QED
    BY <1>3, <2>5 DEF Clean
<1>4. CASE buf.err = "nil" /\ buf'.err = "nil"
  BY <1>4 DEF Clean
<1>5. QED
  BY <1>2, <1>3, <1>4

\* A step that leaves the error and the fetch address alone is clean.
LEMMA SameErrorClean ==
  ASSUME buf'.err = buf.err, buf'.addr = buf.addr
  PROVE  Clean
BY DEF Clean

\* Every step of any client is clean.
LEMMA CleanStep ==
  ASSUME TypeOK, [Next]_vars
  PROVE  Clean
<1>1. buf \in Buffers
  BY DEF TypeOK
<1>2. ASSUME NEW a \in Targets, Reset(a)
      PROVE  Clean
  BY <1>2 DEF Reset, Return, Cleared, Clean
<1>3. ASSUME NEW l \in Lens, NextFails(l)
      PROVE  Clean
  BY <1>3, RefillClean DEF NextFails
<1>4. ASSUME NEW l \in Lens, NextDelivers(l)
      PROVE  Clean
  <2>1. PICK b \in Ready(buf, l) : /\ NeedsRefill(buf, l) => b.err = "nil"
                                   /\ buf' = Advanced(b, l)
    BY <1>4 DEF NextDelivers
  <2>2. CASE NeedsRefill(buf, l)
    <3>1. b \in Refilled(buf) /\ b.err = "nil" /\ ~RefillPanics(buf)
      BY <1>4, <2>1, <2>2 DEF Ready, NextDelivers
    <3>2. buf.err = "nil"
      BY <3>1 DEF Refilled
    <3>3. buf'.err = "nil"
      BY <1>1, <2>1, <3>1, RefilledType DEF Advanced, Buffers
    <3>4. QED
      BY <3>2, <3>3 DEF Clean
  <2>3. CASE ~NeedsRefill(buf, l)
    <3>1. buf' = Advanced(buf, l)
      BY <2>1, <2>3 DEF Ready
    <3>2. QED
      BY <1>1, <3>1, SameErrorClean DEF Advanced, Buffers
  <2>4. QED
    BY <2>2, <2>3
<1>5. ASSUME NEW l \in Lens, NextPanics(l) \/ Rewind(l) \/ Discard(l)
      PROVE  Clean
  <2>1. buf'.err = buf.err /\ buf'.addr = buf.addr
    BY <1>1, <1>5 DEF NextPanics, Panic, Rewind, Rewound, Discard, Advanced, Buffers
  <2>2. QED
    BY <2>1, SameErrorClean
<1>6. CASE PeekReturns \/ PeekPanics \/ RefillCrashes
  BY <1>6, SameErrorClean DEF PeekReturns, PeekPanics, RefillCrashes, Panic
<1>7. CASE RefillReturns
  BY <1>7, RefillClean DEF RefillReturns
<1>8. CASE UNCHANGED vars
  BY <1>8, SameErrorClean DEF vars
<1>9. QED
  BY <1>2, <1>3, <1>4, <1>5, <1>6, <1>7, <1>8 DEF Next

\* Whatever the client calls, an error stays until Reset, and the failure of a
\* Refill, which has already shifted the buffer, leaves the unread bytes unread.
THEOREM FailureIsCleanAlways == Spec => FailureIsClean
<1>1. TypeOK /\ [Next]_vars => [Clean]_vars
  BY CleanStep
<1>2. QED
  BY TypeCorrect, <1>1, PTL DEF Spec, FailureIsClean, Clean

-----------------------------------------------------------------------------
(***************************************************************************)
(* The read loop misses nothing.                                           *)
(***************************************************************************)

\* The inductive invariant.  Refill keeps nothing of a buffer that was not read
\* from yet (Kept is 0 at index 0), so NothingLost needs to know that the only
\* time the loop refills one it is still empty.
LInv == /\ TypeOK
        /\ NothingLost
        /\ Open /\ ~Fetched => Unread(buf) = {}

\* Every step of the loop is a step of some client.
LEMMA LoopIsClient == [ReaderNext]_vars => [Next]_vars
BY DEF ReaderNext, Next

\* What is unread stays unread when a Refill fails.
LEMMA FailedUnread ==
  ASSUME NEW b \in Buffers, b.i <= Cap, NEW e, NEW c, c = Failed(Shifted(b), e)
  PROVE  Unread(b) \subseteq Unread(c)
<1>1. SUFFICES ASSUME NEW k \in b.i .. Cap - 1, b.data[k] # Fill
               PROVE  b.data[k] \in Unread(c)
  BY DEF Unread
<1>2. b.i \in Nat
  BY DEF Buffers
<1>3. k - b.i \in 0 .. Cap - b.i - 1 /\ (k - b.i) + b.i = k
  BY <1>2
<1>4. c.i = 0 /\ c.data[k - b.i] = b.data[k]
  BY <1>3, FailedCells
<1>5. k - b.i \in c.i .. Cap - 1
  BY <1>2, <1>3, <1>4
<1>6. QED
  BY <1>1, <1>4, <1>5 DEF Unread

\* A Refill that works adds the fetched addresses to what is unread, and loses
\* nothing unless it is called at index 0.
LEMMA FilledUnread ==
  ASSUME NEW b \in Buffers, b.i <= Cap, NEW n \in Nat, n <= Cap - Kept(b),
         NEW c, c = Filled(Shifted(b), Kept(b), n), b.i # 0 \/ Unread(b) = {}
  PROVE  Unread(b) \cup (b.addr .. c.addr - 1) \subseteq Unread(c)
<1>1. b.i \in Nat /\ b.addr \in Nat /\ Kept(b) \in 0 .. Cap - 1
  BY ShiftedType DEF Buffers
<1>2. c.i = 0 /\ c.addr = b.addr + n
  BY FilledCells
<1>3. ASSUME NEW k \in b.i .. Cap - 1, b.data[k] # Fill
      PROVE  b.data[k] \in Unread(c)
  <2>1. b.i # 0
    BY <1>3 DEF Unread
  <2>2. k - b.i \in Slots /\ k - b.i < Kept(b) /\ (k - b.i) + b.i = k
    BY <1>1, <2>1 DEF Kept, Slots
  <2>3. c.data[k - b.i] = b.data[k]
    BY <2>2, FilledCells
  <2>4. k - b.i \in c.i .. Cap - 1
    BY <1>2, <2>2 DEF Slots
  <2>5. QED
    BY <1>3, <2>3, <2>4 DEF Unread
<1>4. ASSUME NEW a \in b.addr .. c.addr - 1
      PROVE  a \in Unread(c)
  <2>1. a \in Nat /\ b.addr <= a /\ a < b.addr + n
    BY <1>1, <1>2
  <2> DEFINE k == Kept(b) + (a - b.addr)
  <2>2. k \in Slots /\ Kept(b) <= k /\ k < Kept(b) + n /\ b.addr + (k - Kept(b)) = a
    BY <1>1, <2>1 DEF Slots
  <2>3. c.data[k] = a
    BY <2>2, FilledCells
  <2>4. k \in c.i .. Cap - 1 /\ a # Fill
    BY <1>2, <2>1, <2>2 DEF Slots, Fill
  <2>5. QED
    BY <2>3, <2>4 DEF Unread
<1>5. QED
  BY <1>3, <1>4 DEF Unread

\* What Next hands out and what it leaves are what was unread.
LEMMA DeliveredUnread ==
  ASSUME NEW b \in Buffers, NEW l \in Nat, b.i + l <= Cap
  PROVE  Unread(b) \subseteq Genuine(Slice(b, b.i, l)) \cup Unread(Advanced(b, l))
<1>1. b.i \in Nat /\ Advanced(b, l).i = b.i + l /\ Advanced(b, l).data = b.data
  BY DEF Advanced, Buffers
<1>2. SUFFICES ASSUME NEW k \in b.i .. Cap - 1, b.data[k] # Fill
               PROVE  b.data[k] \in Genuine(Slice(b, b.i, l)) \cup Unread(Advanced(b, l))
  BY DEF Unread
<1>3. CASE k < b.i + l
  <2>1. k - b.i + 1 \in 1 .. l /\ b.i + (k - b.i + 1) - 1 = k
    BY <1>1, <1>3
  <2>2. DOMAIN Slice(b, b.i, l) = 1 .. l /\ Slice(b, b.i, l)[k - b.i + 1] = b.data[k]
    BY <2>1 DEF Slice
  <2>3. QED
    BY <1>2, <2>1, <2>2 DEF Genuine
<1>4. CASE b.i + l <= k
  <2>1. k \in b.i + l .. Cap - 1
    BY <1>1, <1>4
  <2>2. QED
    BY <1>1, <1>2, <2>1 DEF Unread
<1>5. QED
  BY <1>1, <1>3, <1>4

\* One step of the loop.
LEMMA LoopStep ==
  ASSUME LInv, [ReaderNext]_vars
  PROVE  LInv'
<1>1. TypeOK /\ TypeOK' /\ buf \in Buffers /\ buf' \in Buffers
  BY LoopIsClient, TypeStep DEF LInv, TypeOK
<1>2. CASE UNCHANGED vars
  BY <1>1, <1>2 DEF LInv, vars, NothingLost, Unread, Open, Fetched
<1>3. ASSUME NEW l \in Lens, l <= Cap, Open, NextFails(l)
      PROVE  LInv'
  <2>1. buf' \in Refilled(buf) /\ buf'.err # "nil" /\ ~RefillPanics(buf) /\ seen' = seen
    BY <1>3 DEF NextFails
  <2>2. PICK e \in {"EOF", "fault"} : buf' = Failed(Shifted(buf), e)
    BY <1>1, <1>3, <2>1, FailingRefill DEF Open
  <2>3. buf.i <= Cap
    BY <1>1, <1>3, <2>1, FailingRefill DEF Open
  <2>4. Unread(buf) \subseteq Unread(buf') /\ buf'.addr = buf.addr
    BY <1>1, <2>2, <2>3, FailedUnread, FailedCells
  <2>5. NothingLost'
    BY <2>1, <2>4 DEF LInv, NothingLost
  <2>6. QED
    BY <1>1, <2>1, <2>5 DEF LInv, Open
<1>4. ASSUME NEW l \in Lens, l <= Cap, Open, NextDelivers(l)
      PROVE  LInv'
  <2>1. PICK b \in Ready(buf, l) : /\ NeedsRefill(buf, l) => b.err = "nil"
                                   /\ b.i + l <= Cap
                                   /\ buf' = Advanced(b, l)
                                   /\ seen' = seen \cup Genuine(Slice(b, b.i, l))
    BY <1>4 DEF NextDelivers
  <2>2. /\ b \in Buffers /\ b.syscalls > 0
        /\ \A a \in Start .. b.addr - 1 : a \in seen \cup Unread(b)
    <3>1. CASE ~NeedsRefill(buf, l)
      <4>1. b = buf /\ buf.syscalls # 0 /\ buf.syscalls \in Nat
        BY <1>1, <2>1, <3>1 DEF Ready, NeedsRefill, Buffers
      <4>2. QED
        BY <1>1, <4>1 DEF LInv, NothingLost
    <3>2. CASE NeedsRefill(buf, l)
      <4>1. b \in Refilled(buf) /\ b.err = "nil" /\ ~RefillPanics(buf)
        BY <1>4, <2>1, <3>2 DEF Ready, NextDelivers
      <4>2. buf.i <= Cap
        BY <1>1, <4>1, WorkingRefill
      <4>3. PICK n \in Nat : n <= Cap - Kept(buf) /\ b = Filled(Shifted(buf), Kept(buf), n)
        BY <1>1, <4>1, WorkingRefill
      <4>4. b \in Buffers
        BY <1>1, <4>1, RefilledType
      <4>5. buf.i # 0 \/ Unread(buf) = {}
        BY <1>1, <1>4, <3>2 DEF NeedsRefill, LInv, Fetched, Buffers
      <4>6. Unread(buf) \cup (buf.addr .. b.addr - 1) \subseteq Unread(b)
        BY <1>1, <4>2, <4>3, <4>5, FilledUnread
      <4>7. b.syscalls > 0
        <5>1. Shifted(buf) \in Buffers
          BY <1>1, <4>2, ShiftedType
        <5>2. QED
          BY <4>3, <5>1 DEF Filled, Buffers
      <4>8. ASSUME NEW a \in Start .. b.addr - 1
            PROVE  a \in seen \cup Unread(b)
        <5>1. buf.addr \in Nat /\ b.addr \in Nat
          BY <1>1, <4>4 DEF Buffers
        <5>2. a \in Start .. buf.addr - 1 \/ a \in buf.addr .. b.addr - 1
          BY <5>1
        <5>3. QED
          BY <4>6, <5>2 DEF LInv, NothingLost
      <4>9. QED
        BY <4>4, <4>7, <4>8
    <3>3. QED
      BY <3>1, <3>2
  <2>3. buf'.addr = b.addr /\ buf'.syscalls > 0
    BY <2>1, <2>2 DEF Advanced, Buffers
  <2>4. Unread(b) \subseteq Genuine(Slice(b, b.i, l)) \cup Unread(buf')
    BY <2>1, <2>2, DeliveredUnread
  <2>5. NothingLost'
    BY <2>1, <2>2, <2>3, <2>4 DEF NothingLost
  <2>6. QED
    BY <1>1, <2>3, <2>5 DEF LInv, Fetched
<1>5. QED
  BY <1>2, <1>3, <1>4 DEF ReaderNext

\* A new buffer has fetched nothing.
LEMMA LoopInit == Init => LInv
<1>1. SUFFICES ASSUME Init PROVE LInv
  OBVIOUS
<1>2. buf.addr = Start /\ buf.data = Zeroed /\ buf.i = 0
  BY <1>1 DEF Init, Cleared
<1>3. Unread(buf) = {}
  BY <1>2 DEF Unread, Zeroed, Slots
<1>4. NothingLost
  BY <1>2 DEF NothingLost
<1>5. QED
  BY <1>1, <1>3, <1>4, TypeInit DEF LInv

\* However short the system calls and however long the reads, the loop that
\* calls Next until it fails is handed every byte that is fetched, except those
\* that are still in the buffer.
THEOREM NothingLostAlways == ReaderSpec => []NothingLost
<1>1. LInv => NothingLost
  BY DEF LInv
<1>2. QED
  BY LoopInit, LoopStep, <1>1, PTL DEF ReaderSpec

-----------------------------------------------------------------------------
(***************************************************************************)
(* The disciplined client of MemBuffer sees a ByteStream, for every region,*)
(* capacity and set of call arguments, when no system call is short.       *)
(***************************************************************************)

\* The inductive invariant of the refinement.
SInv == /\ TypeOK
        /\ Alive
        /\ Open => Sound(buf)

\* Reading from a window gives the stream's bytes.
LEMMA WindowBytes ==
  ASSUME NEW b \in Buffers, Windowed(b), NEW n \in Nat, b.i + n <= Cap
  PROVE  Slice(b, b.i, n) = Stream!Bytes(b.data[0] + b.i, n)
<1>1. b.i \in Nat /\ b.data[0] \in Nat
  BY DEF Buffers, Windowed
<1>2. ASSUME NEW k \in 1 .. n
      PROVE  b.data[b.i + k - 1] = IF b.data[0] + b.i + k - 1 < End
                                   THEN b.data[0] + b.i + k - 1 ELSE Fill
  <2>1. b.i + k - 1 \in Slots
    BY <1>1 DEF Slots
  <2>2. b.data[0] + (b.i + k - 1) = b.data[0] + b.i + k - 1
    BY <1>1
  <2>3. QED
    BY <2>1, <2>2 DEF Windowed
<1>3. QED
  BY <1>2 DEF Slice, Stream!Bytes

\* Every step of the disciplined client is a step of some client.
LEMMA StreamIsClient == [StreamNext]_vars => [Next]_vars
BY DEF StreamNext, Next

\* One step of the disciplined client: the invariant is kept and the step is one
\* of the stream, or changes nothing of it.
LEMMA StreamStep ==
  ASSUME Edges = {}, SInv, [StreamNext]_vars
  PROVE  SInv' /\ [Stream!Next]_(Stream!vars)
<1>1. TypeOK' /\ TypeOK /\ buf \in Buffers /\ buf' \in Buffers
  BY StreamIsClient, TypeStep DEF SInv, TypeOK
<1>2. ASSUME NEW a \in Targets, Reset(a)
      PROVE  SInv' /\ Stream!Next
  <2>1. /\ buf' = Cleared(a) /\ buf'.err = "nil" /\ buf'.syscalls = 0
        /\ buf'.i = 0 /\ buf'.addr = a /\ res'.outcome = "ok" /\ res'.out = << >>
    BY <1>2 DEF Reset, Cleared, Return
  <2>2. SInv'
    BY <1>1, <2>1 DEF SInv, Alive, Sound
  <2>3. Position' = a /\ StreamState' = "open"
    BY <2>1 DEF Position, StreamState, Open, Fetched, Alive
  <2>4. Stream!Reopen(a)
    BY <2>1, <2>3 DEF Stream!Reopen
  <2>5. QED
    BY <2>2, <2>4 DEF Stream!Next
<1>3. SUFFICES ASSUME ~\E a \in Targets : Reset(a)
               PROVE  SInv' /\ [Stream!Next]_(Stream!vars)
  BY <1>2
<1>4. CASE UNCHANGED vars
  BY <1>1, <1>4 DEF vars, SInv, Alive, Open, Stream!vars, Position, StreamState, Fetched
<1>5. CASE StreamNext
  <2>1. /\ Open /\ Sound(buf) /\ Alive /\ StreamState = "open" /\ Position = At(buf)
        /\ buf.err = "nil" /\ buf.i \in Nat /\ buf.i <= Cap /\ buf.syscalls \in Nat
        /\ ~RefillPanics(buf)
    BY <1>1, <1>3, <1>5
       DEF StreamNext, SInv, Open, StreamState, Position, At, Fetched, Sound, Buffers,
           RefillPanics
  <2>2. ASSUME buf'.err # "nil", Alive', res'.out \in {res.out, << >>}
        PROVE  SInv' /\ Stream!Next
    <3>1. SInv'
      BY <1>1, <2>2 DEF SInv, Open
    <3>2. Stream!Fail
      BY <2>1, <2>2 DEF Stream!Fail, Stream!NoPos, StreamState, Position, Open
    <3>3. QED
      BY <3>1, <3>2 DEF Stream!Next
  <2>3. ASSUME buf'.err = "nil", Alive', Sound(buf')
        PROVE  SInv' /\ StreamState' = "open" /\ Position' = At(buf')
    BY <1>1, <2>3 DEF SInv, StreamState, Position, Open, Fetched, At
  <2>4. ASSUME NEW l \in Lens, l <= Cap, NextFails(l)
        PROVE  SInv' /\ Stream!Next
    <3>1. buf'.err # "nil" /\ res'.outcome = buf'.err /\ res'.out = << >>
      BY <2>4 DEF NextFails, Return
    <3>2. Alive'
      BY <1>1, <3>1 DEF Alive, Buffers, Errors
    <3>3. QED
      BY <2>2, <3>1, <3>2
  <2>5. ASSUME NEW l \in Lens, l <= Cap, NextDelivers(l)
        PROVE  SInv' /\ Stream!Next
    <3>1. PICK b \in Ready(buf, l) :
            /\ NeedsRefill(buf, l) => b.err = "nil"
            /\ buf' = Advanced(b, l)
            /\ res' = [op |-> "Next", outcome |-> "ok", out |-> Slice(b, b.i, l)]
      BY <2>5 DEF NextDelivers, Return
    <3>2. b.err = "nil"
      BY <2>1, <3>1 DEF Ready
    <3>3. /\ b \in Buffers /\ Windowed(b) /\ b.syscalls > 0
          /\ b.i + l <= Cap /\ b.data[0] + b.i = At(buf)
      BY <1>1, <2>1, <2>5, <3>2, ReadyWindow
    <3>4. /\ buf'.data = b.data /\ buf'.addr = b.addr /\ buf'.err = b.err
          /\ buf'.syscalls = b.syscalls /\ buf'.i = b.i + l /\ b.i \in Nat
      BY <3>1, <3>3 DEF Advanced, Buffers
    <3>5. Sound(buf')
      BY <3>3, <3>4 DEF Sound, Windowed, Buffers
    <3>6. Alive' /\ res'.out = Stream!Bytes(At(buf), l)
      BY <3>1, <3>3, WindowBytes DEF Alive
    <3>7. At(buf') = At(buf) + l
      <4>1. b.data[0] \in Nat
        BY <3>3 DEF Windowed
      <4>2. At(buf') = b.data[0] + (b.i + l)
        BY <3>3, <3>4 DEF At
      <4>3. l \in Nat /\ b.i \in Nat
        BY <3>4, ClientAssumption
      <4>4. b.data[0] + (b.i + l) = (b.data[0] + b.i) + l
        BY <4>1, <4>3
      <4>5. QED
        BY <3>3, <4>2, <4>4
    <3>8. SInv' /\ StreamState' = "open" /\ Position' = At(buf')
      BY <2>3, <3>2, <3>4, <3>5, <3>6
    <3>9. Stream!Deliver(l)
      BY <2>1, <3>6, <3>7, <3>8 DEF Stream!Deliver
    <3>10. QED
      BY <3>8, <3>9 DEF Stream!Next
  <2>6. ASSUME NEW l \in Lens, l <= Cap, NextPanics(l)
        PROVE  FALSE
    <3>1. PICK b \in Refilled(buf) : b.err = "nil" /\ b.i + l > Cap /\ NeedsRefill(buf, l)
      BY <2>1, <2>6 DEF NextPanics
    <3>2. b \in Ready(buf, l)
      BY <3>1 DEF Ready
    <3>3. b \in Buffers /\ b.i + l <= Cap
      BY <1>1, <2>1, <2>6, <3>1, <3>2, ReadyWindow
    <3>4. QED
      BY <3>1, <3>3 DEF Buffers
  <2>7. ASSUME NEW l \in Lens, Rewind(l)
        PROVE  SInv' /\ Stream!Next
    <3>1. /\ buf'.data = buf.data /\ buf'.addr = buf.addr /\ buf'.err = buf.err
          /\ buf'.syscalls = buf.syscalls /\ res'.outcome = "ok" /\ res'.out = res.out
          /\ buf'.i = IF l > buf.i THEN 0 ELSE buf.i - l
      BY <1>1, <2>7 DEF Rewind, Rewound, Return, Buffers
    <3>2. Sound(buf')
      BY <1>1, <2>1, <3>1, SameWindow DEF Sound
    <3>3. SInv' /\ StreamState' = "open" /\ Position' = At(buf')
      BY <2>1, <2>3, <3>1, <3>2 DEF Alive
    <3>4. \E m \in 0 .. l : At(buf') = At(buf) - m
      <4>1. CASE buf.syscalls > 0
        <5>1. buf.data[0] \in Nat
          BY <2>1, <4>1 DEF Sound, Windowed
        <5>2. CASE l > buf.i
          <6>1. buf.i \in 0 .. l /\ At(buf') = At(buf) - buf.i
            BY <2>1, <3>1, <4>1, <5>1, <5>2 DEF At
          <6>2. QED
            BY <6>1
        <5>3. CASE ~(l > buf.i)
          <6>1. At(buf') = At(buf) - l
            BY <2>1, <3>1, <4>1, <5>1, <5>3 DEF At
          <6>2. QED
            BY <6>1
        <5>4. QED
          BY <5>2, <5>3
      <4>2. CASE buf.syscalls = 0
        <5>1. buf.addr \in Nat /\ At(buf') = buf.addr /\ At(buf) = buf.addr
          BY <1>1, <3>1, <4>2 DEF At, Buffers
        <5>2. QED
          BY <5>1
      <4>3. QED
        BY <2>1, <4>1, <4>2
    <3>5. Stream!Back(l)
      BY <2>1, <3>1, <3>3, <3>4 DEF Stream!Back
    <3>6. QED
      BY <3>3, <3>5 DEF Stream!Next
  <2>8. ASSUME NEW n \in Lens, Fetched, buf.i + n <= Cap, Discard(n)
        PROVE  SInv' /\ Stream!Next
    <3>1. /\ buf'.data = buf.data /\ buf'.addr = buf.addr /\ buf'.err = buf.err
          /\ buf'.syscalls = buf.syscalls /\ res'.outcome = "ok" /\ res'.out = res.out
          /\ buf'.i = buf.i + n
      BY <1>1, <2>8 DEF Discard, Advanced, Return, Buffers
    <3>2. Sound(buf')
      BY <1>1, <2>1, <2>8, <3>1, SameWindow DEF Fetched
    <3>3. SInv' /\ StreamState' = "open" /\ Position' = At(buf')
      BY <2>1, <2>3, <3>1, <3>2 DEF Alive
    <3>4. At(buf') = At(buf) + n
      <4>1. buf.data[0] \in Nat
        BY <2>1, <2>8 DEF Sound, Windowed, Fetched
      <4>2. QED
        BY <2>1, <2>8, <3>1, <4>1 DEF At, Fetched
    <3>5. Stream!Skip(n)
      BY <2>1, <3>1, <3>3, <3>4 DEF Stream!Skip
    <3>6. QED
      BY <3>3, <3>5 DEF Stream!Next
  <2>9. ASSUME Fetched, PeekReturns
        PROVE  SInv' /\ Stream!Next
    <3>1. buf' = buf /\ res'.outcome = "ok" /\ res'.out = Slice(buf, buf.i, Cap - buf.i)
      BY <2>9 DEF PeekReturns, Return
    <3>2. SInv' /\ StreamState' = "open" /\ Position' = At(buf')
      BY <2>1, <2>3, <3>1 DEF Alive
    <3>3. Cap - buf.i \in 0 .. Cap /\ Windowed(buf) /\ buf.i + (Cap - buf.i) <= Cap
      BY <2>1, <2>9 DEF Sound, Fetched
    <3>4. res'.out = Stream!Bytes(At(buf), Cap - buf.i)
      BY <1>1, <2>9, <3>1, <3>3, WindowBytes DEF At, Fetched
    <3>5. Stream!Look
      BY <2>1, <3>1, <3>2, <3>3, <3>4 DEF Stream!Look
    <3>6. QED
      BY <3>2, <3>5 DEF Stream!Next
  <2>10. ~PeekPanics /\ ~RefillCrashes
    BY <2>1 DEF PeekPanics, RefillCrashes
  <2>11. ASSUME buf.i # 0 \/ ~Fetched, RefillReturns
         PROVE  SInv' /\ [Stream!Next]_(Stream!vars)
    <3>1. /\ buf' \in Refilled(buf) /\ res'.out = res.out
          /\ res'.outcome = IF buf'.err = "nil" THEN "ok" ELSE buf'.err
      BY <2>11 DEF RefillReturns, Return
    <3>2. Alive'
      BY <1>1, <3>1 DEF Alive, Buffers, Errors
    <3>3. CASE buf'.err = "nil"
      <4>1. buf'.i = 0 /\ buf'.syscalls > 0 /\ Windowed(buf') /\ buf'.data[0] = At(buf)
        BY <1>1, <2>1, <2>11, <3>1, <3>3, RefilledWindow DEF Fetched
      <4>2. Sound(buf')
        BY <4>1 DEF Sound
      <4>3. At(buf') = At(buf)
        BY <4>1 DEF At, Windowed
      <4>4. QED
        BY <2>1, <2>3, <3>1, <3>2, <3>3, <4>2, <4>3 DEF Stream!vars
    <3>4. CASE buf'.err # "nil"
      BY <2>2, <3>1, <3>2, <3>4
    <3>5. QED
      BY <3>3, <3>4
  <2>12. QED
    BY <1>3, <1>5, <2>4, <2>5, <2>6, <2>7, <2>8, <2>9, <2>10, <2>11 DEF StreamNext
<1>6. QED
  BY <1>4, <1>5

\* A new buffer is a stream opened at the region's start.
LEMMA StreamInit == Init => SInv /\ Stream!Init
<1>1. SUFFICES ASSUME Init PROVE SInv /\ Stream!Init
  OBVIOUS
<1>2. /\ buf.err = "nil" /\ buf.syscalls = 0 /\ buf.i = 0 /\ buf.addr = Start
      /\ res.outcome = "ok" /\ res.out = << >>
  BY <1>1 DEF Init, Cleared
<1>3. SInv
  BY <1>1, <1>2, TypeInit DEF SInv, Alive, Sound
<1>4. QED
  BY <1>2, <1>3 DEF Stream!Init, Position, StreamState, Open, Fetched, Alive

\* For every region and capacity, a client that keeps to the discipline sees an
\* unbroken stream: refills lose, repeat and misplace nothing, a failure is
\* final, and no call panics.
THEOREM StreamRefinement ==
  ASSUME Edges = {}
  PROVE  StreamSpec => ImplementsStream
<1>1. SInv /\ [StreamNext]_vars => SInv' /\ [Stream!Next]_(Stream!vars)
  BY StreamStep
<1>2. QED
  BY StreamInit, <1>1, PTL DEF StreamSpec, ImplementsStream, Stream!Spec
=============================================================================
