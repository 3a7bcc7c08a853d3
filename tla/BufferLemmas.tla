---------------------------- MODULE BufferLemmas ----------------------------
(***************************************************************************)
(* Lemmas about the operators of BufferCore, for every region, capacity    *)
(* and set of page edges.  The theorems about one buffer and about searches*)
(* rest on them.                                                           *)
(***************************************************************************)
EXTENDS BufferCore, Sequences, TLAPS

USE RegionAssumption, CapAssumption, EdgesAssumption

(***************************************************************************)
(* Types.                                                                  *)
(***************************************************************************)


\* Reset leaves a well-formed buffer of zeros.
LEMMA ClearedType ==
  ASSUME NEW a \in Nat
  PROVE  Cleared(a) \in Buffers
BY DEF Cleared, Zeroed, Buffers, Slots, Cells, Errors

\* The shift of Refill keeps the buffer well formed.
LEMMA ShiftedType ==
  ASSUME NEW b \in Buffers, b.i <= Cap
  PROVE  /\ Shifted(b) \in Buffers
         /\ Kept(b) \in 0 .. Cap - 1
<1>1. b.i \in Nat /\ b.data \in [Slots -> Cells]
  BY DEF Buffers
<1>2. Kept(b) \in 0 .. Cap - 1
  BY <1>1 DEF Kept
<1>3. ASSUME NEW k \in Slots, k < Kept(b)
      PROVE  k + b.i \in Slots
  BY <1>1, <1>3 DEF Kept, Slots
<1>4. [k \in Slots |-> IF k < Kept(b) THEN b.data[k + b.i] ELSE b.data[k]]
        \in [Slots -> Cells]
  BY <1>1, <1>3
<1>5. QED
  BY <1>2, <1>4 DEF Shifted, Buffers

\* So does the arrival of n bytes.
LEMMA FilledType ==
  ASSUME NEW b \in Buffers, NEW kept \in Nat, NEW n \in Nat
  PROVE  Filled(b, kept, n) \in Buffers
<1>1. ASSUME NEW k \in Slots, ~(k < kept)
      PROVE  b.addr + (k - kept) \in Cells
  BY <1>1 DEF Buffers, Slots, Cells
<1>2. [k \in Slots |-> IF k < kept THEN b.data[k]
                       ELSE IF k < kept + n THEN b.addr + (k - kept)
                       ELSE Fill] \in [Slots -> Cells]
  BY <1>1 DEF Buffers, Cells
<1>3. b.addr + n \in Nat /\ b.syscalls + 1 \in Nat
  BY DEF Buffers
<1>4. QED
  BY <1>2, <1>3 DEF Filled, Buffers

\* What a Refill returns from: an earlier failure, the end of the region, a
\* failing system call, or a positive number of bytes that fit both the buffer
\* and the region.
LEMMA RefilledCases ==
  ASSUME NEW b \in Buffers, ~RefillPanics(b), NEW c \in Refilled(b)
  PROVE  \/ b.err # "nil" /\ c = b
         \/ /\ b.err = "nil" /\ b.i <= Cap
            /\ \/ \E e \in {"EOF", "fault"} : c = Failed(Shifted(b), e)
               \/ \E n \in Nat : /\ 0 < n /\ n <= Cap - Kept(b) /\ n <= End - b.addr
                                 /\ n \in ReadLens(b.addr, Smaller(Cap - Kept(b), End - b.addr))
                                 /\ c = Filled(Shifted(b), Kept(b), n)
<1>1. CASE b.err # "nil"
  BY <1>1 DEF Refilled
<1>2. CASE b.err = "nil"
  <2>1. b.i <= Cap
    BY <1>2 DEF RefillPanics, Buffers
  <2>2. CASE c \in {Failed(Shifted(b), "EOF"), Failed(Shifted(b), "fault")}
    BY <1>2, <2>1, <2>2
  <2>3. CASE \E n \in ReadLens(b.addr, Smaller(Cap - Kept(b), End - b.addr)) :
                c = Filled(Shifted(b), Kept(b), n)
    <3>1. PICK n \in ReadLens(b.addr, Smaller(Cap - Kept(b), End - b.addr)) :
                c = Filled(Shifted(b), Kept(b), n)
      BY <2>3
    <3>2. Kept(b) \in Int /\ b.addr \in Nat
      BY <2>1, ShiftedType DEF Buffers
    <3>3. n \in Nat /\ 0 < n /\ n <= Cap - Kept(b) /\ n <= End - b.addr
      BY <3>2 DEF ReadLens, Smaller
    <3>4. QED
      BY <1>2, <2>1, <3>1, <3>3
  <2>4. QED
    BY <1>2, <2>2, <2>3 DEF Refilled
<1>3. QED
  BY <1>1, <1>2

\* A Refill that does not panic leaves a well-formed buffer.
LEMMA RefilledType ==
  ASSUME NEW b \in Buffers, ~RefillPanics(b), NEW c \in Refilled(b)
  PROVE  c \in Buffers
<1>1. CASE b.err # "nil" /\ c = b
  BY <1>1
<1>2. CASE b.i <= Cap /\ \E e \in {"EOF", "fault"} : c = Failed(Shifted(b), e)
  BY <1>2, ShiftedType DEF Failed, Buffers, Errors
<1>3. CASE b.i <= Cap /\ \E n \in Nat : c = Filled(Shifted(b), Kept(b), n)
  BY <1>3, ShiftedType, FilledType
<1>4. QED
  BY <1>1, <1>2, <1>3, RefilledCases

\* What Next and Peek hand out is a sequence of cells.
LEMMA SliceType ==
  ASSUME NEW b \in Buffers, NEW from \in Nat, NEW n \in Nat, from + n <= Cap
  PROVE  Slice(b, from, n) \in Seq(Cells)
<1>1. ASSUME NEW k \in 1 .. n
      PROVE  b.data[from + k - 1] \in Cells
  BY DEF Buffers, Slots
<1>2. QED
  BY <1>1 DEF Slice
-----------------------------------------------------------------------------
(***************************************************************************)
(* Cells: what a Refill leaves where.                                      *)
(***************************************************************************)


\* The buffer after a system call that returned n bytes, cell by cell.
LEMMA FilledCells ==
  ASSUME NEW b \in Buffers, b.i <= Cap, NEW n \in Nat, NEW c,
         c = Filled(Shifted(b), Kept(b), n)
  PROVE  /\ c.i = 0 /\ c.err = b.err /\ c.addr = b.addr + n
         /\ \A k \in Slots :
              /\ k < Kept(b) => k + b.i \in Slots /\ c.data[k] = b.data[k + b.i]
              /\ Kept(b) <= k /\ k < Kept(b) + n => c.data[k] = b.addr + (k - Kept(b))
              /\ Kept(b) + n <= k => c.data[k] = Fill
<1>1. b.i \in Nat /\ Kept(b) \in 0 .. Cap - 1 /\ Shifted(b) \in Buffers
  BY ShiftedType DEF Buffers
<1>2. Shifted(b).i = 0 /\ Shifted(b).err = b.err /\ Shifted(b).addr = b.addr
  BY DEF Shifted, Buffers
<1>3. \A k \in Slots : k < Kept(b) => k + b.i \in Slots
                                      /\ Shifted(b).data[k] = b.data[k + b.i]
  <2>1. \A k \in Slots : k < Kept(b) => k + b.i \in Slots
    BY <1>1 DEF Kept, Slots
  <2>2. QED
    BY <2>1 DEF Shifted, Buffers
<1>4. /\ c.i = Shifted(b).i /\ c.err = Shifted(b).err
      /\ c.addr = Shifted(b).addr + n
      /\ c.data = [k \in Slots |->
                     IF k < Kept(b) THEN Shifted(b).data[k]
                     ELSE IF k < Kept(b) + n THEN Shifted(b).addr + (k - Kept(b))
                     ELSE Fill]
  BY <1>1 DEF Filled, Buffers
<1>5. QED
  BY <1>1, <1>2, <1>3, <1>4 DEF Slots
\* The buffer a Refill leaves when it fails: the unread bytes are moved to the
\* front, and nothing else of them changes.
LEMMA FailedCells ==
  ASSUME NEW b \in Buffers, b.i <= Cap, NEW e, NEW c, c = Failed(Shifted(b), e)
  PROVE  /\ c.i = 0 /\ c.err = e /\ c.addr = b.addr /\ c.syscalls = b.syscalls
         /\ \A k \in 0 .. Cap - b.i - 1 : c.data[k] = b.data[k + b.i]
<1>1. /\ c.i = 0 /\ c.err = e /\ c.addr = b.addr /\ c.syscalls = b.syscalls
      /\ c.data = Shifted(b).data
  BY DEF Failed, Shifted, Buffers
<1>2. ASSUME NEW k \in 0 .. Cap - b.i - 1
      PROVE  Shifted(b).data[k] = b.data[k + b.i]
  <2>1. b.i \in Nat /\ k \in Slots
    BY DEF Buffers, Slots
  <2>2. Shifted(b).data[k] = IF k < Kept(b) THEN b.data[k + b.i] ELSE b.data[k]
    BY <2>1 DEF Shifted, Buffers
  <2>3. k < Kept(b) \/ b.i = 0
    BY <2>1 DEF Kept
  <2>4. QED
    BY <2>1, <2>2, <2>3
<1>3. QED
  BY <1>1, <1>2

\* A Refill that turns a working buffer into a failed one is Failed(Shifted(..)).
LEMMA FailingRefill ==
  ASSUME NEW b \in Buffers, ~RefillPanics(b), b.err = "nil",
         NEW c \in Refilled(b), c.err # "nil"
  PROVE  b.i <= Cap /\ \E e \in {"EOF", "fault"} : c = Failed(Shifted(b), e)
<1>1. ASSUME b.i <= Cap, NEW n \in Nat, c = Filled(Shifted(b), Kept(b), n)
      PROVE  FALSE
  BY <1>1, FilledCells
<1>2. QED
  BY <1>1, RefilledCases

\* A Refill that returns nil is Filled(Shifted(..)) with at least one byte.
LEMMA WorkingRefill ==
  ASSUME NEW b \in Buffers, ~RefillPanics(b), NEW c \in Refilled(b), c.err = "nil"
  PROVE  /\ b.i <= Cap
         /\ \E n \in Nat : n <= Cap - Kept(b) /\ c = Filled(Shifted(b), Kept(b), n)
<1>1. ASSUME NEW e \in {"EOF", "fault"}
      PROVE  Failed(Shifted(b), e).err = e
  BY DEF Failed, Shifted, Buffers
<1>2. QED
  BY <1>1, RefilledCases
-----------------------------------------------------------------------------
(***************************************************************************)
(* Windows: a buffer that no short read has torn.                          *)
(***************************************************************************)


\* The buffer is one window of the region, followed by zeros only at its end.
Windowed(b) == /\ b.data[0] \in Nat
             /\ b.addr = Smaller(b.data[0] + Cap, End)
             /\ b.data[0] < b.addr
             /\ \A k \in Slots : b.data[k] = IF b.data[0] + k < End
                                             THEN b.data[0] + k ELSE Fill

\* What holds of a buffer that the disciplined client has not seen fail.
Sound(b) == /\ b.i <= Cap
            /\ b.syscalls > 0 => Windowed(b)
            /\ b.syscalls = 0 => b.i = 0

\* Position, as a function of the buffer.
At(b) == IF b.syscalls > 0 THEN b.data[0] + b.i ELSE b.addr
\* A Refill that reads everything it asks for slides the window to the read
\* index.
LEMMA RefilledWindow ==
  ASSUME Edges = {}, NEW b \in Buffers, b.err = "nil", Sound(b),
         b.i # 0 \/ b.syscalls = 0,
         NEW c \in Refilled(b), c.err = "nil"
  PROVE  c.i = 0 /\ c.syscalls > 0 /\ Windowed(c) /\ c.data[0] = At(b)
<1>1. ~RefillPanics(b) /\ b.i <= Cap /\ b.i \in Nat /\ b.addr \in Nat
  BY DEF Sound, RefillPanics, Buffers
<1>2. PICK n \in Nat : /\ 0 < n
                       /\ n \in ReadLens(b.addr, Smaller(Cap - Kept(b), End - b.addr))
                       /\ c = Filled(Shifted(b), Kept(b), n)
  <2>1. ASSUME NEW e \in {"EOF", "fault"}
        PROVE  Failed(Shifted(b), e).err = e
    BY DEF Failed, Shifted, Buffers
  <2>2. QED
    BY <1>1, <2>1, RefilledCases
<1>3. n = Smaller(Cap - Kept(b), End - b.addr)
  BY <1>2 DEF ReadLens
<1>4. Kept(b) \in 0 .. Cap - 1
  BY <1>1, ShiftedType
<1>5. n <= Cap - Kept(b) /\ n <= End - b.addr
      /\ (n = Cap - Kept(b) \/ n = End - b.addr)
  BY <1>1, <1>3, <1>4 DEF Smaller
<1>6. /\ c.i = 0 /\ c.addr = b.addr + n
      /\ \A k \in Slots :
           /\ k < Kept(b) => k + b.i \in Slots /\ c.data[k] = b.data[k + b.i]
           /\ Kept(b) <= k /\ k < Kept(b) + n => c.data[k] = b.addr + (k - Kept(b))
           /\ Kept(b) + n <= k => c.data[k] = Fill
  BY <1>1, <1>2, FilledCells
<1>7. c.syscalls > 0
  <2>1. Shifted(b) \in Buffers
    BY <1>1, ShiftedType
  <2>2. QED
    BY <1>2, <2>1 DEF Filled, Buffers
<1>8. At(b) \in Nat /\ At(b) + Kept(b) = b.addr /\ At(b) < End
  <2>1. CASE b.syscalls = 0
    BY <1>1, <1>2, <1>5, <2>1 DEF Sound, At, Kept
  <2>2. CASE b.syscalls > 0
    <3>1. b.addr # End
      BY <1>1, <1>2, <1>5
    <3>2. b.data[0] \in Nat /\ b.addr = b.data[0] + Cap
      BY <2>2, <3>1 DEF Sound, Windowed, Smaller
    <3>3. b.i # 0
      BY <2>2
    <3>4. QED
      BY <1>1, <1>2, <1>5, <2>2, <3>2, <3>3 DEF At, Kept
  <2>3. b.syscalls \in Nat
    BY DEF Buffers
  <2>4. QED
    BY <2>1, <2>2, <2>3
<1>9. ASSUME NEW k \in Slots
      PROVE  c.data[k] = IF At(b) + k < End THEN At(b) + k ELSE Fill
  <2>1. k \in Nat /\ k < Cap
    BY DEF Slots
  <2>2. CASE k < Kept(b)
    <3>1. c.data[k] = b.data[k + b.i] /\ k + b.i \in Slots
      BY <1>6, <2>2
    <3>2. b.syscalls > 0
      BY <1>4, <2>1, <2>2 DEF Sound, Kept, Buffers
    <3>3. b.addr # End
      BY <1>1, <1>2, <1>5
    <3>4. b.data[k + b.i] = b.data[0] + (k + b.i)
      BY <1>1, <1>2, <1>5, <2>1, <3>1, <3>2, <3>3 DEF Sound, Windowed, Smaller, Slots
    <3>5. At(b) + k < End
      BY <1>1, <1>2, <1>5, <1>8, <2>1, <2>2, <1>4
    <3>6. b.data[0] \in Nat
      BY <3>2 DEF Sound, Windowed
    <3>7. QED
      BY <1>1, <2>1, <3>1, <3>2, <3>4, <3>5, <3>6 DEF At
  <2>3. CASE Kept(b) <= k /\ k < Kept(b) + n
    BY <1>1, <1>2, <1>4, <1>5, <1>6, <1>8, <2>1, <2>3
  <2>4. CASE Kept(b) + n <= k
    BY <1>1, <1>2, <1>4, <1>5, <1>6, <1>8, <2>1, <2>4
  <2>5. QED
    BY <1>2, <1>4, <2>1, <2>2, <2>3, <2>4
<1>10. c.data[0] = At(b)
  BY <1>8, <1>9 DEF Slots
<1>11. c.addr = Smaller(At(b) + Cap, End) /\ At(b) < c.addr
  BY <1>1, <1>2, <1>4, <1>5, <1>6, <1>8 DEF Smaller
<1>12. QED
  BY <1>6, <1>7, <1>8, <1>9, <1>10, <1>11 DEF Windowed
\* Before Next slices its result, the buffer holds the window that starts at or
\* before the stream's position.
LEMMA ReadyWindow ==
  ASSUME Edges = {}, NEW b \in Buffers, b.err = "nil", Sound(b),
         NEW l \in Nat, l <= Cap, NEW c \in Ready(b, l), c.err = "nil"
  PROVE  /\ c \in Buffers /\ Windowed(c) /\ c.syscalls > 0
         /\ c.i + l <= Cap /\ c.data[0] + c.i = At(b)
<1>1. b.i \in Nat /\ b.i <= Cap /\ b.syscalls \in Nat
  BY DEF Sound, Buffers
<1>2. CASE ~NeedsRefill(b, l)
  BY <1>1, <1>2 DEF Ready, NeedsRefill, Sound, At
<1>3. CASE NeedsRefill(b, l)
  <2>1. c \in Refilled(b)
    BY <1>3 DEF Ready
  <2>2. b.i # 0 \/ b.syscalls = 0
    BY <1>1, <1>3 DEF NeedsRefill
  <2>3. c.i = 0 /\ c.syscalls > 0 /\ Windowed(c) /\ c.data[0] = At(b)
    BY <2>1, <2>2, RefilledWindow
  <2>4. c \in Buffers
    BY <1>1, <2>1, RefilledType DEF RefillPanics
  <2>5. c.data[0] \in Nat
    BY <2>3 DEF Windowed
  <2>6. QED
    BY <2>3, <2>4, <2>5
<1>4. QED
  BY <1>2, <1>3
\* A step that neither fetches nor fails keeps a sound buffer sound.
LEMMA SameWindow ==
  ASSUME NEW b \in Buffers, NEW c \in Buffers, Sound(b), c.data = b.data,
         c.addr = b.addr, c.syscalls = b.syscalls, c.i <= Cap,
         b.syscalls = 0 => c.i = 0
  PROVE  Sound(c)
BY DEF Sound, Windowed
=============================================================================
