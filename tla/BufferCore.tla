----------------------------- MODULE BufferCore -----------------------------
(***************************************************************************)
(* The struct memory.Buffer and what its methods compute                   *)
(* (src/memory/buffer.go).  Target memory is represented by addresses: the *)
(* byte read at address a is the value a, and a zero written by the buffer *)
(* itself is Fill, so a byte says where it came from.                      *)
(***************************************************************************)
EXTENDS Integers

CONSTANTS
  Start,   \* the address NewBuffer was given (Buffer.start)
  End,     \* the first address past the region (Buffer.end)
  Cap,     \* len(data) = cap(data)
  Edges    \* page boundaries where the target's mapping may end: a read that
           \* crosses one may stop there

ASSUME RegionAssumption == Start \in Nat /\ End \in Nat /\ Start <= End
ASSUME CapAssumption == Cap \in Nat \ {0}
ASSUME EdgesAssumption == Edges \subseteq Nat

Fill == -1
Slots == 0 .. Cap - 1
Cells == Nat \cup {Fill}
Errors == {"nil", "EOF", "fault"}
Smaller(m, n) == IF m <= n THEN m ELSE n

Buffers == [addr : Nat, data : [Slots -> Cells], i : Nat, err : Errors,
            syscalls : Nat]

Zeroed == [k \in Slots |-> Fill]

\* Reset(addr), and NewBuffer with addr = Start: `start` is not a field here
\* because nothing assigns it.
Cleared(a) == [addr |-> a, data |-> Zeroed, i |-> 0, err |-> "nil",
               syscalls |-> 0]

(***************************************************************************)
(* Refill: shift the unread bytes down, then one process_vm_readv.         *)
(***************************************************************************)
\* Mutant: the unread bytes are not shifted.
MutKept(b) == 0

\* What copy() returns.  With i = 0 the copy is skipped and n stays 0: unread
\* bytes are then overwritten, not kept.
Kept(b) == IF b.i = 0 THEN 0 ELSE Cap - b.i

Shifted(b) ==
  [b EXCEPT !.i = 0,
            !.data = [k \in Slots |-> IF k < Kept(b) THEN b.data[k + b.i]
                                                     ELSE b.data[k]]]

\* The system call reads everything asked for or stops at an Edge; a length
\* that is not positive (addr past End) reads nothing and fails.
ReadLens(a, want) ==
  {n \in 1 .. want : n = want \/ a + n \in Edges}

\* Mutants: the rest is not zeroed; the fetch address stays.
MutFilledStale(b, kept, n) ==
  [b EXCEPT !.data = [k \in Slots |-> IF k \in kept .. kept + n - 1
                                      THEN b.addr + (k - kept) ELSE b.data[k]],
            !.addr = @ + n,
            !.syscalls = @ + 1]

MutFilledInPlace(b, kept, n) ==
  [MutFilledStale(b, kept, n) EXCEPT !.addr = b.addr]

\* n bytes arrived behind the `kept` ones, and the rest is zeroed.
Filled(b, kept, n) ==
  [b EXCEPT !.data = [k \in Slots |->
                        IF k < kept THEN b.data[k]
                        ELSE IF k < kept + n THEN b.addr + (k - kept)
                        ELSE Fill],
            !.addr = @ + n,
            !.syscalls = @ + 1]

Failed(b, e) == [b EXCEPT !.err = e]

\* data[i:] with i > len(data)
RefillPanics(b) == b.err = "nil" /\ b.i > Cap

\* Mutants: a failed buffer tries again; the end of the region is ignored.
MutRefilledRetries(b) ==
  LET s == Shifted(b)
      want == Smaller(Cap - Kept(b), End - b.addr)
  IN  IF b.addr = End THEN {Failed(s, "EOF")}
      ELSE {Failed(s, "fault")} \cup
           {[Filled(s, Kept(b), n) EXCEPT !.err = "nil"] : n \in ReadLens(b.addr, want)}

MutRefilledUnclamped(b) ==
  IF b.err # "nil" THEN {b}
  ELSE IF b.addr = End THEN {Failed(Shifted(b), "EOF")}
  ELSE {Filled(Shifted(b), Kept(b), n) : n \in ReadLens(b.addr, Cap - Kept(b))}

\* Every buffer a Refill that does not panic can leave; its err is the value
\* Refill returns.
Refilled(b) ==
  LET s == Shifted(b)
      want == Smaller(Cap - Kept(b), End - b.addr)
  IN  IF b.err # "nil" THEN {b}
      ELSE IF b.addr = End THEN {Failed(s, "EOF")}
      ELSE {Failed(s, "fault")} \cup
           {Filled(s, Kept(b), n) : n \in ReadLens(b.addr, want)}

(***************************************************************************)
(* Next, Rewind and Discard on the read index.                             *)
(***************************************************************************)
NeedsRefill(b, l) == b.i + l > Cap \/ b.syscalls = 0

\* The buffers Next may slice its result from, or return the error of.
Ready(b, l) == IF NeedsRefill(b, l) THEN Refilled(b) ELSE {b}

\* Mutant: the bytes handed out are not consumed.
MutAdvanced(b, n) == b

Advanced(b, n) == [b EXCEPT !.i = @ + n]

\* Mutants: no clamp at the start; the operands of the subtraction swapped.
MutRewound(b, l) == [b EXCEPT !.i = @ - l]
MutRewoundSwapped(b, l) == [b EXCEPT !.i = IF l > @ THEN 0 ELSE l - @]

Rewound(b, l) == [b EXCEPT !.i = IF l > @ THEN 0 ELSE @ - l]

\* data[from : from+n] as a sequence
Slice(b, from, n) == [k \in 1 .. n |-> b.data[from + k - 1]]
=============================================================================
