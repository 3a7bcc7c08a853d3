----------------------------- MODULE ByteStream -----------------------------
(***************************************************************************)
(* What a client of memory.Buffer is meant to see: the region's bytes in   *)
(* order from a position, zeros past the end of the region, and one        *)
(* failure that lasts until Reset.  There is no buffer here.               *)
(***************************************************************************)
EXTENDS Integers, Sequences

CONSTANTS Start, End, Lens, Targets, Window, Fill

VARIABLES
  pos,    \* address of the next byte
  st,     \* "open" or "failed"
  out     \* what the last call that returns bytes returned

vars == <<pos, st, out>>

NoPos == -1     \* the position of a failed stream is of no use to anyone

Bytes(p, n) == [k \in 1 .. n |-> IF p + k - 1 < End THEN p + k - 1 ELSE Fill]

Init == pos = Start /\ st = "open" /\ out = << >>

Deliver(l) == st = "open" /\ pos' = pos + l /\ out' = Bytes(pos, l) /\ UNCHANGED st

\* The bytes at hand, of which there are at most Window.
Look == st = "open" /\ (\E n \in 0 .. Window : out' = Bytes(pos, n)) /\ UNCHANGED <<pos, st>>

Skip(n) == st = "open" /\ pos' = pos + n /\ UNCHANGED <<st, out>>

\* The stream goes back as far as the bytes at hand reach.
Back(n) == st = "open" /\ (\E m \in 0 .. n : pos' = pos - m) /\ UNCHANGED <<st, out>>

Fail == st = "open" /\ st' = "failed" /\ pos' = NoPos /\ out' \in {out, << >>}

Reopen(a) == st' = "open" /\ pos' = a /\ out' = << >>

Next == \/ \E l \in Lens : Deliver(l) \/ Skip(l) \/ Back(l)
        \/ Look
        \/ Fail
        \/ \E a \in Targets : Reopen(a)

Spec == Init /\ [][Next]_vars
=============================================================================
