----------------------------- MODULE MemBuffer -----------------------------
(***************************************************************************)
(* One memory.Buffer and a client that calls its methods in any order.     *)
(* Each method is one action: the type is not safe for concurrent use and  *)
(* nothing in the repository shares one.                                   *)
(***************************************************************************)
EXTENDS BufferCore, Sequences

CONSTANTS
  Lens,      \* lengths passed to Next, Rewind and Discard
  Targets,   \* addresses passed to Reset
  MaxI       \* bound: Discard is not called beyond this index

ASSUME ClientAssumption == Lens \subseteq Nat /\ Targets \subseteq Nat /\ MaxI \in Nat

VARIABLES
  buf,   \* the Buffer
  res,   \* the last call, how it ended, and the bytes last handed out
  seen   \* history: addresses delivered since the last Reset or Rewind

vars == <<buf, res, seen>>

Calls == {"NewBuffer", "Reset", "Next", "Peek", "Rewind", "Discard", "Refill"}
Outcomes == {"ok", "EOF", "fault", "panic"}

Init == /\ buf = Cleared(Start)
        /\ res = [op |-> "NewBuffer", outcome |-> "ok", out |-> << >>]
        /\ seen = {}

\* A panic ends the program: nothing in the repository recovers from one.
Alive == res.outcome # "panic"

Return(op, outcome, out) == res' = [op |-> op, outcome |-> outcome, out |-> out]
Panic(op) == Return(op, "panic", << >>) /\ UNCHANGED <<buf, seen>>

Reset(a) == Alive /\ buf' = Cleared(a) /\ Return("Reset", "ok", << >>) /\ seen' = {}

Genuine(s) == {s[k] : k \in DOMAIN s} \ {Fill}

NextFails(l) ==
  /\ Alive
  /\ NeedsRefill(buf, l)
  /\ ~RefillPanics(buf)
  /\ \E b \in Refilled(buf) :
       b.err # "nil" /\ buf' = b /\ Return("Next", b.err, << >>)
  /\ UNCHANGED seen

NextDelivers(l) ==
  /\ Alive
  /\ ~(NeedsRefill(buf, l) /\ RefillPanics(buf))
  /\ \E b \in Ready(buf, l) :
       /\ NeedsRefill(buf, l) => b.err = "nil"
       /\ b.i + l <= Cap
       /\ buf' = Advanced(b, l)
       /\ Return("Next", "ok", Slice(b, b.i, l))
       /\ seen' = seen \cup Genuine(Slice(b, b.i, l))

\* Either Refill slices past the buffer, or l does not fit even after it.
NextPanics(l) ==
  /\ Alive
  /\ NeedsRefill(buf, l)
  /\ RefillPanics(buf) \/ \E b \in Refilled(buf) : b.err = "nil" /\ b.i + l > Cap
  /\ Panic("Next")

PeekReturns == /\ Alive
               /\ buf.i <= Cap
               /\ Return("Peek", "ok", Slice(buf, buf.i, Cap - buf.i))
               /\ UNCHANGED <<buf, seen>>

PeekPanics == Alive /\ buf.i > Cap /\ Panic("Peek")

Rewind(l) == /\ Alive
             /\ buf' = Rewound(buf, l)
             /\ Return("Rewind", "ok", res.out)
             /\ seen' = {}

Discard(n) == /\ Alive
              /\ buf.i + n <= MaxI
              /\ buf' = Advanced(buf, n)
              /\ Return("Discard", "ok", res.out)
              /\ UNCHANGED seen

RefillReturns ==
  /\ Alive
  /\ ~RefillPanics(buf)
  /\ buf' \in Refilled(buf)
  /\ Return("Refill", IF buf'.err = "nil" THEN "ok" ELSE buf'.err, res.out)
  /\ UNCHANGED seen

RefillCrashes == Alive /\ RefillPanics(buf) /\ Panic("Refill")

Next ==
  \/ \E a \in Targets : Reset(a)
  \/ \E l \in Lens : NextFails(l) \/ NextDelivers(l) \/ NextPanics(l)
                     \/ Rewind(l) \/ Discard(l)
  \/ PeekReturns
  \/ PeekPanics
  \/ RefillReturns
  \/ RefillCrashes

Spec == Init /\ [][Next]_vars

-----------------------------------------------------------------------------
(***************************************************************************)
(* Properties of every client.                                             *)
(***************************************************************************)

\* Type invariant: the buffer never grows or shrinks its data, the fetch
\* address stays a natural number, and results are sequences of cells.
TypeOK == /\ buf \in Buffers
          /\ res.op \in Calls /\ res.outcome \in Outcomes /\ res.out \in Seq(Cells)
          /\ seen \subseteq Nat

\* As long as no Refill has failed, the genuine bytes in the buffer come from
\* below the fetch address and are in address order, each at most once:
\* however Refill, Rewind, Discard and short reads are mixed, the shift never
\* duplicates or reorders a byte.
Ordered(b) ==
  \A k \in Slots : b.data[k] # Fill =>
    b.data[k] < b.addr /\ \A j \in 0 .. k - 1 : b.data[j] < b.data[k]

InOrder == buf.err = "nil" => Ordered(buf)

\* Until the first failure, Next never delivers a byte a second time unless
\* the client called Rewind or Reset in between.
NoRepeat == [][res'.op = "Next" /\ res'.outcome = "ok" /\ buf'.err = "nil"
                 => Genuine(res'.out) \cap seen = {}]_vars

\* Nothing from past the end of the region is ever fetched into the buffer, not
\* even while a failure has left old bytes in it.
Inside(b) == \A k \in Slots : b.data[k] < End

WithinRegion == Inside(buf)

\* The failure of a Refill is final until Reset, and it costs no data: the bytes
\* that were unread are still the first unread bytes.
FailureIsClean ==
  [][/\ buf.err # "nil" /\ res'.op # "Reset" =>
          buf'.err = buf.err /\ buf'.addr = buf.addr
     /\ buf.err = "nil" /\ buf'.err # "nil" =>
          Slice(buf', buf'.i, Cap - buf.i) = Slice(buf, buf.i, Cap - buf.i)]_vars

-----------------------------------------------------------------------------
(***************************************************************************)
(* The client the type is written for: it stops at the first error, as     *)
(* TestMemBuffer and Find do, does not look at or discard bytes that were  *)
(* never fetched, does not ask for more than the buffer holds, and calls   *)
(* Refill itself only where there is nothing to overwrite.                 *)
(***************************************************************************)
Open == buf.err = "nil"
Fetched == buf.syscalls > 0

StreamNext ==
  \/ \E a \in Targets : Reset(a)
  \/ /\ Open
     /\ \/ \E l \in Lens : l <= Cap /\ (NextFails(l) \/ NextDelivers(l) \/ NextPanics(l))
        \/ \E l \in Lens : Rewind(l)
        \/ \E n \in Lens : Fetched /\ buf.i + n <= Cap /\ Discard(n)
        \/ Fetched /\ (PeekReturns \/ PeekPanics)
        \/ (buf.i # 0 \/ ~Fetched) /\ (RefillReturns \/ RefillCrashes)

StreamSpec == Init /\ [][StreamNext]_vars

Position == IF ~Open THEN -1
            ELSE IF Fetched THEN buf.data[0] + buf.i ELSE buf.addr

StreamState == IF ~Alive THEN "panicked" ELSE IF Open THEN "open" ELSE "failed"

Stream == INSTANCE ByteStream WITH
            pos <- Position, st <- StreamState, out <- res.out, Window <- Cap

\* With reads that are never short (Edges = {}), the buffer shows such a client
\* the region as one stream: no byte is lost, repeated or misplaced across
\* refills, failures are final, and no call panics.
ImplementsStream == Stream!Spec

-----------------------------------------------------------------------------
(***************************************************************************)
(* The loop of TestMemBuffer: Next until it fails.                         *)
(***************************************************************************)
ReaderNext == /\ Open
              /\ \E l \in Lens \ {0} : l <= Cap /\ (NextFails(l) \/ NextDelivers(l))

\* Fairness: the loop has no other exit than an error.
ReaderSpec == Init /\ [][ReaderNext]_vars /\ WF_vars(ReaderNext)

Unread(b) == {b.data[k] : k \in b.i .. Cap - 1} \ {Fill}

\* Every byte fetched so far has been delivered or is still unread in the
\* buffer, whatever the read lengths and however short the system calls.
NothingLost == \A a \in Start .. buf.addr - 1 : a \in seen \cup Unread(buf)

\* The loop ends: Next does not hand out the zeroed rest of the buffer forever.
ReachesEnd == <>(buf.err # "nil")
=============================================================================
