----------------------------- MODULE BatchRead -----------------------------
(***************************************************************************)
(* runtime.Collector over a ReadContext: requests are queued by Add and    *)
(* read by Flush, either by Process.ReadBatch (one process_vm_readv per    *)
(* chunk of MaxIov requests) or, over a reader that cannot batch, one after*)
(* the other with Seek and Read.  The target runs on: it writes and unmaps *)
(* memory between any two transfers, inside one system call too.           *)
(***************************************************************************)
EXTENDS Integers, Sequences

CONSTANTS
  Addrs,      \* the target's addresses, in units that are mapped as a whole
  Requests,   \* arguments of Add: [addr, len]
  MaxIov,     \* maxBatchIov
  MaxAdds,    \* bound: calls of Add in a behaviour
  MaxClock    \* bound: steps of the target

ASSUME AddrsAssumption == Addrs \subseteq Nat
ASSUME RequestsAssumption == Requests \subseteq [addr : Nat, len : Nat]
ASSUME IovAssumption == MaxIov \in Nat \ {0}
ASSUME BoundsAssumption == MaxAdds \in Nat /\ MaxClock \in Nat

VARIABLES
  mapped,     \* addresses that can be read
  clock,      \* steps the target has made
  batching,   \* the ReadSeeker implements BatchReader
  asked,      \* history: the request of each call of Add
  bufs,       \* the buffer each call of Add returned
  reqs,       \* Collector.reqs: the queued buffers, by their index in bufs
  pc,         \* "idle", in ReadBatch "chunk", "transfer", "returned",
              \* in the fallback "seek", "read"
  offset,     \* ReadBatch: queue position before the chunk
  at,         \* queue position of the request being read
  n,          \* bytes read by this system call, or by this ReadFull
  seek,       \* Process.i
  result,     \* what the last Flush returned
  flushed,    \* history: the queue of the last Flush
  started     \* history: the clock when it was called

target == <<mapped, clock>>
queue == <<asked, reqs>>
history == <<flushed, started>>
vars == <<mapped, clock, batching, asked, bufs, reqs, pc, offset, at, n, seek, result,
          flushed, started>>

\* A byte of a buffer: the address it was read from and when, or still zero.
Zero == [addr |-> -1, time |-> 0]
Cells == [addr : Nat, time : Nat] \cup {Zero}

Init == /\ mapped \in SUBSET Addrs /\ clock = 0
        /\ batching \in BOOLEAN
        /\ asked = << >> /\ bufs = << >> /\ reqs = << >>
        /\ pc = "idle" /\ offset = 0 /\ at = 1 /\ n = 0 /\ seek = 0
        /\ result = "none" /\ flushed = << >> /\ started = 0

\* Mutant: one byte too many.
MutAdd(r) == /\ pc = "idle" /\ Len(bufs) < MaxAdds
             /\ asked' = Append(asked, r)
             /\ bufs' = Append(bufs, [j \in 1 .. r.len + 1 |-> Zero])
             /\ reqs' = Append(reqs, Len(bufs) + 1)
             /\ UNCHANGED <<target, batching, pc, offset, at, n, seek, result, history>>

Add(r) == /\ pc = "idle" /\ Len(bufs) < MaxAdds
          /\ asked' = Append(asked, r)
          /\ bufs' = Append(bufs, [j \in 1 .. r.len |-> Zero])
          /\ reqs' = Append(reqs, Len(bufs) + 1)
          /\ UNCHANGED <<target, batching, pc, offset, at, n, seek, result, history>>

\* Flush, and ReadBatch of the context: the reader's own ReadBatch if it has one.
Flush == /\ pc = "idle"
         /\ flushed' = reqs /\ started' = clock
         /\ offset' = 0 /\ at' = 1
         /\ IF reqs = << >> THEN result' = "ok" /\ UNCHANGED pc
            ELSE pc' = (IF batching THEN "chunk" ELSE "seek") /\ UNCHANGED result
         /\ UNCHANGED <<target, batching, queue, bufs, n, seek>>

\* Mutant: the queue is kept.
MutFinish(outcome) == pc' = "idle" /\ result' = outcome /\ UNCHANGED reqs

\* Flush returns; the queue is emptied also when the batch has failed.
Finish(outcome) == pc' = "idle" /\ result' = outcome /\ reqs' = << >>

-----------------------------------------------------------------------------
Request(k) == asked[reqs[k]]
Size(k) == Request(k).len

\* What process_vm_readv reads of `len` bytes at address a: all of them or, when some
\* are not mapped, those before; or none, for it depends on the kernel whether part of
\* an iovec is read.
Readable(a, len) == \A j \in 0 .. len - 1 : a + j \in mapped
Counts(a, len) == IF Readable(a, len) THEN {len}
                  ELSE {0} \cup {c \in 0 .. len : Readable(a, c) /\ ~Readable(a, c + 1)}

\* The buffers after c bytes at a are read into that of queue position k, behind the
\* first `from` bytes.
Stored(k, from, a, c) ==
  [bufs EXCEPT ![reqs[k]] =
     [j \in DOMAIN @ |-> IF j \in from + 1 .. from + c
                         THEN [addr |-> a + j - from - 1, time |-> clock] ELSE @[j]]]

-----------------------------------------------------------------------------
(***************************************************************************)
(* Process.ReadBatch.                                                      *)
(***************************************************************************)
Smaller(x, y) == IF x < y THEN x ELSE y
end == Smaller(offset + MaxIov, Len(reqs))
chunk == offset + 1 .. end

BuildIovecs ==
  /\ pc = "chunk"
  /\ IF \E k \in chunk : Size(k) = 0
     THEN Finish("error") /\ UNCHANGED <<at, n>>
     ELSE pc' = "transfer" /\ at' = offset + 1 /\ n' = 0 /\ UNCHANGED <<result, reqs>>
  /\ UNCHANGED <<target, batching, asked, bufs, offset, seek, history>>

\* One iovec of the system call, which ends with the chunk or with the first one that
\* cannot be read to its end.
Transfer ==
  /\ pc = "transfer"
  /\ \E c \in Counts(Request(at).addr, Size(at)) :
       /\ bufs' = Stored(at, 0, Request(at).addr, c)
       /\ n' = n + c
       /\ pc' = IF c = Size(at) /\ at < end THEN "transfer" ELSE "returned"
  /\ at' = at + 1
  /\ UNCHANGED <<target, batching, queue, offset, seek, result, history>>

Sum[k \in 0 .. Len(reqs)] == IF k <= offset THEN 0 ELSE Sum[k - 1] + Size(k)

\* Mutant: the sum runs over the whole batch.
MutWant == LET SumAll[k \in Nat] == IF k = 0 THEN 0 ELSE SumAll[k - 1] + Size(k)
           IN  SumAll[Len(reqs)]

want == Sum[end]

\* Mutants: a short read passes; the same chunk again.
MutCheckRead ==
  /\ pc = "returned"
  /\ IF n = 0 THEN Finish("error") /\ UNCHANGED offset
     ELSE /\ offset' = offset + MaxIov
          /\ IF offset' < Len(reqs) THEN pc' = "chunk" /\ UNCHANGED <<result, reqs>>
             ELSE Finish("ok")
  /\ UNCHANGED <<target, batching, asked, bufs, at, n, seek, history>>
MutCheckReadAgain ==
  /\ pc = "returned"
  /\ IF n = 0 \/ n # want THEN Finish("error") /\ UNCHANGED offset
     ELSE /\ UNCHANGED offset
          /\ IF offset + MaxIov < Len(reqs) THEN pc' = "chunk" /\ UNCHANGED <<result, reqs>>
             ELSE Finish("ok")
  /\ UNCHANGED <<target, batching, asked, bufs, at, n, seek, history>>

\* The system call fails when it has read nothing at all.
CheckRead ==
  /\ pc = "returned"
  /\ IF n = 0 \/ n # want THEN Finish("error") /\ UNCHANGED offset
     ELSE /\ offset' = offset + MaxIov
          /\ IF offset' < Len(reqs) THEN pc' = "chunk" /\ UNCHANGED <<result, reqs>>
             ELSE Finish("ok")
  /\ UNCHANGED <<target, batching, asked, bufs, at, n, seek, history>>

-----------------------------------------------------------------------------
(***************************************************************************)
(* The fallback: ReadAt for one request after the other.                   *)
(***************************************************************************)
\* Mutant: ReadAt goes on from where the last read ended.
MutSeekTo == /\ pc = "seek"
             /\ n' = 0 /\ pc' = "read"
             /\ UNCHANGED <<target, batching, queue, bufs, offset, at, seek, result, history>>

SeekTo == /\ pc = "seek"
          /\ seek' = Request(at).addr /\ n' = 0 /\ pc' = "read"
          /\ UNCHANGED <<target, batching, queue, bufs, offset, at, result, history>>

\* io.ReadFull: Read again until the buffer is full.
Read == /\ pc = "read" /\ n < Size(at)
        /\ \E c \in Counts(seek, Size(at) - n) :
             /\ c > 0
             /\ bufs' = Stored(at, n, seek, c)
             /\ n' = n + c /\ seek' = seek + c
        /\ UNCHANGED <<target, batching, queue, pc, offset, at, result, history>>

\* Mutant: the next request is read all the same.
MutReadFails ==
  /\ pc = "read" /\ n < Size(at) /\ 0 \in Counts(seek, Size(at) - n)
  /\ IF at < Len(reqs) THEN at' = at + 1 /\ pc' = "seek" /\ UNCHANGED <<result, reqs>>
     ELSE Finish("error") /\ UNCHANGED at
  /\ UNCHANGED <<target, batching, asked, bufs, offset, n, seek, history>>

ReadFails == /\ pc = "read" /\ n < Size(at) /\ 0 \in Counts(seek, Size(at) - n)
             /\ Finish("error")
             /\ UNCHANGED <<target, batching, asked, bufs, offset, at, n, seek, history>>

ReadDone == /\ pc = "read" /\ n = Size(at)
            /\ IF at < Len(reqs)
               THEN at' = at + 1 /\ pc' = "seek" /\ UNCHANGED <<result, reqs>>
               ELSE Finish("ok") /\ UNCHANGED at
            /\ UNCHANGED <<target, batching, asked, bufs, offset, n, seek, history>>

-----------------------------------------------------------------------------
\* The target writes somewhere (m = {}), or unmaps a page.
Target(m) == /\ clock < MaxClock /\ clock' = clock + 1
             /\ mapped' = mapped \ m
             /\ UNCHANGED <<batching, queue, bufs, pc, offset, at, n, seek, result, history>>

\* A step of a Flush that is under way.
Step == BuildIovecs \/ Transfer \/ CheckRead \/ SeekTo \/ Read \/ ReadFails \/ ReadDone
Next == \/ \E r \in Requests : Add(r)
        \/ Flush
        \/ Step
        \/ \E m \in {{}} \cup {{a} : a \in Addrs} : Target(m)

\* Fairness: a Flush that was called goes on; neither client nor target has to do
\* anything.
Spec == Init /\ [][Next]_vars /\ WF_vars(Step)

-----------------------------------------------------------------------------
Flushed == {flushed[k] : k \in DOMAIN flushed}
Full(b) == \A j \in DOMAIN bufs[b] : bufs[b][j] # Zero
Untouched(b) == \A j \in DOMAIN bufs[b] : bufs[b][j] = Zero

\* Type invariant.
TypeOK ==
  /\ mapped \subseteq Addrs /\ clock \in Nat /\ batching \in BOOLEAN
  /\ asked \in Seq(Requests) /\ bufs \in Seq(Seq(Cells)) /\ reqs \in Seq(Nat)
  /\ Len(asked) = Len(bufs)
  /\ \A b \in DOMAIN bufs : Len(bufs[b]) = asked[b].len
  /\ \A k \in DOMAIN reqs : reqs[k] \in DOMAIN bufs
  /\ pc \in {"idle", "chunk", "transfer", "returned", "seek", "read"}
  /\ offset \in Nat /\ at \in Nat \ {0} /\ n \in Nat /\ seek \in Nat
  /\ result \in {"none", "ok", "error"}
  /\ flushed \in Seq(Nat) /\ started \in Nat

\* When Flush returns nil, every buffer added since the Flush before is full, of the
\* bytes of its own addresses, and none is older than the call: chunks that are read
\* in part, read at the seek position of another request or left out are noticed.
FlushFills ==
  pc = "idle" /\ result = "ok" =>
    \A b \in Flushed : \A j \in DOMAIN bufs[b] :
      bufs[b][j].addr = asked[b].addr + j - 1 /\ bufs[b][j].time >= started

\* What a failed Flush leaves: the buffers up to some request are full and those
\* after it untouched, in the order of the calls of Add.
FailureIsPrefix ==
  \A j, k \in DOMAIN flushed : j < k => Full(flushed[j]) \/ Untouched(flushed[k])

\* Flush fails only if the target has unmapped something that was asked for or, when
\* batching, some buffer is empty; neither short reads nor chunk limits fail it.
FailsForReason ==
  pc = "idle" /\ result = "error" =>
    \E b \in Flushed : \/ batching /\ asked[b].len = 0
                       \/ ~Readable(asked[b].addr, asked[b].len)

\* The bytes a caller has got stay: no step overwrites a byte that was read, in this
\* Flush or in an earlier one whose buffers the caller still holds.
BytesKept ==
  [][\A b \in DOMAIN bufs : \A j \in DOMAIN bufs[b] :
       bufs[b][j] # Zero => bufs'[b][j] = bufs[b][j]]_vars

\* Flush returns.
FlushReturns == []<>(pc = "idle")
=============================================================================
