---------------------------- MODULE BatchProofs ----------------------------
(***************************************************************************)
(* BatchRead keeps its types and never overwrites a byte it has read, for  *)
(* every set of requests and chunk size, whatever the target does, in both *)
(* ways of reading.                                                        *)
(***************************************************************************)
EXTENDS BatchRead, WellFoundedInduction, TLAPS

QueueOnce == \A j, k \in DOMAIN reqs : j # k => reqs[j] # reqs[k]

\* The buffers queued at position k and after have not been read into.
Fresh(k) == \A i \in DOMAIN reqs : i >= k => Untouched(reqs[i])

\* Where each step of a Flush stands in the queue, and that all buffers beyond are
\* untouched: with BytesKept as the goal, this is what makes it inductive.
Pending ==
  /\ QueueOnce
  /\ pc = "idle" => Fresh(1)
  /\ pc = "chunk" => Fresh(offset + 1) /\ offset < Len(reqs)
  /\ pc = "transfer" => Fresh(at) /\ at \in offset + 1 .. end
  /\ pc = "returned" => Fresh(end + 1)
  /\ pc = "seek" => Fresh(at) /\ at <= Len(reqs)
  /\ pc = "read" => /\ Fresh(at + 1) /\ at <= Len(reqs) /\ n <= Size(at)
                    /\ \A j \in DOMAIN bufs[reqs[at]] : j > n => bufs[reqs[at]][j] = Zero

IInv == TypeOK /\ Pending

-----------------------------------------------------------------------------
\* What storing c bytes does to the buffers.
LEMMA StoreTypes ==
  ASSUME TypeOK, NEW k \in DOMAIN reqs, NEW from \in Nat, NEW a \in Nat, NEW c \in Nat
  PROVE  /\ Stored(k, from, a, c) \in Seq(Seq(Cells))
         /\ Len(Stored(k, from, a, c)) = Len(bufs)
         /\ \A b \in DOMAIN bufs : Len(Stored(k, from, a, c)[b]) = Len(bufs[b])
<1> DEFINE b0 == reqs[k]
           new == [j \in DOMAIN bufs[b0] |->
                     IF j \in from + 1 .. from + c
                     THEN [addr |-> a + j - from - 1, time |-> clock] ELSE bufs[b0][j]]
<1>1. b0 \in DOMAIN bufs /\ bufs \in Seq(Seq(Cells)) /\ clock \in Nat
  BY DEF TypeOK
<1>2. bufs[b0] \in Seq(Cells)
  BY <1>1
<1>3. \A j \in DOMAIN bufs[b0] : new[j] \in Cells
  <2> TAKE j \in DOMAIN bufs[b0]
  <2>1. CASE j \in from + 1 .. from + c
    <3>1. a + j - from - 1 \in Nat
      BY <1>2, <2>1
    <3> QED
      BY <1>1, <2>1, <3>1 DEF Cells
  <2>2. CASE j \notin from + 1 .. from + c
    BY <1>2, <2>2
  <2> QED
    BY <2>1, <2>2
<1>4. new \in Seq(Cells) /\ Len(new) = Len(bufs[b0])
  <2>1. DOMAIN bufs[b0] = 1 .. Len(bufs[b0]) /\ Len(bufs[b0]) \in Nat
    BY <1>2
  <2>2. new \in [1 .. Len(bufs[b0]) -> Cells]
    BY <1>3, <2>1
  <2> HIDE DEF new
  <2> QED
    BY <2>1, <2>2
<1> HIDE DEF new
<1>5. Stored(k, from, a, c) = [bufs EXCEPT ![b0] = new]
  BY <1>1 DEF Stored, new
<1> QED
  BY <1>1, <1>4, <1>5

\* Other buffers stay, and in this one what lies outside the stored range.
LEMMA StoreElsewhere ==
  ASSUME TypeOK, NEW k \in DOMAIN reqs, NEW from, NEW a, NEW c,
         NEW b \in DOMAIN bufs, b # reqs[k]
  PROVE  Stored(k, from, a, c)[b] = bufs[b]
BY DEF Stored

LEMMA StoreOutside ==
  ASSUME TypeOK, NEW k \in DOMAIN reqs, NEW from, NEW a, NEW c,
         NEW j \in DOMAIN bufs[reqs[k]], j \notin from + 1 .. from + c
  PROVE  Stored(k, from, a, c)[reqs[k]][j] = bufs[reqs[k]][j]
<1>1. reqs[k] \in DOMAIN bufs
  BY DEF TypeOK
<1> QED
  BY <1>1 DEF Stored

\* How many bytes a transfer can bring.
LEMMA CountsBounded ==
  ASSUME NEW a, NEW len \in Nat, NEW c \in Counts(a, len)
  PROVE  c \in 0 .. len
BY DEF Counts

LEMMA SizeType == ASSUME TypeOK, NEW k \in DOMAIN reqs
                  PROVE  /\ Size(k) \in Nat /\ Request(k).addr \in Nat
                         /\ Len(bufs[reqs[k]]) = Size(k)
<1>1. reqs[k] \in DOMAIN bufs /\ reqs[k] \in DOMAIN asked
  BY DEF TypeOK
<1>2. asked[reqs[k]] \in Requests /\ Len(bufs[reqs[k]]) = asked[reqs[k]].len
  BY <1>1 DEF TypeOK
<1> QED
  BY <1>2, RequestsAssumption DEF Size, Request

\* Buffers that were untouched and are not the one stored into still are.
LEMMA FreshBehind ==
  ASSUME TypeOK, QueueOnce, NEW k \in DOMAIN reqs, NEW from \in Nat, NEW a \in Nat,
         NEW c \in Nat, bufs' = Stored(k, from, a, c), reqs' = reqs, Fresh(k + 1)
  PROVE  Fresh(k + 1)'
<1> SUFFICES ASSUME NEW i \in DOMAIN reqs, i >= k + 1
             PROVE  bufs'[reqs[i]] = bufs[reqs[i]]
  BY DEF Fresh, Untouched
<1>1. reqs[i] \in DOMAIN bufs /\ i # k /\ reqs \in Seq(Nat)
  BY DEF TypeOK
<1>2. reqs[i] # reqs[k]
  BY <1>1 DEF QueueOnce
<1> QED
  BY <1>1, <1>2, StoreElsewhere

-----------------------------------------------------------------------------
LEMMA IInvInit == Init => IInv
<1> SUFFICES ASSUME Init PROVE IInv
  OBVIOUS
<1>1. TypeOK
  BY DEF Init, TypeOK
<1>2. Pending
  BY DEF Init, Pending, QueueOnce, Fresh
<1> QED
  BY <1>1, <1>2 DEF IInv

\* Finish leaves an empty queue.
LEMMA FinishPending ==
  ASSUME NEW outcome, Finish(outcome)
  PROVE  Pending'
BY DEF Finish, Pending, QueueOnce, Fresh

LEMMA AddKeeps == ASSUME IInv, NEW r \in Requests, Add(r) PROVE IInv'
<1> DEFINE new == [j \in 1 .. r.len |-> Zero]
<1>1. TypeOK /\ QueueOnce /\ Fresh(1)
  BY DEF IInv, Pending, Add
<1>2. r.len \in Nat /\ new \in Seq(Cells) /\ Len(new) = r.len
  <2>1. r.len \in Nat
    BY RequestsAssumption
  <2>2. new \in [1 .. r.len -> Cells]
    BY DEF Cells
  <2> QED
    BY <2>1, <2>2
<1>3. \A j \in DOMAIN new : new[j] = Zero
  OBVIOUS
<1> HIDE DEF new
<1>4. /\ bufs' = Append(bufs, new) /\ asked' = Append(asked, r)
      /\ reqs' = Append(reqs, Len(bufs) + 1) /\ pc = "idle" /\ pc' = "idle"
  BY DEF Add, new
<1>5. /\ bufs \in Seq(Seq(Cells)) /\ asked \in Seq(Requests) /\ reqs \in Seq(Nat)
      /\ Len(asked) = Len(bufs)
      /\ \A b \in DOMAIN bufs : Len(bufs[b]) = asked[b].len
      /\ \A k \in DOMAIN reqs : reqs[k] \in DOMAIN bufs
  BY <1>1 DEF TypeOK
<1>6. /\ bufs' \in Seq(Seq(Cells)) /\ asked' \in Seq(Requests)
      /\ Len(asked') = Len(bufs') /\ Len(bufs') = Len(bufs) + 1
      /\ \A b \in DOMAIN bufs : bufs'[b] = bufs[b] /\ asked'[b] = asked[b]
      /\ bufs'[Len(bufs) + 1] = new /\ asked'[Len(bufs) + 1] = r
  BY <1>2, <1>4, <1>5
<1>7. /\ reqs' \in Seq(Nat) /\ Len(reqs') = Len(reqs) + 1
      /\ \A k \in DOMAIN reqs : reqs'[k] = reqs[k]
      /\ reqs'[Len(reqs) + 1] = Len(bufs) + 1
  BY <1>4, <1>5
<1>8. \A b \in DOMAIN bufs' : b \in DOMAIN bufs \/ b = Len(bufs) + 1
  BY <1>5, <1>6
<1>9. \A k \in DOMAIN reqs' : k \in DOMAIN reqs \/ k = Len(reqs) + 1
  BY <1>5, <1>7
<1>10. TypeOK'
  <2>1. \A b \in DOMAIN bufs' : Len(bufs'[b]) = asked'[b].len
    BY <1>2, <1>5, <1>6, <1>8
  <2>2. DOMAIN bufs \subseteq DOMAIN bufs' /\ Len(bufs) + 1 \in DOMAIN bufs'
    BY <1>5, <1>6
  <2>3. \A k \in DOMAIN reqs' : reqs'[k] \in DOMAIN bufs'
    BY <1>5, <1>7, <1>9, <2>2
  <2> QED
    BY <1>1, <1>6, <1>7, <2>1, <2>3 DEF TypeOK, Add, target, history
<1>11. \A k \in DOMAIN reqs : reqs[k] # Len(bufs) + 1
  BY <1>5
<1>12. QueueOnce'
  BY <1>1, <1>7, <1>9, <1>11 DEF QueueOnce
<1>13. Fresh(1)'
  <2> SUFFICES ASSUME NEW i \in DOMAIN reqs' PROVE Untouched(reqs[i])'
    BY DEF Fresh
  <2>1. CASE i \in DOMAIN reqs
    <3>1. Untouched(reqs[i])
      BY <1>1, <1>5, <2>1 DEF Fresh
    <3>2. reqs'[i] = reqs[i] /\ bufs'[reqs[i]] = bufs[reqs[i]]
      BY <1>5, <1>6, <1>7, <2>1
    <3> QED
      BY <3>1, <3>2 DEF Untouched
  <2>2. CASE i = Len(reqs) + 1
    <3>1. bufs'[reqs'[i]] = new
      BY <1>6, <1>7, <2>2
    <3> QED
      BY <1>3, <3>1 DEF Untouched
  <2> QED
    BY <1>9, <2>1, <2>2
<1> QED
  BY <1>4, <1>10, <1>12, <1>13 DEF IInv, Pending

LEMMA FlushKeeps == ASSUME IInv, Flush PROVE IInv'
<1>1. TypeOK /\ QueueOnce /\ Fresh(1) /\ reqs \in Seq(Nat)
  BY DEF IInv, Pending, Flush, TypeOK
<1>2. TypeOK'
  BY <1>1 DEF TypeOK, Flush, target, queue
<1>3. QueueOnce' /\ Fresh(1)'
  BY <1>1 DEF QueueOnce, Fresh, Untouched, Flush, queue
<1>4. offset' = 0 /\ at' = 1 /\ pc' \in {"idle", "chunk", "seek"}
      /\ (pc' # "idle" => Len(reqs') > 0)
  BY <1>1 DEF Flush, queue, IInv, Pending
<1> QED
  BY <1>2, <1>3, <1>4 DEF IInv, Pending

LEMMA BuildIovecsKeeps == ASSUME IInv, BuildIovecs PROVE IInv'
<1>1. /\ TypeOK /\ QueueOnce /\ Fresh(offset + 1) /\ reqs \in Seq(Nat)
      /\ offset \in Nat /\ offset < Len(reqs)
  BY DEF IInv, Pending, BuildIovecs, TypeOK
<1>2. CASE Finish("error") /\ UNCHANGED <<at, n>>
  <2>1. TypeOK'
    BY <1>1, <1>2 DEF TypeOK, BuildIovecs, Finish, target, history
  <2> QED
    BY <1>2, <2>1, FinishPending DEF IInv
<1>3. CASE pc' = "transfer" /\ at' = offset + 1 /\ n' = 0 /\ UNCHANGED <<result, reqs>>
  <2>1. TypeOK'
    BY <1>1, <1>3 DEF TypeOK, BuildIovecs, target, history
  <2>2. QueueOnce' /\ Fresh(offset + 1)'
    BY <1>1, <1>3 DEF BuildIovecs, QueueOnce, Fresh, Untouched
  <2>3. offset' = offset /\ end' = end /\ end >= offset + 1 /\ end \in Nat
    BY <1>1, <1>3, IovAssumption DEF BuildIovecs, end, Smaller
  <2> QED
    BY <1>1, <1>3, <2>1, <2>2, <2>3 DEF IInv, Pending
<1> QED
  BY <1>2, <1>3 DEF BuildIovecs

LEMMA TransferKeeps ==
  ASSUME IInv, Transfer
  PROVE  /\ IInv'
         /\ \A b \in DOMAIN bufs : \A j \in DOMAIN bufs[b] :
              bufs[b][j] # Zero => bufs'[b][j] = bufs[b][j]
<1>1. /\ TypeOK /\ QueueOnce /\ Fresh(at) /\ reqs \in Seq(Nat) /\ at \in offset + 1 .. end
      /\ offset \in Nat /\ at \in Nat /\ n \in Nat
  BY DEF IInv, Pending, Transfer, TypeOK
<1>2. end \in Nat /\ end <= Len(reqs) /\ Len(reqs) \in Nat
  BY <1>1, IovAssumption DEF end, Smaller
<1>3. at \in DOMAIN reqs
  BY <1>1, <1>2
<1>4. PICK c \in Counts(Request(at).addr, Size(at)) :
        /\ bufs' = Stored(at, 0, Request(at).addr, c)
        /\ n' = n + c
        /\ pc' = IF c = Size(at) /\ at < end THEN "transfer" ELSE "returned"
  BY DEF Transfer
<1>5. /\ Size(at) \in Nat /\ Request(at).addr \in Nat /\ c \in Nat
      /\ Len(bufs[reqs[at]]) = Size(at)
  BY <1>1, <1>3, SizeType, CountsBounded
<1>6. /\ bufs' \in Seq(Seq(Cells)) /\ Len(bufs') = Len(bufs)
      /\ \A b \in DOMAIN bufs : Len(bufs'[b]) = Len(bufs[b])
  BY <1>1, <1>3, <1>4, <1>5, StoreTypes
<1>7. UNCHANGED <<target, batching, queue, offset, seek, result, history>> /\ at' = at + 1
  BY DEF Transfer
<1>8. TypeOK'
  <2>1. DOMAIN bufs' = DOMAIN bufs
    BY <1>1, <1>6 DEF TypeOK
  <2>2. n' \in Nat /\ at' \in Nat \ {0} /\ seek' \in Nat /\ pc' \in {"transfer", "returned", "read"}
    BY SMTT(30), <1>1, <1>4, <1>5, <1>7 DEF TypeOK
  <2> QED
    BY <1>1, <1>6, <1>7, <2>1, <2>2 DEF TypeOK, target, queue, history
<1>9. PICK p \in Nat : p = at + 1
  BY <1>1
<1>10. Fresh(p)'
  <2>1. Fresh(at + 1) /\ reqs' = reqs
    BY <1>1, <1>7 DEF Fresh, queue
  <2>2. PICK k \in DOMAIN reqs : k = at
    BY <1>3
  <2>3. bufs' = Stored(k, 0, Request(at).addr, c) /\ Fresh(k + 1)
    BY <1>4, <2>1, <2>2
  <2>4. Fresh(k + 1)'
    BY <1>1, <1>5, <2>1, <2>3, FreshBehind
  <2> QED
    BY <1>9, <2>2, <2>4
<1>11. IInv'
  <2>1. end' = end /\ reqs' = reqs /\ offset' = offset
    BY <1>7 DEF end, queue
  <2>2. QueueOnce'
    BY <1>1, <2>1 DEF QueueOnce
  <2>3. CASE pc' = "transfer"
    <3>1. at' \in offset' + 1 .. end'
      BY <1>1, <1>2, <1>4, <1>7, <2>1, <2>3
    <3>2. Fresh(at)'
      BY <1>7, <1>9, <1>10 DEF Fresh
    <3> QED
      BY <1>8, <2>2, <2>3, <3>1, <3>2 DEF IInv, Pending
  <2>4. CASE pc' = "returned"
    <3>1. Fresh(end + 1)'
      BY <1>1, <1>2, <1>9, <1>10, <2>1 DEF Fresh
    <3> QED
      BY <1>8, <2>2, <2>4, <3>1 DEF IInv, Pending
  <2> QED
    BY <1>4, <2>3, <2>4
<1>12. ASSUME NEW b \in DOMAIN bufs, NEW j \in DOMAIN bufs[b], bufs[b][j] # Zero
       PROVE  bufs'[b][j] = bufs[b][j]
  <2>1. b # reqs[at]
    BY <1>1, <1>3, <1>12 DEF Fresh, Untouched
  <2>2. bufs'[b] = bufs[b]
    BY <1>1, <1>3, <1>4, <2>1, StoreElsewhere
  <2> QED
    BY <2>2
<1> QED
  BY <1>11, <1>12

LEMMA CheckReadKeeps == ASSUME IInv, CheckRead PROVE IInv'
<1>1. /\ TypeOK /\ QueueOnce /\ Fresh(end + 1) /\ reqs \in Seq(Nat) /\ offset \in Nat
  BY DEF IInv, Pending, CheckRead, TypeOK
<1>2. UNCHANGED <<target, batching, asked, bufs, at, n, seek, history>>
  BY DEF CheckRead
<1>3. offset' \in Nat
  BY <1>1, IovAssumption DEF CheckRead
<1>4. ASSUME NEW outcome \in {"ok", "error"}, Finish(outcome) PROVE IInv'
  <2>1. TypeOK'
    BY <1>1, <1>2, <1>3, <1>4 DEF TypeOK, Finish, target, history
  <2> QED
    BY <1>4, <2>1, FinishPending DEF IInv
<1>5. CASE /\ offset' = offset + MaxIov /\ offset' < Len(reqs)
           /\ pc' = "chunk" /\ UNCHANGED <<result, reqs>>
  <2>1. TypeOK'
    BY <1>1, <1>2, <1>3, <1>5 DEF TypeOK, target, history
  <2>2. end = offset'
    BY <1>1, <1>5, IovAssumption DEF end, Smaller
  <2>3. Fresh(offset + 1)'
    BY <1>1, <1>2, <1>5, <2>2 DEF Fresh, Untouched
  <2>4. QueueOnce'
    BY <1>1, <1>5 DEF QueueOnce
  <2> QED
    BY <1>5, <2>1, <2>3, <2>4 DEF IInv, Pending
<1> QED
  BY <1>4, <1>5 DEF CheckRead

LEMMA SeekToKeeps == ASSUME IInv, SeekTo PROVE IInv'
<1>1. /\ TypeOK /\ QueueOnce /\ Fresh(at) /\ reqs \in Seq(Nat) /\ at \in Nat \ {0}
      /\ at <= Len(reqs)
  BY DEF IInv, Pending, SeekTo, TypeOK
<1>2. at \in DOMAIN reqs
  BY <1>1
<1>3. Request(at).addr \in Nat /\ Size(at) \in Nat
  BY <1>1, <1>2, SizeType
<1>4. TypeOK'
  BY <1>1, <1>3 DEF TypeOK, SeekTo, target, queue, history
<1>5. UNCHANGED <<bufs, reqs, asked, at>> /\ n' = 0 /\ pc' = "read"
  BY DEF SeekTo, queue
<1>6. QueueOnce' /\ Fresh(at + 1)'
  BY <1>1, <1>5 DEF QueueOnce, Fresh, Untouched
<1>7. \A j \in DOMAIN bufs[reqs[at]] : bufs[reqs[at]][j] = Zero
  BY <1>1, <1>2 DEF Fresh, Untouched
<1>8. n' <= Size(at)'
  BY <1>3, <1>5 DEF Size, Request
<1> QED
  BY <1>1, <1>4, <1>5, <1>6, <1>7, <1>8 DEF IInv, Pending, Fresh

LEMMA ReadKeeps ==
  ASSUME IInv, Read
  PROVE  /\ IInv'
         /\ \A b \in DOMAIN bufs : \A j \in DOMAIN bufs[b] :
              bufs[b][j] # Zero => bufs'[b][j] = bufs[b][j]
<1>1. /\ TypeOK /\ QueueOnce /\ Fresh(at + 1) /\ reqs \in Seq(Nat) /\ at \in Nat \ {0}
      /\ at <= Len(reqs) /\ n \in Nat /\ n < Size(at) /\ seek \in Nat
      /\ \A j \in DOMAIN bufs[reqs[at]] : j > n => bufs[reqs[at]][j] = Zero
  BY DEF IInv, Pending, Read, TypeOK
<1>2. at \in DOMAIN reqs
  BY <1>1
<1>3. Size(at) \in Nat /\ Len(bufs[reqs[at]]) = Size(at) /\ reqs[at] \in DOMAIN bufs
  BY <1>1, <1>2, SizeType DEF TypeOK
<1>4. PICK c \in Counts(seek, Size(at) - n) :
        /\ bufs' = Stored(at, n, seek, c)
        /\ n' = n + c /\ seek' = seek + c
  BY DEF Read
<1>5. c \in 0 .. Size(at) - n /\ c \in Nat /\ n' <= Size(at)
  <2>1. Size(at) - n \in Nat
    BY <1>1, <1>3
  <2> QED
    BY <1>1, <1>3, <1>4, <2>1, CountsBounded
<1>6. /\ bufs' \in Seq(Seq(Cells)) /\ Len(bufs') = Len(bufs)
      /\ \A b \in DOMAIN bufs : Len(bufs'[b]) = Len(bufs[b])
  BY <1>1, <1>2, <1>4, <1>5, StoreTypes
<1>7. UNCHANGED <<target, batching, queue, pc, offset, at, result, history>> /\ pc = "read"
  BY DEF Read
<1>8. TypeOK'
  <2>1. DOMAIN bufs' = DOMAIN bufs
    BY <1>1, <1>6 DEF TypeOK
  <2>2. n' \in Nat /\ at' \in Nat \ {0} /\ seek' \in Nat /\ pc' \in {"transfer", "returned", "read"}
    BY <1>1, <1>4, <1>5, <1>7 DEF TypeOK
  <2> QED
    BY <1>1, <1>6, <1>7, <2>1, <2>2 DEF TypeOK, target, queue, history
<1>9. Fresh(at + 1)' /\ QueueOnce'
  <2>1. reqs' = reqs /\ at' = at
    BY <1>7 DEF queue
  <2>2. QueueOnce'
    BY <1>1, <2>1 DEF QueueOnce
  <2>3. Fresh(at + 1)'
    <3>1. PICK k \in DOMAIN reqs : k = at
      BY <1>2
    <3>2. bufs' = Stored(k, n, seek, c) /\ Fresh(k + 1)
      BY <1>1, <1>4, <3>1
    <3>3. Fresh(k + 1)'
      BY <1>1, <1>5, <2>1, <3>2, FreshBehind
    <3> QED
      BY <2>1, <3>1, <3>3
  <2> QED
    BY <2>2, <2>3
<1>10. ASSUME NEW j \in DOMAIN bufs[reqs[at]], j \notin n + 1 .. n + c
       PROVE  bufs'[reqs[at]][j] = bufs[reqs[at]][j]
  <2>1. Stored(at, n, seek, c)[reqs[at]][j] = bufs[reqs[at]][j]
    BY <1>1, <1>2, <1>10, StoreOutside
  <2> QED
    BY <1>4, <2>1
<1>11. \A j \in DOMAIN bufs'[reqs[at]] : j > n + c => bufs'[reqs[at]][j] = Zero
  <2>1. DOMAIN bufs'[reqs[at]] = DOMAIN bufs[reqs[at]] /\ DOMAIN bufs[reqs[at]] \subseteq Nat
    <3>1. /\ bufs \in Seq(Seq(Cells)) /\ reqs[at] \in DOMAIN bufs'
      BY <1>1, <1>3, <1>6 DEF TypeOK
    <3>2. bufs[reqs[at]] \in Seq(Cells) /\ bufs'[reqs[at]] \in Seq(Cells)
      BY <1>3, <1>6, <3>1
    <3> QED
      BY <1>3, <1>6, <3>2
  <2> TAKE j \in DOMAIN bufs'[reqs[at]]
  <2> HAVE j > n + c
  <2>2. j \notin n + 1 .. n + c /\ j > n
    BY <1>1, <1>5, <2>1
  <2> QED
    BY <1>1, <1>10, <2>1, <2>2
<1>12. IInv'
  <2>1. reqs' = reqs /\ at' = at /\ asked' = asked /\ pc' = "read"
    BY <1>7 DEF queue
  <2>2. n' <= Size(at)'
    BY <1>5, <2>1 DEF Size, Request
  <2>3. \A j \in DOMAIN bufs'[reqs'[at']] : j > n' => bufs'[reqs'[at']][j] = Zero
    BY <1>4, <1>11, <2>1
  <2> QED
    BY <1>1, <1>8, <1>9, <2>1, <2>2, <2>3 DEF IInv, Pending
<1>13. ASSUME NEW b \in DOMAIN bufs, NEW j \in DOMAIN bufs[b], bufs[b][j] # Zero
       PROVE  bufs'[b][j] = bufs[b][j]
  <2>1. CASE b # reqs[at]
    <3>1. bufs'[b] = bufs[b]
      BY <1>1, <1>2, <1>4, <2>1, StoreElsewhere
    <3> QED
      BY <3>1
  <2>2. CASE b = reqs[at]
    <3>1. j \in Nat /\ ~(j > n)
      BY <1>1, <1>3, <1>13, <2>2 DEF TypeOK
    <3>2. j \notin n + 1 .. n + c
      BY <1>1, <1>5, <3>1
    <3> QED
      BY <1>10, <2>2, <3>2
  <2> QED
    BY <2>1, <2>2
<1> QED
  BY <1>12, <1>13

LEMMA ReadFailsKeeps == ASSUME IInv, ReadFails PROVE IInv'
<1>1. Finish("error") /\ TypeOK
  BY DEF ReadFails, IInv
<1>2. TypeOK'
  BY <1>1 DEF TypeOK, Finish, ReadFails, target, history
<1> QED
  BY <1>1, <1>2, FinishPending DEF IInv

LEMMA ReadDoneKeeps == ASSUME IInv, ReadDone PROVE IInv'
<1>1. TypeOK /\ QueueOnce /\ Fresh(at + 1) /\ reqs \in Seq(Nat) /\ at \in Nat \ {0}
  BY DEF IInv, Pending, ReadDone, TypeOK
<1>2. CASE Finish("ok") /\ UNCHANGED at
  <2>1. TypeOK'
    BY <1>1, <1>2 DEF TypeOK, Finish, ReadDone, target, history
  <2> QED
    BY <1>2, <2>1, FinishPending DEF IInv
<1>3. CASE at < Len(reqs) /\ at' = at + 1 /\ pc' = "seek" /\ UNCHANGED <<result, reqs>>
  <2>1. TypeOK'
    BY <1>1, <1>3 DEF TypeOK, ReadDone, target, history
  <2>2. QueueOnce'
    BY <1>1, <1>3 DEF QueueOnce
  <2>3. Fresh(at)'
    BY <1>1, <1>3 DEF ReadDone, Fresh, Untouched
  <2>4. at' <= Len(reqs')
    BY <1>1, <1>3
  <2> QED
    BY <1>3, <2>1, <2>2, <2>3, <2>4 DEF IInv, Pending
<1> QED
  BY <1>2, <1>3 DEF ReadDone

LEMMA TargetKeeps == ASSUME IInv, NEW m, Target(m) PROVE IInv'
<1>1. TypeOK'
  BY DEF IInv, TypeOK, Target, queue, history
<1>2. Pending'
  BY DEF IInv, Pending, Target, queue, QueueOnce, Fresh, Untouched, end, Size, Request
<1> QED
  BY <1>1, <1>2 DEF IInv

-----------------------------------------------------------------------------
LEMMA IInvStep ==
  ASSUME IInv, [Next]_vars
  PROVE  /\ IInv'
         /\ \A b \in DOMAIN bufs : \A j \in DOMAIN bufs[b] :
              bufs[b][j] # Zero => bufs'[b][j] = bufs[b][j]
<1>1. ASSUME NEW r \in Requests, Add(r) PROVE \A b \in DOMAIN bufs : bufs'[b] = bufs[b]
  BY <1>1 DEF Add, IInv, TypeOK
<1>2. CASE Flush \/ BuildIovecs \/ CheckRead \/ SeekTo \/ ReadFails \/ ReadDone
  <2>1. bufs' = bufs
    BY <1>2 DEF Flush, BuildIovecs, CheckRead, SeekTo, ReadFails, ReadDone
  <2> QED
    BY <1>2, <2>1, FlushKeeps, BuildIovecsKeeps, CheckReadKeeps, SeekToKeeps,
       ReadFailsKeeps, ReadDoneKeeps
<1>3. ASSUME NEW m, Target(m) PROVE bufs' = bufs
  BY <1>3 DEF Target
<1>4. CASE UNCHANGED vars
  <2>1. IInv'
    BY <1>4 DEF IInv, TypeOK, Pending, QueueOnce, Fresh, Untouched, end, Size, Request, vars
  <2> QED
    BY <1>4, <2>1 DEF vars
<1> QED
  BY <1>1, <1>2, <1>3, <1>4, AddKeeps, TransferKeeps, ReadKeeps, TargetKeeps
  DEF Next, Step

\* Types: every queued request has its buffer, of the length that was asked for, however
\* the reads of a batch end.
THEOREM BatchTypeCorrect == Spec => []TypeOK
<1>1. IInv /\ [Next]_vars => IInv'
  BY IInvStep
<1>2. IInv => TypeOK
  BY DEF IInv
<1> QED
  BY <1>1, <1>2, IInvInit, PTL DEF Spec

\* Neither way of reading writes a byte of a buffer twice, for any number of requests,
\* chunk size, flushes and failures, so what a caller has read stays.
THEOREM BytesKeptAlways == Spec => BytesKept
<1>1. IInv /\ [Next]_vars => IInv'
  BY IInvStep
<1>2. IInv /\ [Next]_vars =>
        [\A b \in DOMAIN bufs : \A j \in DOMAIN bufs[b] :
           bufs[b][j] # Zero => bufs'[b][j] = bufs[b][j]]_vars
  BY IInvStep
<1> QED
  BY <1>1, <1>2, IInvInit, PTL DEF Spec, BytesKept

-----------------------------------------------------------------------------
(***************************************************************************)
(* What a Flush gives its caller, for every set of requests and every      *)
(* chunk size, whatever the target does meanwhile: all buffers full of     *)
(* fresh bytes of their own addresses, or an error that has a reason and   *)
(* leaves a full prefix and an untouched rest.  A short read is noticed    *)
(* from the number of bytes alone, so the proof has to add up sizes; the   *)
(* induction it takes is on sets of natural numbers.                       *)
(***************************************************************************)

LEMMA Least ==
  ASSUME NEW T, T \subseteq Nat, T # {}
  PROVE  \E x \in T : \A y \in T : x <= y
<1> DEFINE R == OpToRel(<, Nat)
<1>1. IsWellFoundedOn(R, Nat)
  BY NatLessThanWellFounded
<1>2. PICK x \in T : \A y \in T : ~(<<y, x>> \in R)
  <2> HIDE DEF R
  <2> QED
    BY <1>1, WFMin
<1>3. \A y \in T : ~(y < x)
  BY <1>2 DEF OpToRel
<1> QED
  BY <1>3

-----------------------------------------------------------------------------
(* The sum of sizes: that the recursive function is one, and grows.        *)

SumBody(s) == [k \in 0 .. Len(reqs) |-> IF k <= offset THEN 0 ELSE s[k - 1] + Size(k)]

LEMMA SumChosen == ASSUME NEW s, s = SumBody(s) PROVE Sum = SumBody(Sum)
BY DEF Sum, SumBody

\* A function that is a sum up to m.
SumsTo(f, m) ==
  /\ f \in [0 .. m -> Nat]
  /\ \A k \in 0 .. m : f[k] = IF k <= offset THEN 0 ELSE f[k - 1] + Size(k)

LEMMA SumExists == ASSUME TypeOK PROVE \A m \in 0 .. Len(reqs) : \E f : SumsTo(f, m)
<1> DEFINE T == {m \in 0 .. Len(reqs) : ~ \E f : SumsTo(f, m)}
<1>1. Len(reqs) \in Nat /\ offset \in Nat /\ DOMAIN reqs = 1 .. Len(reqs)
  BY DEF TypeOK
<1> SUFFICES ASSUME T # {} PROVE FALSE
  OBVIOUS
<1>2. PICK x \in T : \A y \in T : x <= y
  <2>1. T \subseteq Nat
    BY <1>1
  <2> HIDE DEF T
  <2> QED
    BY <2>1, Least
<1>3. x \in 0 .. Len(reqs) /\ x \in Nat /\ ~ \E f : SumsTo(f, x)
  BY <1>1, <1>2
<1>4. CASE x = 0
  <2> DEFINE f == [k \in 0 .. 0 |-> 0]
  <2>1. SumsTo(f, 0)
    BY <1>1 DEF SumsTo
  <2> QED
    BY <1>3, <1>4, <2>1
<1>5. CASE x # 0
  <2>1. x - 1 \in 0 .. Len(reqs) /\ x - 1 \notin T /\ x \in DOMAIN reqs
    BY <1>1, <1>2, <1>3, <1>5
  <2>2. PICK f : SumsTo(f, x - 1)
    BY <2>1
  <2>3. Size(x) \in Nat
    BY <2>1, SizeType
  <2> DEFINE last == IF x <= offset THEN 0 ELSE f[x - 1] + Size(x)
             g == [k \in 0 .. x |-> IF k = x THEN last ELSE f[k]]
  <2>4. last \in Nat
    BY <1>3, <1>5, <2>2, <2>3 DEF SumsTo
  <2>5. \A k \in 0 .. x : k = x \/ k \in 0 .. x - 1
    BY <1>3
  <2>6. g \in [0 .. x -> Nat]
    BY <2>2, <2>4, <2>5 DEF SumsTo
  <2>7. ASSUME NEW k \in 0 .. x
        PROVE  g[k] = IF k <= offset THEN 0 ELSE g[k - 1] + Size(k)
    <3>1. CASE k = x
      <4>1. x - 1 \in 0 .. x /\ x - 1 # x
        BY <1>3, <1>5
      <4> QED
        BY <3>1, <4>1
    <3>2. CASE k \in 0 .. x - 1
      <4>1. k # x /\ (k <= offset \/ (k - 1 \in 0 .. x /\ k - 1 # x))
        BY <1>1, <1>3, <3>2
      <4>2. f[k] = IF k <= offset THEN 0 ELSE f[k - 1] + Size(k)
        BY <2>2, <3>2 DEF SumsTo
      <4> QED
        BY <4>1, <4>2
    <3> QED
      BY <2>5, <3>1, <3>2
  <2>8. SumsTo(g, x)
    BY <2>6, <2>7 DEF SumsTo
  <2> QED
    BY <1>3, <2>8
<1> QED
  BY <1>4, <1>5

\* Sum obeys its equation, and its values are numbers.
LEMMA SumWorks ==
  ASSUME TypeOK
  PROVE  /\ Sum \in [0 .. Len(reqs) -> Nat]
         /\ \A k \in 0 .. Len(reqs) :
              Sum[k] = IF k <= offset THEN 0 ELSE Sum[k - 1] + Size(k)
<1>1. Len(reqs) \in Nat /\ offset \in Nat /\ DOMAIN reqs = 1 .. Len(reqs)
  BY DEF TypeOK
<1>2. PICK f : SumsTo(f, Len(reqs))
  BY <1>1, SumExists
<1>3. f = SumBody(f)
  BY <1>2 DEF SumsTo, SumBody
<1>4. Sum = SumBody(Sum)
  BY <1>3, SumChosen
<1>5. /\ DOMAIN Sum = 0 .. Len(reqs)
      /\ \A k \in 0 .. Len(reqs) :
           Sum[k] = IF k <= offset THEN 0 ELSE Sum[k - 1] + Size(k)
  <2> DEFINE s == Sum
  <2>1. s = SumBody(s)
    BY <1>4
  <2> HIDE DEF s
  <2>2. /\ DOMAIN s = 0 .. Len(reqs)
        /\ \A k \in 0 .. Len(reqs) : s[k] = IF k <= offset THEN 0 ELSE s[k - 1] + Size(k)
    BY <2>1 DEF SumBody
  <2> QED
    BY <2>2 DEF s
<1>6. \A k \in 0 .. Len(reqs) : Sum[k] \in Nat
  <2> DEFINE T == {k \in 0 .. Len(reqs) : Sum[k] \notin Nat}
  <2> SUFFICES ASSUME T # {} PROVE FALSE
    OBVIOUS
  <2>1. PICK x \in T : \A y \in T : x <= y
    <3>1. T \subseteq Nat
      BY <1>1
    <3> HIDE DEF T
    <3> QED
      BY <3>1, Least
  <2>2. CASE x <= offset
    BY <1>5, <2>1, <2>2
  <2>3. CASE ~(x <= offset)
    <3>1. x \in 0 .. Len(reqs) /\ x # 0 /\ x - 1 \in 0 .. Len(reqs) /\ x \in DOMAIN reqs
      BY <1>1, <2>1, <2>3
    <3>2. x - 1 \notin T
      BY <2>1, <3>1
    <3>3. Sum[x - 1] \in Nat /\ Size(x) \in Nat
      BY <3>1, <3>2, SizeType
    <3>4. Sum[x] = Sum[x - 1] + Size(x)
      BY <1>5, <2>3, <3>1
    <3> QED
      BY <2>1, <3>3, <3>4
  <2> QED
    BY <2>2, <2>3
<1>7. Sum = [k \in 0 .. Len(reqs) |-> Sum[k]]
  <2> DEFINE s == Sum
  <2>1. s = SumBody(s)
    BY <1>4
  <2> HIDE DEF s
  <2>2. s = [k \in 0 .. Len(reqs) |-> s[k]]
    BY <2>1 DEF SumBody
  <2> QED
    BY <2>2 DEF s
<1> QED
  BY <1>5, <1>6, <1>7

LEMMA SumGrows ==
  ASSUME TypeOK, NEW j \in 0 .. Len(reqs), NEW m \in j .. Len(reqs)
  PROVE  Sum[j] <= Sum[m]
<1> DEFINE T == {k \in j .. Len(reqs) : ~(Sum[j] <= Sum[k])}
<1>1. Len(reqs) \in Nat /\ offset \in Nat /\ DOMAIN reqs = 1 .. Len(reqs)
  BY DEF TypeOK
<1> SUFFICES ASSUME T # {} PROVE FALSE
  OBVIOUS
<1>2. PICK x \in T : \A y \in T : x <= y
  <2>1. T \subseteq Nat
    BY <1>1
  <2> HIDE DEF T
  <2> QED
    BY <2>1, Least
<1>3. Sum[j] \in Nat /\ x # j /\ x - 1 \in j .. Len(reqs) /\ x \in DOMAIN reqs
  BY <1>1, <1>2, SumWorks
<1>4. Sum[j] <= Sum[x - 1]
  <2>1. x - 1 \notin T
    BY <1>1, <1>2, <1>3
  <2> QED
    BY <1>3, <2>1
<1>5. Sum[x - 1] \in Nat /\ Sum[x] \in Nat /\ Size(x) \in Nat
  BY <1>1, <1>3, SumWorks, SizeType
<1>6. CASE x <= offset
  <2>1. Sum[x - 1] = 0
    BY <1>1, <1>3, <1>6, SumWorks
  <2> QED
    BY <1>2, <1>3, <1>4, <1>5, <2>1
<1>7. CASE ~(x <= offset)
  <2>1. Sum[x] = Sum[x - 1] + Size(x)
    BY <1>1, <1>3, <1>7, SumWorks
  <2> QED
    BY <1>2, <1>3, <1>4, <1>5, <2>1
<1> QED
  BY <1>6, <1>7

LEMMA SumSame == ASSUME UNCHANGED <<asked, reqs, offset>> PROVE Sum' = Sum
BY DEF Sum, Size, Request

-----------------------------------------------------------------------------
(* The invariant: how far the reads have got, and what a count says.       *)

\* The buffers queued before position k are full.
QFull(k) == \A i \in DOMAIN reqs : i < k => Full(reqs[i])

\* Something that is asked for cannot be read any more.
Lost == \E i \in DOMAIN reqs : ~Readable(Request(i).addr, Size(i))

\* What was read into the buffers of the last Flush is fresh and in its place.
Genuine ==
  \A b \in Flushed : \A j \in DOMAIN bufs[b] :
    bufs[b][j] # Zero =>
      bufs[b][j].addr = asked[b].addr + j - 1 /\ bufs[b][j].time >= started

Kept ==
  /\ \A k \in DOMAIN flushed : flushed[k] \in DOMAIN bufs
  /\ Genuine /\ started <= clock

\* After a Flush.
Returned ==
  /\ FailureIsPrefix /\ FailsForReason
  /\ result = "ok" => \A k \in DOMAIN flushed : Full(flushed[k])

\* During one.
Batch ==
  /\ pc = "chunk" => QFull(offset + 1)
  /\ pc = "transfer" => /\ QFull(at) /\ n = Sum[at - 1]
                        /\ \A k \in chunk : Size(k) > 0
  /\ pc = "returned" => /\ at - 1 \in chunk /\ QFull(at - 1) /\ Fresh(at)
                        /\ n = want => QFull(end + 1)
                        /\ n = 0 \/ n # want => Lost
OneByOne ==
  /\ pc = "seek" => QFull(at)
  /\ pc = "read" => /\ QFull(at) /\ seek = Request(at).addr + n
                    /\ \A j \in DOMAIN bufs[reqs[at]] : j <= n => bufs[reqs[at]][j] # Zero

Flushing ==
  /\ pc = "idle" => Returned
  /\ pc # "idle" => flushed = reqs
  /\ pc \in {"chunk", "transfer", "returned"} => batching
  /\ Batch /\ OneByOne

FInv == IInv /\ Kept /\ Flushing

\* Where full buffers meet untouched ones there is at most one in between.
LEMMA PrefixSplit ==
  ASSUME TypeOK, flushed = reqs, NEW p \in Nat, QFull(p), Fresh(p + 1)
  PROVE  FailureIsPrefix
BY DEF TypeOK, QFull, Fresh, FailureIsPrefix

\* In the middle of a Flush too.
LEMMA PrefixAlways == FInv => FailureIsPrefix
<1> SUFFICES ASSUME FInv, pc # "idle" PROVE FailureIsPrefix
  BY DEF FInv, Flushing, Returned
<1>1. TypeOK /\ flushed = reqs /\ offset \in Nat /\ at \in Nat \ {0}
  BY DEF FInv, IInv, TypeOK, Flushing
<1>2. CASE pc = "chunk"
  <2>1. QFull(offset) /\ Fresh(offset + 1)
    BY <1>1, <1>2 DEF FInv, IInv, Pending, Flushing, Batch, QFull, TypeOK
  <2> QED
    BY <1>1, <2>1, PrefixSplit
<1>3. CASE pc = "transfer" \/ pc = "seek" \/ pc = "read"
  <2>1. QFull(at) /\ Fresh(at + 1)
    BY <1>1, <1>3 DEF FInv, IInv, Pending, Flushing, Batch, OneByOne, Fresh, TypeOK
  <2> QED
    BY <1>1, <2>1, PrefixSplit
<1>4. CASE pc = "returned"
  <2>1. PICK p \in Nat : p = at - 1
    BY <1>1
  <2>2. QFull(p) /\ Fresh(p + 1)
    BY <1>1, <1>4, <2>1 DEF FInv, Flushing, Batch
  <2> QED
    BY <1>1, <2>2, PrefixSplit
<1> QED
  BY <1>1, <1>2, <1>3, <1>4 DEF TypeOK

-----------------------------------------------------------------------------
LEMMA FInvInit == Init => FInv
<1> SUFFICES ASSUME Init PROVE FInv
  OBVIOUS
<1>1. flushed = << >> /\ DOMAIN flushed = {} /\ started = 0 /\ clock = 0 /\ pc = "idle"
      /\ result = "none"
  BY DEF Init
<1>2. Kept /\ Returned
  BY <1>1 DEF Kept, Genuine, Flushed, Returned, FailureIsPrefix, FailsForReason
<1> QED
  BY <1>1, <1>2, IInvInit DEF FInv, Flushing, Batch, OneByOne

\* The end of a Flush.
LEMMA FinishFlushes ==
  ASSUME FInv, IInv', pc # "idle", NEW outcome, Finish(outcome),
         UNCHANGED <<mapped, clock, batching, asked, bufs, flushed, started>>,
         outcome = "ok" => QFull(Len(reqs) + 1),
         outcome = "error" => Lost \/ (batching /\ \E i \in DOMAIN reqs : Size(i) = 0)
  PROVE  FInv'
<1>1. TypeOK /\ flushed = reqs /\ FailureIsPrefix /\ Kept
  BY PrefixAlways DEF FInv, IInv, Flushing
<1>2. Kept'
  BY <1>1 DEF Kept, Genuine, Flushed
<1>3. FailureIsPrefix'
  BY <1>1 DEF FailureIsPrefix, Full, Untouched
<1>4. (result = "ok" => \A k \in DOMAIN flushed : Full(flushed[k]))'
  <2> SUFFICES ASSUME outcome = "ok", NEW k \in DOMAIN reqs PROVE Full(reqs[k])
    BY <1>1 DEF Finish, Full
  <2>1. k < Len(reqs) + 1
    BY <1>1 DEF TypeOK
  <2> QED
    BY <2>1 DEF QFull
<1>5. FailsForReason'
  <2>1. result' = outcome
    BY DEF Finish
  <2> SUFFICES ASSUME outcome = "error"
               PROVE  \E b \in Flushed : \/ batching /\ asked[b].len = 0
                                         \/ ~Readable(asked[b].addr, asked[b].len)
    BY <2>1 DEF FailsForReason, Flushed, Readable
  <2> QED
    BY <1>1 DEF Lost, Flushed, Size, Request
<1>6. pc' = "idle"
  BY DEF Finish
<1> QED
  BY <1>2, <1>3, <1>4, <1>5, <1>6 DEF FInv, Flushing, Returned, Batch, OneByOne

LEMMA AddFlushes == ASSUME FInv, NEW r \in Requests, Add(r) PROVE FInv'
<1>1. IInv' /\ TypeOK /\ Kept /\ Returned /\ pc = "idle" /\ pc' = "idle"
  BY AddKeeps DEF FInv, IInv, Flushing, Add
<1>2. UNCHANGED <<mapped, clock, batching, result, flushed, started>>
  BY DEF Add, target, history
<1>3. \A b \in DOMAIN bufs : b \in DOMAIN bufs' /\ bufs'[b] = bufs[b] /\ asked'[b] = asked[b]
  BY <1>1 DEF Add, TypeOK
<1>4. \A k \in DOMAIN flushed : flushed[k] \in DOMAIN bufs
  BY <1>1 DEF Kept
<1>5. \A b \in Flushed : b \in DOMAIN bufs
  BY <1>4 DEF Flushed
<1>6. Kept'
  BY <1>1, <1>2, <1>3, <1>4, <1>5 DEF Kept, Genuine, Flushed
<1>7. FailureIsPrefix' /\ FailsForReason'
  BY <1>1, <1>2, <1>3, <1>4, <1>5
  DEF Returned, FailureIsPrefix, FailsForReason, Full, Untouched, Flushed, Readable
<1>8. (result = "ok" => \A k \in DOMAIN flushed : Full(flushed[k]))'
  BY <1>1, <1>2, <1>3, <1>4 DEF Returned, Full
<1> QED
  BY <1>1, <1>6, <1>7, <1>8 DEF FInv, Flushing, Returned, Batch, OneByOne

LEMMA FlushFlushes == ASSUME FInv, Flush PROVE FInv'
<1>1. IInv' /\ TypeOK /\ Fresh(1) /\ reqs \in Seq(Nat) /\ clock \in Nat
  BY FlushKeeps DEF FInv, IInv, Pending, Flush, TypeOK
<1>2. /\ UNCHANGED <<mapped, clock, batching, asked, bufs, reqs>>
      /\ flushed' = reqs /\ started' = clock /\ offset' = 0 /\ at' = 1
  BY DEF Flush, target, queue
<1>3. \A k \in DOMAIN reqs : reqs[k] \in DOMAIN bufs /\ Untouched(reqs[k])
  BY <1>1 DEF Fresh, TypeOK
<1>4. Kept'
  BY <1>1, <1>2, <1>3 DEF Kept, Genuine, Flushed, Untouched
<1>5. QFull(1)'
  BY <1>1, <1>2 DEF QFull
<1>6. CASE reqs = << >>
  <2>1. pc' = "idle" /\ result' = "ok" /\ DOMAIN flushed' = {}
    BY <1>2, <1>6 DEF Flush
  <2> QED
    BY <1>1, <1>4, <2>1
    DEF FInv, Flushing, Returned, FailureIsPrefix, FailsForReason, Batch, OneByOne
<1>7. CASE reqs # << >>
  <2>1. pc' = IF batching THEN "chunk" ELSE "seek"
    BY <1>7 DEF Flush
  <2> QED
    BY <1>1, <1>2, <1>4, <1>5, <2>1 DEF FInv, Flushing, Batch, OneByOne
<1> QED
  BY <1>6, <1>7

-----------------------------------------------------------------------------
(* What storing does to full, genuine and lost.                            *)

LEMMA StoreInside ==
  ASSUME TypeOK, NEW k \in DOMAIN reqs, NEW from \in Nat, NEW a \in Nat, NEW c \in Nat,
         NEW j \in DOMAIN bufs[reqs[k]], j \in from + 1 .. from + c
  PROVE  /\ Stored(k, from, a, c)[reqs[k]][j] = [addr |-> a + j - from - 1, time |-> clock]
         /\ Stored(k, from, a, c)[reqs[k]][j] # Zero
<1>1. reqs[k] \in DOMAIN bufs
  BY DEF TypeOK
<1>2. Stored(k, from, a, c)[reqs[k]][j] = [addr |-> a + j - from - 1, time |-> clock]
  BY <1>1 DEF Stored
<1>3. a + j - from - 1 \in Nat
  OBVIOUS
<1> QED
  BY <1>2, <1>3 DEF Zero

LEMMA StoreKept ==
  ASSUME TypeOK, TypeOK', Kept, flushed = reqs, UNCHANGED <<asked, flushed, started, clock>>,
         NEW k \in DOMAIN reqs, NEW from \in Nat, NEW c \in Nat, NEW a \in Nat,
         a = Request(k).addr + from, bufs' = Stored(k, from, a, c)
  PROVE  Kept'
<1>1. DOMAIN bufs' = DOMAIN bufs /\ \A b \in DOMAIN bufs : DOMAIN bufs'[b] = DOMAIN bufs[b]
  BY DEF Stored
<1>2. Request(k).addr \in Nat /\ reqs[k] \in DOMAIN bufs /\ clock \in Nat /\ started <= clock
  BY SizeType DEF TypeOK, Kept
<1>3. ASSUME NEW b \in Flushed, NEW j \in DOMAIN bufs[b], bufs'[b][j] # Zero
      PROVE  bufs'[b][j].addr = asked[b].addr + j - 1 /\ bufs'[b][j].time >= started
  <2>1. b \in DOMAIN bufs
    BY DEF Flushed, Kept
  <2>2. CASE bufs'[b][j] = bufs[b][j]
    BY <1>3, <2>2 DEF Kept, Genuine
  <2>3. CASE b = reqs[k] /\ j \in from + 1 .. from + c
    <3>1. bufs'[b][j] = [addr |-> a + j - from - 1, time |-> clock]
      BY ZenonT(40), <2>3, StoreInside
    <3>2. bufs'[b][j].addr = a + j - from - 1 /\ bufs'[b][j].time = clock
      BY <3>1
    <3>3. asked[b].addr = Request(k).addr /\ j \in Int
      BY <2>3 DEF Request
    <3>4. a + j - from - 1 = asked[b].addr + j - 1
      BY <1>2, <3>3
    <3> QED
      BY <1>2, <3>2, <3>4
  <2>4. CASE b # reqs[k]
    <3>1. bufs'[b] = bufs[b]
      BY <2>1, <2>4, StoreElsewhere
    <3> QED
      BY <2>2, <3>1
  <2>5. CASE b = reqs[k] /\ j \notin from + 1 .. from + c
    BY <2>2, <2>5, StoreOutside
  <2> QED
    BY <2>3, <2>4, <2>5
<1>4. Genuine'
  BY <1>1, <1>3 DEF Genuine, Flushed, Kept
<1> QED
  BY <1>1, <1>4 DEF Kept

LEMMA StoreQFull ==
  ASSUME TypeOK, QueueOnce, NEW k \in DOMAIN reqs, NEW from \in Nat, NEW a \in Nat,
         NEW c \in Nat, bufs' = Stored(k, from, a, c), reqs' = reqs, QFull(k)
  PROVE  QFull(k)'
<1> SUFFICES ASSUME NEW i \in DOMAIN reqs, i < k
             PROVE  bufs'[reqs[i]] = bufs[reqs[i]]
  BY DEF QFull, Full
<1>1. reqs[i] \in DOMAIN bufs /\ i # k /\ reqs \in Seq(Nat)
  BY DEF TypeOK
<1>2. reqs[i] # reqs[k]
  BY <1>1 DEF QueueOnce
<1> QED
  BY <1>1, <1>2, StoreElsewhere

\* Full one further.
LEMMA QFullNext ==
  ASSUME TypeOK, NEW k \in DOMAIN reqs, QFull(k), Full(reqs[k])
  PROVE  QFull(k + 1)
<1>1. \A i \in DOMAIN reqs : i < k + 1 => i < k \/ i = k
  BY DEF TypeOK
<1> QED
  BY <1>1 DEF QFull

\* A transfer that stops early has met something that cannot be read.
LEMMA StopsForReason ==
  ASSUME NEW a, NEW len \in Nat, NEW c \in Counts(a, len), c # len
  PROVE  ~Readable(a, len)
BY DEF Counts

\* The request a step is at, and its buffer.
LEMMA AtRequest ==
  ASSUME TypeOK, at <= Len(reqs)
  PROVE  /\ at \in DOMAIN reqs /\ at \in Nat \ {0} /\ reqs \in Seq(Nat)
         /\ reqs[at] \in DOMAIN bufs /\ bufs[reqs[at]] \in Seq(Cells)
         /\ Size(at) \in Nat /\ Request(at).addr \in Nat /\ Len(bufs[reqs[at]]) = Size(at)
<1>1. at \in Nat \ {0} /\ reqs \in Seq(Nat) /\ bufs \in Seq(Seq(Cells))
  BY DEF TypeOK
<1>2. PICK k \in DOMAIN reqs : k = at
  BY <1>1
<1>3. Size(k) \in Nat /\ Request(k).addr \in Nat /\ Len(bufs[reqs[k]]) = Size(k)
  BY SizeType
<1>4. reqs[k] \in DOMAIN bufs
  BY DEF TypeOK
<1>5. bufs[reqs[k]] \in Seq(Cells)
  BY <1>1, <1>4
<1> QED
  BY <1>1, <1>2, <1>3, <1>4, <1>5

-----------------------------------------------------------------------------
LEMMA BuildIovecsFlushes == ASSUME FInv, BuildIovecs PROVE FInv'
<1>1. /\ IInv' /\ TypeOK /\ QFull(offset + 1) /\ flushed = reqs /\ Kept /\ batching
      /\ reqs \in Seq(Nat) /\ offset \in Nat /\ offset < Len(reqs) /\ pc # "idle"
  BY BuildIovecsKeeps DEF FInv, IInv, Pending, Flushing, Batch, BuildIovecs, TypeOK
<1>2. UNCHANGED <<mapped, clock, batching, asked, bufs, offset, flushed, started>>
  BY DEF BuildIovecs, target, history
<1>3. chunk \subseteq DOMAIN reqs
  BY <1>1, IovAssumption DEF chunk, end, Smaller
<1>4. CASE (\E k \in chunk : Size(k) = 0) /\ Finish("error")
  <2>1. \E i \in DOMAIN reqs : Size(i) = 0
    BY <1>3, <1>4
  <2> QED
    BY <1>1, <1>2, <1>4, <2>1, FinishFlushes
<1>5. CASE /\ ~ \E k \in chunk : Size(k) = 0
           /\ pc' = "transfer" /\ at' = offset + 1 /\ n' = 0 /\ UNCHANGED <<result, reqs>>
  <2>1. Kept' /\ QFull(offset + 1)'
    BY <1>1, <1>2, <1>5 DEF Kept, Genuine, Flushed, QFull, Full
  <2>2. \A k \in chunk : Size(k) > 0
    BY <1>1, <1>3, <1>5, SizeType
  <2>3. (\A k \in chunk : Size(k) > 0)'
    BY <1>2, <1>5, <2>2 DEF chunk, end, Size, Request
  <2>4. Sum[offset] = 0 /\ Sum' = Sum
    BY <1>1, <1>2, <1>5, SumWorks, SumSame
  <2>5. n' = Sum'[at' - 1] /\ QFull(at)'
    BY <1>1, <1>2, <1>5, <2>1, <2>4 DEF QFull
  <2> QED
    BY <1>1, <1>2, <1>5, <2>1, <2>3, <2>5 DEF FInv, Flushing, Batch, OneByOne
<1> QED
  BY <1>4, <1>5 DEF BuildIovecs

LEMMA TransferFlushes == ASSUME FInv, Transfer PROVE FInv'
<1>1. /\ IInv' /\ TypeOK /\ QueueOnce /\ QFull(at) /\ flushed = reqs /\ Kept /\ batching
      /\ reqs \in Seq(Nat) /\ offset \in Nat /\ at \in Nat /\ at \in offset + 1 .. end
      /\ n = Sum[at - 1] /\ \A k \in chunk : Size(k) > 0
  BY TransferKeeps DEF FInv, IInv, Pending, Flushing, Batch, Transfer, TypeOK
<1>2. end \in Nat /\ end <= Len(reqs) /\ Len(reqs) \in Nat /\ at \in DOMAIN reqs
  BY <1>1, IovAssumption DEF end, Smaller
<1>3. PICK c \in Counts(Request(at).addr, Size(at)) :
        /\ bufs' = Stored(at, 0, Request(at).addr, c)
        /\ n' = n + c
        /\ pc' = IF c = Size(at) /\ at < end THEN "transfer" ELSE "returned"
  BY DEF Transfer
<1>4. /\ Size(at) \in Nat /\ Request(at).addr \in Nat /\ c \in 0 .. Size(at) /\ Size(at) > 0
      /\ Len(bufs[reqs[at]]) = Size(at) /\ reqs[at] \in DOMAIN bufs
  BY <1>1, <1>2, SizeType, CountsBounded DEF chunk, TypeOK
<1>5. /\ UNCHANGED <<mapped, clock, batching, asked, reqs, offset, flushed, started>>
      /\ at' = at + 1
  BY DEF Transfer, target, queue, history
<1>6. Kept'
  <2>1. Request(at).addr = Request(at).addr + 0 /\ TypeOK'
    BY <1>1, <1>4 DEF IInv
  <2> QED
    BY <1>1, <1>2, <1>3, <1>4, <1>5, <2>1, StoreKept
<1>7. PICK k \in DOMAIN reqs : k = at
  BY <1>2
<1>8. QFull(k)'
  BY <1>1, <1>3, <1>4, <1>5, <1>7, StoreQFull
<1>9. c = Size(at) => QFull(k + 1)'
  <2>0. SUFFICES ASSUME c = Size(at) PROVE QFull(k + 1)'
    OBVIOUS
  <2>1. \A j \in DOMAIN bufs[reqs[at]] : bufs'[reqs[at]][j] # Zero
    <3>1. bufs[reqs[at]] \in Seq(Cells)
      BY <1>1, <1>4 DEF TypeOK
    <3> TAKE j \in DOMAIN bufs[reqs[at]]
    <3>2. j \in 0 + 1 .. 0 + c /\ c \in Nat /\ 0 \in Nat
      BY <1>4, <2>0, <3>1
    <3>3. Stored(k, 0, Request(k).addr, c)[reqs[k]][j] # Zero
      <4>1. j \in DOMAIN bufs[reqs[k]] /\ Request(k).addr \in Nat
        BY <1>4, <1>7
      <4>2. PICK from \in Nat : from = 0
        OBVIOUS
      <4>3. j \in from + 1 .. from + c /\ c \in Nat
        BY <3>2, <4>2
      <4>4. PICK a \in Nat : a = Request(k).addr
        BY <4>1
      <4>5. Stored(k, from, a, c)[reqs[k]][j] # Zero
        <5>1. TypeOK
          BY <1>1
        <5> QED
          BY <4>1, <4>3, <5>1, StoreInside, ZenonT(60)
      <4> QED
        BY <4>2, <4>4, <4>5
    <3>4. bufs' = Stored(k, 0, Request(k).addr, c)
      BY <1>3, <1>7
    <3> QED
      BY <1>7, <3>3, <3>4
  <2>2. DOMAIN bufs'[reqs[at]] = DOMAIN bufs[reqs[at]]
    BY <1>3, <1>4 DEF Stored
  <2>3. Full(reqs[k])'
    BY <1>5, <1>7, <2>1, <2>2 DEF Full
  <2>4. \A i \in DOMAIN reqs' : i < k + 1 => i < k \/ i = k
    BY <1>1, <1>5
  <2> QED
    BY <1>5, <1>8, <2>3, <2>4 DEF QFull, Full
<1>10. /\ Sum[at] = Sum[at - 1] + Size(at) /\ Sum[at - 1] \in Nat /\ Sum[end] \in Nat
       /\ Sum[at] <= Sum[end] /\ Sum' = Sum
  <2>1. at \in 0 .. Len(reqs) /\ at - 1 \in 0 .. Len(reqs) /\ end \in at .. Len(reqs)
        /\ ~(at <= offset)
    BY <1>1, <1>2
  <2>2. Sum[at - 1] \in Nat /\ Sum[end] \in Nat /\ Sum[at] = Sum[at - 1] + Size(at)
    <3>1. /\ Sum \in [0 .. Len(reqs) -> Nat]
          /\ \A i \in 0 .. Len(reqs) :
               Sum[i] = IF i <= offset THEN 0 ELSE Sum[i - 1] + Size(i)
      BY <1>1, SumWorks
    <3>2. end \in 0 .. Len(reqs)
      BY <1>2
    <3> QED
      BY <2>1, <3>1, <3>2
  <2>3. Sum[at] <= Sum[end]
    <3>1. PICK j \in 0 .. Len(reqs) : j = at
      BY <2>1
    <3>2. PICK m \in j .. Len(reqs) : m = end
      BY <2>1, <3>1
    <3> QED
      BY <1>1, <3>1, <3>2, SumGrows
  <2>4. Sum' = Sum
    BY <1>5, SumSame
  <2> QED
    BY <2>2, <2>3, <2>4
<1>11. end' = end /\ chunk' = chunk /\ (\A i \in chunk : Size(i) > 0)'
  BY <1>1, <1>5 DEF end, chunk, Size, Request
<1>12. CASE pc' = "transfer"
  <2>1. c = Size(at)
    BY <1>3, <1>12
  <2>2. n' = Sum'[at' - 1]
    BY <1>1, <1>3, <1>4, <1>5, <1>10, <2>1
  <2>3. QFull(at)'
    BY <1>5, <1>7, <1>9, <2>1 DEF QFull
  <2> QED
    BY <1>1, <1>5, <1>6, <1>11, <1>12, <2>2, <2>3 DEF FInv, Flushing, Batch, OneByOne
<1>13. CASE pc' = "returned"
  <2>1. at' - 1 = at /\ at \in chunk'
    BY <1>1, <1>5, <1>11 DEF chunk
  <2>2. QFull(at - 1)'
    BY <1>5, <1>7, <1>8, <2>1 DEF QFull
  <2>3. Fresh(at)'
    <3>1. Fresh(k + 1)
      BY <1>7 DEF FInv, IInv, Pending, Transfer, Fresh, TypeOK
    <3>2. Fresh(k + 1)'
      BY SMTT(30), <1>1, <1>3, <1>4, <1>5, <1>7, <3>1, FreshBehind
    <3> QED
      BY <1>5, <1>7, <3>2 DEF Fresh
  <2>4. want' = Sum[end]
    BY <1>10, <1>11 DEF want
  <2>5. CASE c = Size(at)
    <3>1. at = end
      BY <1>1, <1>2, <1>3, <1>13, <2>5
    <3>2. n' = want' /\ n' # 0
      BY <1>1, <1>3, <1>4, <1>10, <2>4, <2>5, <3>1
    <3>3. QFull(end + 1)'
      BY <1>7, <1>9, <1>11, <2>5, <3>1 DEF QFull
    <3> QED
      BY <1>1, <1>5, <1>6, <1>13, <2>1, <2>2, <2>3, <3>2, <3>3
      DEF FInv, Flushing, Batch, OneByOne
  <2>6. CASE c # Size(at)
    <3>1. n' # want'
      BY <1>1, <1>3, <1>4, <1>10, <2>4, <2>6
    <3>2. ~Readable(Request(at).addr, Size(at))
      BY <1>3, <1>4, <2>6, StopsForReason
    <3>3. Lost'
      BY <1>2, <1>5, <3>2 DEF Lost, Readable, Request, Size
    <3> QED
      BY <1>1, <1>5, <1>6, <1>13, <2>1, <2>2, <2>3, <3>1, <3>3
      DEF FInv, Flushing, Batch, OneByOne
  <2> QED
    BY <2>5, <2>6
<1> QED
  BY <1>3, <1>12, <1>13

LEMMA CheckReadFlushes == ASSUME FInv, CheckRead PROVE FInv'
<1>1. /\ IInv' /\ TypeOK /\ flushed = reqs /\ Kept /\ batching /\ pc # "idle"
      /\ reqs \in Seq(Nat) /\ offset \in Nat
      /\ n = want => QFull(end + 1)
      /\ n = 0 \/ n # want => Lost
  BY CheckReadKeeps DEF FInv, IInv, Flushing, Batch, CheckRead, TypeOK
<1>2. UNCHANGED <<mapped, clock, batching, asked, bufs, flushed, started>>
  BY DEF CheckRead, target, history
<1>3. CASE (n = 0 \/ n # want) /\ Finish("error")
  BY <1>1, <1>2, <1>3, FinishFlushes
<1>4. CASE n = want /\ offset' = offset + MaxIov /\ ~(offset' < Len(reqs)) /\ Finish("ok")
  <2>1. end = Len(reqs)
    BY <1>1, <1>4, IovAssumption DEF end, Smaller
  <2> QED
    BY <1>1, <1>2, <1>4, <2>1, FinishFlushes
<1>5. CASE /\ n = want /\ offset' = offset + MaxIov /\ offset' < Len(reqs)
           /\ pc' = "chunk" /\ UNCHANGED <<result, reqs>>
  <2>1. end = offset'
    BY <1>1, <1>5, IovAssumption DEF end, Smaller
  <2>2. QFull(offset + 1)' /\ Kept'
    BY <1>1, <1>2, <1>5, <2>1 DEF QFull, Full, Kept, Genuine, Flushed
  <2> QED
    BY <1>1, <1>2, <1>5, <2>2 DEF FInv, Flushing, Batch, OneByOne
<1> QED
  BY <1>3, <1>4, <1>5 DEF CheckRead

LEMMA SeekToFlushes == ASSUME FInv, SeekTo PROVE FInv'
<1>1. IInv' /\ TypeOK /\ flushed = reqs /\ Kept /\ QFull(at) /\ at <= Len(reqs)
  BY SeekToKeeps DEF FInv, IInv, Pending, Flushing, OneByOne, SeekTo
<1>2. /\ UNCHANGED <<mapped, clock, batching, asked, bufs, reqs, at, flushed, started>>
      /\ seek' = Request(at).addr /\ n' = 0 /\ pc' = "read"
  BY DEF SeekTo, target, queue, history
<1>3. Kept' /\ QFull(at)'
  BY <1>1, <1>2 DEF Kept, Genuine, Flushed, QFull, Full
<1>4. bufs[reqs[at]] \in Seq(Cells) /\ Request(at).addr \in Nat
  BY <1>1, AtRequest
<1>5. seek' = Request(at)'.addr + n'
  BY <1>2, <1>4 DEF Request
<1>6. \A j \in DOMAIN bufs'[reqs'[at']] : ~(j <= n')
  BY <1>2, <1>4
<1> QED
  BY <1>1, <1>2, <1>3, <1>5, <1>6 DEF FInv, Flushing, Batch, OneByOne

LEMMA ReadFlushes == ASSUME FInv, Read PROVE FInv'
<1>1. /\ IInv' /\ TypeOK /\ QueueOnce /\ flushed = reqs /\ Kept /\ QFull(at)
      /\ at <= Len(reqs) /\ n \in Nat /\ seek \in Nat /\ seek = Request(at).addr + n
      /\ \A j \in DOMAIN bufs[reqs[at]] : j <= n => bufs[reqs[at]][j] # Zero
  <2>1. TypeOK /\ pc = "read"
    BY DEF FInv, IInv, Read
  <2>2. n \in Nat /\ seek \in Nat
    BY <2>1 DEF TypeOK
  <2> QED
    BY <2>1, <2>2, ReadKeeps DEF FInv, IInv, Pending, Flushing, OneByOne
<1>2. /\ Size(at) \in Nat /\ Request(at).addr \in Nat /\ at \in DOMAIN reqs
      /\ reqs[at] \in DOMAIN bufs /\ bufs[reqs[at]] \in Seq(Cells)
  BY <1>1, AtRequest
<1>3. PICK c \in Counts(seek, Size(at) - n) :
        /\ bufs' = Stored(at, n, seek, c)
        /\ n' = n + c /\ seek' = seek + c
  BY DEF Read
<1>4. c \in Nat
  <2>1. Size(at) - n \in Nat
    BY <1>1, <1>2 DEF Read
  <2> QED
    BY <1>3, <2>1, CountsBounded
<1>5. UNCHANGED <<mapped, clock, batching, asked, reqs, at, pc, flushed, started>> /\ pc = "read"
  BY DEF Read, target, queue, history
<1>6. Kept'
  <2>1. TypeOK'
    BY <1>1 DEF IInv
  <2> QED
    BY <1>1, <1>2, <1>3, <1>4, <1>5, <2>1, StoreKept
<1>7. QFull(at)'
  <2>1. PICK k \in DOMAIN reqs : k = at
    BY <1>2
  <2>2. QFull(k)'
    BY <1>1, <1>2, <1>3, <1>4, <1>5, <2>1, StoreQFull
  <2> QED
    BY <1>5, <2>1, <2>2 DEF QFull
<1>8. seek' = Request(at)'.addr + n'
  BY <1>1, <1>2, <1>3, <1>4, <1>5 DEF Request
<1>9. ASSUME NEW j \in DOMAIN bufs[reqs[at]], j <= n + c
      PROVE  bufs'[reqs[at]][j] # Zero
  <2>1. PICK k \in DOMAIN reqs : k = at
    BY <1>2
  <2>2. CASE j \in n + 1 .. n + c
    <3>1. Stored(k, n, seek, c)[reqs[k]][j] # Zero
      <4>1. j \in DOMAIN bufs[reqs[k]] /\ n \in Nat /\ seek \in Nat /\ c \in Nat
        BY <1>1, <1>4, <2>1
      <4>2. TypeOK
        BY <1>1
      <4> QED
        BY ZenonT(40), <2>2, <4>1, <4>2, StoreInside
    <3> QED
      BY <1>3, <2>1, <3>1
  <2>3. CASE j \notin n + 1 .. n + c
    <3>1. j <= n
      BY <1>1, <1>2, <1>4, <1>9, <2>3
    <3>2. bufs'[reqs[at]][j] = bufs[reqs[at]][j]
      <4>1. j \in DOMAIN bufs[reqs[k]]
        BY <2>1
      <4>2. Stored(k, n, seek, c)[reqs[k]][j] = bufs[reqs[k]][j]
        BY <1>1, <2>3, <4>1, StoreOutside
      <4> QED
        BY <1>3, <2>1, <4>2
    <3> QED
      BY <1>1, <3>1, <3>2
  <2> QED
    BY <2>2, <2>3
<1>10. DOMAIN bufs'[reqs[at]] = DOMAIN bufs[reqs[at]]
  BY <1>1, <1>2, <1>3 DEF Stored
<1>11. \A j \in DOMAIN bufs'[reqs'[at']] : j <= n' => bufs'[reqs'[at']][j] # Zero
  BY <1>3, <1>5, <1>9, <1>10
<1> QED
  BY <1>1, <1>5, <1>6, <1>7, <1>8, <1>11 DEF FInv, Flushing, Batch, OneByOne

LEMMA ReadFailsFlushes == ASSUME FInv, ReadFails PROVE FInv'
<1>1. /\ IInv' /\ TypeOK /\ pc # "idle" /\ at <= Len(reqs) /\ n \in Nat /\ n < Size(at)
      /\ seek = Request(at).addr + n /\ 0 \in Counts(seek, Size(at) - n) /\ Finish("error")
  <2>1. TypeOK /\ pc = "read"
    BY DEF FInv, IInv, ReadFails
  <2>2. n \in Nat
    BY <2>1 DEF TypeOK
  <2> QED
    BY <2>1, <2>2, ReadFailsKeeps DEF FInv, IInv, Pending, Flushing, OneByOne, ReadFails
<1>2. Size(at) \in Nat /\ Request(at).addr \in Nat /\ at \in DOMAIN reqs
  BY <1>1, AtRequest
<1>3. UNCHANGED <<mapped, clock, batching, asked, bufs, flushed, started>>
  BY DEF ReadFails, target, history
<1>4. ~Readable(seek, Size(at) - n)
  <2>1. PICK len \in Nat : len = Size(at) - n /\ len # 0
    BY <1>1, <1>2
  <2> QED
    BY <1>1, <2>1, StopsForReason
<1>5. PICK j \in 0 .. Size(at) - n - 1 : seek + j \notin mapped
  BY <1>4 DEF Readable
<1>6. n + j \in 0 .. Size(at) - 1 /\ Request(at).addr + (n + j) = seek + j
  BY <1>1, <1>2, <1>5
<1>7. ~Readable(Request(at).addr, Size(at))
  BY <1>5, <1>6 DEF Readable
<1>8. Lost
  BY <1>2, <1>7 DEF Lost
<1> QED
  BY <1>1, <1>3, <1>8, FinishFlushes

LEMMA ReadDoneFlushes == ASSUME FInv, ReadDone PROVE FInv'
<1>1. /\ IInv' /\ TypeOK /\ pc = "read" /\ flushed = reqs /\ Kept /\ QFull(at)
      /\ at <= Len(reqs) /\ n = Size(at)
      /\ \A j \in DOMAIN bufs[reqs[at]] : j <= n => bufs[reqs[at]][j] # Zero
  BY ReadDoneKeeps DEF FInv, IInv, Pending, Flushing, OneByOne, ReadDone
<1>2. UNCHANGED <<mapped, clock, batching, asked, bufs, flushed, started>>
  BY DEF ReadDone, target, history
<1>3. Full(reqs[at])
  <2>1. Len(bufs[reqs[at]]) = n /\ bufs[reqs[at]] \in Seq(Cells) /\ n \in Nat
    BY <1>1, AtRequest
  <2> QED
    BY <1>1, <2>1 DEF Full
<1>4. QFull(at + 1) /\ at \in Nat /\ Len(reqs) \in Nat
  <2>1. PICK k \in DOMAIN reqs : k = at /\ k \in Nat /\ Len(reqs) \in Nat
    BY <1>1, AtRequest
  <2> QED
    BY <1>1, <1>3, <2>1, QFullNext
<1>5. CASE ~(at < Len(reqs)) /\ Finish("ok")
  <2>1. QFull(Len(reqs) + 1)
    BY <1>1, <1>4, <1>5 DEF QFull
  <2> QED
    BY <1>1, <1>2, <1>5, <2>1, FinishFlushes
<1>6. CASE at' = at + 1 /\ pc' = "seek" /\ UNCHANGED <<result, reqs>>
  <2>1. Kept' /\ QFull(at)'
    BY <1>1, <1>2, <1>4, <1>6 DEF Kept, Genuine, Flushed, QFull, Full
  <2> QED
    BY <1>1, <1>2, <1>6, <2>1 DEF FInv, Flushing, Batch, OneByOne
<1> QED
  BY <1>1, <1>5, <1>6 DEF ReadDone

LEMMA TargetFlushes == ASSUME FInv, NEW m, Target(m) PROVE FInv'
<1>1. /\ IInv' /\ TypeOK /\ clock \in Nat /\ clock' = clock + 1 /\ mapped' \subseteq mapped
      /\ started \in Nat
  BY TargetKeeps DEF FInv, IInv, TypeOK, Target
<1>2. UNCHANGED <<batching, asked, reqs, bufs, pc, offset, at, n, seek, result, flushed, started>>
  BY DEF Target, queue, history
<1>3. \A a, len : Readable(a, len)' => Readable(a, len)
  BY <1>1 DEF Readable
<1>4. Kept'
  BY <1>1, <1>2 DEF FInv, Kept, Genuine, Flushed
<1>5. Lost => Lost'
  BY <1>2, <1>3 DEF Lost, Request, Size
<1>6. Returned => Returned'
  BY <1>2, <1>3
  DEF Returned, FailureIsPrefix, FailsForReason, Flushed, Full, Untouched
<1>7. Sum' = Sum /\ end' = end /\ chunk' = chunk
  BY <1>2, SumSame DEF end, chunk
<1>8. Batch => Batch'
  BY <1>2, <1>5, <1>7 DEF Batch, QFull, Full, Fresh, Untouched, Size, Request, want
<1>9. OneByOne => OneByOne'
  BY <1>2 DEF OneByOne, QFull, Full, Request
<1> QED
  BY <1>1, <1>2, <1>4, <1>6, <1>8, <1>9 DEF FInv, Flushing

-----------------------------------------------------------------------------
LEMMA FInvStep == FInv /\ [Next]_vars => FInv'
<1> SUFFICES ASSUME FInv, [Next]_vars PROVE FInv'
  OBVIOUS
<1>1. CASE UNCHANGED vars
  <2>1. IInv'
    BY IInvStep DEF FInv
  <2>2. Sum' = Sum
    BY <1>1, SumSame DEF vars
  <2>3. Kept' /\ Flushing'
    BY <1>1, <2>2
    DEF vars, FInv, Kept, Genuine, Flushed, Flushing, Returned, FailureIsPrefix,
        FailsForReason, Full, Untouched, Readable, Batch, OneByOne, QFull, Fresh, Lost,
        Size, Request, chunk, end, want
  <2> QED
    BY <2>1, <2>3 DEF FInv
<1> QED
  BY <1>1, AddFlushes, FlushFlushes, BuildIovecsFlushes, TransferFlushes,
     CheckReadFlushes, SeekToFlushes, ReadFlushes, ReadFailsFlushes, ReadDoneFlushes,
     TargetFlushes
  DEF Next, Step

\* Flush returns nil only when every queued buffer is full of bytes of its own
\* addresses, none older than the call: the comparison of one number per chunk is
\* enough, however the chunks fall and whatever the kernel reads in part.
THEOREM FlushFillsAlways == Spec => []FlushFills
<1>1. FInv => FlushFills
  <2> SUFFICES ASSUME FInv, pc = "idle", result = "ok", NEW b \in Flushed,
                      NEW j \in DOMAIN bufs[b]
               PROVE  bufs[b][j].addr = asked[b].addr + j - 1 /\ bufs[b][j].time >= started
    BY DEF FlushFills
  <2>1. bufs[b][j] # Zero
    BY DEF FInv, Flushing, Returned, Flushed, Full
  <2> QED
    BY <2>1 DEF FInv, Kept, Genuine
<1> QED
  BY <1>1, FInvInit, FInvStep, PTL DEF Spec

\* At every moment, after a failure too, the buffers of a Flush are full ones, then at
\* most one in between, then untouched ones.
THEOREM FailureIsPrefixAlways == Spec => []FailureIsPrefix
BY PrefixAlways, FInvInit, FInvStep, PTL DEF Spec

\* Flush never fails without a reason: memory that is gone, or an empty buffer in a
\* batch.
THEOREM FailsForReasonAlways == Spec => []FailsForReason
<1>1. FInv => FailsForReason
  BY DEF FInv, Flushing, Returned, FailsForReason
<1> QED
  BY <1>1, FInvInit, FInvStep, PTL DEF Spec

=============================================================================
