----------------------------- MODULE FindProofs -----------------------------
(***************************************************************************)
(* Theorems about searches.  Type correctness holds for every instance of  *)
(* MemFind; what FindFirst answers is proved for reads that are never short*)
(* and patterns no longer than a window.                                   *)
(***************************************************************************)
EXTENDS MemFind, BufferLemmas, WellFoundedInduction

USE RegionAssumption, CapAssumption, EdgesAssumption, ChunkAssumption

\* Every set of natural numbers has a least one: the first hit of a window exists.
LEMMA LeastHit ==
  ASSUME NEW T, T \subseteq Nat, T # {}
  PROVE  \E x \in T : \A y \in T : x <= y
<1> DEFINE R == OpToRel(<, Nat)
<1>1. IsWellFoundedOn(R, Nat)
  BY NatLessThanWellFounded
<1>2. PICK x \in T : \A y \in T : ~(<<y, x>> \in R)
  <2> HIDE DEF R
  <2>1. QED
    BY <1>1, WFMin
<1>3. \A y \in T : ~(y < x)
  BY <1>2 DEF OpToRel
<1>4. QED
  BY <1>3

\* The least hit, as WindowMatches chooses it.
First(data) == CHOOSE i \in Hits(data) : \A h \in Hits(data) : i <= h

-----------------------------------------------------------------------------
(***************************************************************************)
(* Types.                                                                  *)
(***************************************************************************)

\* The pattern of a call is a sequence, and a window has natural positions.
LEMMA PatternType ==
  ASSUME TypeOK
  PROVE  /\ call.pat \in [text : Texts, prog : Seq(Bytes \cup {Any})]
         /\ patternLen \in Nat /\ Overlap \in Nat /\ Stride \in Int
         /\ patternLen = 0 => Overlap = 0
         /\ patternLen > 0 => Overlap = patternLen - 1
         /\ Positions \subseteq Nat
         /\ \A i \in Positions : i < Chunk - patternLen - 1
<1>1. call.pat \in [text : Texts, prog : Seq(Bytes \cup {Any})]
  BY PatternsAssumption DEF TypeOK
<1>2. patternLen \in Nat
  BY <1>1 DEF patternLen
<1>3. QED
  BY <1>1, <1>2 DEF Overlap, Stride, Positions

\* What a match returns is the window's first hit, an integer.
LEMMA FirstIsHit ==
  ASSUME TypeOK, NEW data, Hits(data) # {}
  PROVE  /\ First(data) \in Positions /\ First(data) \in Hits(data)
         /\ \A h \in Hits(data) : First(data) <= h
<1>1. Hits(data) \subseteq Nat /\ Hits(data) \subseteq Positions
  BY PatternType DEF Hits
<1>2. \E i \in Hits(data) : \A h \in Hits(data) : i <= h
  BY <1>1, LeastHit
<1>3. First(data) \in Hits(data) /\ \A h \in Hits(data) : First(data) <= h
  BY <1>2 DEF First
<1>4. QED
  BY <1>1, <1>3

\* What a window is, and what buffer it leaves.
LEMMA WindowOf ==
  ASSUME TypeOK, ~(NeedsRefill(buf, Chunk) /\ RefillPanics(buf)), NEW w \in Windows
  PROVE  \E b \in Ready(buf, Chunk) :
            /\ b \in Buffers
            /\ NeedsRefill(buf, Chunk) => b.err = "nil"
            /\ b.i + Chunk <= Cap
            /\ w.data = Slice(b, b.i, Chunk)
            /\ w.after = Advanced(b, Chunk)
            /\ w.after \in Buffers
<1>1. PICK b \in Ready(buf, Chunk) :
          /\ NeedsRefill(buf, Chunk) => b.err = "nil"
          /\ b.i + Chunk <= Cap
          /\ w = [data |-> Slice(b, b.i, Chunk), after |-> Advanced(b, Chunk)]
  BY DEF Windows
<1>2. b \in Buffers
  BY RefilledType DEF Ready, TypeOK
<1>3. Advanced(b, Chunk) \in Buffers
  BY <1>2 DEF Advanced, Buffers
<1>4. QED
  BY <1>1, <1>2, <1>3

\* One step keeps the types.
LEMMA FindTypeStep ==
  ASSUME TypeOK, [Next]_vars
  PROVE  TypeOK'
<1>1. ASSUME NEW p \in Patterns, Find(p) \/ FindFirst(p)
      PROVE  TypeOK'
  <2>1. call' \in [fn : Functions, pat : Patterns]
    BY <1>1 DEF Find, FindFirst, Functions
  <2>2. PICK b \in Buffers : Enter(p, b)
    BY <1>1, ClearedType DEF Find, FindFirst, TypeOK
  <2>3. p.text \in Texts
    BY PatternsAssumption
  <2>4. pc' \in {"idle", "search", "panic"} /\ answer' \in Answers
    <3>1. Found(0) \in Answers /\ Nothing("odd") \in Answers
      BY DEF Found, Nothing, Answers
    <3>2. CASE p.text = "empty"
      BY <2>2, <3>1, <3>2 DEF Enter, Return
    <3>3. CASE p.text = "odd"
      BY <2>2, <3>1, <3>3 DEF Enter, Return
    <3>4. CASE p.text = "invalid"
      BY <2>2, <3>4 DEF Enter, TypeOK
    <3>5. CASE p.text = "hex"
      BY <2>2, <3>5 DEF Enter, TypeOK
    <3>6. QED
      BY <2>3, <3>2, <3>3, <3>4, <3>5 DEF Texts
  <2>5. mem' = mem /\ buf' \in Buffers /\ absolutePos' = 0
    BY <2>2 DEF Enter
  <2>6. QED
    BY <2>1, <2>4, <2>5 DEF TypeOK
<1>2. ASSUME NEW n \in Skips, Discard(n)
      PROVE  TypeOK'
  <2>1. n \in Nat
    BY SkipsAssumption
  <2>2. Advanced(buf, n) \in Buffers
    BY <2>1 DEF TypeOK, Advanced, Buffers
  <2>3. QED
    BY <1>2, <2>2 DEF Discard, TypeOK
<1>3. CASE WindowFails
  <2>1. PICK b \in Refilled(buf) : b.err # "nil" /\ buf' = b /\ Return(Nothing(b.err))
    BY <1>3 DEF WindowFails
  <2>2. b \in Buffers
    BY <1>3, RefilledType DEF WindowFails, TypeOK
  <2>3. Nothing(b.err) \in Answers
    BY <2>1, <2>2 DEF Nothing, Answers, Buffers, Errors
  <2>4. QED
    BY <1>3, <2>1, <2>2, <2>3 DEF WindowFails, Return, TypeOK
<1>4. CASE WindowPanics
  BY <1>4 DEF WindowPanics, TypeOK
<1>5. CASE WindowMatches
  <2>1. PICK w \in Windows : /\ Hits(w.data) # {}
                             /\ buf' = w.after
                             /\ Return(Found(Start + absolutePos + First(w.data)))
    BY <1>5 DEF WindowMatches, First
  <2>2. buf' \in Buffers
    BY <1>5, <2>1, WindowOf DEF WindowMatches
  <2>3. First(w.data) \in Int /\ absolutePos \in Int
    BY <2>1, FirstIsHit, PatternType DEF TypeOK
  <2>4. Found(Start + absolutePos + First(w.data)) \in Answers
    BY <2>3 DEF Found, Answers
  <2>5. QED
    BY <1>5, <2>1, <2>2, <2>4 DEF WindowMatches, Return, TypeOK
<1>6. CASE WindowMisses
  <2>1. PICK w \in Windows : buf' = Rewound(w.after, Overlap)
    BY <1>6 DEF WindowMisses
  <2>2. w.after \in Buffers
    BY <1>6, WindowOf DEF WindowMisses
  <2>3. Rewound(w.after, Overlap) \in Buffers
    BY SMTT(30), <2>2, PatternType DEF Rewound, Buffers
  <2>4. absolutePos' \in Int
    BY <1>6, PatternType DEF WindowMisses, TypeOK
  <2>5. QED
    BY <1>6, <2>1, <2>3, <2>4 DEF WindowMisses, TypeOK
<1>7. CASE UNCHANGED vars
  BY <1>7 DEF vars, TypeOK
<1>8. QED
  BY <1>1, <1>2, <1>3, <1>4, <1>5, <1>6, <1>7 DEF Next, Window

\* A new buffer and no answer yet.
LEMMA FindTypeInit == Init => TypeOK
<1>1. SUFFICES ASSUME Init PROVE TypeOK
  OBVIOUS
<1>2. (CHOOSE p \in Patterns : p.text = "hex") \in Patterns
  BY PatternsAssumption
<1>3. Nothing("none") \in Answers
  BY DEF Nothing, Answers
<1>4. ASSUME NEW h \in Patterns, call \in [fn : {"Find"}, pat : {h}]
      PROVE  call \in [fn : Functions, pat : Patterns]
  BY <1>4 DEF Functions
<1>5. call \in [fn : Functions, pat : Patterns]
  BY <1>1, <1>2, <1>4 DEF Init
<1>6. QED
  BY <1>1, <1>3, <1>5, ClearedType DEF Init, TypeOK

\* Whatever searches and discards a client mixes, the buffer keeps its shape, and
\* a search answers with a place, an error, or by panicking.
THEOREM FindTypeCorrect == Spec => []TypeOK
<1>1. QED
  BY FindTypeInit, FindTypeStep, PTL DEF Spec

-----------------------------------------------------------------------------
(***************************************************************************)
(* What FindFirst answers.                                                 *)
(***************************************************************************)
Fits == Edges = {} /\ \A p \in Patterns : Len(p.prog) <= Chunk

\* No match below n among the addresses that are examined.
NoneBelow(n) == \A a \in Start .. n - 1 : ~(Examined(a) /\ MatchAt(a))

Searching == pc = "search" /\ call.fn = "FindFirst"

\* The search stands at Start + absolutePos, a multiple of the stride, with the
\* buffer's next byte there, and has missed nothing so far.  A buffer of one window
\* is always read to its end and rewound by the overlap.
OnTrack == /\ buf.err = "nil" /\ Sound(buf)
           /\ At(buf) = Start + absolutePos
           /\ \E q \in Nat : absolutePos = q * Stride
           /\ NoneBelow(Start + absolutePos)
           /\ Cap = Chunk /\ buf.syscalls > 0 => buf.i = Cap - Overlap

\* The inductive invariant.
IInv == /\ TypeOK
        /\ Searching => OnTrack
        /\ FirstFindSound
        /\ FirstFindComplete

\* The stride is positive when the pattern is no longer than the window.
LEMMA StridePositive ==
  ASSUME TypeOK, Fits
  PROVE  /\ patternLen <= Chunk /\ Overlap <= Chunk - 1
         /\ Stride \in Nat \ {0} /\ Stride = Chunk - Overlap
<1>1. patternLen <= Chunk
  BY DEF Fits, TypeOK, patternLen
<1>2. QED
  BY <1>1, PatternType DEF Stride

\* The k-th byte of a window is the byte of memory at its address.
LEMMA WindowData ==
  ASSUME TypeOK, NEW b \in Buffers, Windowed(b), b.i + Chunk <= Cap, b.data[0] + b.i >= Start,
         NEW k \in 1 .. Chunk
  PROVE  ByteOf(Slice(b, b.i, Chunk)[k]) = MemAt(b.data[0] + b.i + (k - 1))
<1>1. b.i \in Nat /\ b.data[0] \in Nat /\ b.i + (k - 1) \in Slots
  BY DEF Buffers, Windowed, Slots
<1>2. Slice(b, b.i, Chunk)[k] = b.data[b.i + (k - 1)]
  <2>1. b.i + k - 1 = b.i + (k - 1)
    BY <1>1
  <2>2. QED
    BY <2>1 DEF Slice
<1> DEFINE a == b.data[0] + b.i + (k - 1)
<1>3. a \in Nat /\ Start <= a /\ a = b.data[0] + (b.i + (k - 1))
  BY <1>1
<1>4. b.data[b.i + (k - 1)] = IF a < End THEN a ELSE Fill
  BY <1>1, <1>3 DEF Windowed
<1>5. CASE a < End
  BY <1>2, <1>3, <1>4, <1>5 DEF ByteOf, MemAt, Region, Fill
<1>6. CASE ~(a < End)
  BY <1>2, <1>3, <1>4, <1>6 DEF ByteOf, MemAt, Region
<1>7. QED
  BY <1>5, <1>6

\* The hits of a window are the matches in memory at its starting positions.
LEMMA HitsAreMatches ==
  ASSUME TypeOK, NEW b \in Buffers, Windowed(b), b.i + Chunk <= Cap, b.data[0] + b.i >= Start,
         NEW i \in Positions
  PROVE  i \in Hits(Slice(b, b.i, Chunk)) <=> MatchAt(b.data[0] + b.i + i)
<1> DEFINE data == Slice(b, b.i, Chunk)
<1> DEFINE a == b.data[0] + b.i + i
<1>1. /\ i \in Nat /\ i < Chunk - patternLen - 1 /\ patternLen \in Nat
      /\ b.i \in Nat /\ b.data[0] \in Nat
  BY PatternType DEF Buffers, Windowed
<1>2. ASSUME NEW j \in 0 .. patternLen - 1
      PROVE  matches(call.pat.prog[j + 1], data[i + j + 1])
               <=> call.pat.prog[j + 1] = Any \/ call.pat.prog[j + 1] = MemAt(a + j)
  <2>1. i + j + 1 \in 1 .. Chunk
    BY <1>1
  <2>2. ByteOf(data[i + j + 1]) = MemAt(b.data[0] + b.i + ((i + j + 1) - 1))
    BY <2>1, WindowData
  <2>3. b.data[0] + b.i + ((i + j + 1) - 1) = a + j
    BY <1>1
  <2>4. QED
    BY <2>2, <2>3 DEF matches
<1>3. QED
  BY <1>2 DEF Hits, MatchAt

\* An examined address less than a stride ahead is a starting position of the
\* window.
LEMMA ExaminedIsPosition ==
  ASSUME TypeOK, Fits, NEW q \in Nat, NEW r \in Nat, r < Stride,
         Examined(Start + q * Stride + r)
  PROVE  r \in Positions
<1>1. Stride \in Nat \ {0} /\ patternLen \in Nat
  BY StridePositive, PatternType
<1>2. q * Stride \in Nat
  BY <1>1
<1>3. (Start + q * Stride + r) - Start = q * Stride + r
  BY <1>2
<1>4. (q * Stride + r) % Stride = r
  BY <1>1
<1>5. r < Chunk - patternLen - 1
  BY <1>3, <1>4 DEF Examined
<1>6. QED
  BY <1>1, <1>5 DEF Positions

\* A step that changes neither the call nor the target leaves all that is said
\* about matches as it is.
LEMMA SameSearch ==
  ASSUME UNCHANGED <<mem, call>>
  PROVE  /\ patternLen' = patternLen /\ Stride' = Stride /\ Overlap' = Overlap
         /\ \A a : MatchAt(a)' <=> MatchAt(a)
         /\ \A a : Examined(a)' <=> Examined(a)
BY DEF patternLen, Stride, Overlap, MatchAt, MemAt, Examined

\* At the end of the region, with less than a window left in the buffer, no address
\* that counts is still to be searched.
LEMMA NothingLeft ==
  ASSUME TypeOK, Fits, OnTrack, NeedsRefill(buf, Chunk), buf.addr = End,
         NEW a \in Region, a + Needed <= End
  PROVE  a < Start + absolutePos
<1>1. /\ buf.i \in Nat /\ buf.syscalls \in Nat /\ a \in Nat /\ a < End
      /\ patternLen \in Nat /\ Overlap \in Nat
  BY PatternType DEF TypeOK, Buffers, Region
<1>2. CASE buf.syscalls = 0
  BY <1>1, <1>2 DEF OnTrack, At
<1>3. CASE buf.syscalls > 0
  <2>1. buf.data[0] \in Nat /\ End <= buf.data[0] + Cap
    BY <1>1, <1>3 DEF OnTrack, Sound, Windowed, Smaller
  <2>2. Start + absolutePos = buf.data[0] + buf.i
    BY <1>3 DEF OnTrack, At
  <2>3. CASE Cap # Chunk
    <3>1. Needed = Chunk /\ buf.i + Chunk > Cap
      BY <1>3, <2>3 DEF Needed, NeedsRefill
    <3>2. QED
      BY <1>1, <2>1, <2>2, <3>1
  <2>4. CASE Cap = Chunk
    <3>1. Needed = patternLen /\ buf.i = Cap - Overlap
      BY <1>3, <2>4 DEF Needed, OnTrack
    <3>2. Overlap <= patternLen /\ (patternLen = 0 \/ Overlap < patternLen)
      BY PatternType
    <3>3. QED
      BY <1>1, <2>1, <2>2, <3>1, <3>2
  <2>5. QED
    BY <2>3, <2>4
<1>4. QED
  BY <1>1, <1>2, <1>3

\* A search in step with the region gets the window at its position.
LEMMA TrackedWindow ==
  ASSUME TypeOK, Fits, OnTrack, NEW b \in Ready(buf, Chunk), b.i + Chunk <= Cap,
         NeedsRefill(buf, Chunk) => b.err = "nil"
  PROVE  /\ b \in Buffers /\ b.err = "nil" /\ Windowed(b) /\ b.syscalls > 0
         /\ b.data[0] \in Nat /\ b.i \in Nat
         /\ b.data[0] + b.i = Start + absolutePos /\ b.data[0] + b.i >= Start
<1>1. b.err = "nil"
  BY DEF Ready, OnTrack
<1>2. buf \in Buffers /\ buf.i \in Nat /\ buf.i <= Cap
  BY DEF TypeOK, OnTrack, Sound, Buffers
<1>3. b \in Buffers
  BY <1>2, RefilledType DEF Ready, RefillPanics
<1>4. b.i \in Nat /\ Chunk <= Cap
  BY <1>3 DEF Buffers
<1>5. Windowed(b) /\ b.syscalls > 0 /\ b.data[0] + b.i = At(buf)
  BY <1>1, <1>2, <1>4, ReadyWindow DEF Fits, OnTrack
<1>6. absolutePos \in Nat
  <2>1. PICK q \in Nat : absolutePos = q * Stride
    BY DEF OnTrack
  <2>2. Stride \in Nat
    BY StridePositive
  <2>3. QED
    BY <2>1, <2>2
<1>7. b.data[0] \in Nat /\ At(buf) = Start + absolutePos
  BY <1>5 DEF Windowed, OnTrack
<1>8. QED
  BY <1>1, <1>3, <1>4, <1>5, <1>6, <1>7

\* A window without hits leaves no examined match below the next one.
LEMMA MissedWindow ==
  ASSUME TypeOK, Fits, OnTrack, NEW b \in Buffers, Windowed(b), b.i + Chunk <= Cap,
         b.data[0] + b.i = Start + absolutePos, b.data[0] + b.i >= Start,
         Hits(Slice(b, b.i, Chunk)) = {}
  PROVE  NoneBelow(Start + absolutePos + Stride)
<1>1. PICK q \in Nat : absolutePos = q * Stride
  BY DEF OnTrack
<1>2. Stride \in Nat \ {0} /\ absolutePos \in Nat
  BY <1>1, StridePositive
<1>3. SUFFICES ASSUME NEW a \in Start .. (Start + absolutePos + Stride) - 1,
                      Examined(a) /\ MatchAt(a)
               PROVE  FALSE
  BY Zenon DEF NoneBelow
<1>4. CASE a < Start + absolutePos
  <2>1. a \in Start .. (Start + absolutePos) - 1
    BY <1>2, <1>4
  <2>2. QED
    BY <1>3, <2>1 DEF OnTrack, NoneBelow
<1>5. CASE a >= Start + absolutePos
  <2> DEFINE r == a - Start - absolutePos
  <2>1. r \in Nat /\ r < Stride /\ a = Start + absolutePos + r
    BY <1>2, <1>5
  <2>2. Start + absolutePos + r = Start + q * Stride + r
    BY <1>1
  <2>3. Examined(Start + q * Stride + r)
    BY <1>3, <2>1, <2>2
  <2>4. r \in Positions
    BY <2>1, <2>3, ExaminedIsPosition
  <2>5. b.data[0] + b.i + r = a
    BY <2>1
  <2>6. QED
    BY <1>3, <2>4, <2>5, HitsAreMatches
<1>6. QED
  BY <1>2, <1>4, <1>5

\* The first hit of a window is the first examined match.
LEMMA HitWindow ==
  ASSUME TypeOK, Fits, OnTrack, NEW b \in Buffers, Windowed(b), b.i + Chunk <= Cap,
         b.data[0] + b.i = Start + absolutePos, b.data[0] + b.i >= Start,
         Hits(Slice(b, b.i, Chunk)) # {}
  PROVE  LET n == Start + absolutePos + First(Slice(b, b.i, Chunk))
         IN  MatchAt(n) /\ NoneBelow(n)
<1> DEFINE data == Slice(b, b.i, Chunk)
<1> DEFINE i == First(data)
<1>1. i \in Positions /\ i \in Hits(data) /\ \A h \in Hits(data) : i <= h
  BY FirstIsHit
<1>2. i \in Nat /\ i < Chunk - patternLen - 1 /\ patternLen \in Nat
  BY <1>1, PatternType
<1> HIDE DEF i
<1>3. MatchAt(Start + absolutePos + i)
  BY <1>1, HitsAreMatches
<1>4. absolutePos \in Nat
  <2>1. PICK q \in Nat : absolutePos = q * Stride
    BY DEF OnTrack
  <2>2. Stride \in Nat
    BY StridePositive
  <2>3. QED
    BY <2>1, <2>2
<1>5. ASSUME NEW a \in Start .. (Start + absolutePos + i) - 1, Examined(a) /\ MatchAt(a)
      PROVE  FALSE
  <2>1. CASE a < Start + absolutePos
    <3>1. a \in Start .. (Start + absolutePos) - 1
      BY <1>2, <1>4, <2>1
    <3>2. QED
      BY <1>5, <3>1 DEF OnTrack, NoneBelow
  <2>2. CASE a >= Start + absolutePos
    <3> DEFINE r == a - Start - absolutePos
    <3>1. r \in Nat /\ r < i /\ a = Start + absolutePos + r
      BY <1>2, <1>4, <2>2
    <3>2. r \in Positions
      BY <1>2, <3>1 DEF Positions
    <3>3. b.data[0] + b.i + r = a
      BY <3>1
    <3>4. r \in Hits(data)
      BY <1>5, <3>2, <3>3, HitsAreMatches
    <3>5. i <= r
      BY <1>1, <3>4
    <3>6. QED
      BY <1>2, <3>1, <3>5
  <2>3. QED
    BY <1>4, <2>1, <2>2
<1>6. NoneBelow(Start + absolutePos + i)
  BY <1>5, Zenon DEF NoneBelow
<1>7. QED
  BY <1>3, <1>6 DEF i

-----------------------------------------------------------------------------
(***************************************************************************)
(* The invariant.                                                          *)
(***************************************************************************)

\* What the last answer promises depends on nothing but the call, the target and
\* the answer.
LEMMA AnswerStays ==
  ASSUME FirstFindSound, FirstFindComplete, UNCHANGED <<mem, pc, call, answer>>
  PROVE  FirstFindSound' /\ FirstFindComplete'
<1>1. /\ patternLen' = patternLen
      /\ \A a : MatchAt(a)' <=> MatchAt(a)
      /\ \A a : Examined(a)' <=> Examined(a)
  BY SameSearch
<1>2. Needed' = Needed /\ FirstSearchReturned' = FirstSearchReturned
  BY <1>1 DEF Needed, FirstSearchReturned
<1>3. FirstFindSound'
  BY <1>1, <1>2 DEF FirstFindSound
<1>4. FirstFindComplete'
  BY <1>1, <1>2 DEF FirstFindComplete, Region
<1>5. QED
  BY <1>3, <1>4

\* One step keeps it.
LEMMA FindStep ==
  ASSUME Fits, IInv, [Next]_vars
  PROVE  IInv'
<1>1. TypeOK /\ TypeOK'
  BY FindTypeStep DEF IInv
<1>2. ASSUME NEW p \in Patterns, Find(p)
      PROVE  IInv'
  <2>1. call'.fn = "Find"
    BY <1>2 DEF Find
  <2>2. QED
    BY <1>1, <2>1 DEF IInv, Searching, FirstFindSound, FirstFindComplete,
                      FirstSearchReturned
<1>3. ASSUME NEW p \in Patterns, FindFirst(p)
      PROVE  IInv'
  <2>1. call' = [fn |-> "FindFirst", pat |-> p] /\ Enter(p, Cleared(Start))
    BY <1>3 DEF FindFirst
  <2>2. pc' = "search" \/ p.text # "hex"
    BY <2>1 DEF Enter
  <2>3. ~FirstSearchReturned'
    BY <2>1, <2>2 DEF FirstSearchReturned
  <2>4. /\ buf'.err = "nil" /\ buf'.syscalls = 0 /\ buf'.i = 0 /\ buf'.addr = Start
        /\ absolutePos' = 0
    BY <2>1 DEF Enter, Cleared
  <2>5. 0 = 0 * Stride'
    BY <1>1 DEF Stride, Overlap, patternLen, TypeOK
  <2>6. NoneBelow(Start + absolutePos)'
    BY <2>4 DEF NoneBelow
  <2>7. OnTrack'
    BY <2>4, <2>5, <2>6 DEF OnTrack, Sound, At
  <2>8. QED
    BY <1>1, <2>3, <2>7 DEF IInv, FirstFindSound, FirstFindComplete
<1>4. ASSUME NEW n \in Skips, Discard(n)
      PROVE  IInv'
  BY <1>1, <1>4, AnswerStays DEF Discard, IInv, Searching
<1>5. CASE WindowFails
  <2>1. PICK b \in Refilled(buf) : b.err # "nil" /\ Return(Nothing(b.err))
    BY <1>5 DEF WindowFails
  <2>2. pc = "search" /\ pc' = "idle" /\ answer' = Nothing(b.err)
        /\ NeedsRefill(buf, Chunk) /\ UNCHANGED <<mem, call, absolutePos>>
    BY <1>5, <2>1 DEF WindowFails, Return
  <2>3. ~RefillPanics(buf) /\ buf \in Buffers /\ b \in Buffers
    BY <1>1, <1>5, RefilledType DEF WindowFails, TypeOK
  <2>4. answer'.outcome = b.err /\ b.err # "found"
    BY <2>2, <2>3 DEF Nothing, Buffers, Errors
  <2>5. FirstFindSound'
    BY <2>4 DEF FirstFindSound
  <2>6. ASSUME call.fn = "FindFirst", b.err = "EOF",
               NEW a \in Region, a + Needed <= End
        PROVE  ~(Examined(a) /\ MatchAt(a))
    <3>1. OnTrack
      BY <2>2, <2>6 DEF IInv, Searching
    <3>2. buf.addr = End
      <4>1. ASSUME NEW n \in Nat, b = Filled(Shifted(buf), Kept(buf), n), buf.i <= Cap
            PROVE  b.err = "nil"
        BY <2>3, <3>1, <4>1, FilledCells DEF OnTrack
      <4>2. Failed(Shifted(buf), "fault").err = "fault"
        BY <2>3 DEF Failed, Shifted, Buffers
      <4>3. CASE buf.addr # End
        <5>1. b = Failed(Shifted(buf), "fault")
              \/ \E n \in Nat : b = Filled(Shifted(buf), Kept(buf), n)
          BY <2>1, <3>1, <4>3 DEF Refilled, OnTrack, ReadLens
        <5>2. QED
          BY <2>6, <3>1, <4>1, <4>2, <5>1 DEF OnTrack, Sound
      <4>4. QED
        BY <4>3
    <3>3. a < Start + absolutePos
      BY <1>1, <2>2, <2>6, <3>1, <3>2, NothingLeft
    <3>4. a \in Start .. (Start + absolutePos) - 1
      BY <1>1, <3>3 DEF Region, TypeOK
    <3>5. QED
      BY <3>1, <3>4 DEF OnTrack, NoneBelow
  <2>7. FirstFindComplete'
    <3>1. /\ patternLen' = patternLen
          /\ \A a : MatchAt(a)' <=> MatchAt(a)
          /\ \A a : Examined(a)' <=> Examined(a)
      BY <2>2, SameSearch
    <3>2. Needed' = Needed
      BY <3>1 DEF Needed
    <3>3. QED
      BY <2>2, <2>4, <2>6, <3>1, <3>2 DEF FirstFindComplete, FirstSearchReturned, Region
  <2>8. QED
    BY <1>1, <2>2, <2>5, <2>7 DEF IInv, Searching
<1>6. CASE WindowPanics
  BY <1>1, <1>6 DEF WindowPanics, IInv, Searching, FirstFindSound, FirstFindComplete,
                    FirstSearchReturned
<1>7. CASE WindowMatches
  <2>1. PICK w \in Windows : /\ Hits(w.data) # {}
                             /\ Return(Found(Start + absolutePos + First(w.data)))
    BY <1>7 DEF WindowMatches, First
  <2>2. /\ pc = "search" /\ pc' = "idle" /\ UNCHANGED <<mem, call>>
        /\ answer' = Found(Start + absolutePos + First(w.data))
        /\ ~(NeedsRefill(buf, Chunk) /\ RefillPanics(buf))
    BY <1>7, <2>1 DEF WindowMatches, Return
  <2>3. answer'.outcome = "found" /\ answer'.addr = Start + absolutePos + First(w.data)
    BY <2>2 DEF Found
  <2>4. FirstFindComplete'
    BY <2>3 DEF FirstFindComplete
  <2>5. ASSUME call.fn = "FindFirst"
        PROVE  MatchAt(answer'.addr) /\ NoneBelow(answer'.addr)
    <3>1. OnTrack
      BY <2>2, <2>5 DEF IInv, Searching
    <3>2. PICK b \in Ready(buf, Chunk) :
             /\ NeedsRefill(buf, Chunk) => b.err = "nil"
             /\ b.i + Chunk <= Cap /\ w.data = Slice(b, b.i, Chunk)
      BY <1>1, <2>2, WindowOf
    <3>3. /\ b \in Buffers /\ Windowed(b) /\ b.data[0] + b.i = Start + absolutePos
          /\ b.data[0] + b.i >= Start
      BY <1>1, <3>1, <3>2, TrackedWindow
    <3>4. QED
      BY <1>1, <2>1, <2>3, <3>1, <3>2, <3>3, HitWindow
  <2>6. FirstFindSound'
    <3>1. /\ \A a : MatchAt(a)' <=> MatchAt(a)
          /\ \A a : Examined(a)' <=> Examined(a)
      BY <2>2, SameSearch
    <3>2. QED
      BY <2>2, <2>5, <3>1 DEF FirstFindSound, FirstSearchReturned, NoneBelow
  <2>7. QED
    BY <1>1, <2>2, <2>4, <2>6 DEF IInv, Searching
<1>8. CASE WindowMisses
  <2>1. PICK w \in Windows : Hits(w.data) = {} /\ buf' = Rewound(w.after, Overlap)
    BY <1>8 DEF WindowMisses
  <2>2. /\ pc = "search" /\ pc' = "search" /\ UNCHANGED <<mem, call>>
        /\ absolutePos' = absolutePos + Chunk - Overlap
        /\ ~(NeedsRefill(buf, Chunk) /\ RefillPanics(buf))
    BY <1>8 DEF WindowMisses
  <2>3. ASSUME Searching
        PROVE  OnTrack'
    <3>1. OnTrack
      BY <2>3 DEF IInv
    <3>2. PICK b \in Ready(buf, Chunk) :
             /\ NeedsRefill(buf, Chunk) => b.err = "nil"
             /\ b.i + Chunk <= Cap /\ w.data = Slice(b, b.i, Chunk)
             /\ w.after = Advanced(b, Chunk)
      BY <1>1, <2>2, WindowOf
    <3>3. /\ b \in Buffers /\ b.err = "nil" /\ Windowed(b) /\ b.syscalls > 0
          /\ b.data[0] \in Nat /\ b.i \in Nat
          /\ b.data[0] + b.i = Start + absolutePos /\ b.data[0] + b.i >= Start
      BY <1>1, <3>1, <3>2, TrackedWindow
    <3>4. /\ Overlap \in Nat /\ Overlap <= Chunk - 1
          /\ Stride \in Nat \ {0} /\ Stride = Chunk - Overlap
      BY <1>1, StridePositive, PatternType
    <3>5. /\ buf'.data = b.data /\ buf'.addr = b.addr /\ buf'.err = b.err
          /\ buf'.syscalls = b.syscalls /\ buf'.i = b.i + Chunk - Overlap
      <4>1. /\ w.after.data = b.data /\ w.after.addr = b.addr /\ w.after.err = b.err
            /\ w.after.syscalls = b.syscalls /\ w.after.i = b.i + Chunk
            /\ w.after \in Buffers
        BY <3>2, <3>3 DEF Advanced, Buffers
      <4>2. QED
        BY <2>1, <3>3, <3>4, <4>1 DEF Rewound, Buffers
    <3>6. Sound(buf') /\ buf'.err = "nil"
      BY <3>2, <3>3, <3>4, <3>5 DEF Sound, Windowed
    <3>7. absolutePos \in Int /\ absolutePos' = absolutePos + Stride
      BY <1>1, <2>2, <3>4 DEF TypeOK
    <3>8. At(buf') = Start + absolutePos'
      <4>1. At(buf') = b.data[0] + (b.i + Stride)
        BY <3>3, <3>4, <3>5 DEF At
      <4>2. QED
        BY <3>3, <3>4, <3>7, <4>1
    <3>9. \E q \in Nat : absolutePos' = q * Stride
      <4>1. PICK q \in Nat : absolutePos = q * Stride
        BY <3>1 DEF OnTrack
      <4>2. q + 1 \in Nat /\ absolutePos' = (q + 1) * Stride
        BY <3>4, <3>7, <4>1
      <4>3. QED
        BY <4>2
    <3>10. NoneBelow(Start + absolutePos + Stride)
      BY <1>1, <2>1, <3>1, <3>2, <3>3, MissedWindow
    <3>11. Start + absolutePos + Stride = Start + absolutePos'
      BY <3>4, <3>7
    <3>12. /\ Stride' = Stride /\ Overlap' = Overlap
           /\ \A a : MatchAt(a)' <=> MatchAt(a)
           /\ \A a : Examined(a)' <=> Examined(a)
      BY <2>2, SameSearch
    <3>13. NoneBelow(Start + absolutePos)'
      BY <3>10, <3>11, <3>12 DEF NoneBelow
    <3>14. Cap = Chunk => buf'.i = Cap - Overlap
      BY <3>2, <3>3, <3>4, <3>5
    <3>15. QED
      BY <3>6, <3>8, <3>9, <3>12, <3>13, <3>14 DEF OnTrack
  <2>4. Searching' => Searching
    BY <2>2 DEF Searching
  <2>5. ~FirstSearchReturned'
    BY <2>2 DEF FirstSearchReturned
  <2>6. QED
    BY <1>1, <2>3, <2>4, <2>5 DEF IInv, FirstFindSound, FirstFindComplete
<1>9. CASE UNCHANGED vars
  <2>1. /\ UNCHANGED <<mem, pc, call, answer, buf, absolutePos>>
    BY <1>9 DEF vars
  <2>2. FirstFindSound' /\ FirstFindComplete'
    BY <2>1, AnswerStays DEF IInv
  <2>3. /\ Stride' = Stride /\ Overlap' = Overlap
        /\ \A a : MatchAt(a)' <=> MatchAt(a)
        /\ \A a : Examined(a)' <=> Examined(a)
    BY <2>1, SameSearch
  <2>4. OnTrack => OnTrack'
    BY <2>1, <2>3 DEF OnTrack, NoneBelow
  <2>5. QED
    BY <1>1, <2>1, <2>2, <2>4 DEF IInv, Searching
<1>10. QED
  BY <1>2, <1>3, <1>4, <1>5, <1>6, <1>7, <1>8, <1>9 DEF Next, Window

\* Nothing has been searched yet.
LEMMA FindInit == Init => IInv
<1>1. SUFFICES ASSUME Init PROVE IInv
  OBVIOUS
<1>2. pc = "idle" /\ call.fn = "Find"
  BY <1>1 DEF Init
<1>3. QED
  BY <1>1, <1>2, FindTypeInit DEF IInv, Searching, FirstFindSound, FirstFindComplete,
                                  FirstSearchReturned

\* Whatever was done with the buffer before, the address FindFirst returns is that
\* of a match, and of the first among those it examines, for every region, capacity,
\* window and pattern no longer than a window.
THEOREM FirstFindSoundAlways ==
  ASSUME Fits
  PROVE  Spec => []FirstFindSound
<1>1. IInv => FirstFindSound
  BY DEF IInv
<1>2. IInv /\ [Next]_vars => IInv'
  BY FindStep
<1>3. QED
  BY FindInit, <1>1, <1>2, PTL DEF Spec

\* When FindFirst reports the end of the region there was no match at an address it
\* examines, except close to the end when the buffer is larger than a window.
THEOREM FirstFindCompleteAlways ==
  ASSUME Fits
  PROVE  Spec => []FirstFindComplete
<1>1. IInv => FirstFindComplete
  BY DEF IInv
<1>2. IInv /\ [Next]_vars => IInv'
  BY FindStep
<1>3. QED
  BY FindInit, <1>1, <1>2, PTL DEF Spec
=============================================================================
