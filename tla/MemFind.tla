------------------------------ MODULE MemFind ------------------------------
(***************************************************************************)
(* Buffer.Find and Buffer.FindFirst (src/memory/find.go) on a Buffer: a    *)
(* search is a loop over windows of Chunk bytes obtained with Next, one    *)
(* action per window.  The target's memory holds still during a search.    *)
(***************************************************************************)
EXTENDS BufferCore, Sequences

CONSTANTS
  Chunk,      \* the fixed length Find passes to Next (1024 * 1024)
  Bytes,      \* byte values; Zero is one of them
  Zero,
  Any,        \* the wildcard ?? of a pattern
  Patterns,   \* arguments: [text, prog], prog the compiled pattern
  Skips,      \* lengths passed to Discard between searches
  MaxI        \* bound: Discard is not called beyond this index

ASSUME ChunkAssumption == Chunk \in Nat \ {0}
ASSUME BytesAssumption == Zero \in Bytes /\ Any \notin Bytes
Texts == {"empty", "odd", "invalid", "hex"}
ASSUME PatternsAssumption ==
  /\ Patterns \subseteq [text : Texts, prog : Seq(Bytes \cup {Any})]
  /\ \E p \in Patterns : p.text = "hex"
ASSUME SkipsAssumption == Skips \subseteq Nat

VARIABLES
  mem,           \* the target's bytes
  buf,           \* the Buffer
  pc,            \* "idle", "search" or "panic"
  call,          \* the current or last call: which function, which pattern
  absolutePos,   \* Find's local
  answer         \* what the last call returned

vars == <<mem, buf, pc, call, absolutePos, answer>>

Region == Start .. End - 1
Functions == {"Find", "FindFirst"}
Answers == [outcome : {"none", "found", "odd", "EOF", "fault"}, addr : Int]
Nothing(outcome) == [outcome |-> outcome, addr |-> 0]
Found(a) == [outcome |-> "found", addr |-> a]

Init == /\ mem \in [Region -> Bytes]
        /\ buf = Cleared(Start)
        /\ pc = "idle"
        /\ call \in [fn : {"Find"}, pat : {CHOOSE p \in Patterns : p.text = "hex"}]
        /\ absolutePos = 0
        /\ answer = Nothing("none")

ByteOf(cell) == IF cell = Fill THEN Zero ELSE mem[cell]
matches(m, cell) == m = Any \/ m = ByteOf(cell)

patternLen == Len(call.pat.prog)

Return(a) == pc' = "idle" /\ answer' = a

\* The prologue of Find: an empty pattern is found at 0, an odd one is refused,
\* and compile panics on what is not hexadecimal.
Enter(p, b) ==
  /\ buf' = b
  /\ absolutePos' = 0
  /\ CASE p.text = "empty"   -> Return(Found(0))
       [] p.text = "odd"     -> Return(Nothing("odd"))
       [] p.text = "invalid" -> pc' = "panic" /\ UNCHANGED answer
       [] p.text = "hex"     -> pc' = "search" /\ UNCHANGED answer
  /\ UNCHANGED mem

Find(p) == pc = "idle" /\ call' = [fn |-> "Find", pat |-> p] /\ Enter(p, buf)

\* Mutant: FindFirst searches on without a Reset.
MutFindFirst(p) ==
  pc = "idle" /\ call' = [fn |-> "FindFirst", pat |-> p] /\ Enter(p, buf)

FindFirst(p) ==
  pc = "idle" /\ call' = [fn |-> "FindFirst", pat |-> p] /\ Enter(p, Cleared(Start))

\* The client consumes bytes with Discard between two searches.
Discard(n) == /\ pc = "idle"
              /\ buf.i + n <= MaxI
              /\ buf' = Advanced(buf, n)
              /\ UNCHANGED <<mem, pc, call, absolutePos, answer>>

\* `range len(data) - patternLen - 1`
Positions == 0 .. Chunk - patternLen - 2

Hits(data) == {i \in Positions : \A j \in 0 .. patternLen - 1 :
                                    matches(call.pat.prog[j + 1], data[i + j + 1])}

\* The windows Next(Chunk) can return, each with the buffer it leaves.
Windows == {[data |-> Slice(b, b.i, Chunk), after |-> Advanced(b, Chunk)] :
              b \in {c \in Ready(buf, Chunk) :
                       /\ NeedsRefill(buf, Chunk) => c.err = "nil"
                       /\ c.i + Chunk <= Cap}}

NextCanPanic ==
  NeedsRefill(buf, Chunk) /\ \/ RefillPanics(buf)
                             \/ \E b \in Refilled(buf) : b.err = "nil" /\ b.i + Chunk > Cap

\* Mutant: the error of Next is ignored.
MutWindowFails ==
  /\ pc = "search"
  /\ NeedsRefill(buf, Chunk) /\ ~RefillPanics(buf)
  /\ \E b \in Refilled(buf) : b.err # "nil" /\ buf' = b
  /\ UNCHANGED <<mem, pc, call, absolutePos, answer>>

WindowFails ==
  /\ pc = "search"
  /\ NeedsRefill(buf, Chunk) /\ ~RefillPanics(buf)
  /\ \E b \in Refilled(buf) : b.err # "nil" /\ buf' = b /\ Return(Nothing(b.err))
  /\ UNCHANGED <<mem, call, absolutePos>>

WindowPanics ==
  /\ pc = "search" /\ NextCanPanic
  /\ pc' = "panic"
  /\ UNCHANGED <<mem, buf, call, absolutePos, answer>>

WindowMatches ==
  /\ pc = "search" /\ ~(NeedsRefill(buf, Chunk) /\ RefillPanics(buf))
  /\ \E w \in Windows :
       /\ Hits(w.data) # {}
       /\ buf' = w.after
       /\ Return(Found(Start + absolutePos
                       + CHOOSE i \in Hits(w.data) : \A h \in Hits(w.data) : i <= h))
  /\ UNCHANGED <<mem, call, absolutePos>>

\* No match: step back so that the next window overlaps this one.
Overlap == IF patternLen > 1 THEN patternLen - 1 ELSE 0

\* Mutant: consecutive windows do not overlap.
MutWindowMisses ==
  /\ pc = "search" /\ ~(NeedsRefill(buf, Chunk) /\ RefillPanics(buf))
  /\ \E w \in Windows : Hits(w.data) = {} /\ buf' = w.after
  /\ absolutePos' = absolutePos + Chunk
  /\ UNCHANGED <<mem, pc, call, answer>>

WindowMisses ==
  /\ pc = "search" /\ ~(NeedsRefill(buf, Chunk) /\ RefillPanics(buf))
  /\ \E w \in Windows : Hits(w.data) = {} /\ buf' = Rewound(w.after, Overlap)
  /\ absolutePos' = absolutePos + Chunk - Overlap
  /\ UNCHANGED <<mem, pc, call, answer>>

Window == WindowFails \/ WindowPanics \/ WindowMatches \/ WindowMisses

Next == \/ \E p \in Patterns : Find(p) \/ FindFirst(p)
        \/ \E n \in Skips : Discard(n)
        \/ Window

\* Fairness: a search is a loop that nothing suspends.
Spec == Init /\ [][Next]_vars /\ WF_vars(Window)

-----------------------------------------------------------------------------
\* Type invariant.
TypeOK == /\ mem \in [Region -> Bytes]
          /\ buf \in Buffers
          /\ pc \in {"idle", "search", "panic"}
          /\ call \in [fn : Functions, pat : Patterns]
          /\ absolutePos \in Int
          /\ answer \in Answers

(***************************************************************************)
(* The reference: matches in memory, zero beyond the end of the region.    *)
(***************************************************************************)
MemAt(a) == IF a \in Region THEN mem[a] ELSE Zero

MatchAt(a) == \A j \in 0 .. patternLen - 1 :
                call.pat.prog[j + 1] = Any \/ call.pat.prog[j + 1] = MemAt(a + j)

\* The addresses Find looks at: in every window all but the last two starting
\* positions; consecutive windows start this far apart.
Stride == Chunk - Overlap
Examined(a) == (a - Start) % Stride < Chunk - patternLen - 1

FirstSearchReturned ==
  pc = "idle" /\ call.fn = "FindFirst" /\ call.pat.text = "hex"

\* Whatever was done with the buffer before, FindFirst returns the address of a
\* match, and of the first one among the addresses it examines.
FirstFindSound ==
  FirstSearchReturned /\ answer.outcome = "found" =>
    /\ MatchAt(answer.addr)
    /\ \A a \in Start .. answer.addr - 1 : ~(Examined(a) /\ MatchAt(a))

\* When FindFirst runs to the end of the region there was no match inside it at any
\* address it examines: windows overlap by enough, no refill in between skips an
\* address, and the last, partial window is searched too.  A buffer that is larger
\* than a window gives less: Refill reports the end of the region although unread
\* bytes are left, and no match is excluded from where a whole window does not fit.
Needed == IF Cap = Chunk THEN patternLen ELSE Chunk

FirstFindComplete ==
  FirstSearchReturned /\ answer.outcome = "EOF" =>
    \A a \in Region : a + Needed <= End => ~(Examined(a) /\ MatchAt(a))

\* Every search returns or panics: each window moves on until a Refill finds the
\* end, for patterns no longer than a window.
SearchEnds == pc = "search" ~> pc # "search"

(***************************************************************************)
(* What the comments say and the code does not do.                         *)
(***************************************************************************)
\* find.go:64, "Iterate through each possible starting position in the data":
\* FindFirst does not run to the end past a match inside the region.
NoMatchMissed ==
  FirstSearchReturned /\ answer.outcome = "EOF" =>
    \A a \in Region : a + patternLen <= End => ~MatchAt(a)
=============================================================================
