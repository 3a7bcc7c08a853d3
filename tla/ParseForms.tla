------------------------------ MODULE ParseForms ------------------------------
(***************************************************************************)
(* The parser of pattern files is a set of Go functions over one cursor    *)
(* (the State of pcom-go: Input, Offset, Save, Rollback, Consume).  What   *)
(* they do with it comes down to a few steps: match a token, go on after a *)
(* failed call from wherever that call left the cursor, roll back, loop.   *)
(* Here a function of the parser is a function from the positions of the   *)
(* text to results, and this module has an operator for each way in which  *)
(* such functions are put together; PatternGrammar writes the functions of *)
(* the code with them.                                                     *)
(*                                                                         *)
(* The text is a sequence of atoms: words (identifiers and keywords),      *)
(* numbers, character literals, single punctuation characters, Space and   *)
(* NewLine.  The two blanks also stand for comments with no character in   *)
(* them that anything looks for; a string has no escapes and no comments.  *)
(***************************************************************************)
EXTENDS Integers, SequencesExt

VARIABLE text   \* State.Input

Space == " "
NewLine == "nl"
Quote == "quote"
Blank == {Space, NewLine}
EOF == "eof"

Positions == 1 .. Len(text) + 1
At(p) == IF p \in 1..Len(text) THEN text[p] ELSE EOF

\* The first position from p on whose atom is in S, or the end.
Scan(p, S) ==
  CHOOSE q \in p..(Len(text) + 1) :
    /\ At(q) \in S \cup {EOF}
    /\ \A r \in p..(q - 1) : At(r) \notin S

\* skip: blanks and comments.
Skip(p) ==
  CHOOSE q \in p..(Len(text) + 1) :
    /\ At(q) \notin Blank
    /\ \A r \in p..(q - 1) : At(r) \in Blank

\* A result: a value, an error or, when a loop comes round again without having
\* moved the cursor and so would for ever, no answer; where the cursor is; and the
\* nodes that were built.
Result(st, p, out) == [st |-> st, p |-> p, out |-> out]
Ok(p, out) == Result("ok", p, out)
Failed(p) == Result("fail", p, << >>)
Hang(p) == Result("hang", p, << >>)

-----------------------------------------------------------------------------
(* Tokens.  One that matches is followed by skip, unless it is raw; one    *)
(* that does not leaves the cursor alone.                                  *)

Matches(atoms, except, p) ==
  /\ \A i \in 1..Len(atoms) : At(p + i - 1) = atoms[i]
  /\ At(p + Len(atoms)) \notin except

\* sym and keyword: these atoms, not followed at once by one of except.
LitX(atoms, except) ==
  [p \in Positions |-> IF Matches(atoms, except, p) THEN Ok(Skip(p + Len(atoms)), << >>)
                                                    ELSE Failed(p)]
Lit(atoms) == LitX(atoms, {})
T(atom) == Lit(<<atom>>)
Raw(atoms) ==
  [p \in Positions |-> IF Matches(atoms, {}, p) THEN Ok(p + Len(atoms), << >>) ELSE Failed(p)]

\* One atom of a class, kept as a leaf of the tree.
RawClass(S) ==
  [p \in Positions |-> IF At(p) \in S THEN Ok(p + 1, <<<<text[p]>>>>) ELSE Failed(p)]
Class(S) ==
  [p \in Positions |-> IF At(p) \in S THEN Ok(Skip(p + 1), <<<<text[p]>>>>) ELSE Failed(p)]

\* The cursor is at the end of the text or at one of these atoms.
Stop(S) == [p \in Positions |-> IF At(p) \in S \cup {EOF} THEN Ok(p, << >>) ELSE Failed(p)]

\* Consume up to the first of these atoms; ScanKept keeps the text passed over.
ScanTo(S) == [p \in Positions |-> Ok(Scan(p, S), << >>)]
ScanKept(S) ==
  [p \in Positions |->
     LET q == Scan(p, S) IN
     Ok(q, IF q = p THEN << >>
           ELSE <<<<"RawTypeArg">> \o [i \in 1..(q - p) |-> <<text[p + i - 1]>>]>>)]
Blanks == [p \in Positions |-> Ok(Skip(p), << >>)]
AnyAtom == [p \in Positions |-> IF At(p) = EOF THEN Failed(p) ELSE Ok(p + 1, << >>)]

-----------------------------------------------------------------------------
(* One function after another.                                             *)

\* This, then that; an error of either is the error of both.
Then(r, b) ==
  LET s == b[r.p] IN
  IF r.st # "ok" THEN r
  ELSE IF s.st = "ok" THEN Ok(s.p, r.out \o s.out) ELSE s
a && b == [p \in Positions |-> Then(a[p], b)]

\* This, or that from where an error of this left the cursor.
a || b == [p \in Positions |-> LET r == a[p] IN IF r.st = "fail" THEN b[r.p] ELSE r]

Empty == [p \in Positions |-> Ok(p, << >>)]
Fail == [p \in Positions |-> Failed(p)]
Opt(e) == e || Empty                            \* "if err == nil"

\* Rollback(cp) on an error.
Try(e) == [p \in Positions |-> LET r == e[p] IN IF r.st = "fail" THEN Failed(p) ELSE r]

\* A look ahead, rolled back, decides.
If(test, then, else) ==
  [p \in Positions |-> LET r == test[p]
                       IN  CASE r.st = "ok" -> then[p]
                             [] r.st = "fail" -> else[p]
                             [] OTHER -> r]
Not(e) == If(e, Fail, Empty)

\* parseBody's two ways on, from an error and from a value that took nothing.
Progress(e, still, failed) ==
  [p \in Positions |-> LET r == e[p]
                       IN  CASE r.st = "fail" -> failed[r.p]
                             [] r.st = "ok" /\ r.p = p -> still[p]
                             [] OTHER -> r]

\* The rounds of a loop, up to stop or to an error, with what each of them built.
Rounds(stop, e) ==
  LET rounds[p \in Positions] ==
        LET s == stop[p]
            r == e[p]
            rest == rounds[r.p]
        IN  CASE s.st = "ok" -> Ok(s.p, << >>)
              [] s.st # "ok" /\ r.st = "fail" -> Failed(r.p)
              [] s.st # "ok" /\ r.st = "ok" /\ r.p # p ->
                   Result(rest.st, rest.p, <<r.out>> \o rest.out)
              [] OTHER -> Hang(p)
  IN  rounds

\* for { ... break on an error }
Many(e) ==
  [p \in Positions |-> LET r == Rounds(Fail, e)[p]
                       IN  IF r.st = "fail" THEN Ok(r.p, FlattenSeq(r.out)) ELSE Hang(p)]
\* for until stop { ... return an error }
Until(stop, e) ==
  [p \in Positions |-> LET r == Rounds(stop, e)[p]
                       IN  IF r.st = "ok" THEN Ok(r.p, FlattenSeq(r.out)) ELSE r]

-----------------------------------------------------------------------------
(* The tree: a node is its kind followed by its children.                  *)

Node(kind, e) ==
  [p \in Positions |-> LET r == e[p]
                       IN  IF r.st = "ok" THEN Ok(r.p, <<<<kind>> \o r.out>>) ELSE r]
Give(leaf) == [p \in Positions |-> Ok(p, <<leaf>>)]
Drop(e) == [p \in Positions |-> LET r == e[p] IN IF r.st = "ok" THEN Ok(r.p, << >>) ELSE r]
\* Its tree, the cursor rolled back.
Hold(e) == [p \in Positions |-> LET r == e[p] IN IF r.st = "ok" THEN Ok(p, r.out) ELSE r]

\* What is built so far becomes the first child of the tail's node, whose kind and
\* other children the tail gives.
Grown(acc, out) == IF out = << >> THEN acc ELSE <<<<out[1]>> \o acc \o Tail(out)>>

\* A head, then tails.
Grow(head, tail) ==
  [p \in Positions |->
     LET h == head[p]
         r == Rounds(Fail, tail)[h.p]
     IN  CASE h.st # "ok" -> h
           [] h.st = "ok" /\ r.st = "fail" -> Ok(r.p, FoldLeft(Grown, h.out, r.out))
           [] OTHER -> Hang(p)]
\* A head and at most one tail, whose error is the error of the whole.
Grow1(head, tail) ==
  [p \in Positions |->
     LET h == head[p]
         r == tail[h.p]
     IN  IF h.st # "ok" THEN h
         ELSE IF r.st = "ok" THEN Ok(r.p, Grown(h.out, r.out)) ELSE r]

=============================================================================
