---------------------------- MODULE PatternParser ----------------------------
(***************************************************************************)
(* Parse (src/hexpat/parser/parser.go): the loop of fileParser, one item a *)
(* step, each parsed by the functions of PatternGrammar.  When some inner  *)
(* loop of an item never ends, or its calls nest too deep, the call does   *)
(* not come back: the status is "looping" for good.                        *)
(***************************************************************************)
EXTENDS PatternGrammar, FiniteSets

CONSTANT Sources   \* the files to parse, each a sequence of parts

\* No part of a file is the mark of its end.
ASSUME SourcesAssumption == \A s \in Sources : FlattenSeq(s) \in Seq(STRING \ {EOF})

VARIABLES parts,   \* the file; its text is the parts one after the other
          pos,     \* the cursor
          items,   \* the items parsed so far
          status   \* "parsing", then "parsed", "failed", "stuck" or "looping"

vars == <<text, parts, pos, items, status>>

-----------------------------------------------------------------------------
Init ==
  /\ parts \in Sources
  /\ text = FlattenSeq(parts)
  /\ pos = Skip(1)
  /\ items = << >>
  /\ status = "parsing"

StraySemicolon ==
  /\ status = "parsing" /\ At(pos) = ";"
  /\ pos' = Skip(pos + 1)
  /\ UNCHANGED <<text, parts, items, status>>

\* Mutant: an error keeps the items parsed before it.
MutParseItem ==
  /\ status = "parsing" /\ At(pos) \notin {";", EOF}
  /\ \E r \in {Parser["item"][pos]} :
       \/ /\ r.st = "ok" /\ r.p # pos
          /\ pos' = Skip(r.p)
          /\ items' = items \o r.out
          /\ UNCHANGED status
       \/ /\ r.st = "ok" /\ r.p = pos
          /\ status' = "stuck" /\ items' = << >>
          /\ UNCHANGED pos
       \/ /\ r.st = "fail"
          /\ status' = "failed"
          /\ UNCHANGED <<pos, items>>
       \/ /\ r.st = "hang"
          /\ status' = "looping"
          /\ UNCHANGED <<pos, items>>
  /\ UNCHANGED <<text, parts>>

\* An error ends the parse without a result; so does an item that consumed
\* nothing.
ParseItem ==
  /\ status = "parsing" /\ At(pos) \notin {";", EOF}
  /\ \E r \in {Parser["item"][pos]} :
       \/ /\ r.st = "ok" /\ r.p # pos
          /\ pos' = Skip(r.p)
          /\ items' = items \o r.out
          /\ UNCHANGED status
       \/ /\ r.st = "ok" /\ r.p = pos
          /\ status' = "stuck" /\ items' = << >>
          /\ UNCHANGED pos
       \/ /\ r.st = "fail"
          /\ status' = "failed" /\ items' = << >>
          /\ UNCHANGED pos
       \/ /\ r.st = "hang"
          /\ status' = "looping"
          /\ UNCHANGED <<pos, items>>
  /\ UNCHANGED <<text, parts>>

EndOfFile ==
  /\ status = "parsing" /\ At(pos) = EOF
  /\ status' = "parsed"
  /\ UNCHANGED <<text, parts, pos, items>>

Next == StraySemicolon \/ ParseItem \/ EndOfFile
Spec == Init /\ [][Next]_vars

-----------------------------------------------------------------------------
(***************************************************************************)
(* Properties; those of the trees are in ParserTrees.                      *)
(***************************************************************************)

\* Type invariant; the items of a parse that fails are not returned.
TypeOK ==
  /\ text = FlattenSeq(parts) /\ text \in Seq(STRING \ {EOF})
  /\ pos \in Positions
  /\ status \in {"parsing", "parsed", "failed", "stuck", "looping"}
  /\ status \in {"failed", "stuck"} => items = << >>

\* A function that fails leaves the cursor where it was called, whatever it had
\* consumed by then: its callers go on with another alternative there.  A directive
\* and the word const are not given back.  This is about the text alone, and is
\* looked at when its parse is over.
GivesBack ==
  \A f \in Functions_ \ {"preprocessor"} : \A p \in Positions :
    \E r \in {Parser[f][p]} :
      r.st = "fail" /\ At(p) # "const" /\ (f = "item" => At(p) # "#") => r.p = p
FailureRestores == status # "parsing" => GivesBack

\* What the inner loops do not get past: be or le, or ::, before anything but a word,
\* and a bracket of template arguments that is not closed.
Count(atom, p) == Cardinality({i \in p .. Len(text) : text[i] = atom})
Trap ==
  \E p \in 1 .. Len(text) :
    \/ text[p] \in {"be", "le"} /\ At(Skip(p + 1)) \notin Words
    \/ At(p) = ":" /\ At(p + 1) = ":" /\ At(Skip(p + 2)) \notin Words
    \/ text[p] = "<" /\ Count("<", p) > Count(">", p)

\* Parse returns, with items or an error, on every text without one of these: each
\* round of each inner loop gets further or is the last, and no more than five calls
\* are nested for each atom of the text.
Ends == ~Trap /\ 5 * Len(text) + 4 <= Depth => status # "looping"

\* parser.go:86, "Make sure we made progress", and 87, "Parser stuck": no text keeps
\* the parser busy for ever.
AlwaysEnds == status # "looping"

=============================================================================
