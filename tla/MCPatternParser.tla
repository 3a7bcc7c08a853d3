--------------------------- MODULE MCPatternParser ---------------------------
(***************************************************************************)
(* Small files for PatternParser.  Between them the programs call every    *)
(* function of the grammar; each is damaged in every way one atom can do.  *)
(***************************************************************************)
EXTENDS ParserTrees

Programs ==
  {<<"struct", "A", ":", "B", "{", "u8", "x", "[", "1", "]", ";", "if", "(", "x", "=", "=",
     "1", ")", "{", "B", "y", ";", "}", "else", "A", "*", "z", ":", "u8", ";", "}", ";">>,
   <<"union", "A", "<", "auto", "B", ">", "{", "B", "<", "1", ">", "x", ";", "}",
     "[", "[", "a", "(", "x", ")", "]", "]", ";">>,
   <<"enum", "A", ":", "u8", "{", "x", "=", "1", ",", "y", "=", "1", ".", ".", ".", "2", "}", ";">>,
   <<"bitfield", "A", "{", "x", ":", "1", ";", "bool", "y", ":", "2", ";", "padding", ":",
     "1", ";", "match", "(", "x", ")", "{", "(", "1", ")", ":", "z", ":", "2", ";", "}", "}", ";">>,
   <<"fn", "a", "(", "ref", "A", "x", ",", "u8", "y", "=", "1", ")", "{", "const", "u8", "z", ";",
     "x", "=", "y", ";", "return", "a", "(", "s", ")", ";", "}", ";">>,
   <<"fn", "a", "{", "for", "(", "x", "=", "1", ",", "x", "<", "2", ",", "x", "+", "=", "1",
     ")", "try", "{", "break", ";", "}", "catch", "{", "$", "+", "=", "1", ";", "}", "}">>,
   <<"namespace", "a", "{", "using", "A", "=", "be", "u8", ";", "}">>,
   <<"struct", "A", "{", "match", "(", "x", ")", "{", "(", "1", ")", ":", "u8", "y", ";",
     "(", "_", ")", ":", "padding", "[", "1", "]", ";", "}", "while", "(", "x", ")", "B", "z", ";", "}">>,
   <<"#", "ifdef", "a", "nl", "u8", "x", ";", "nl", "#", "endif", "nl">>,
   <<"import", "a", ".", "quote", "b", "quote", ";", "#", "pragma", "a", " ", "b", "nl", "#", "define", "a", "nl">>,
   <<"#", "include", "quote", "a", "quote", "nl", "str", "x", "=", "quote", ";", "quote", ";">>,
   <<"a", ":", ":", "B", "x", "@", "le", "u16", "(", "1", ")", ";">>,
   <<"u8", "x", "[", "while", "(", "$", ")", "]", "@", "a", "?", "-", "1", ":", "sizeof", "(",
     "x", ")", ".", "a", ";">>}

Atoms == {"{", "}", "(", "<", ";", ",", ":", "=", "be", "#"}

Damaged(s) == {RemoveAt(s, i) : i \in DOMAIN s}
              \cup {InsertAt(s, i, a) : i \in 1 .. Len(s) + 1, a \in Atoms}

Sibling == <<"struct", "C", "{", "u8", "c", ";", "}", ";">>
Followed == {<<d, Sibling>> : d \in UNION {Damaged(s) : s \in Programs}}

CutOff == UNION {{<<SubSeq(s, 1, i)>> : i \in DOMAIN s} : s \in Programs}

\* u8 x = a op b op c op d;
Infix(ops) ==
  {<< <<"u8", "x", "=">>, <<"a">>, o1, <<"b">>, o2, <<"c">>, o3, <<"x">>, <<";">> >> :
     o1 \in ops, o2 \in ops, o3 \in ops}
OnePerLevel == {<<"|", "|">>, <<"&", "&">>, <<"|">>, <<"^">>, <<"&">>, <<"!", "=">>,
                <<"<", "=">>, <<">">>, <<"<", "<">>, <<"-">>, <<"/">>}

\* All texts of up to three of these atoms, and what two of them add to the opening of
\* each construct that has a loop.
ShortAtoms ==
  {"A", "be", "u8", "1", "<", ">", ",", ":", "(", ")", "{", "}", "[", "=", ";", "#", "ifdef", "if"}
Openings ==
  {<<"A", "<">>, <<"A", "(">>, <<"A", "=">>, <<"A", "x", "[", "[">>, <<"enum", "{">>,
   <<"fn", "A", "(">>, <<"namespace", "A", "{">>, <<"#", "ifdef", "A", "nl">>,
   <<"struct", "A", "{">>, <<"struct", "A", "{", "}", "#">>,
   <<"struct", "A", "{", "match", "(">>, <<"bitfield", "A", "{">>,
   <<"bitfield", "A", "{", "match", "(">>}
Short == {<<s>> : s \in SeqOf(ShortAtoms, 3)}
Opened == {<<o \o <<a, b>>>> : o \in Openings, a \in ShortAtoms, b \in ShortAtoms}

MCSources == Followed \cup CutOff \cup Infix(OnePerLevel) \cup Short \cup Opened

\* A word that stands for a byte order or for itself, and brackets that stay open.
Traps == {<< <<"namespace", "a", "{", "be", ";", "}">> >>, << <<"A", "<", "1">> >>}
=============================================================================
