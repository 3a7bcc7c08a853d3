---------------------------- MODULE ParserProofs ----------------------------
(***************************************************************************)
(* The functions of the parser, for every text and however deep its calls  *)
(* nest.  A judgement says something of a function of the parser, such as  *)
(* that it never moves the cursor back.  For each judgement there is one   *)
(* lemma of rules, which say how the operators of ParseForms pass it on;   *)
(* the functions of PatternGrammar then have it by their definitions.      *)
(***************************************************************************)
EXTENDS PatternParser, FiniteSetTheorems, WellFoundedInduction, TLAPS

IsText == text \in Seq(STRING \ {EOF})

\* The cursor stays in the text and never moves back.
Parses(f) ==
  \A p \in Positions : /\ f[p].st \in {"ok", "fail", "hang"}
                       /\ f[p].p \in p .. Len(text) + 1

-----------------------------------------------------------------------------
(* Positions and blanks.                                                   *)

\* Every set of natural numbers has a least one.
LEMMA LeastNumber ==
  ASSUME NEW N, N \subseteq Nat, N # {}
  PROVE  \E x \in N : \A y \in N : x <= y
<1> DEFINE R == OpToRel(<, Nat)
<1>1. IsWellFoundedOn(R, Nat)
  BY NatLessThanWellFounded
<1>2. PICK x \in N : \A y \in N : ~(<<y, x>> \in R)
  <2> HIDE DEF R
  <2>1. QED
    BY <1>1, WFMin
<1>3. \A y \in N : ~(y < x)
  BY <1>2 DEF OpToRel
<1>4. QED
  BY <1>3

LEMMA Bounds ==
  ASSUME IsText
  PROVE  /\ Len(text) \in Nat
         /\ Positions = 1 .. Len(text) + 1 /\ Positions \subseteq Nat
         /\ \A p \in Int : At(p) = EOF <=> p \notin 1 .. Len(text)
         /\ \A p \in 1 .. Len(text) : At(p) = text[p] /\ text[p] \in STRING
BY DEF IsText, At, Positions

\* A set of positions has a last one.
LEMMA LastPosition ==
  ASSUME IsText, NEW N, N \subseteq Positions, N # {}
  PROVE  \E x \in N : \A y \in N : y <= x
<1> DEFINE M == {Len(text) + 1 - y : y \in N}
<1>1. M \subseteq Nat /\ M # {}
  BY Bounds
<1>2. PICK m \in M : \A k \in M : m <= k
  <2> HIDE DEF M
  <2> QED
    BY <1>1, LeastNumber
<1>3. PICK x \in N : m = Len(text) + 1 - x
  BY <1>2
<1>4. ASSUME NEW y \in N PROVE y <= x
  <2>1. m <= Len(text) + 1 - y
    BY <1>2
  <2> QED
    BY <2>1, <1>3, Bounds
<1> QED
  BY <1>4

\* The first position from p on, or the end, that is in a set.
LEMMA FirstPosition ==
  ASSUME IsText, NEW p \in Positions, NEW N, Len(text) + 1 \in N
  PROVE  \E q \in p .. Len(text) + 1 : q \in N /\ \A r \in p .. q - 1 : r \notin N
<1> DEFINE M == N \cap (p .. Len(text) + 1)
<1>1. M \subseteq Nat /\ M # {}
  BY Bounds
<1>2. PICK q \in M : \A k \in M : q <= k
  <2> HIDE DEF M
  <2> QED
    BY <1>1, LeastNumber
<1>3. ASSUME NEW r \in p .. q - 1 PROVE r \notin N
  <2>1. r \in p .. Len(text) + 1 /\ ~ q <= r
    BY <1>2, Bounds
  <2> QED
    BY <2>1, <1>2
<1> QED
  BY <1>2, <1>3

LEMMA ScanStops ==
  ASSUME IsText, NEW p \in Positions, NEW S
  PROVE  /\ Scan(p, S) \in p .. Len(text) + 1
         /\ At(Scan(p, S)) \in S \cup {EOF}
         /\ \A r \in p .. Scan(p, S) - 1 : At(r) \notin S
<1> DEFINE N == {q \in Positions : At(q) \in S \cup {EOF}}
<1>1. Len(text) + 1 \in N
  BY Bounds
<1>2. PICK q \in p .. Len(text) + 1 : q \in N /\ \A r \in p .. q - 1 : r \notin N
  <2> HIDE DEF N
  <2> QED
    BY <1>1, FirstPosition
<1>3. \A r \in p .. q - 1 : At(r) \notin S
  BY <1>2, Bounds
<1>4. At(q) \in S \cup {EOF}
  BY <1>2
<1> QED
  BY <1>3, <1>4 DEF Scan

LEMMA SkipStops ==
  ASSUME IsText, NEW p \in Positions
  PROVE  /\ Skip(p) \in p .. Len(text) + 1
         /\ At(Skip(p)) \notin Blank
         /\ \A r \in p .. Skip(p) - 1 : At(r) \in Blank
<1> DEFINE N == {q \in Positions : At(q) \notin Blank}
<1>1. Len(text) + 1 \in N
  <2>1. At(Len(text) + 1) = EOF /\ Len(text) + 1 \in Positions
    BY Bounds
  <2>2. EOF \notin Blank
    BY DEF Blank, Space, NewLine, EOF
  <2> QED
    BY <2>1, <2>2
<1>2. PICK q \in p .. Len(text) + 1 : q \in N /\ \A r \in p .. q - 1 : r \notin N
  <2> HIDE DEF N
  <2> QED
    BY <1>1, FirstPosition
<1>3. \A r \in p .. q - 1 : At(r) \in Blank
  BY <1>2, Bounds
<1>4. At(q) \notin Blank
  BY <1>2
<1> QED
  BY <1>3, <1>4 DEF Skip

\* Past an atom that is not the end.
LEMMA Advance ==
  ASSUME IsText, NEW p \in Positions, At(p) # EOF
  PROVE  /\ p + 1 \in Positions /\ p + 1 \in p + 1 .. Len(text) + 1
         /\ Skip(p + 1) \in p + 1 .. Len(text) + 1 /\ Skip(p + 1) \in Positions
<1>1. p \in 1 .. Len(text)
  BY Bounds
<1>2. p + 1 \in Positions /\ p + 1 \in p + 1 .. Len(text) + 1
  BY <1>1, Bounds
<1>3. Skip(p + 1) \in p + 1 .. Len(text) + 1
  BY <1>2, SkipStops
<1> QED
  BY <1>1, <1>2, <1>3, Bounds

-----------------------------------------------------------------------------
(* Rounds is a recursive function, and that there is one satisfying its    *)
(* equation is shown from the end of the text backwards.                   *)

RoundsAt(stop, e, h, p) ==
  LET s == stop[p]
      r == e[p]
      rest == h[r.p]
  IN  CASE s.st = "ok" -> Ok(s.p, << >>)
        [] s.st # "ok" /\ r.st = "fail" -> Failed(r.p)
        [] s.st # "ok" /\ r.st = "ok" /\ r.p # p -> Result(rest.st, rest.p, <<r.out>> \o rest.out)
        [] OTHER -> Hang(p)

\* Only what a function is further on matters.
LEMMA RoundsLater ==
  ASSUME IsText, NEW stop, NEW e, Parses(e), NEW p \in Positions, NEW h, NEW k,
         \A q \in p + 1 .. Len(text) + 1 : h[q] = k[q]
  PROVE  RoundsAt(stop, e, h, p) = RoundsAt(stop, e, k, p)
<1>1. CASE e[p].p = p
  BY <1>1 DEF RoundsAt
<1>2. CASE e[p].p # p
  <2>1. e[p].p \in p + 1 .. Len(text) + 1
    BY <1>2, Bounds DEF Parses
  <2>2. h[e[p].p] = k[e[p].p]
    BY <2>1
  <2> QED
    BY <2>2 DEF RoundsAt
<1> QED
  BY <1>1, <1>2

RoundsFrom(stop, e, h, m) ==
  h = [p \in m .. Len(text) + 1 |-> RoundsAt(stop, e, h, p)]

LEMMA RoundsExist ==
  ASSUME IsText, NEW stop, NEW e, Parses(e)
  PROVE  \A m \in Positions : \E h : RoundsFrom(stop, e, h, m)
<1> DEFINE N == {m \in Positions : ~ \E h : RoundsFrom(stop, e, h, m)}
<1>1. SUFFICES ASSUME N # {} PROVE FALSE
  OBVIOUS
<1>2. PICK x \in N : \A y \in N : y <= x
  <2>1. N \subseteq Positions
    OBVIOUS
  <2> HIDE DEF N
  <2> QED
    BY <1>1, <2>1, LastPosition
<1>3. x \in Nat /\ x \in 1 .. Len(text) + 1 /\ Len(text) \in Nat
  BY Bounds
<1>4. PICK h : RoundsFrom(stop, e, h, x + 1)
  <2>1. CASE x = Len(text) + 1
    <3>1. RoundsFrom(stop, e, [p \in {} |-> p], x + 1)
      BY <2>1, <1>3 DEF RoundsFrom
    <3> QED
      BY <3>1
  <2>2. CASE x # Len(text) + 1
    <3>1. x + 1 \in Positions /\ x + 1 \notin N
      BY <2>2, <1>2, <1>3, Bounds
    <3> QED
      BY <3>1
  <2> QED
    BY <2>1, <2>2
<1> DEFINE k == [p \in x .. Len(text) + 1 |-> IF p = x THEN RoundsAt(stop, e, h, x) ELSE h[p]]
<1>5. \A p \in x + 1 .. Len(text) + 1 : k[p] = h[p]
  BY <1>3
<1>6. ASSUME NEW p \in x .. Len(text) + 1 PROVE k[p] = RoundsAt(stop, e, k, p)
  <2>1. p \in Positions /\ \A q \in p + 1 .. Len(text) + 1 : h[q] = k[q]
    BY <1>3, <1>5, Bounds
  <2>2. RoundsAt(stop, e, h, p) = RoundsAt(stop, e, k, p)
    <3> HIDE DEF k
    <3> QED
      BY <2>1, RoundsLater
  <2>3. k[p] = RoundsAt(stop, e, h, p)
    <3>1. CASE p = x
      BY <3>1
    <3>2. CASE p # x
      <4>1. p \in x + 1 .. Len(text) + 1
        BY <3>2, <1>3
      <4> QED
        BY <4>1, <1>4, <1>5 DEF RoundsFrom
    <3> QED
      BY <3>1, <3>2
  <2> QED
    BY <2>2, <2>3
<1>7. RoundsFrom(stop, e, k, x)
  <2>1. k = [p \in x .. Len(text) + 1 |-> k[p]]
    OBVIOUS
  <2> HIDE DEF k
  <2> QED
    BY <1>6, <2>1 DEF RoundsFrom
<1> QED
  BY <1>7

LEMMA RoundsEquation ==
  ASSUME IsText, NEW stop, NEW e, Parses(e), NEW p \in Positions
  PROVE  Rounds(stop, e)[p] = RoundsAt(stop, e, Rounds(stop, e), p)
<1> DEFINE F(h) == [q \in Positions |-> RoundsAt(stop, e, h, q)]
           k == CHOOSE h : h = F(h)
<1>1. 1 \in Positions
  BY Bounds
<1>2. PICK h : RoundsFrom(stop, e, h, 1)
  <2> HIDE DEF k
  <2> QED
    BY <1>1, RoundsExist
<1>3. h = F(h)
  BY <1>2, Bounds DEF RoundsFrom
<1>4. k = F(k)
  <2> HIDE DEF F
  <2> QED
    BY <1>3
<1>5. Rounds(stop, e) = k
  BY DEF Rounds, RoundsAt
<1> HIDE DEF k
<1> QED
  BY <1>4, <1>5

-----------------------------------------------------------------------------
(* Parses: the tokens.                                                     *)

\* Where a token of atoms matches, the text has that many atoms more.
LEMMA Matching ==
  ASSUME IsText, NEW atoms, Len(atoms) \in Nat, \A i \in 1 .. Len(atoms) : atoms[i] # EOF,
         NEW except, NEW p \in Positions, Matches(atoms, except, p)
  PROVE  p + Len(atoms) \in p .. Len(text) + 1
<1>1. CASE Len(atoms) = 0
  BY <1>1, Bounds
<1>2. CASE Len(atoms) # 0
  <2>1. Len(atoms) \in 1 .. Len(atoms) /\ p + Len(atoms) - 1 \in Int
    BY <1>2, Bounds
  <2>2. At(p + Len(atoms) - 1) # EOF
    BY <2>1 DEF Matches
  <2> QED
    BY <2>1, <2>2, Bounds
<1> QED
  BY <1>1, <1>2

LEMMA LitParses ==
  ASSUME IsText, NEW atoms, Len(atoms) \in Nat, \A i \in 1 .. Len(atoms) : atoms[i] # EOF
  PROVE  Parses(Raw(atoms)) /\ \A except : Parses(LitX(atoms, except))
<1>1. Parses(Raw(atoms))
  <2> SUFFICES ASSUME NEW p \in Positions
               PROVE  /\ Raw(atoms)[p].st \in {"ok", "fail", "hang"}
                      /\ Raw(atoms)[p].p \in p .. Len(text) + 1
    BY DEF Parses
  <2>1. CASE Matches(atoms, {}, p)
    <3>1. p + Len(atoms) \in p .. Len(text) + 1
      BY <2>1, Matching
    <3> QED
      BY <2>1, <3>1 DEF Raw, Ok, Result
  <2>2. CASE ~ Matches(atoms, {}, p)
    BY <2>2, Bounds DEF Raw, Failed, Result
  <2> QED
    BY <2>1, <2>2
<1>2. ASSUME NEW except PROVE Parses(LitX(atoms, except))
  <2> SUFFICES ASSUME NEW p \in Positions
               PROVE  /\ LitX(atoms, except)[p].st \in {"ok", "fail", "hang"}
                      /\ LitX(atoms, except)[p].p \in p .. Len(text) + 1
    BY DEF Parses
  <2>1. CASE Matches(atoms, except, p)
    <3>1. p + Len(atoms) \in p .. Len(text) + 1
      BY <2>1, Matching
    <3>2. p + Len(atoms) \in Positions /\ p \in Nat
      BY <3>1, Bounds
    <3>3. Skip(p + Len(atoms)) \in p .. Len(text) + 1
      BY <3>1, <3>2, SkipStops, Bounds
    <3> QED
      BY <2>1, <3>3 DEF LitX, Ok, Result
  <2>2. CASE ~ Matches(atoms, except, p)
    BY <2>2, Bounds DEF LitX, Failed, Result
  <2> QED
    BY <2>1, <2>2
<1> QED
  BY <1>1, <1>2

LEMMA TokenParses ==
  ASSUME IsText
  PROVE  /\ \A a : a # EOF => /\ Parses(T(a)) /\ Parses(Raw(<<a>>)) /\ Parses(Lit(<<a>>))
                              /\ \A x : Parses(LitX(<<a>>, x))
         /\ \A a, b : a # EOF /\ b # EOF =>
              /\ Parses(Lit(<<a, b>>)) /\ Parses(Raw(<<a, b>>))
              /\ \A x : Parses(LitX(<<a, b>>, x))
         /\ \A a, b, c : a # EOF /\ b # EOF /\ c # EOF => Parses(Lit(<<a, b, c>>))
<1>1. ASSUME NEW a, a # EOF
      PROVE  Len(<<a>>) \in Nat /\ \A i \in 1 .. Len(<<a>>) : <<a>>[i] # EOF
  BY <1>1
<1>2. ASSUME NEW a, NEW b, a # EOF, b # EOF
      PROVE  Len(<<a, b>>) \in Nat /\ \A i \in 1 .. Len(<<a, b>>) : <<a, b>>[i] # EOF
  BY <1>2
<1>3. ASSUME NEW a, NEW b, NEW c, a # EOF, b # EOF, c # EOF
      PROVE  Len(<<a, b, c>>) \in Nat /\ \A i \in 1 .. Len(<<a, b, c>>) : <<a, b, c>>[i] # EOF
  BY <1>3
<1> QED
  BY <1>1, <1>2, <1>3, LitParses DEF T, Lit

LEMMA ClassParses ==
  ASSUME IsText
  PROVE  /\ \A S : EOF \notin S => Parses(Class(S)) /\ Parses(RawClass(S))
         /\ \A S : Parses(Stop(S)) /\ Parses(ScanTo(S)) /\ Parses(ScanKept(S))
         /\ Parses(Blanks) /\ Parses(AnyAtom)
<1>2. ASSUME NEW S, EOF \notin S PROVE Parses(Class(S)) /\ Parses(RawClass(S))
  BY Advance, <1>2, Bounds DEF Parses, Class, RawClass, Ok, Failed, Result
<1>3. ASSUME NEW S PROVE Parses(Stop(S)) /\ Parses(ScanTo(S)) /\ Parses(ScanKept(S))
  BY ScanStops, Bounds DEF Parses, Stop, ScanTo, ScanKept, Ok, Failed, Result
<1>4. Parses(Blanks) /\ Parses(AnyAtom)
  BY Advance, SkipStops, Bounds DEF Parses, Blanks, AnyAtom, Ok, Failed, Result
<1> QED
  BY <1>2, <1>3, <1>4

-----------------------------------------------------------------------------
(* Parses: functions put together.                                         *)

LEMMA RoundsParse ==
  ASSUME IsText, NEW stop, NEW e, Parses(stop), Parses(e)
  PROVE  Parses(Rounds(stop, e))
<1> DEFINE R == Rounds(stop, e)
           Good(p) == R[p].st \in {"ok", "fail", "hang"} /\ R[p].p \in p .. Len(text) + 1
           N == {p \in Positions : ~ Good(p)}
<1>1. SUFFICES ASSUME N # {} PROVE FALSE
  BY DEF Parses
<1>2. PICK p \in N : \A q \in N : q <= p
  <2>1. N \subseteq Positions
    OBVIOUS
  <2> HIDE DEF N
  <2> QED
    BY <1>1, <2>1, LastPosition
<1>3. R[p] = RoundsAt(stop, e, R, p)
  BY <1>2, RoundsEquation
<1>4. e[p].p # p => Good(e[p].p) /\ e[p].p \in p + 1 .. Len(text) + 1
  <2> SUFFICES ASSUME e[p].p # p PROVE Good(e[p].p) /\ e[p].p \in p + 1 .. Len(text) + 1
    OBVIOUS
  <2>1. p \in Positions /\ e[p].p \in p .. Len(text) + 1
    BY <1>2 DEF Parses
  <2>2. e[p].p \in Positions /\ e[p].p > p /\ e[p].p \in p + 1 .. Len(text) + 1
    BY <2>1, Bounds
  <2>3. e[p].p \notin N
    BY <2>1, <2>2, <1>2, Bounds
  <2> QED
    BY <2>2, <2>3
<1>5. p \in Positions /\ p \in Nat /\ Len(text) \in Nat
  BY <1>2, Bounds
<1>6. Good(p)
  <2> HIDE DEF R
  <2>1. /\ stop[p].st \in {"ok", "fail", "hang"} /\ stop[p].p \in p .. Len(text) + 1
        /\ e[p].st \in {"ok", "fail", "hang"} /\ e[p].p \in p .. Len(text) + 1
    BY <1>5 DEF Parses
  <2> QED
    BY <1>3, <1>4, <1>5, <2>1, Bounds DEF RoundsAt, Ok, Failed, Hang, Result
<1> QED
  BY <1>2, <1>6

LEMMA CombinatorParses ==
  ASSUME IsText
  PROVE  /\ Parses(Empty) /\ Parses(Fail) /\ \A leaf : Parses(Give(leaf))
         /\ \A a, b : Parses(a) /\ Parses(b) => Parses(a && b)
         /\ \A a, b : Parses(a) /\ Parses(b) => Parses(a || b)
         /\ \A t, a, b : Parses(t) /\ Parses(a) /\ Parses(b) => Parses(If(t, a, b))
         /\ \A e, a, b : Parses(e) /\ Parses(a) /\ Parses(b) => Parses(Progress(e, a, b))
         /\ \A e : Parses(e) => Parses(Opt(e)) /\ Parses(Try(e)) /\ Parses(Not(e))
         /\ \A e : Parses(e) => Parses(Drop(e)) /\ Parses(Hold(e)) /\ Parses(Many(e))
         /\ \A kind, e : Parses(e) => Parses(Node(kind, e))
         /\ \A s, e : Parses(s) /\ Parses(e) => Parses(Until(s, e))
         /\ \A h, t : Parses(h) /\ Parses(t) => Parses(Grow(h, t)) /\ Parses(Grow1(h, t))
<1>1. Parses(Empty) /\ Parses(Fail) /\ \A leaf : Parses(Give(leaf))
  BY Bounds DEF Parses, Empty, Fail, Give, Ok, Failed, Result
<1>2. ASSUME NEW a, NEW b, Parses(a), Parses(b) PROVE Parses(a && b)
  <2> SUFFICES ASSUME NEW p \in Positions
               PROVE  /\ (a && b)[p].st \in {"ok", "fail", "hang"}
                      /\ (a && b)[p].p \in p .. Len(text) + 1
    BY DEF Parses
  <2>1. (a && b)[p] = Then(a[p], b)
    BY DEF &&
  <2>2. a[p].p \in Positions /\ a[p].p \in p .. Len(text) + 1 /\ p \in Nat
    BY <1>2, Bounds DEF Parses
  <2>3. b[a[p].p].p \in p .. Len(text) + 1
    BY <1>2, <2>2, Bounds DEF Parses
  <2> QED
    BY <1>2, <2>1, <2>2, <2>3 DEF Parses, Then, Ok, Result
<1>3. ASSUME NEW a, NEW b, Parses(a), Parses(b) PROVE Parses(a || b)
  BY <1>3, Bounds DEF Parses, ||
<1>4. ASSUME NEW t, NEW a, NEW b, Parses(t), Parses(a), Parses(b)
      PROVE  Parses(If(t, a, b))
  BY <1>4, Bounds DEF Parses, If
<1>5. ASSUME NEW e, NEW a, NEW b, Parses(e), Parses(a), Parses(b)
      PROVE  Parses(Progress(e, a, b))
  BY <1>5, Bounds DEF Parses, Progress
<1>6. ASSUME NEW e, Parses(e)
      PROVE  /\ Parses(Opt(e)) /\ Parses(Try(e)) /\ Parses(Not(e))
             /\ Parses(Drop(e)) /\ Parses(Hold(e)) /\ Parses(Many(e))
             /\ \A kind : Parses(Node(kind, e))
  <2>1. Parses(Opt(e)) /\ Parses(Not(e))
    BY <1>1, <1>3, <1>4, <1>6 DEF Opt, Not
  <2>2. Parses(Try(e)) /\ Parses(Drop(e)) /\ Parses(Hold(e)) /\ \A kind : Parses(Node(kind, e))
    BY <1>6, Bounds DEF Parses, Try, Drop, Hold, Node, Ok, Failed, Result
  <2>3. Parses(Rounds(Fail, e))
    BY <1>1, <1>6, RoundsParse
  <2>4. Parses(Many(e))
    BY <2>3, Bounds DEF Parses, Many, Ok, Hang, Result
  <2> QED
    BY <2>1, <2>2, <2>4
<1>7. ASSUME NEW s, NEW e, Parses(s), Parses(e) PROVE Parses(Until(s, e))
  <2>1. Parses(Rounds(s, e))
    BY <1>7, RoundsParse
  <2> QED
    BY <2>1, Bounds DEF Parses, Until, Ok, Result
<1>8. ASSUME NEW h, NEW t, Parses(h), Parses(t) PROVE Parses(Grow(h, t)) /\ Parses(Grow1(h, t))
  <2>1. Parses(Rounds(Fail, t))
    BY <1>1, <1>8, RoundsParse
  <2>2. Parses(Grow(h, t))
    BY <1>8, <2>1, Bounds DEF Parses, Grow, Ok, Hang, Result
  <2>3. Parses(Grow1(h, t))
    BY <1>8, Bounds DEF Parses, Grow1, Ok, Result
  <2> QED
    BY <2>2, <2>3
<1> QED
  BY <1>1, <1>2, <1>3, <1>4, <1>5, <1>6, <1>7, <1>8

-----------------------------------------------------------------------------
(* Parses: the functions of the grammar.                                   *)

LEMMA Atoms ==
  /\ EOF \notin Words /\ EOF \notin Numbers /\ EOF \notin Chars
  /\ EOF # Quote /\ EOF \notin BuiltinTypes
<1>1. EOF \notin Keywords
  BY DEF Keywords, EOF
<1>2. EOF \notin BuiltinTypes
  BY DEF BuiltinTypes, EOF
<1>3. EOF \notin OtherWords
  BY DEF OtherWords, EOF
<1> QED
  BY <1>1, <1>2, <1>3, LexicalAssumption DEF Words, EOF, Quote

LEMMA SmallParses ==
  ASSUME IsText
  PROVE  /\ Parses(Name) /\ Parses(RawName) /\ Parses(Integer) /\ Parses(Float) /\ Parses(String)
         /\ Parses(Char) /\ Parses(Comma) /\ Parses(Semicolons) /\ Parses(CommaOrSemicolon)
         /\ \A a : a # EOF => Parses(Only(a)) /\ Parses(Kept(<<a>>))
         /\ \A a, b : a # EOF /\ b # EOF => Parses(Kept(<<a, b>>))
         /\ \A a, b, c : a # EOF /\ b # EOF /\ c # EOF => Parses(Kept(<<a, b, c>>))
         /\ \A close, e : Parses(e) => Parses(List(close, e))
         /\ \A e : Parses(e) => Parses(Bracketed(e))
         /\ \A kind, e : Parses(e) => Parses(Placeholder(kind, e))
<1> USE TokenParses, ClassParses, CombinatorParses
<1>1. Parses(Name) /\ Parses(RawName) /\ Parses(Integer) /\ Parses(String) /\ Parses(Char)
  BY Atoms DEF Name, RawName, Integer, String, Char
<1>2. Parses(Float)
  BY Atoms DEF Float, EOF
<1>3. Parses(Comma) /\ Parses(Semicolons) /\ Parses(CommaOrSemicolon)
  BY DEF Comma, Semicolons, CommaOrSemicolon, EOF
<1>4. /\ \A a : a # EOF => Parses(Only(a)) /\ Parses(Kept(<<a>>))
      /\ \A a, b : a # EOF /\ b # EOF => Parses(Kept(<<a, b>>))
      /\ \A a, b, c : a # EOF /\ b # EOF /\ c # EOF => Parses(Kept(<<a, b, c>>))
  BY DEF Only, Kept
<1>5. \A close, e : Parses(e) => Parses(List(close, e))
  BY <1>3 DEF List
<1>6. \A e : Parses(e) => Parses(Bracketed(e))
  BY <1>5 DEF Bracketed, EOF
<1>7. \A kind, e : Parses(e) => Parses(Placeholder(kind, e))
  BY DEF Placeholder
<1> QED
  BY <1>1, <1>2, <1>3, <1>4, <1>5, <1>6, <1>7

AllParse(g) == \A f \in Functions_ : Parses(g[f])

LEMMA TypeParses ==
  ASSUME IsText, NEW g, AllParse(g)
  PROVE  /\ Parses(TemplateArgs(g)) /\ Parses(QualifiedName) /\ Parses(NamedType(g))
         /\ Parses(Type(g))
<1> USE TokenParses, ClassParses, CombinatorParses, SmallParses
<1>1. Parses(g["type"])
  BY DEF AllParse, Functions_
<1>2. Parses(TemplateArgs(g))
  BY <1>1 DEF TemplateArgs, TemplateArg, EOF
<1>3. Parses(QualifiedName)
  BY DEF QualifiedName, EOF
<1>4. EOF \notin {"le", "be"}
  BY DEF EOF
<1>5. Parses(NamedType(g))
  BY <1>2, <1>3 DEF NamedType
<1>6. Parses(Type(g))
  BY <1>1, <1>4, <1>5, Atoms DEF Type
<1> QED
  BY <1>2, <1>3, <1>5, <1>6

LEMMA ExprParses ==
  ASSUME IsText, NEW g, AllParse(g)
  PROVE  /\ Parses(Ternary(g)) /\ Parses(Unary(g)) /\ Parses(Primary(g)) /\ Parses(Negative(g))
         /\ Parses(NameExpr(g, Name, Member(g)))
<1> USE TokenParses, ClassParses, CombinatorParses, SmallParses
<1>1. Parses(g["unary"]) /\ Parses(g["expr"]) /\ Parses(g["type"]) /\ Parses(g["primary"])
  BY DEF AllParse, Functions_
<1>2. /\ \A a, e : a # EOF /\ Parses(e) => Parses(Round(<<a>>, e))
      /\ \A a, b, e : a # EOF /\ b # EOF /\ Parses(e) => Parses(Round(<<a, b>>, e))
  BY DEF Round, MatchOp
<1>3. Parses(Mul(g))
  BY <1>1, <1>2 DEF Mul, Left3, EOF
<1>4. Parses(Add(g))
  BY <1>2, <1>3 DEF Add, Left2, EOF
<1>5. Parses(Shift(g))
  BY <1>2, <1>4 DEF Shift, Left2, EOF
<1>6. Parses(Comparison(g))
  BY <1>2, <1>5 DEF Comparison, Left4, EOF
<1>7. Parses(Equality(g))
  BY <1>2, <1>6 DEF Equality, Left2, EOF
<1>8. Parses(BitwiseAnd(g))
  BY <1>2, <1>7 DEF BitwiseAnd, Left1, EOF
<1>9. Parses(BitwiseXor(g))
  BY <1>2, <1>8 DEF BitwiseXor, Left1, EOF
<1>10. Parses(BitwiseOr(g))
  BY <1>2, <1>9 DEF BitwiseOr, Left1, EOF
<1>11. Parses(LogicalAnd(g))
  BY <1>2, <1>10 DEF LogicalAnd, Left1, EOF
<1>12. Parses(LogicalOr(g))
  BY <1>2, <1>11 DEF LogicalOr, Left1, EOF
<1>13. Parses(TernaryTail(g))
  BY <1>1 DEF TernaryTail, EOF
<1>14. Parses(Ternary(g))
  BY <1>12, <1>13 DEF Ternary
<1>15. Parses(CallArgs(g))
  BY <1>1 DEF CallArgs, EOF
<1>16. Parses(Member(g))
  BY <1>1, <1>15 DEF Member, EOF
<1>17. \A name : Parses(name) => Parses(NameExpr(g, name, Member(g)))
  BY <1>15, <1>16 DEF NameExpr, EOF
<1>18. Parses(ArrayInit(g)) /\ Parses(Paren(g))
  BY <1>1 DEF ArrayInit, Paren, EOF
<1>19. /\ \A kind : Parses(Operation(g, kind))
       /\ \A name, operation : Parses(name) /\ Parses(operation) => Parses(OrName(name, operation))
  BY <1>18 DEF Operation, OrName, EOF
<1>20. Parses(EndianCast(g, Member(g)))
  BY <1>1, <1>16, <1>17 DEF EndianCast, EOF
<1>21. \A w, name : Parses(name) => Parses(PrimaryAt(g, w, name, Member(g)))
  BY <1>16, <1>18, <1>19, <1>20 DEF PrimaryAt, EOF
<1>22. Parses(Primary(g))
  <2>1. \A w : Parses(PrimaryAt(g, w, NameExpr(g, Name, Member(g)), Member(g)))
    BY <1>17, <1>21
  <2> QED
    BY ONLY <2>1 DEF Primary, Parses
<1>23. Parses(Negative(g))
  BY <1>16 DEF Negative, EOF
<1>24. Parses(Unary(g))
  BY <1>1, <1>23 DEF Unary, EOF
<1> QED
  BY <1>14, <1>17, <1>22, <1>23, <1>24

LEMMA PartParses ==
  ASSUME IsText, NEW g, AllParse(g)
  PROVE  /\ Parses(Attributes(g)) /\ Parses(AttrsEnd(g)) /\ Parses(Ending(g)) /\ Parses(TemplateParams)
         /\ Parses(IfDefRest(g)) /\ Parses(SkipIfDefBlocks(g)) /\ Parses(IfDefs) /\ Parses(IfDefEnd)
         /\ \A words : EOF \notin words => Parses(Hash(words))
<1> USE TokenParses, ClassParses, CombinatorParses, SmallParses
<1>1. Parses(g["expr"]) /\ Parses(g["ifdef_rest"]) /\ Parses(g["attributes"])
  BY DEF AllParse, Functions_
<1>2. Parses(AttrName)
  BY DEF AttrName, EOF
<1>3. Parses(Attribute(g))
  BY <1>1, <1>2 DEF Attribute
<1>4. Parses(Attributes(g))
  BY <1>3 DEF Attributes, EOF
<1>5. Parses(AttrsEnd(g))
  BY <1>1 DEF AttrsEnd
<1>6. Parses(Ending(g))
  BY <1>5 DEF Ending, EOF
<1>7. Parses(TemplateParams)
  BY DEF TemplateParams, EOF
<1>8. \A words : EOF \notin words => Parses(Hash(words))
  BY DEF Hash, EOF
<1>9. EOF \notin {"ifdef", "ifndef"} /\ EOF \notin {"endif"}
  BY DEF EOF
<1>10. Parses(IfDefs) /\ Parses(IfDefEnd)
  BY <1>8, <1>9 DEF IfDefs, IfDefEnd
<1>11. Parses(IfDefRest(g)) /\ Parses(SkipIfDefBlocks(g))
  BY <1>1, <1>10 DEF IfDefRest, SkipIfDefBlocks
<1> QED
  BY <1>4, <1>5, <1>6, <1>7, <1>8, <1>10, <1>11

LEMMA DefinitionParses ==
  ASSUME IsText, NEW g, AllParse(g)
  PROVE  /\ Parses(Struct(g)) /\ Parses(Union(g)) /\ Parses(Enum(g)) /\ Parses(Bitfield(g))
         /\ Parses(BitfieldBody(g)) /\ Parses(Using(g)) /\ Parses(Fn(g)) /\ Parses(Namespace(g))
         /\ \A body : Parses(body) => Parses(MatchWith(g, body))
<1> USE TokenParses, ClassParses, CombinatorParses, SmallParses
<1>1. /\ Parses(g["expr"]) /\ Parses(g["type"]) /\ Parses(g["body"]) /\ Parses(g["bitfield_body"])
      /\ Parses(g["if"]) /\ Parses(g["padding"]) /\ Parses(g["item"])
  BY DEF AllParse, Functions_
<1>2. Parses(AttrsEnd(g)) /\ Parses(Ending(g)) /\ Parses(TemplateParams) /\ Parses(SkipIfDefBlocks(g))
  BY PartParses
<1>3. Parses(Struct(g))
  BY <1>1, <1>2 DEF Struct, EOF
<1>4. Parses(Union(g))
  BY <1>1, <1>2 DEF Union, EOF
<1>5. Parses(RangeEnd(g))
  BY <1>1 DEF RangeEnd, EOF
<1>6. Parses(EnumMember(g))
  BY <1>1, <1>5 DEF EnumMember, EOF
<1>7. Parses(Enum(g))
  BY <1>1, <1>2, <1>6 DEF Enum, EOF
<1>8. Parses(Bitfield(g))
  BY <1>1, <1>2 DEF Bitfield, EOF
<1>9. Parses(Patterns(g))
  BY <1>1, <1>5 DEF Patterns, EOF
<1>10. \A body : Parses(body) => Parses(Arms(g, body))
  BY <1>9 DEF Arms, EOF
<1>11. \A body : Parses(body) => Parses(MatchWith(g, body))
  BY <1>1, <1>10 DEF MatchWith, EOF
<1>12. Parses(BitfieldMatch(g))
  BY <1>1, <1>11 DEF BitfieldMatch, EOF
<1>13. Parses(Bits(g)) /\ Parses(Value(g))
  BY <1>1 DEF Bits, Value, EOF
<1>14. Parses(TypedEntry(g))
  BY <1>1, <1>2, <1>13 DEF TypedEntry, EOF
<1>15. Parses(StandardEntry(g))
  BY <1>2, <1>13 DEF StandardEntry, EOF
<1>16. Parses(PlainEntry(g))
  <2>1. EOF \notin {"signed", "bool", "unsigned"}
    BY DEF EOF
  <2> QED
    BY <1>1, <1>14, <1>15, <2>1 DEF PlainEntry, EOF
<1>17. Parses(PaddingEntry(g))
  BY <1>1, <1>2 DEF PaddingEntry, EOF
<1>18. \A w, plain : Parses(plain) => Parses(BitfieldEntryAt(g, w, plain))
  BY <1>1, <1>12, <1>17 DEF BitfieldEntryAt, EOF
<1>19. Parses(BitfieldEntry(g))
  <2>1. \A w : Parses(BitfieldEntryAt(g, w, PlainEntry(g)))
    BY <1>16, <1>18
  <2> QED
    BY ONLY <2>1 DEF BitfieldEntry, Parses
<1>20. Parses(BitfieldBody(g))
  BY <1>19 DEF BitfieldBody
<1>21. Parses(Using(g))
  BY <1>1, <1>2 DEF Using, EOF
<1>22. Parses(Param(g))
  BY <1>1 DEF Param, EOF
<1>23. Parses(Fn(g))
  BY <1>1, <1>22 DEF Fn, EOF
<1>24. Parses(Namespace(g))
  BY <1>1 DEF Namespace, EOF
<1> QED
  BY <1>3, <1>4, <1>7, <1>8, <1>11, <1>20, <1>21, <1>23, <1>24

LEMMA DeclarationParses ==
  ASSUME IsText, NEW g, AllParse(g)
  PROVE  /\ Parses(VarDecl(g)) /\ Parses(ItemAssign(g)) /\ Parses(StatementAssign(g))
         /\ Parses(ExprStmt(g))
         /\ \A type : Parses(type) => Parses(Declared(type, g))
         /\ \A expr : Parses(expr) => Parses(Stated(expr, g))
<1> USE TokenParses, ClassParses, CombinatorParses, SmallParses
<1>1. Parses(g["expr"]) /\ Parses(g["type"])
  BY DEF AllParse, Functions_
<1>2. Parses(AttrsEnd(g))
  BY PartParses
<1>3. Parses(ArraySize(g))
  BY <1>1 DEF ArraySize, EOF
<1>4. Parses(Declarator(g))
  BY <1>1, <1>3 DEF Declarator, EOF
<1>5. \A type : Parses(type) => Parses(Declared(type, g))
  BY <1>1, <1>2, <1>4 DEF Declared, EOF
<1>6. \A op : Parses(op) => Parses(Assign(g, op))
  BY <1>1 DEF Assign
<1>7. Parses(ItemAssign(g))
  BY <1>6 DEF ItemAssign, EOF
<1>8. Parses(StatementAssign(g))
  BY <1>6, <1>7 DEF StatementAssign, EOF
<1>9. \A expr : Parses(expr) => Parses(Stated(expr, g))
  BY <1>8 DEF Stated
<1>10. Parses(VarDecl(g)) /\ Parses(ExprStmt(g))
  BY <1>1, <1>5, <1>9 DEF VarDecl, ExprStmt
<1> QED
  BY <1>5, <1>7, <1>8, <1>9, <1>10

LEMMA ClippedParses ==
  ASSUME IsText, NEW g, AllParse(g)
  PROVE  Parses(Clipped(g))
<1> DEFINE named(p) == With(g, "unary", p, NameExpr(g, Name, Member(g)))
<1>1. \A p : AllParse(named(p))
  BY ExprParses DEF AllParse, Parses, With
<1>2. \A p \in Positions : NamedExpr(g)[p] = Ternary(named(p))[p]
  BY DEF NamedExpr
<1> HIDE DEF named
<1>3. \A p : Parses(Ternary(named(p)))
  BY <1>1, ExprParses
<1>4. Parses(NamedExpr(g))
  BY <1>2, <1>3 DEF Parses
<1>5. Parses(NamedType(g))
  BY TypeParses
<1> QED
  BY <1>4, <1>5, DeclarationParses, CombinatorParses DEF Clipped

LEMMA StatementParses ==
  ASSUME IsText, NEW g, AllParse(g)
  PROVE  /\ Parses(Body(g)) /\ Parses(Statement(g)) /\ Parses(IfStmt(g)) /\ Parses(WhileStmt(g))
         /\ Parses(ForStmt(g)) /\ Parses(MatchStmt(g)) /\ Parses(ReturnStmt(g))
         /\ Parses(Padding(g)) /\ Parses(TryCatch(g)) /\ Parses(VarDeclOrExpr(g))
         /\ Parses(VarDecl(g)) /\ Parses(StatementAssign(g)) /\ Parses(DollarAssign(g))
<1> USE TokenParses, ClassParses, CombinatorParses, SmallParses
<1>1. /\ Parses(g["expr"]) /\ Parses(g["type"]) /\ Parses(g["body"]) /\ Parses(g["statement"])
      /\ Parses(g["if"])
  BY DEF AllParse, Functions_
<1>2. /\ Parses(VarDecl(g)) /\ Parses(ItemAssign(g)) /\ Parses(StatementAssign(g))
      /\ Parses(ExprStmt(g))
  BY DeclarationParses
<1>3. Parses(Body(g))
  BY <1>1, ClippedParses DEF Body, EOF
<1>4. Parses(Block(g))
  BY <1>1 DEF Block, EOF
<1>5. Parses(ParenExpr(g))
  BY <1>1 DEF ParenExpr, EOF
<1>6. Parses(VarDeclOrExpr(g))
  BY <1>1, <1>2 DEF VarDeclOrExpr
<1>7. Parses(DollarAssign(g))
  BY <1>1 DEF DollarAssign, EOF
<1>8. \A definition, plain : Parses(definition) /\ Parses(plain) => Parses(Inner(definition, plain))
  BY DEF Inner
<1>9. \A kind, word : word # EOF => Parses(Simple(kind, word))
  BY DEF Simple
<1>10. \A w, expr, plain : Parses(expr) /\ Parses(plain) => Parses(StatementAt(g, w, expr, plain))
  BY <1>7, <1>8, <1>9 DEF StatementAt, AllParse, Functions_, EOF
<1>11. Parses(Statement(g))
  <2>1. \A w : Parses(StatementAt(g, w, ExprStmt(g), VarDecl(g) || ExprStmt(g)))
    BY <1>2, <1>10
  <2> QED
    BY ONLY <2>1 DEF Statement, Parses
<1>12. Parses(Else(g))
  BY <1>1, <1>4 DEF Else, EOF
<1>13. Parses(IfStmt(g))
  BY <1>4, <1>5, <1>12 DEF IfStmt, EOF
<1>14. Parses(WhileStmt(g))
  BY <1>4, <1>5 DEF WhileStmt, EOF
<1>15. Parses(ForStmt(g))
  BY <1>1, <1>4 DEF ForStmt, EOF
<1>16. Parses(MatchStmt(g))
  BY <1>4, DefinitionParses DEF MatchStmt
<1>17. Parses(ReturnStmt(g)) /\ Parses(Padding(g))
  BY <1>1 DEF ReturnStmt, Padding, EOF
<1>18. Parses(TryCatch(g))
  BY <1>4 DEF TryCatch, EOF
<1> QED
  BY <1>2, <1>3, <1>6, <1>7, <1>11, <1>13, <1>14, <1>15, <1>16, <1>17, <1>18

LEMMA ItemParses ==
  ASSUME IsText, NEW g, AllParse(g)
  PROVE  Parses(Preprocessor(g)) /\ Parses(Import) /\ Parses(Item(g))
<1> USE TokenParses, ClassParses, CombinatorParses, SmallParses
<1>1. Parses(g["item"]) /\ Parses(g["preprocessor"]) /\ Parses(g["namespace"])
  BY DEF AllParse, Functions_
<1>2. Parses(Pragma) /\ Parses(Define) /\ Parses(Include)
  BY Atoms DEF Pragma, Define, Include, EOF
<1>3. EOF \notin {"ifdef", "ifndef"} /\ EOF \notin {"else"}
  BY DEF EOF
<1>4. Parses(IfDef(g))
  BY <1>1, <1>3, PartParses DEF IfDef
<1>5. \A w : Parses(DirectiveAt(g, w))
  BY <1>2, <1>4 DEF DirectiveAt
<1>6. Parses(Directive(g))
  BY <1>5 DEF Directive, Parses
<1>7. Parses(Preprocessor(g))
  BY <1>6 DEF Preprocessor, EOF
<1>8. Parses(Import)
  BY DEF Import, EOF
<1>9. Parses(VarDeclOrExpr(g))
  BY StatementParses
<1>10. \A w : Parses(ItemAt(g, w, VarDeclOrExpr(g)))
  BY <1>1, <1>9 DEF ItemAt, AllParse, Functions_, EOF
<1>11. Parses(Item(g))
  BY ONLY <1>10 DEF Item, Parses
<1> QED
  BY <1>7, <1>8, <1>11

LEMMA GrammarParses ==
  ASSUME IsText, NEW g, AllParse(g)
  PROVE  AllParse(Grammar(g))
BY TypeParses, ExprParses, PartParses, DefinitionParses, StatementParses, ItemParses
DEF AllParse, Grammar, Functions_

-----------------------------------------------------------------------------
(* Nested is a recursive function over the depths.                         *)

NestedAt(h, n) == IF n = 0 THEN TooDeep ELSE Grammar(h[n - 1])
NestedUpTo(h, m) == h = [n \in 0 .. m |-> NestedAt(h, n)]

LEMMA NestedExist == \A m \in 0 .. Depth : \E h : NestedUpTo(h, m)
<1> DEFINE N == {m \in 0 .. Depth : ~ \E h : NestedUpTo(h, m)}
<1>1. SUFFICES ASSUME N # {} PROVE FALSE
  OBVIOUS
<1>2. PICK x \in N : \A y \in N : x <= y
  <2>1. N \subseteq Nat
    OBVIOUS
  <2> HIDE DEF N
  <2> QED
    BY <1>1, <2>1, LeastNumber
<1>3. x \in 0 .. Depth /\ ~ \E h : NestedUpTo(h, x)
  BY <1>2
<1>4. CASE x = 0
  <2> DEFINE k == [n \in 0 .. 0 |-> TooDeep]
  <2>1. NestedUpTo(k, 0)
    BY DEF NestedUpTo, NestedAt
  <2> QED
    BY <1>3, <1>4, <2>1
<1>5. CASE x # 0
  <2>1. x - 1 \in 0 .. Depth /\ x - 1 \notin N
    BY <1>2, <1>3, <1>5, DepthAssumption
  <2>2. PICK h : NestedUpTo(h, x - 1)
    BY <2>1
  <2> DEFINE k == [n \in 0 .. x |-> IF n = x THEN NestedAt(h, x) ELSE h[n]]
  <2>3. \A n \in 0 .. x - 1 : k[n] = h[n]
    BY <1>3, DepthAssumption
  <2>4. ASSUME NEW n \in 0 .. x PROVE k[n] = NestedAt(k, n)
    <3>1. NestedAt(h, n) = NestedAt(k, n)
      <4>1. n # 0 => n - 1 \in 0 .. x - 1
        BY <1>3, DepthAssumption
      <4> HIDE DEF k
      <4> QED
        BY <2>3, <4>1 DEF NestedAt
    <3>2. k[n] = NestedAt(h, n)
      <4>1. CASE n = x
        BY <4>1
      <4>2. CASE n # x
        <5>1. n \in 0 .. x - 1
          BY <4>2, <1>3, DepthAssumption
        <5>2. h[n] = NestedAt(h, n)
          <6> HIDE DEF k
          <6> QED
            BY <2>2, <5>1 DEF NestedUpTo
        <5> QED
          BY <5>1, <5>2, <2>3
      <4> QED
        BY <4>1, <4>2
    <3> QED
      BY <3>1, <3>2
  <2>5. k = [n \in 0 .. x |-> k[n]]
    OBVIOUS
  <2>6. NestedUpTo(k, x)
    <3> HIDE DEF k
    <3> QED
      BY <2>4, <2>5 DEF NestedUpTo
  <2> QED
    BY <1>3, <2>6
<1> QED
  BY <1>4, <1>5

LEMMA NestedEquation ==
  ASSUME NEW n \in 0 .. Depth
  PROVE  Nested[n] = IF n = 0 THEN TooDeep ELSE Grammar(Nested[n - 1])
<1> DEFINE F(h) == [m \in 0 .. Depth |-> NestedAt(h, m)]
           k == CHOOSE h : h = F(h)
<1>1. PICK h : NestedUpTo(h, Depth)
  <2> HIDE DEF k
  <2> QED
    BY NestedExist, DepthAssumption
<1>2. h = F(h)
  BY <1>1 DEF NestedUpTo
<1>3. k = F(k)
  <2> HIDE DEF F
  <2> QED
    BY <1>2
<1>4. Nested = k
  BY DEF Nested, NestedAt
<1> HIDE DEF k
<1> QED
  BY <1>3, <1>4 DEF NestedAt

LEMMA NestedParses ==
  ASSUME IsText
  PROVE  \A n \in 0 .. Depth : AllParse(Nested[n])
<1> DEFINE N == {n \in 0 .. Depth : ~ AllParse(Nested[n])}
<1>1. SUFFICES ASSUME N # {} PROVE FALSE
  OBVIOUS
<1>2. PICK x \in N : \A y \in N : x <= y
  <2>1. N \subseteq Nat
    OBVIOUS
  <2> HIDE DEF N
  <2> QED
    BY <1>1, <2>1, LeastNumber
<1>3. CASE x = 0
  <2>1. Nested[x] = TooDeep
    BY <1>2, <1>3, NestedEquation
  <2>2. AllParse(TooDeep)
    BY Bounds DEF AllParse, TooDeep, Parses, Hang, Result
  <2> QED
    BY <1>2, <2>1, <2>2
<1>4. CASE x # 0
  <2>1. x - 1 \in 0 .. Depth /\ AllParse(Nested[x - 1])
    BY <1>2, <1>4, DepthAssumption
  <2>2. Nested[x] = Grammar(Nested[x - 1])
    BY <1>2, <1>4, NestedEquation
  <2>3. AllParse(Nested[x])
    BY <2>1, <2>2, GrammarParses
  <2> QED
    BY <1>2, <2>3
<1> QED
  BY <1>3, <1>4

LEMMA ParserParses ==
  ASSUME IsText
  PROVE  \A f \in Functions_ : Parses(Parser[f])
BY NestedParses, DepthAssumption DEF Parser, AllParse

-----------------------------------------------------------------------------
(* The type invariant.                                                     *)

\* From any source file the cursor stays in the text, whatever its items do, and a
\* parse that fails returns no items.
THEOREM ParserTypeCorrect == Spec => []TypeOK
<1>1. Init => TypeOK
  <2> SUFFICES ASSUME Init PROVE TypeOK
    OBVIOUS
  <2>1. text = FlattenSeq(parts) /\ text \in Seq(STRING \ {EOF})
    BY SourcesAssumption DEF Init
  <2>2. IsText /\ 1 \in Positions
    BY <2>1, Bounds DEF IsText
  <2>3. pos \in Positions
    BY <2>2, SkipStops, Bounds DEF Init
  <2> QED
    BY <2>1, <2>3 DEF Init, TypeOK
<1>2. TypeOK /\ [Next]_vars => TypeOK'
  <2> SUFFICES ASSUME TypeOK, [Next]_vars PROVE TypeOK'
    OBVIOUS
  <2>1. IsText /\ pos \in Positions
    BY DEF TypeOK, IsText
  <2> DEFINE Kept_ == text' = text /\ parts' = parts
  <2>2. Kept_ /\ pos' \in Positions => pos' \in Positions'
    BY DEF Positions
  <2>3. CASE StraySemicolon
    <3>1. At(pos) # EOF /\ pos' = Skip(pos + 1)
      BY <2>3 DEF StraySemicolon, EOF
    <3>2. pos' \in Positions
      <4>1. Skip(pos + 1) \in Positions
        BY <2>1, <3>1, Advance
      <4> QED
        BY <3>1, <4>1
    <3> QED
      BY <2>2, <2>3, <3>2 DEF StraySemicolon, TypeOK
  <2>4. CASE ParseItem
    <3> DEFINE r == Parser["item"][pos]
    <3>1. r.p \in Positions
      <4>1. "item" \in Functions_
        BY DEF Functions_
      <4>2. r.p \in pos .. Len(text) + 1
        BY <2>1, <4>1, ParserParses DEF Parses
      <4> QED
        BY <2>1, <4>2, Bounds
    <3>2. pos' \in Positions
      <4>1. Skip(r.p) \in r.p .. Len(text) + 1
        BY <2>1, <3>1, SkipStops
      <4>2. Skip(r.p) \in Positions
        BY <2>1, <3>1, <4>1, Bounds
      <4>3. pos' \in {pos, Skip(r.p)}
        BY <2>4 DEF ParseItem
      <4> QED
        BY <2>1, <4>2, <4>3
    <3> QED
      BY <2>2, <2>4, <3>2 DEF ParseItem, TypeOK
  <2>5. CASE EndOfFile
    BY <2>1, <2>2, <2>5 DEF EndOfFile, TypeOK
  <2>6. CASE UNCHANGED vars
    BY <2>1, <2>2, <2>6 DEF vars, TypeOK
  <2> QED
    BY <2>3, <2>4, <2>5, <2>6 DEF Next
<1> QED
  BY <1>1, <1>2, PTL DEF Spec

-----------------------------------------------------------------------------
(* What a function leaves behind when it fails.                            *)

LEMMA Sequence ==
  ASSUME NEW a, NEW b, NEW p \in Positions
  PROVE  /\ a[p].st # "ok" => (a && b)[p] = a[p]
         /\ a[p].st = "ok" /\ b[a[p].p].st # "ok" => (a && b)[p] = b[a[p].p]
         /\ a[p].st = "ok" /\ b[a[p].p].st = "ok" =>
              (a && b)[p].st = "ok" /\ (a && b)[p].p = b[a[p].p].p
<1>1. (a && b)[p] = Then(a[p], b)
  BY DEF &&
<1>2. /\ a[p].st # "ok" => Then(a[p], b) = a[p]
      /\ a[p].st = "ok" /\ b[a[p].p].st # "ok" => Then(a[p], b) = b[a[p].p]
  BY DEF Then
<1>3. ASSUME a[p].st = "ok", b[a[p].p].st = "ok"
      PROVE  Then(a[p], b).st = "ok" /\ Then(a[p], b).p = b[a[p].p].p
  BY <1>3 DEF Then, Ok, Result
<1> QED
  BY <1>1, <1>2, <1>3

Restores(f) == \A p \in Positions : f[p].st = "fail" => f[p].p = p
NeverFails(f) == \A p \in Positions : f[p].st # "fail"
\* A look ahead: it takes nothing.
Stays(f) == \A p \in Positions : f[p].st = "ok" => f[p].p = p
\* Where t succeeds, f does not fail.
Guarded(f, t) == \A p \in Positions : t[p].st = "ok" => f[p].st # "fail"

LEMMA TokenRestores ==
  /\ \A atoms, x : Restores(LitX(atoms, x))
  /\ \A atoms : Restores(Lit(atoms)) /\ Restores(Raw(atoms))
  /\ \A a : Restores(T(a))
  /\ \A S : Restores(Class(S)) /\ Restores(RawClass(S)) /\ Restores(Stop(S)) /\ Stays(Stop(S))
  /\ \A S : NeverFails(ScanTo(S)) /\ NeverFails(ScanKept(S))
  /\ NeverFails(Blanks) /\ Restores(AnyAtom)
<1>1. /\ \A atoms, x : Restores(LitX(atoms, x))
      /\ \A atoms : Restores(Raw(atoms))
  BY DEF Restores, LitX, Raw, Ok, Failed, Result
<1>2. \A atoms : Restores(Lit(atoms))
  BY <1>1 DEF Lit
<1>3. \A a : Restores(T(a))
  BY <1>2 DEF T
<1>4. \A S : Restores(Class(S)) /\ Restores(RawClass(S)) /\ Restores(Stop(S)) /\ Stays(Stop(S))
  BY DEF Restores, Stays, Class, RawClass, Stop, Ok, Failed, Result
<1>5. /\ \A S : NeverFails(ScanTo(S)) /\ NeverFails(ScanKept(S))
      /\ NeverFails(Blanks) /\ Restores(AnyAtom)
  BY DEF NeverFails, Restores, ScanTo, ScanKept, Blanks, AnyAtom, Ok, Failed, Result
<1> QED
  BY <1>1, <1>2, <1>3, <1>4, <1>5

\* Which functions never fail, and which restore the cursor when they do.
LEMMA CombinatorRestores ==
  ASSUME IsText
  PROVE  /\ NeverFails(Empty) /\ Stays(Empty) /\ Restores(Fail)
         /\ \A leaf : NeverFails(Give(leaf)) /\ Stays(Give(leaf))
         /\ \A f : NeverFails(f) => Restores(f)
         /\ \A a, b : Parses(a) /\ Restores(a) /\ NeverFails(b) => Restores(a && b)
         /\ \A a, b : Parses(a) /\ Restores(a) /\ Stays(a) /\ Restores(b) => Restores(a && b)
         /\ \A a, b : Parses(a) /\ NeverFails(a) /\ NeverFails(b) => NeverFails(a && b)
         /\ \A a, b : Parses(a) /\ Restores(a) /\ Restores(b) => Restores(a || b)
         /\ \A a, b : Parses(a) /\ NeverFails(b) => NeverFails(a || b)
         /\ \A t, a, b : Restores(a) /\ Restores(b) => Restores(If(t, a, b))
         /\ \A t, a, b : NeverFails(a) /\ NeverFails(b) => NeverFails(If(t, a, b))
         /\ \A e : Parses(e) => NeverFails(Opt(e))
         /\ \A e : Restores(Try(e)) /\ NeverFails(Many(e)) /\ Restores(Not(e)) /\ Stays(Not(e))
         /\ \A e : Restores(e) => Restores(Drop(e)) /\ Restores(Hold(e))
         /\ \A kind, e : Restores(e) => Restores(Node(kind, e))
         /\ \A kind, e : NeverFails(e) => NeverFails(Node(kind, e))
         /\ \A h, t : Restores(h) => Restores(Grow(h, t))
         /\ \A h, t : Parses(h) /\ Restores(h) /\ NeverFails(t) => Restores(Grow1(h, t))
<1>1. /\ NeverFails(Empty) /\ Stays(Empty) /\ Restores(Fail) /\ Stays(Fail)
      /\ \A leaf : NeverFails(Give(leaf)) /\ Stays(Give(leaf))
      /\ \A f : NeverFails(f) => Restores(f)
  BY DEF NeverFails, Restores, Stays, Empty, Fail, Give, Ok, Failed, Result
<1>2. ASSUME NEW a, NEW b, Parses(a)
      PROVE  /\ Restores(a) /\ NeverFails(b) => Restores(a && b)
             /\ Restores(a) /\ Stays(a) /\ Restores(b) => Restores(a && b)
             /\ NeverFails(a) /\ NeverFails(b) => NeverFails(a && b)
  <2>1. \A p \in Positions : a[p].p \in Positions
    BY <1>2, Bounds DEF Parses
  <2> QED
    BY <2>1, Sequence DEF Restores, NeverFails, Stays
<1>3. ASSUME NEW a, NEW b, Parses(a)
      PROVE  /\ Restores(a) /\ Restores(b) => Restores(a || b)
             /\ NeverFails(b) => NeverFails(a || b)
  <2>1. \A p \in Positions : a[p].p \in Positions
    BY <1>3, Bounds DEF Parses
  <2> QED
    BY <2>1 DEF ||, Restores, NeverFails
<1>4. /\ \A t, a, b : Restores(a) /\ Restores(b) => Restores(If(t, a, b))
      /\ \A t, a, b : NeverFails(a) /\ NeverFails(b) => NeverFails(If(t, a, b))
  BY DEF If, Restores, NeverFails
<1>5. \A e : Parses(e) => NeverFails(Opt(e))
  BY <1>1, <1>3 DEF Opt
<1>6. \A e : Restores(Try(e)) /\ NeverFails(Many(e))
  BY DEF Try, Many, Restores, NeverFails, Ok, Failed, Hang, Result
<1>7. \A e : Restores(Not(e)) /\ Stays(Not(e))
  BY <1>1 DEF Not, If, Restores, Stays, NeverFails
<1>8. /\ \A e : Restores(e) => Restores(Drop(e)) /\ Restores(Hold(e))
      /\ \A kind, e : Restores(e) => Restores(Node(kind, e))
      /\ \A kind, e : NeverFails(e) => NeverFails(Node(kind, e))
  BY DEF Drop, Hold, Node, Restores, NeverFails, Ok, Result
<1>9. \A h, t : Restores(h) => Restores(Grow(h, t))
  BY DEF Grow, Restores, Ok, Hang, Result
<1>10. ASSUME NEW h, NEW t, Parses(h), Restores(h), NeverFails(t) PROVE Restores(Grow1(h, t))
  <2>1. \A p \in Positions : h[p].p \in Positions
    BY <1>10, Bounds DEF Parses
  <2> QED
    BY <1>10, <2>1 DEF Grow1, Restores, NeverFails, Ok, Result
<1> QED
  BY <1>1, <1>2, <1>3, <1>4, <1>5, <1>6, <1>7, <1>8, <1>9, <1>10

\* A function that starts with what was looked ahead for.
LEMMA GuardedRules ==
  ASSUME IsText
  PROVE  /\ \A t : Guarded(t, t)
         /\ \A a, b, t : Parses(a) /\ Guarded(a, t) /\ NeverFails(b) => Guarded(a && b, t)
         /\ \A a, b, t : NeverFails(a) /\ Stays(a) /\ Guarded(b, t) => Guarded(a && b, t)
         /\ \A a, b, t : Parses(a) /\ Restores(a) /\ Guarded(b, t) => Guarded(a || b, t)
         /\ \A kind, a, t : Guarded(a, t) => Guarded(Node(kind, a), t)
         /\ \A h, tail, t : Guarded(h, t) => Guarded(Grow(h, tail), t)
         /\ \A kind, a, b : Parses(a) => Guarded(Node(kind, a) && Drop(b), a && b)
         /\ \A t, a, b : Parses(t) /\ Parses(a) /\ NeverFails(a) /\ NeverFails(b) =>
              Guarded(t && a && b, t)
         /\ \A t, a, b : Guarded(a, t) /\ NeverFails(b) => NeverFails(If(t, a, b))
         /\ \A t, a, b : Guarded(a, t) /\ Restores(b) => Restores(If(t, a, b))
<1>1. \A t : Guarded(t, t)
  BY DEF Guarded
<1>2. ASSUME NEW a, NEW b, NEW t, Parses(a), Guarded(a, t), NeverFails(b)
      PROVE  Guarded(a && b, t)
  <2>1. \A p \in Positions : a[p].p \in Positions
    BY <1>2, Bounds DEF Parses
  <2> QED
    BY <1>2, <2>1, Sequence DEF Guarded, NeverFails
<1>3. ASSUME NEW a, NEW b, NEW t, NeverFails(a), Stays(a), Guarded(b, t)
      PROVE  Guarded(a && b, t)
  BY <1>3, Sequence DEF Guarded, NeverFails, Stays
<1>4. ASSUME NEW a, NEW b, NEW t, Parses(a), Restores(a), Guarded(b, t)
      PROVE  Guarded(a || b, t)
  BY <1>4 DEF ||, Guarded, Restores
<1>5. \A kind, a, t : Guarded(a, t) => Guarded(Node(kind, a), t)
  BY DEF Node, Guarded, Ok, Result
<1>6. \A h, tail, t : Guarded(h, t) => Guarded(Grow(h, tail), t)
  BY DEF Grow, Guarded, Ok, Hang, Result
<1>7. ASSUME NEW kind, NEW a, NEW b, Parses(a)
      PROVE  Guarded(Node(kind, a) && Drop(b), a && b)
  <2> SUFFICES ASSUME NEW p \in Positions, (a && b)[p].st = "ok"
               PROVE  (Node(kind, a) && Drop(b))[p].st # "fail"
    BY DEF Guarded
  <2>1. a[p].st = "ok" /\ b[a[p].p].st = "ok"
    BY Sequence
  <2>2. Node(kind, a)[p].st = "ok" /\ Node(kind, a)[p].p = a[p].p
    BY <2>1 DEF Node, Ok, Result
  <2>3. (Node(kind, a) && Drop(b))[p].st \in {"ok", Drop(b)[a[p].p].st}
    BY <2>2, Sequence
  <2>4. a[p].p \in Positions => Drop(b)[a[p].p].st = "ok"
    BY <2>1 DEF Drop, Ok, Result
  <2> QED
    BY <2>3, <2>4, <1>7, Bounds DEF Parses
<1>8. \A t, a, b : Guarded(a, t) /\ NeverFails(b) => NeverFails(If(t, a, b))
  BY DEF If, Guarded, NeverFails
<1>9. \A t, a, b : Guarded(a, t) /\ Restores(b) => Restores(If(t, a, b))
  BY DEF If, Guarded, Restores
<1>10. ASSUME NEW t, NEW a, NEW b, Parses(t), Parses(a), NeverFails(a), NeverFails(b)
       PROVE  Guarded(t && a && b, t)
  <2>1. Guarded(t && a, t)
    BY <1>1, <1>2, <1>10
  <2>2. Parses(t && a)
    BY <1>10, CombinatorParses
  <2> QED
    BY <1>2, <1>10, <2>1, <2>2
<1> QED
  BY <1>1, <1>2, <1>3, <1>4, <1>5, <1>6, <1>7, <1>8, <1>9, <1>10

\* A loop that is left where an error would be.
LEMMA UntilNeverFails ==
  ASSUME IsText, NEW stop, NEW e, Parses(e),
         \A p \in Positions : e[p].st = "fail" => stop[p].st = "ok"
  PROVE  NeverFails(Until(stop, e))
<1> DEFINE R == Rounds(stop, e)
           N == {p \in Positions : R[p].st = "fail"}
<1>1. N = {}
  <2> SUFFICES ASSUME N # {} PROVE FALSE
    OBVIOUS
  <2>1. PICK p \in N : \A q \in N : q <= p
    <3>1. N \subseteq Positions
      OBVIOUS
    <3> HIDE DEF N
    <3> QED
      BY <3>1, LastPosition
  <2>2. p \in Positions /\ R[p].st = "fail" /\ R[p] = RoundsAt(stop, e, R, p)
    BY <2>1, RoundsEquation
  <2>3. e[p].p # p /\ R[e[p].p].st = "fail"
    <3> HIDE DEF R
    <3> QED
      BY <2>2 DEF RoundsAt, Ok, Failed, Hang, Result
  <2>4. e[p].p \in Positions /\ e[p].p > p
    BY <2>2, <2>3, Bounds DEF Parses
  <2>5. e[p].p \in N
    BY <2>3, <2>4
  <2> QED
    BY <2>1, <2>2, <2>4, <2>5, Bounds
<1>2. \A p \in Positions : R[p].st # "fail"
  BY <1>1
<1> HIDE DEF R, N
<1> QED
  BY <1>2 DEF Until, NeverFails, R, Ok, Result

-----------------------------------------------------------------------------
(* Restores: the functions of the grammar.                                 *)

LEMMA SmallRestores ==
  ASSUME IsText
  PROVE  /\ Restores(Name) /\ Restores(RawName) /\ Restores(Integer) /\ Restores(Float)
         /\ Restores(String) /\ Restores(Char) /\ NeverFails(Comma) /\ NeverFails(Semicolons)
         /\ NeverFails(CommaOrSemicolon) /\ \A a : Restores(Only(a))
         /\ \A close, e : NeverFails(List(close, e))
         /\ \A e : Parses(e) => NeverFails(Bracketed(e))
         /\ \A kind, e : Restores(e) => Restores(Placeholder(kind, e))
<1> USE TokenRestores, CombinatorRestores, TokenParses, ClassParses, CombinatorParses
<1>1. /\ Restores(Name) /\ Restores(RawName) /\ Restores(Integer) /\ Restores(Float)
      /\ Restores(String) /\ Restores(Char)
  BY DEF Name, RawName, Integer, Float, String, Char
<1>2. NeverFails(Comma) /\ NeverFails(Semicolons) /\ NeverFails(CommaOrSemicolon)
  BY DEF Comma, Semicolons, CommaOrSemicolon, EOF
<1>3. /\ \A a : Restores(Only(a))
      /\ \A close, e : NeverFails(List(close, e))
  BY DEF Only, List
<1>4. ASSUME NEW e, Parses(e) PROVE NeverFails(Bracketed(e))
  <2>1. Parses(List(")", e)) /\ Parses(T("(")) /\ NeverFails(Opt(T(")")))
    BY <1>4, SmallParses DEF EOF
  <2>2. Guarded(T("(") && List(")", e) && Opt(T(")")), T("("))
    BY <1>3, <2>1, GuardedRules
  <2> QED
    BY <2>2, GuardedRules DEF Bracketed
<1>5. \A kind, e : Restores(e) => Restores(Placeholder(kind, e))
  BY DEF Placeholder
<1> QED
  BY <1>1, <1>2, <1>3, <1>4, <1>5

\* All but three of the functions restore the cursor when they fail.
NotRestoring == {"preprocessor", "statement", "item"}
AllRestore(g) ==
  /\ \A f \in Functions_ \ NotRestoring : Restores(g[f])
  /\ NeverFails(g["attributes"]) /\ NeverFails(g["body"]) /\ NeverFails(g["bitfield_body"])
  /\ NeverFails(g["ifdef_rest"])

LEMMA ExprRestores ==
  ASSUME IsText, NEW g, AllParse(g), AllRestore(g)
  PROVE  Restores(Type(g)) /\ Restores(Ternary(g)) /\ Restores(Unary(g)) /\ Restores(Primary(g))
<1> USE TokenRestores, CombinatorRestores, SmallRestores,
        TokenParses, ClassParses, CombinatorParses, SmallParses
<1>1. /\ Parses(g["expr"]) /\ Parses(g["type"])
      /\ Restores(g["unary"]) /\ Restores(g["expr"]) /\ Restores(g["type"]) /\ Restores(g["primary"])
  BY DEF AllParse, AllRestore, Functions_, NotRestoring
<1>2. Restores(Type(g))
  BY DEF Type, NamedType
<1>3. Restores(Ternary(g))
  BY DEF Ternary
<1>4. Guarded(CallArgs(g), T("("))
  <2> DEFINE args == Node("args", Not(T(")")) && g["expr"] && Many(T(",") && g["expr"]))
  <2>1. Parses(args) /\ Parses(T("(")) /\ NeverFails(Opt(T(")")))
    BY <1>1 DEF EOF
  <2>2. CallArgs(g) = T("(") && Opt(args) && Opt(T(")"))
    BY DEF CallArgs
  <2> HIDE DEF args
  <2>3. Parses(Opt(args)) /\ NeverFails(Opt(args))
    BY <2>1
  <2> QED
    BY <2>1, <2>2, <2>3, GuardedRules
<1>5. \A name : Restores(name) /\ Parses(name) => Restores(NameExpr(g, name, Member(g)))
  <2>1. Guarded(Give("FnCall") && CallArgs(g), T("("))
    BY <1>4, GuardedRules
  <2>2. NeverFails(If(T("("), Give("FnCall") && CallArgs(g), Empty))
    BY <2>1, GuardedRules
  <2> QED
    BY <2>2 DEF NameExpr, EOF
<1>6. Restores(ArrayInit(g)) /\ Restores(Paren(g))
  BY <1>1 DEF ArrayInit, Paren, EOF
<1>7. /\ \A kind : Restores(Operation(g, kind))
      /\ \A name, operation :
           Restores(name) /\ Restores(operation) => Restores(OrName(name, operation))
  BY DEF Operation, OrName
<1>8. Restores(EndianCast(g, Member(g)))
  <2> DEFINE Typed == Name && g["type"]
             Cast == Try(Node("CastExpr", Node("EndianType", Typed) && T("(") && g["expr"]
                                          && Opt(T(")"))))
             Passed == Node("Ident", Name) && Drop(g["type"]) && Opt(T("("))
  <2>1. Guarded(Node("Ident", Name) && Drop(g["type"]), Typed)
    BY GuardedRules
  <2>2. Guarded(Passed, Typed)
    <3>1. Parses(Node("Ident", Name) && Drop(g["type"])) /\ NeverFails(Opt(T("(")))
      BY <1>1 DEF EOF
    <3> HIDE DEF Typed
    <3> QED
      BY <2>1, <3>1, GuardedRules
  <2>3. Parses(Cast)
    BY <1>1 DEF EOF
  <2>4. Guarded(Cast || Passed, Typed)
    <3> HIDE DEF Passed, Typed
    <3> QED
      BY <2>2, <2>3, GuardedRules
  <2>5. Guarded(Grow(Cast || Passed, Member(g)), Typed)
    <3> HIDE DEF Cast, Passed, Typed
    <3> QED
      BY <2>4, GuardedRules
  <2>6. Restores(NameExpr(g, Hold(Name), Member(g)))
    BY <1>5
  <2>7. EndianCast(g, Member(g))
          = If(Typed, Grow(Cast || Passed, Member(g)), NameExpr(g, Hold(Name), Member(g)))
    BY DEF EndianCast
  <2> HIDE DEF Cast, Passed, Typed
  <2> QED
    BY <2>5, <2>6, <2>7, GuardedRules
<1>9. \A w, name : Restores(name) => Restores(PrimaryAt(g, w, name, Member(g)))
  BY <1>6, <1>7, <1>8 DEF PrimaryAt
<1>10. Restores(Primary(g))
  <2>1. \A w : Restores(PrimaryAt(g, w, NameExpr(g, Name, Member(g)), Member(g)))
    BY <1>5, <1>9
  <2> QED
    BY ONLY <2>1 DEF Primary, Restores
<1>11. Restores(Negative(g))
  BY DEF Negative, EOF
<1>12. Parses(Negative(g))
  BY <1>1, ExprParses
<1>13. Restores(Unary(g))
  BY <1>1, <1>11, <1>12 DEF Unary
<1> QED
  BY <1>2, <1>3, <1>10, <1>13

LEMMA DefinitionRestores ==
  ASSUME IsText, NEW g, AllParse(g), AllRestore(g)
  PROVE  /\ Restores(Struct(g)) /\ Restores(Union(g)) /\ Restores(Enum(g)) /\ Restores(Bitfield(g))
         /\ Restores(Using(g)) /\ Restores(Fn(g)) /\ Restores(Namespace(g))
         /\ NeverFails(BitfieldBody(g)) /\ NeverFails(IfDefRest(g)) /\ NeverFails(AttrsEnd(g))
         /\ \A body : Restores(MatchWith(g, body))
<1> USE TokenRestores, CombinatorRestores, SmallRestores
<1>1. /\ Restores(Struct(g)) /\ Restores(Union(g)) /\ Restores(Enum(g)) /\ Restores(Bitfield(g))
      /\ Restores(Using(g)) /\ Restores(Fn(g)) /\ Restores(Namespace(g))
      /\ \A body : Restores(MatchWith(g, body))
  BY DEF Struct, Union, Enum, Bitfield, Using, Fn, Namespace, MatchWith
<1>2. NeverFails(BitfieldBody(g))
  BY DEF BitfieldBody
<1>3. NeverFails(AttrsEnd(g))
  <2>1. Parses(g["attributes"]) /\ NeverFails(g["attributes"])
    BY DEF AllParse, AllRestore, Functions_
  <2> QED
    BY <2>1 DEF AttrsEnd
<1>4. NeverFails(IfDefRest(g))
  <2> DEFINE e == (IfDefs && g["ifdef_rest"]) || AnyAtom
  <2>1. Restores(IfDefs && g["ifdef_rest"])
    BY PartParses DEF IfDefs, Hash, AllRestore
  <2>2. Parses(IfDefs && g["ifdef_rest"]) /\ Parses(IfDefEnd) /\ Parses(e)
    BY PartParses, CombinatorParses, ClassParses DEF AllParse, Functions_
  <2>3. ASSUME NEW p \in Positions, e[p].st = "fail" PROVE IfDefEnd[p].st = "ok"
    <3> DEFINE r == (IfDefs && g["ifdef_rest"])[p]
    <3>1. AnyAtom[p].st = "fail"
      BY ONLY <2>1, <2>3 DEF ||, Restores
    <3>2. At(p) = EOF
      BY ONLY <3>1, p \in Positions DEF AnyAtom, Ok, Result
    <3>3. Stop({})[p].st = "ok"
      BY ONLY <3>2, p \in Positions DEF Stop, Ok, Result
    <3> QED
      BY ONLY <3>3, p \in Positions DEF IfDefEnd, ||
  <2>4. IfDefRest(g) = Until(IfDefEnd, e)
    BY ONLY DEF IfDefRest
  <2> HIDE DEF e
  <2> QED
    BY ONLY IsText, <2>2, <2>3, <2>4, UntilNeverFails
<1> QED
  BY <1>1, <1>2, <1>3, <1>4

LEMMA StatementRestores ==
  ASSUME IsText, NEW g, AllParse(g), AllRestore(g)
  PROVE  /\ NeverFails(Body(g)) /\ Restores(IfStmt(g)) /\ Restores(WhileStmt(g))
         /\ Restores(ForStmt(g)) /\ Restores(MatchStmt(g)) /\ Restores(ReturnStmt(g))
         /\ Restores(Padding(g)) /\ Restores(TryCatch(g)) /\ Restores(VarDeclOrExpr(g))
         /\ \A w : w # "const" =>
              Restores(StatementAt(g, w, ExprStmt(g), VarDecl(g) || ExprStmt(g)))
<1> USE TokenRestores, CombinatorRestores, SmallRestores,
        TokenParses, ClassParses, CombinatorParses, SmallParses
<1>1. /\ Parses(g["expr"]) /\ Restores(g["expr"]) /\ Parses(g["body"]) /\ NeverFails(g["body"])
      /\ Parses(g["statement"])
  BY DEF AllParse, AllRestore, Functions_, NotRestoring
<1>2. /\ NeverFails(Body(g)) /\ Restores(IfStmt(g)) /\ Restores(WhileStmt(g))
      /\ Restores(ForStmt(g)) /\ Restores(Padding(g)) /\ Restores(VarDecl(g))
      /\ Restores(DollarAssign(g))
  BY DEF Body, IfStmt, WhileStmt, ForStmt, Padding, VarDecl, Declared, DollarAssign
<1>3. Restores(MatchStmt(g))
  BY DefinitionRestores DEF MatchStmt
<1>4. Restores(ReturnStmt(g))
  BY <1>1 DEF ReturnStmt, EOF
<1>5. NeverFails(Block(g)) /\ Parses(Block(g))
  <2>1. Guarded(T("{") && g["body"] && Opt(T("}")), T("{"))
    BY <1>1, GuardedRules DEF EOF
  <2>2. NeverFails(Block(g))
    BY <1>1, <2>1, GuardedRules DEF Block
  <2> QED
    BY <1>1, <2>2 DEF Block, EOF
<1>6. Restores(TryCatch(g))
  BY <1>5 DEF TryCatch, EOF
<1>7. Parses(VarDecl(g)) /\ Parses(StatementAssign(g))
  BY StatementParses
<1>8. Restores(VarDeclOrExpr(g))
  BY <1>2, <1>7 DEF VarDeclOrExpr
<1>9. Restores(ExprStmt(g))
  BY <1>1, <1>7 DEF ExprStmt, Stated
<1>10. \A definition, plain :
         Parses(definition) /\ Restores(plain) => Restores(Inner(definition, plain))
  BY DEF Inner
<1>11. \A kind, word : word # EOF => Restores(Simple(kind, word))
  BY DEF Simple
<1>12. Parses(DollarAssign(g))
  BY StatementParses
<1>13. ASSUME NEW w, w # "const", NEW expr, NEW plain, Restores(expr), Restores(plain)
       PROVE  Restores(StatementAt(g, w, expr, plain))
  BY <1>2, <1>10, <1>11, <1>12, <1>13
  DEF StatementAt, AllParse, AllRestore, Functions_, NotRestoring, EOF
<1>14. Restores(VarDecl(g) || ExprStmt(g))
  BY <1>2, <1>7, <1>9
<1> QED
  BY <1>2, <1>3, <1>4, <1>6, <1>8, <1>9, <1>13, <1>14

LEMMA ItemRestores ==
  ASSUME IsText, NEW g, AllParse(g), AllRestore(g)
  PROVE  /\ Restores(Import)
         /\ \A w : w \notin {"const", "#"} => Restores(ItemAt(g, w, VarDeclOrExpr(g)))
<1>1. Restores(Import)
  BY CombinatorRestores DEF Import
<1>2. Restores(VarDeclOrExpr(g))
  BY StatementRestores
<1>3. ASSUME NEW w, w \notin {"const", "#"} PROVE Restores(ItemAt(g, w, VarDeclOrExpr(g)))
  BY <1>2, <1>3, CombinatorRestores DEF ItemAt, AllRestore, Functions_, NotRestoring
<1> QED
  BY <1>1, <1>3

LEMMA GrammarRestores ==
  ASSUME IsText, NEW g, AllParse(g), AllRestore(g)
  PROVE  AllRestore(Grammar(g))
<1>1. Restores(Body(g)) /\ Restores(BitfieldBody(g)) /\ Restores(IfDefRest(g))
  BY DefinitionRestores, StatementRestores, CombinatorRestores
<1>2. NeverFails(Attributes(g)) /\ Restores(Attributes(g))
  BY CombinatorRestores DEF Attributes
<1> QED
  BY <1>1, <1>2, ExprRestores, DefinitionRestores, StatementRestores, ItemRestores
  DEF AllRestore, Grammar, Functions_, NotRestoring

LEMMA NestedRestores ==
  ASSUME IsText
  PROVE  \A n \in 0 .. Depth : AllRestore(Nested[n])
<1> DEFINE N == {n \in 0 .. Depth : ~ AllRestore(Nested[n])}
<1>1. SUFFICES ASSUME N # {} PROVE FALSE
  OBVIOUS
<1>2. PICK x \in N : \A y \in N : x <= y
  <2>1. N \subseteq Nat
    OBVIOUS
  <2> HIDE DEF N
  <2> QED
    BY <1>1, <2>1, LeastNumber
<1>3. CASE x = 0
  <2>1. Nested[x] = TooDeep
    BY <1>2, <1>3, NestedEquation
  <2>2. AllRestore(TooDeep)
    BY DEF AllRestore, TooDeep, Restores, NeverFails, Hang, Result, Functions_
  <2> QED
    BY <1>2, <2>1, <2>2
<1>4. CASE x # 0
  <2>1. x - 1 \in 0 .. Depth /\ AllRestore(Nested[x - 1])
    BY <1>2, <1>4, DepthAssumption
  <2>2. Nested[x] = Grammar(Nested[x - 1])
    BY <1>2, <1>4, NestedEquation
  <2>3. AllRestore(Nested[x])
    BY <2>1, <2>2, NestedParses, GrammarRestores
  <2> QED
    BY <1>2, <2>3
<1> QED
  BY <1>3, <1>4

\* The three that may fail with the cursor moved do so at const or a directive only.
LEMMA ParserRestores ==
  ASSUME IsText, NEW f \in Functions_ \ {"preprocessor"}, NEW p \in Positions,
         Parser[f][p].st = "fail", At(p) # "const", f = "item" => At(p) # "#"
  PROVE  Parser[f][p].p = p
<1>1. Depth \in 0 .. Depth /\ Parser = Nested[Depth]
  BY DepthAssumption DEF Parser
<1>2. CASE f \notin NotRestoring
  BY <1>1, <1>2, NestedRestores DEF AllRestore, Restores
<1>3. CASE f \in NotRestoring
  <2> DEFINE g == Nested[Depth - 1]
  <2>1. Depth # 0
    <3>1. ASSUME Depth = 0 PROVE FALSE
      <4>1. Parser = TooDeep
        BY <1>1, <3>1, NestedEquation
      <4>2. Parser[f][p].st = "hang"
        BY <4>1 DEF TooDeep, Hang, Result
      <4> QED
        BY <4>2
    <3> QED
      BY <3>1
  <2>2. AllParse(g) /\ AllRestore(g) /\ Parser = Grammar(g)
    <3>1. Depth - 1 \in 0 .. Depth
      BY <2>1, DepthAssumption
    <3> QED
      BY <1>1, <2>1, <3>1, NestedParses, NestedRestores, NestedEquation
  <2> HIDE DEF g
  <2>3. CASE f = "statement"
    <3>1. Parser[f] = Statement(g)
      BY <2>2, <2>3 DEF Grammar, Functions_
    <3> DEFINE S == StatementAt(g, At(p), ExprStmt(g), VarDecl(g) || ExprStmt(g))
    <3>2. Statement(g)[p] = S[p]
      BY DEF Statement
    <3>3. Restores(S)
      BY <2>2, StatementRestores
    <3> HIDE DEF S
    <3> QED
      BY <3>1, <3>2, <3>3 DEF Restores
  <2>4. CASE f = "item"
    <3>1. Parser[f] = Item(g)
      BY <2>2, <2>4 DEF Grammar, Functions_
    <3>2. Item(g)[p] = ItemAt(g, At(p), VarDeclOrExpr(g))[p]
      BY DEF Item
    <3>3. Restores(ItemAt(g, At(p), VarDeclOrExpr(g)))
      BY <2>2, <2>4, ItemRestores
    <3> QED
      BY <3>1, <3>2, <3>3 DEF Restores
  <2> QED
    BY <1>3, <2>3, <2>4 DEF NotRestoring
<1> QED
  BY <1>2, <1>3

\* In every text, a function of the parser that fails leaves the cursor where it was
\* called, but at const and at a directive.
THEOREM FailureRestoresAlways == Spec => []FailureRestores
<1>1. TypeOK => FailureRestores
  BY ParserRestores DEF TypeOK, IsText, FailureRestores, GivesBack
<1> QED
  BY <1>1, ParserTypeCorrect, PTL

-----------------------------------------------------------------------------
(* Consumes: every round of a loop gets further.                           *)

Consumes(f) == \A p \in Positions : f[p].st = "ok" => f[p].p # p

LEMMA LitConsumes ==
  ASSUME IsText, NEW atoms, Len(atoms) \in Nat \ {0}, \A i \in 1 .. Len(atoms) : atoms[i] # EOF
  PROVE  Consumes(Raw(atoms)) /\ \A except : Consumes(LitX(atoms, except))
<1>1. ASSUME NEW p \in Positions, NEW except, Matches(atoms, except, p)
      PROVE  p + Len(atoms) # p /\ Skip(p + Len(atoms)) # p
  <2>1. p + Len(atoms) \in p .. Len(text) + 1
    BY <1>1, Matching
  <2>2. p \in Nat /\ p + Len(atoms) \in Positions /\ p + Len(atoms) > p
    BY <2>1, Bounds
  <2>3. Skip(p + Len(atoms)) \in p + Len(atoms) .. Len(text) + 1
    BY <2>2, SkipStops
  <2> QED
    BY <2>2, <2>3, Bounds
<1>2. Consumes(Raw(atoms))
  BY <1>1 DEF Consumes, Raw, Ok, Failed, Result
<1>3. ASSUME NEW except PROVE Consumes(LitX(atoms, except))
  BY <1>1 DEF Consumes, LitX, Ok, Failed, Result
<1> QED
  BY <1>2, <1>3

LEMMA TokenConsumes ==
  ASSUME IsText
  PROVE  /\ \A a : a # EOF => /\ Consumes(T(a)) /\ Consumes(Raw(<<a>>)) /\ Consumes(Lit(<<a>>))
                              /\ \A x : Consumes(LitX(<<a>>, x))
         /\ \A a, b : a # EOF /\ b # EOF =>
              /\ Consumes(Lit(<<a, b>>)) /\ Consumes(Raw(<<a, b>>))
              /\ \A x : Consumes(LitX(<<a, b>>, x))
         /\ \A a, b, c : a # EOF /\ b # EOF /\ c # EOF => Consumes(Lit(<<a, b, c>>))
         /\ \A S : EOF \notin S => Consumes(Class(S)) /\ Consumes(RawClass(S))
         /\ Consumes(AnyAtom)
<1>1. ASSUME NEW a, a # EOF
      PROVE  Len(<<a>>) \in Nat \ {0} /\ \A i \in 1 .. Len(<<a>>) : <<a>>[i] # EOF
  BY <1>1
<1>2. ASSUME NEW a, NEW b, a # EOF, b # EOF
      PROVE  Len(<<a, b>>) \in Nat \ {0} /\ \A i \in 1 .. Len(<<a, b>>) : <<a, b>>[i] # EOF
  BY <1>2
<1>3. ASSUME NEW a, NEW b, NEW c, a # EOF, b # EOF, c # EOF
      PROVE  Len(<<a, b, c>>) \in Nat \ {0} /\ \A i \in 1 .. Len(<<a, b, c>>) : <<a, b, c>>[i] # EOF
  BY <1>3
<1>4. ASSUME NEW p \in Positions, At(p) # EOF PROVE p + 1 # p /\ Skip(p + 1) # p
  BY <1>4, Advance, Bounds
<1>5. ASSUME NEW S, EOF \notin S PROVE Consumes(Class(S)) /\ Consumes(RawClass(S))
  BY <1>4, <1>5 DEF Consumes, Class, RawClass, Ok, Failed, Result
<1>6. Consumes(AnyAtom)
  BY <1>4 DEF Consumes, AnyAtom, Ok, Failed, Result
<1> QED
  BY <1>1, <1>2, <1>3, <1>5, <1>6, LitConsumes DEF T, Lit

LEMMA CombinatorConsumes ==
  ASSUME IsText
  PROVE  /\ Consumes(Fail)
         /\ \A a, b : Parses(a) /\ Parses(b) /\ Consumes(a) => Consumes(a && b)
         /\ \A a, b : Parses(a) /\ Parses(b) /\ Consumes(b) => Consumes(a && b)
         /\ \A a, b : Parses(a) /\ Parses(b) /\ Consumes(a) /\ Consumes(b) => Consumes(a || b)
         /\ \A t, a, b : Consumes(a) /\ Consumes(b) => Consumes(If(t, a, b))
         /\ \A e : Consumes(e) => Consumes(Try(e)) /\ Consumes(Drop(e))
         /\ \A kind, e : Consumes(e) => Consumes(Node(kind, e))
         /\ \A h, t : Parses(h) /\ Parses(t) /\ Consumes(h) =>
              Consumes(Grow(h, t)) /\ Consumes(Grow1(h, t))
<1>1. Consumes(Fail)
  BY DEF Consumes, Fail, Failed, Result
<1>2. ASSUME NEW a, NEW b, Parses(a), Parses(b), Consumes(a) \/ Consumes(b)
      PROVE  Consumes(a && b)
  <2> SUFFICES ASSUME NEW p \in Positions, (a && b)[p].st = "ok" PROVE (a && b)[p].p # p
    BY DEF Consumes
  <2> DEFINE q == a[p].p
  <2>1. a[p].st = "ok" /\ b[q].st = "ok" /\ (a && b)[p].p = b[q].p
    BY Sequence
  <2>2. q \in Positions /\ q >= p /\ b[q].p >= q /\ p \in Nat /\ q \in Nat /\ b[q].p \in Nat
    BY <1>2, Bounds DEF Parses
  <2>3. q # p \/ b[q].p # q
    BY <1>2, <2>1, <2>2 DEF Consumes
  <2> QED
    BY <2>1, <2>2, <2>3
<1>3. ASSUME NEW a, NEW b, Parses(a), Parses(b), Consumes(a), Consumes(b)
      PROVE  Consumes(a || b)
  <2> SUFFICES ASSUME NEW p \in Positions, (a || b)[p].st = "ok" PROVE (a || b)[p].p # p
    BY DEF Consumes
  <2> DEFINE q == a[p].p
  <2>1. (a || b)[p] = IF a[p].st = "fail" THEN b[q] ELSE a[p]
    BY DEF ||
  <2>2. q \in Positions /\ q >= p /\ b[q].p >= q /\ p \in Nat /\ q \in Nat /\ b[q].p \in Nat
    BY <1>3, Bounds DEF Parses
  <2>3. b[q].st = "ok" => b[q].p # q
    BY <1>3, <2>2 DEF Consumes
  <2> QED
    BY <1>3, <2>1, <2>2, <2>3 DEF Consumes
<1>4. /\ \A t, a, b : Consumes(a) /\ Consumes(b) => Consumes(If(t, a, b))
      /\ \A e : Consumes(e) => Consumes(Try(e)) /\ Consumes(Drop(e))
      /\ \A kind, e : Consumes(e) => Consumes(Node(kind, e))
  BY DEF Consumes, If, Try, Drop, Node, Ok, Failed, Result
<1>5. ASSUME NEW h, NEW t, Parses(h), Parses(t), Consumes(h)
      PROVE  Consumes(Grow(h, t)) /\ Consumes(Grow1(h, t))
  <2>1. Parses(Rounds(Fail, t))
    BY <1>5, RoundsParse, CombinatorParses
  <2>2. ASSUME NEW p \in Positions, h[p].st = "ok"
        PROVE  h[p].p \in Positions /\ h[p].p > p /\ p \in Nat
    BY <1>5, <2>2, Bounds DEF Consumes, Parses
  <2>3. Consumes(Grow(h, t))
    <3> SUFFICES ASSUME NEW p \in Positions, Grow(h, t)[p].st = "ok" PROVE Grow(h, t)[p].p # p
      BY DEF Consumes
    <3>1. h[p].st = "ok" /\ Grow(h, t)[p].p = Rounds(Fail, t)[h[p].p].p
      BY DEF Grow, Ok, Hang, Result
    <3>2. Rounds(Fail, t)[h[p].p].p >= h[p].p
      BY <2>1, <2>2, <3>1, Bounds DEF Parses
    <3>3. Rounds(Fail, t)[h[p].p].p \in Nat /\ h[p].p \in Nat
      BY <2>1, <2>2, <3>1, Bounds DEF Parses
    <3> QED
      BY <2>2, <3>1, <3>2, <3>3
  <2>4. Consumes(Grow1(h, t))
    <3> SUFFICES ASSUME NEW p \in Positions, Grow1(h, t)[p].st = "ok" PROVE Grow1(h, t)[p].p # p
      BY DEF Consumes
    <3>1. h[p].st = "ok" /\ Grow1(h, t)[p].p = t[h[p].p].p
      BY DEF Grow1, Ok, Result
    <3>2. t[h[p].p].p >= h[p].p
      BY <1>5, <2>2, <3>1, Bounds DEF Parses
    <3>3. t[h[p].p].p \in Nat /\ h[p].p \in Nat
      BY <1>5, <2>2, <3>1, Bounds DEF Parses
    <3> QED
      BY <2>2, <3>1, <3>2, <3>3
  <2> QED
    BY <2>3, <2>4
<1> QED
  BY <1>1, <1>2, <1>3, <1>4, <1>5

-----------------------------------------------------------------------------
(* How many brackets are left to close.                                    *)

LEMMA CountStep ==
  ASSUME IsText, NEW a, NEW p \in Positions
  PROVE  /\ Count(a, p) \in Nat
         /\ p = Len(text) + 1 => Count(a, p) = 0
         /\ p # Len(text) + 1 =>
              Count(a, p) = Count(a, p + 1) + (IF text[p] = a THEN 1 ELSE 0)
<1> DEFINE S(k) == {i \in k .. Len(text) : text[i] = a}
<1>1. \A k \in Nat : IsFiniteSet(S(k)) /\ Cardinality(S(k)) \in Nat
  <2> TAKE k \in Nat
  <2>1. IsFiniteSet(k .. Len(text))
    BY FS_Interval, Bounds
  <2>2. IsFiniteSet(S(k))
    BY <2>1, FS_Subset
  <2> QED
    BY <2>2, FS_CardinalityType
<1>2. \A k : Count(a, k) = Cardinality(S(k))
  BY DEF Count
<1>3. p \in Nat /\ p + 1 \in Nat /\ Len(text) \in Nat /\ p <= Len(text) + 1
  BY Bounds
<1>4. ASSUME p = Len(text) + 1 PROVE Count(a, p) = 0
  <2>1. S(p) = {}
    BY <1>3, <1>4
  <2> QED
    BY <1>2, <2>1, FS_EmptySet
<1>5. ASSUME p # Len(text) + 1
      PROVE  Count(a, p) = Count(a, p + 1) + (IF text[p] = a THEN 1 ELSE 0)
  <2>1. CASE text[p] = a
    <3>1. S(p) = S(p + 1) \cup {p} /\ p \notin S(p + 1)
      BY <1>3, <1>5, <2>1
    <3>2. Cardinality(S(p)) = Cardinality(S(p + 1)) + 1
      <4> HIDE DEF S
      <4> QED
        BY <3>1, <1>1, <1>3, FS_AddElement
    <3> QED
      BY <1>2, <2>1, <3>2
  <2>2. CASE text[p] # a
    <3>1. S(p) = S(p + 1)
      BY <1>3, <1>5, <2>2
    <3>2. Cardinality(S(p + 1)) \in Nat
      BY <1>1, <1>3
    <3> QED
      BY <1>2, <2>2, <3>1, <3>2
  <2> QED
    BY <2>1, <2>2
<1> QED
  BY <1>1, <1>2, <1>3, <1>4, <1>5

Open(p) == Count("<", p) - Count(">", p)

LEMMA OpenStep ==
  ASSUME IsText, NEW p \in Positions
  PROVE  /\ Open(p) \in Int
         /\ p = Len(text) + 1 => Open(p) = 0
         /\ p # Len(text) + 1 =>
              /\ At(p) = "<" => Open(p + 1) = Open(p) - 1
              /\ At(p) = ">" => Open(p + 1) = Open(p) + 1
              /\ At(p) \notin {"<", ">"} => Open(p + 1) = Open(p)
<1>1. Count("<", p) \in Nat /\ Count(">", p) \in Nat
  BY CountStep
<1>2. p = Len(text) + 1 => Open(p) = 0
  BY CountStep DEF Open
<1>3. ASSUME p # Len(text) + 1
      PROVE  /\ At(p) = "<" => Open(p + 1) = Open(p) - 1
             /\ At(p) = ">" => Open(p + 1) = Open(p) + 1
             /\ At(p) \notin {"<", ">"} => Open(p + 1) = Open(p)
  <2>1. /\ Count("<", p) = Count("<", p + 1) + (IF text[p] = "<" THEN 1 ELSE 0)
        /\ Count(">", p) = Count(">", p + 1) + (IF text[p] = ">" THEN 1 ELSE 0)
    BY <1>3, CountStep
  <2>2. p \in 1 .. Len(text) /\ p + 1 \in Positions
    BY <1>3, Bounds
  <2>3. Count("<", p + 1) \in Nat /\ Count(">", p + 1) \in Nat
    BY <2>2, CountStep
  <2>4. At(p) = text[p]
    BY <2>2, Bounds
  <2>5. CASE At(p) = "<"
    BY <1>1, <2>1, <2>3, <2>4, <2>5 DEF Open
  <2>6. CASE At(p) = ">"
    BY <1>1, <2>1, <2>3, <2>4, <2>6 DEF Open
  <2>7. CASE At(p) \notin {"<", ">"}
    BY <1>1, <2>1, <2>3, <2>4, <2>7 DEF Open
  <2> QED
    BY <2>5, <2>6, <2>7
<1> QED
  BY <1>1, <1>2, <1>3 DEF Open

\* Where no bracket is closed, none more are left open.
LEMMA OpenRange ==
  ASSUME IsText, NEW p \in Positions, NEW q \in Positions, p <= q,
         \A r \in p .. q - 1 : At(r) # ">"
  PROVE  Open(q) <= Open(p)
<1> DEFINE M == {r \in p .. q : Open(q) <= Open(r)}
<1>1. p \in Nat /\ q \in Nat /\ Len(text) \in Nat /\ p >= 1 /\ q <= Len(text) + 1
  BY Bounds
<1>2. Open(q) \in Int
  BY OpenStep
<1>3. q \in M
  BY <1>1, <1>2
<1>4. PICK x \in M : \A y \in M : x <= y
  <2>1. M \subseteq Nat
    BY <1>1
  <2> HIDE DEF M
  <2> QED
    BY <1>3, <2>1, LeastNumber
<1>5. CASE x = p
  BY <1>4, <1>5
<1>6. CASE x # p
  <2>1. x - 1 \in Positions /\ x - 1 \in p .. q - 1 /\ x \in Positions /\ x - 1 # Len(text) + 1
    BY <1>1, <1>4, <1>6, Bounds
  <2>2. Open(x) <= Open(x - 1) /\ Open(x) \in Int /\ Open(x - 1) \in Int
    <3>1. At(x - 1) # ">" /\ (x - 1) + 1 = x
      BY <2>1, <1>1, <1>4
    <3>2. Open(x) \in Int /\ Open(x - 1) \in Int
      BY <2>1, OpenStep
    <3>3. Open(x) \in {Open(x - 1), Open(x - 1) - 1}
      BY <2>1, <3>1, OpenStep
    <3> QED
      BY <3>2, <3>3
  <2>3. x - 1 \in M
    BY <1>1, <1>2, <1>4, <1>6, <2>1, <2>2
  <2> QED
    BY <1>1, <1>4, <2>3
<1> QED
  BY <1>5, <1>6

-----------------------------------------------------------------------------
(* Types, in a text without traps: one is found at every word, and its     *)
(* brackets are closed.                                                    *)

\* Every bracket f closes, it has opened.
Balances(f) == \A p \in Positions : f[p].st = "ok" => Open(f[p].p) <= Open(p)

LEMMA OpenInt == ASSUME IsText PROVE \A p \in Positions : Open(p) \in Int
BY OpenStep

LEMMA LitBalances ==
  ASSUME IsText, NEW atoms, Len(atoms) \in Nat,
         \A i \in 1 .. Len(atoms) : atoms[i] \notin {EOF, ">"}
  PROVE  Balances(Lit(atoms))
<1> SUFFICES ASSUME NEW p \in Positions, Matches(atoms, {}, p)
             PROVE  Open(Skip(p + Len(atoms))) <= Open(p)
  BY DEF Balances, Lit, LitX, Ok, Failed, Result
<1> DEFINE q == p + Len(atoms)
<1>1. q \in p .. Len(text) + 1 /\ q \in Positions /\ p \in Nat
  BY Matching, Bounds
<1>2. Skip(q) \in q .. Len(text) + 1 /\ \A r \in q .. Skip(q) - 1 : At(r) \in Blank
  BY <1>1, SkipStops
<1>3. ">" \notin Blank
  BY DEF Blank, Space, NewLine
<1>4. ASSUME NEW r \in p .. Skip(q) - 1 PROVE At(r) # ">"
  <2>1. CASE r < q
    <3>1. r - p + 1 \in 1 .. Len(atoms) /\ p + (r - p + 1) - 1 = r
      BY <1>1, <1>2, <2>1
    <3>2. At(r) = atoms[r - p + 1]
      BY <3>1 DEF Matches
    <3> QED
      BY <3>1, <3>2
  <2>2. CASE ~ r < q
    BY <1>1, <1>2, <1>3, <2>2
  <2> QED
    BY <2>1, <2>2
<1> QED
  <2>1. Skip(q) \in Positions /\ p <= Skip(q)
    BY <1>1, <1>2, Bounds
  <2> QED
    BY <1>4, <2>1, OpenRange

LEMMA TokenBalances ==
  ASSUME IsText
  PROVE  /\ \A a : a \notin {EOF, ">"} => Balances(T(a))
         /\ \A a, b : a \notin {EOF, ">"} /\ b \notin {EOF, ">"} => Balances(Lit(<<a, b>>))
         /\ \A S : EOF \notin S /\ ">" \notin S => Balances(Class(S))
         /\ \A S : ">" \in S => Balances(ScanKept(S))
         /\ Balances(Blanks)
<1>1. ASSUME NEW a, a \notin {EOF, ">"} PROVE Balances(T(a))
  <2>1. Len(<<a>>) \in Nat /\ \A i \in 1 .. Len(<<a>>) : <<a>>[i] \notin {EOF, ">"}
    BY <1>1
  <2> QED
    BY <2>1, LitBalances DEF T
<1>2. ASSUME NEW a, NEW b, a \notin {EOF, ">"}, b \notin {EOF, ">"}
      PROVE  Balances(Lit(<<a, b>>))
  <2>1. Len(<<a, b>>) \in Nat /\ \A i \in 1 .. Len(<<a, b>>) : <<a, b>>[i] \notin {EOF, ">"}
    BY <1>2
  <2> QED
    BY <2>1, LitBalances
<1>3. ASSUME NEW p \in Positions PROVE Open(Skip(p)) <= Open(p) /\ Skip(p) \in Positions
  <2>1. Skip(p) \in p .. Len(text) + 1 /\ \A r \in p .. Skip(p) - 1 : At(r) \in Blank
    BY SkipStops
  <2>2. Skip(p) \in Positions /\ p <= Skip(p)
    BY <2>1, Bounds
  <2>3. ">" \notin Blank
    BY DEF Blank, Space, NewLine
  <2> QED
    BY <2>1, <2>2, <2>3, OpenRange
<1>4. ASSUME NEW S, EOF \notin S, ">" \notin S PROVE Balances(Class(S))
  <2> SUFFICES ASSUME NEW p \in Positions, At(p) \in S PROVE Open(Skip(p + 1)) <= Open(p)
    BY DEF Balances, Class, Ok, Failed, Result
  <2>1. p + 1 \in Positions /\ p # Len(text) + 1 /\ p <= p + 1
    BY <1>4, Advance, Bounds
  <2>2. Open(p + 1) <= Open(p)
    BY <1>4, <2>1, OpenStep, OpenInt
  <2>3. Skip(p + 1) \in Positions /\ Open(Skip(p + 1)) <= Open(p + 1)
    BY <1>3, <2>1
  <2> QED
    BY <2>1, <2>2, <2>3, OpenInt
<1>5. ASSUME NEW S, ">" \in S PROVE Balances(ScanKept(S))
  <2> SUFFICES ASSUME NEW p \in Positions PROVE Open(Scan(p, S)) <= Open(p)
    BY DEF Balances, ScanKept, Ok, Result
  <2>1. Scan(p, S) \in Positions /\ p <= Scan(p, S) /\ \A r \in p .. Scan(p, S) - 1 : At(r) # ">"
    BY <1>5, ScanStops, Bounds
  <2> QED
    BY <2>1, OpenRange
<1>6. Balances(Blanks)
  BY <1>3 DEF Balances, Blanks, Ok, Result
<1> QED
  BY <1>1, <1>2, <1>4, <1>5, <1>6

LEMMA CombinatorBalances ==
  ASSUME IsText
  PROVE  /\ Balances(Empty)
         /\ \A a, b : Parses(a) /\ Parses(b) /\ Balances(a) /\ Balances(b) => Balances(a && b)
         /\ \A a, b : Parses(a) /\ Restores(a) /\ Balances(a) /\ Balances(b) => Balances(a || b)
         /\ \A t, a, b : Balances(a) /\ Balances(b) => Balances(If(t, a, b))
         /\ \A e : Balances(e) => Balances(Try(e))
         /\ \A kind, e : Balances(e) => Balances(Node(kind, e))
         /\ \A s, e : Parses(s) /\ Stays(s) /\ Parses(e) /\ Balances(e) => Balances(Until(s, e))
<1>1. Balances(Empty)
  BY OpenInt DEF Balances, Empty, Ok, Result
<1>2. ASSUME NEW a, NEW b, Parses(a), Parses(b), Balances(a), Balances(b)
      PROVE  Balances(a && b)
  <2> SUFFICES ASSUME NEW p \in Positions, (a && b)[p].st = "ok"
               PROVE  Open((a && b)[p].p) <= Open(p)
    BY DEF Balances
  <2> DEFINE q == a[p].p
  <2>1. a[p].st = "ok" /\ b[q].st = "ok" /\ (a && b)[p].p = b[q].p
    BY Sequence
  <2>2. q \in Positions /\ b[q].p \in Positions
    BY <1>2, Bounds DEF Parses
  <2>3. Open(q) <= Open(p) /\ Open(b[q].p) <= Open(q)
    BY <1>2, <2>1, <2>2 DEF Balances
  <2> QED
    BY <2>1, <2>2, <2>3, OpenInt
<1>3. ASSUME NEW a, NEW b, Parses(a), Restores(a), Balances(a), Balances(b)
      PROVE  Balances(a || b)
  BY <1>3 DEF ||, Balances, Restores
<1>4. /\ \A t, a, b : Balances(a) /\ Balances(b) => Balances(If(t, a, b))
      /\ \A e : Balances(e) => Balances(Try(e))
      /\ \A kind, e : Balances(e) => Balances(Node(kind, e))
  BY DEF Balances, If, Try, Node, Ok, Failed, Result
<1>5. ASSUME NEW s, NEW e, Parses(s), Stays(s), Parses(e), Balances(e)
      PROVE  Balances(Until(s, e))
  <2> DEFINE R == Rounds(s, e)
             N == {p \in Positions : R[p].st = "ok" /\ ~ Open(R[p].p) <= Open(p)}
  <2>1. N = {}
    <3> SUFFICES ASSUME N # {} PROVE FALSE
      OBVIOUS
    <3>1. PICK p \in N : \A q \in N : q <= p
      <4>1. N \subseteq Positions
        OBVIOUS
      <4> HIDE DEF N
      <4> QED
        BY <4>1, LastPosition
    <3>2. p \in Positions /\ R[p].st = "ok" /\ ~ Open(R[p].p) <= Open(p)
          /\ R[p] = RoundsAt(s, e, R, p)
      BY <1>5, <3>1, RoundsEquation
    <3> DEFINE q == e[p].p
    <3>3. CASE s[p].st = "ok"
      <4>1. R[p].p = p
        <5> HIDE DEF R
        <5> QED
          BY <1>5, <3>2, <3>3 DEF RoundsAt, Stays, Ok, Result
      <4> QED
        BY <3>2, <4>1, OpenInt
    <3>4. CASE s[p].st # "ok"
      <4>1. e[p].st = "ok" /\ q # p /\ R[q].st = "ok" /\ R[q].p = R[p].p
        <5> HIDE DEF R
        <5> QED
          BY <3>2, <3>4 DEF RoundsAt, Ok, Failed, Hang, Result
      <4>2. q \in Positions /\ q > p /\ p \in Nat /\ q \in Nat
        BY <1>5, <3>2, <4>1, Bounds DEF Parses
      <4>3. q \notin N
        BY <3>1, <3>2, <4>2
      <4>4. Open(R[q].p) <= Open(q) /\ Open(q) <= Open(p)
        BY <1>5, <3>2, <4>1, <4>2, <4>3 DEF Balances
      <4>5. R[p].p \in Positions
        BY <1>5, <3>2, RoundsParse, Bounds DEF Parses
      <4>6. Open(R[p].p) \in Int /\ Open(p) \in Int /\ Open(q) \in Int
        BY <3>2, <4>2, <4>5, OpenInt
      <4>7. Open(R[p].p) <= Open(q)
        BY <4>1, <4>4
      <4> HIDE DEF R, q
      <4> QED
        BY <3>2, <4>4, <4>6, <4>7
    <3> QED
      BY <3>3, <3>4
  <2>2. \A p \in Positions : R[p].st = "ok" => Open(R[p].p) <= Open(p)
    BY <2>1
  <2> HIDE DEF R, N
  <2> QED
    BY <2>2 DEF Until, Balances, R, Ok, Result
<1> QED
  BY <1>1, <1>2, <1>3, <1>4, <1>5

-----------------------------------------------------------------------------
(* Returns: no loop goes on for ever.                                      *)

\* From m on, f comes back.
Returns(f, m) == \A p \in Positions : p >= m => f[p].st # "hang"

\* A loop whose rounds come back, get further and stay among good positions.
LEMMA RoundsReturn ==
  ASSUME IsText, NEW s, NEW e, Parses(e), NEW G, G \subseteq Positions,
         \A p \in G : s[p].st # "ok" =>
           e[p].st # "hang" /\ (e[p].st = "ok" => e[p].p # p /\ e[p].p \in G)
  PROVE  \A p \in G : Rounds(s, e)[p].st # "hang"
<1> DEFINE R == Rounds(s, e)
           N == {p \in G : R[p].st = "hang"}
<1>1. SUFFICES ASSUME N # {} PROVE FALSE
  OBVIOUS
<1>2. PICK p \in N : \A q \in N : q <= p
  <2>1. N \subseteq Positions
    OBVIOUS
  <2> HIDE DEF N
  <2> QED
    BY <1>1, <2>1, LastPosition
<1>3. p \in G /\ p \in Positions /\ R[p].st = "hang" /\ R[p] = RoundsAt(s, e, R, p)
  BY <1>2, RoundsEquation
<1>4. s[p].st # "ok"
  <2> HIDE DEF R
  <2> QED
    BY <1>3 DEF RoundsAt, Ok, Result
<1>5. e[p].st \in {"ok", "fail"}
  BY <1>3, <1>4 DEF Parses
<1>6. e[p].st = "ok" /\ e[p].p # p /\ R[e[p].p].st = "hang" /\ e[p].p \in G
  <2>1. CASE e[p].st = "fail"
    <3> HIDE DEF R
    <3> QED
      BY <1>3, <1>4, <2>1 DEF RoundsAt, Failed, Result
  <2>2. CASE e[p].st = "ok"
    <3>1. e[p].p # p /\ e[p].p \in G
      BY <1>3, <1>4, <2>2
    <3> HIDE DEF R
    <3> QED
      BY <1>3, <1>4, <2>2, <3>1 DEF RoundsAt, Result
  <2> QED
    BY <1>5, <2>1, <2>2
<1>7. e[p].p > p /\ e[p].p \in Nat /\ p \in Nat
  BY <1>3, <1>6, Bounds DEF Parses
<1>8. e[p].p \in N
  BY <1>6
<1> QED
  BY <1>2, <1>7, <1>8

LEMMA LoopReturns ==
  ASSUME IsText, NEW m \in Nat, NEW s, NEW e, Parses(e), Consumes(e), Returns(e, m)
  PROVE  Returns(Rounds(s, e), m)
<1> DEFINE G == {p \in Positions : p >= m}
<1>1. ASSUME NEW p \in G
      PROVE  e[p].st # "hang" /\ (e[p].st = "ok" => e[p].p # p /\ e[p].p \in G)
  BY Bounds DEF Parses, Consumes, Returns
<1>2. G \subseteq Positions
  OBVIOUS
<1>3. \A p \in G : Rounds(s, e)[p].st # "hang"
  <2> HIDE DEF G
  <2> QED
    BY <1>1, <1>2, RoundsReturn
<1> QED
  BY <1>3 DEF Returns

\* A loop without a condition ends by an error.
LEMMA FailNeverStops ==
  ASSUME IsText, NEW e, Parses(e)
  PROVE  \A p \in Positions : Rounds(Fail, e)[p].st # "ok"
<1> DEFINE R == Rounds(Fail, e)
           N == {p \in Positions : R[p].st = "ok"}
<1>1. SUFFICES ASSUME N # {} PROVE FALSE
  OBVIOUS
<1>2. PICK p \in N : \A q \in N : q <= p
  <2>1. N \subseteq Positions
    OBVIOUS
  <2> HIDE DEF N
  <2> QED
    BY <1>1, <2>1, LastPosition
<1>3. p \in Positions /\ R[p].st = "ok" /\ R[p] = RoundsAt(Fail, e, R, p)
  BY <1>2, RoundsEquation
<1>4. Fail[p].st = "fail"
  BY <1>3 DEF Fail, Failed, Result
<1>5. e[p].p # p /\ R[e[p].p].st = "ok"
  <2> HIDE DEF R
  <2> QED
    BY <1>3, <1>4 DEF RoundsAt, Failed, Hang, Result
<1>6. e[p].p \in Positions /\ e[p].p > p /\ p \in Nat /\ e[p].p \in Nat
  BY <1>3, <1>5, Bounds DEF Parses
<1> QED
  BY <1>2, <1>5, <1>6

LEMMA TokenReturns ==
  ASSUME NEW m
  PROVE  /\ \A atoms, x : Returns(LitX(atoms, x), m)
         /\ \A atoms : Returns(Lit(atoms), m) /\ Returns(Raw(atoms), m)
         /\ \A a : Returns(T(a), m)
         /\ \A S : Returns(Class(S), m) /\ Returns(RawClass(S), m) /\ Returns(Stop(S), m)
         /\ \A S : Returns(ScanTo(S), m) /\ Returns(ScanKept(S), m)
         /\ Returns(Blanks, m) /\ Returns(AnyAtom, m)
<1>1. /\ \A atoms, x : Returns(LitX(atoms, x), m)
      /\ \A atoms : Returns(Raw(atoms), m)
  BY DEF Returns, LitX, Raw, Ok, Failed, Result
<1>2. \A atoms : Returns(Lit(atoms), m)
  BY <1>1 DEF Lit
<1>3. \A a : Returns(T(a), m)
  BY <1>2 DEF T
<1>4. \A S : Returns(Class(S), m) /\ Returns(RawClass(S), m) /\ Returns(Stop(S), m)
  BY DEF Returns, Class, RawClass, Stop, Ok, Failed, Result
<1>5. \A S : Returns(ScanTo(S), m) /\ Returns(ScanKept(S), m)
  BY DEF Returns, ScanTo, ScanKept, Ok, Result
<1>6. Returns(Blanks, m) /\ Returns(AnyAtom, m)
  BY DEF Returns, Blanks, AnyAtom, Ok, Failed, Result
<1> QED
  BY <1>1, <1>2, <1>3, <1>4, <1>5, <1>6

LEMMA CombinatorReturns ==
  ASSUME IsText, NEW m \in Nat
  PROVE  /\ Returns(Empty, m) /\ Returns(Fail, m) /\ \A leaf : Returns(Give(leaf), m)
         /\ \A a, b : Parses(a) /\ Returns(a, m) /\ Returns(b, m) => Returns(a && b, m)
         /\ \A a, b : Parses(a) /\ Consumes(a) /\ Returns(a, m) /\ Returns(b, m + 1) =>
              Returns(a && b, m)
         /\ \A a, b : Parses(a) /\ Returns(a, m) /\ Returns(b, m) => Returns(a || b, m)
         /\ \A t, a, b : Returns(t, m) /\ Returns(a, m) /\ Returns(b, m) => Returns(If(t, a, b), m)
         /\ \A e, a, b : Parses(e) /\ Returns(e, m) /\ Returns(a, m) /\ Returns(b, m) =>
              Returns(Progress(e, a, b), m)
         /\ \A e : Parses(e) /\ Returns(e, m) => Returns(Opt(e), m)
         /\ \A e : Returns(e, m) => Returns(Try(e), m) /\ Returns(Not(e), m)
         /\ \A e : Returns(e, m) => Returns(Drop(e), m) /\ Returns(Hold(e), m)
         /\ \A kind, e : Returns(e, m) => Returns(Node(kind, e), m)
         /\ \A e : Parses(e) /\ Consumes(e) /\ Returns(e, m) => Returns(Many(e), m)
         /\ \A s, e : Parses(e) /\ Consumes(e) /\ Returns(e, m) => Returns(Until(s, e), m)
         /\ \A h, t : Parses(h) /\ Parses(t) /\ Consumes(t) /\ Returns(h, m) /\ Returns(t, m) =>
              Returns(Grow(h, t), m)
         /\ \A h, t : Parses(h) /\ Returns(h, m) /\ Returns(t, m) => Returns(Grow1(h, t), m)
<1>1. Returns(Empty, m) /\ Returns(Fail, m) /\ \A leaf : Returns(Give(leaf), m)
  BY DEF Returns, Empty, Fail, Give, Ok, Failed, Result
<1>2. ASSUME NEW f, Parses(f), NEW p \in Positions, p >= m
      PROVE  /\ f[p].p \in Positions /\ f[p].p >= m
             /\ Consumes(f) /\ f[p].st = "ok" => f[p].p >= m + 1
             /\ f[p].st \in {"ok", "fail", "hang"}
  BY <1>2, Bounds DEF Parses, Consumes
<1>3. ASSUME NEW a, NEW b, Parses(a), Returns(a, m), NEW p \in Positions, p >= m
      PROVE  (a && b)[p].st = "hang" => a[p].st = "ok" /\ b[a[p].p].st = "hang"
  <2>1. a[p].st \in {"ok", "fail"}
    BY <1>2, <1>3 DEF Returns
  <2> QED
    BY <2>1, <1>3, Sequence
<1>4. ASSUME NEW a, NEW b, Parses(a), Returns(a, m), Returns(b, m) PROVE Returns(a || b, m)
  BY <1>2, <1>4 DEF Returns, ||
<1>5. \A t, a, b : Returns(t, m) /\ Returns(a, m) /\ Returns(b, m) => Returns(If(t, a, b), m)
  BY DEF Returns, If
<1>6. ASSUME NEW e, NEW a, NEW b, Parses(e), Returns(e, m), Returns(a, m), Returns(b, m)
      PROVE  Returns(Progress(e, a, b), m)
  BY <1>2, <1>6 DEF Returns, Progress
<1>7. \A e : Parses(e) /\ Returns(e, m) => Returns(Opt(e), m)
  BY <1>1, <1>4 DEF Opt
<1>8. /\ \A e : Returns(e, m) => Returns(Try(e), m) /\ Returns(Drop(e), m) /\ Returns(Hold(e), m)
      /\ \A kind, e : Returns(e, m) => Returns(Node(kind, e), m)
  BY DEF Returns, Try, Drop, Hold, Node, Ok, Failed, Result
<1>9. \A e : Returns(e, m) => Returns(Not(e), m)
  BY <1>1, <1>5 DEF Not
<1>10. ASSUME NEW e, Parses(e), Consumes(e), Returns(e, m)
       PROVE  Returns(Many(e), m) /\ \A s : Returns(Until(s, e), m)
  <2>1. Returns(Rounds(Fail, e), m) /\ \A s : Returns(Rounds(s, e), m)
    BY <1>10, LoopReturns
  <2>2. \A p \in Positions : Rounds(Fail, e)[p].st # "ok"
    BY <1>10, FailNeverStops
  <2>3. Parses(Rounds(Fail, e))
    BY <1>10, RoundsParse, CombinatorParses
  <2>4. Returns(Many(e), m)
    BY <2>1, <2>2, <2>3 DEF Returns, Parses, Many, Ok, Result
  <2>5. \A s : Returns(Until(s, e), m)
    BY <2>1 DEF Returns, Until, Ok, Result
  <2> QED
    BY <2>4, <2>5
<1>11. ASSUME NEW h, NEW t, Parses(h), Parses(t), Consumes(t), Returns(h, m), Returns(t, m)
       PROVE  Returns(Grow(h, t), m)
  <2>1. Returns(Rounds(Fail, t), m)
    BY <1>11, LoopReturns
  <2>2. \A p \in Positions : Rounds(Fail, t)[p].st = "hang" \/ Rounds(Fail, t)[p].st = "fail"
    BY <1>11, FailNeverStops, RoundsParse, CombinatorParses DEF Parses
  <2> SUFFICES ASSUME NEW p \in Positions, p >= m, Grow(h, t)[p].st = "hang" PROVE FALSE
    BY DEF Returns
  <2>3. h[p].st # "hang" /\ h[p].p \in Positions /\ h[p].p >= m
    BY <1>2, <1>11 DEF Returns
  <2>4. Rounds(Fail, t)[h[p].p].st = "fail"
    BY <2>1, <2>2, <2>3 DEF Returns
  <2> QED
    BY <2>3, <2>4 DEF Grow, Ok, Result
<1>12. ASSUME NEW h, NEW t, Parses(h), Returns(h, m), Returns(t, m) PROVE Returns(Grow1(h, t), m)
  BY <1>2, <1>12 DEF Returns, Grow1, Ok, Result
<1>13. /\ \A a, b : Parses(a) /\ Returns(a, m) /\ Returns(b, m) => Returns(a && b, m)
       /\ \A a, b : Parses(a) /\ Consumes(a) /\ Returns(a, m) /\ Returns(b, m + 1) =>
            Returns(a && b, m)
  <2>1. ASSUME NEW a, NEW b, Parses(a), Returns(a, m), Returns(b, m) PROVE Returns(a && b, m)
    BY <1>2, <1>3, <2>1 DEF Returns
  <2>2. ASSUME NEW a, NEW b, Parses(a), Consumes(a), Returns(a, m), Returns(b, m + 1)
        PROVE  Returns(a && b, m)
    BY <1>2, <1>3, <2>2 DEF Returns
  <2> QED
    BY <2>1, <2>2
<1>14. /\ \A e : Parses(e) /\ Consumes(e) /\ Returns(e, m) => Returns(Many(e), m)
       /\ \A s, e : Parses(e) /\ Consumes(e) /\ Returns(e, m) => Returns(Until(s, e), m)
  BY <1>10
<1> QED
  BY <1>1, <1>4, <1>5, <1>6, <1>7, <1>8, <1>9, <1>11, <1>12, <1>13, <1>14

-----------------------------------------------------------------------------
(* Types in a text without traps.                                          *)

\* f finds something at every word.
Named(f) == \A p \in Positions : At(p) \in Words => f[p].st # "fail"

LEMMA NoTrap ==
  ASSUME IsText, ~Trap
  PROVE  /\ \A p \in Positions : At(p) \in {"be", "le"} => At(Skip(p + 1)) \in Words
         /\ \A p \in Positions : Lit(<<":", ":">>)[p].st = "ok" =>
              At(Lit(<<":", ":">>)[p].p) \in Words
         /\ \A p \in Positions : At(p) = "<" => Open(p) <= 0
<1>1. ASSUME NEW p \in Positions, At(p) # EOF PROVE p \in 1 .. Len(text) /\ At(p) = text[p]
  BY <1>1, Bounds
<1>2. ASSUME NEW p \in Positions, At(p) \in {"be", "le"} PROVE At(Skip(p + 1)) \in Words
  BY <1>1, <1>2 DEF Trap, EOF
<1>3. ASSUME NEW p \in Positions, Lit(<<":", ":">>)[p].st = "ok"
      PROVE  At(Lit(<<":", ":">>)[p].p) \in Words
  <2> DEFINE atoms == <<":", ":">>
  <2>1. Matches(atoms, {}, p) /\ Lit(atoms)[p].p = Skip(p + Len(atoms))
    BY <1>3 DEF Lit, LitX, Ok, Failed, Result
  <2>2. Len(atoms) = 2 /\ atoms[1] = ":" /\ atoms[2] = ":"
    OBVIOUS
  <2> HIDE DEF atoms
  <2>3. At(p + 1 - 1) = ":" /\ At(p + 2 - 1) = ":"
    BY <2>1, <2>2 DEF Matches
  <2>4. At(p) = ":" /\ At(p + 1) = ":"
    BY <2>3, Bounds
  <2>5. p \in 1 .. Len(text)
    BY <1>1, <2>4 DEF EOF
  <2>6. Lit(atoms)[p].p = Skip(p + 2)
    BY <2>1, <2>2
  <2>7. At(Skip(p + 2)) \in Words
    BY <2>4, <2>5 DEF Trap
  <2> QED
    BY <2>6, <2>7 DEF atoms
<1>4. ASSUME NEW p \in Positions, At(p) = "<" PROVE Open(p) <= 0
  <2>1. p \in 1 .. Len(text) /\ text[p] = "<"
    BY <1>1, <1>4 DEF EOF
  <2>2. ~ (Count("<", p) > Count(">", p))
    BY <2>1 DEF Trap
  <2>3. Count("<", p) \in Nat /\ Count(">", p) \in Nat
    BY CountStep
  <2> QED
    BY <2>2, <2>3 DEF Open
<1> QED
  BY <1>2, <1>3, <1>4

LEMMA NameFound ==
  ASSUME IsText
  PROVE  \A p \in Positions :
           /\ At(p) \in Words => Name[p].st = "ok" /\ Name[p].p = Skip(p + 1)
           /\ At(p) \notin Words => Name[p].st = "fail"
BY DEF Name, Class, Ok, Failed, Result

LEMMA NameBalances == ASSUME IsText PROVE Balances(Name)
<1>1. ">" \notin Keywords /\ ">" \notin BuiltinTypes /\ ">" \notin OtherWords
  BY DEF Keywords, BuiltinTypes, OtherWords
<1>2. ">" \in Punctuation
  BY DEF Punctuation
<1>3. ">" \notin Words
  BY <1>1, <1>2, LexicalAssumption DEF Words
<1> QED
  BY <1>3, Atoms, TokenBalances DEF Name

LEMMA QualifiedNames ==
  ASSUME IsText, ~Trap
  PROVE  /\ Named(QualifiedName) /\ Consumes(QualifiedName) /\ Balances(QualifiedName)
         /\ \A m \in Nat : Returns(QualifiedName, m)
<1> DEFINE e == Lit(<<":", ":">>) && Name
           s == Not(Lit(<<":", ":">>))
<1>1. Parses(Lit(<<":", ":">>)) /\ Parses(Name) /\ Parses(e) /\ Parses(s) /\ Parses(Until(s, e))
  BY TokenParses, SmallParses, CombinatorParses DEF EOF
<1>2. QualifiedName = Name && Until(s, e)
  BY DEF QualifiedName
<1>3. ASSUME NEW p \in Positions, e[p].st = "fail" PROVE s[p].st = "ok"
  <2>1. CASE Lit(<<":", ":">>)[p].st = "ok"
    <3> DEFINE q == Lit(<<":", ":">>)[p].p
    <3>1. q \in Positions /\ At(q) \in Words
      BY <1>1, <2>1, NoTrap, Bounds DEF Parses
    <3>2. e[p].st = "ok"
      BY <2>1, <3>1, NameFound, Sequence
    <3> QED
      BY <1>3, <3>2
  <2>2. CASE Lit(<<":", ":">>)[p].st # "ok"
    <3>1. Lit(<<":", ":">>)[p].st = "fail"
      BY <2>2 DEF Lit, LitX, Ok, Failed, Result
    <3> QED
      BY <3>1 DEF Not, If, Empty, Ok, Result
  <2> QED
    BY <2>1, <2>2
<1>4. NeverFails(Until(s, e))
  <2> HIDE DEF e, s
  <2> QED
    BY <1>1, <1>3, UntilNeverFails
<1>5. Consumes(Name) /\ Consumes(e)
  BY <1>1, Atoms, TokenConsumes, CombinatorConsumes DEF Name, EOF
<1>6. Balances(Name) /\ Balances(e)
  <2>2. Balances(Name)
    BY NameBalances
  <2>3. Balances(Lit(<<":", ":">>))
    BY TokenBalances DEF EOF
  <2> QED
    BY <1>1, <2>2, <2>3, CombinatorBalances
<1>7. Named(QualifiedName)
  <2> SUFFICES ASSUME NEW p \in Positions, At(p) \in Words PROVE QualifiedName[p].st # "fail"
    BY DEF Named
  <2>1. Name[p].st = "ok" /\ Name[p].p \in Positions
    BY <1>1, NameFound, Bounds DEF Parses
  <2>2. Until(s, e)[Name[p].p].st # "fail"
    BY <1>4, <2>1 DEF NeverFails
  <2> HIDE DEF s, e
  <2> QED
    BY <1>2, <2>1, <2>2, Sequence
<1>8. Consumes(QualifiedName)
  <2> HIDE DEF s, e
  <2> QED
    BY <1>1, <1>2, <1>5, CombinatorConsumes
<1>9. Balances(QualifiedName)
  <2>1. Stays(s)
    BY CombinatorRestores
  <2> HIDE DEF s, e
  <2> QED
    BY <1>1, <1>2, <1>6, <2>1, CombinatorBalances
<1>10. ASSUME NEW m \in Nat PROVE Returns(QualifiedName, m)
  <2>1. Returns(Name, m) /\ Returns(e, m)
    BY <1>1, TokenReturns, CombinatorReturns DEF Name
  <2> HIDE DEF s, e
  <2> QED
    BY <1>1, <1>2, <1>5, <2>1, CombinatorReturns
<1> QED
  BY <1>7, <1>8, <1>9, <1>10

\* What the functions rely on when they ask for a type.
TypeAsked(f) == Parses(f) /\ Restores(f) /\ Consumes(f) /\ Balances(f) /\ Named(f)

LEMMA TemplateArgMoves ==
  ASSUME IsText, NEW g, TypeAsked(g["type"])
  PROVE  /\ Parses(TemplateArg(g)) /\ NeverFails(TemplateArg(g)) /\ Balances(TemplateArg(g))
         /\ \A p \in Positions : At(p) \notin {">", EOF} /\ TemplateArg(g)[p].st = "ok" =>
              TemplateArg(g)[p].p # p
         /\ \A m \in Nat : Returns(g["type"], m) => Returns(TemplateArg(g), m)
<1> DEFINE raw == ScanKept({",", ">"}) && Blanks
           arg == g["type"] || raw
<1>1. TemplateArg(g) = arg && Comma
  BY DEF TemplateArg
<1>2. Parses(raw) /\ Parses(arg) /\ Parses(Comma)
  BY ClassParses, SmallParses, CombinatorParses DEF TypeAsked
<1>3. NeverFails(arg)
  <2>1. NeverFails(raw)
    BY ClassParses, TokenRestores, CombinatorRestores
  <2> HIDE DEF raw
  <2> QED
    BY <1>2, <2>1, CombinatorRestores DEF TypeAsked
<1>4. Balances(arg) /\ Balances(Comma)
  <2>1. Balances(raw)
    BY ClassParses, TokenBalances, CombinatorBalances
  <2>2. Balances(arg)
    <3> HIDE DEF raw
    <3> QED
      BY <2>1, CombinatorBalances DEF TypeAsked
  <2>3. Parses(T(",")) /\ Restores(T(",")) /\ Balances(T(","))
    BY TokenParses, TokenRestores, TokenBalances DEF EOF
  <2>4. Balances(Comma)
    BY <2>3, CombinatorBalances DEF Comma, Opt
  <2> QED
    BY <2>2, <2>4
<1>5. ASSUME NEW p \in Positions, At(p) \notin {">", EOF}, arg[p].st = "ok", arg[p].p = p
      PROVE  At(p) = ","
  <2>1. g["type"][p].st = "fail" /\ g["type"][p].p = p
    <3>1. g["type"][p].st # "ok"
      BY <1>5 DEF ||, TypeAsked, Consumes
    <3>2. g["type"][p].st # "hang"
      BY <1>5, <3>1 DEF ||
    <3> QED
      BY <3>1, <3>2 DEF TypeAsked, Parses, Restores
  <2>2. raw[p].st = "ok" /\ raw[p].p = p
    BY <1>5, <2>1 DEF ||
  <2> DEFINE kept == ScanKept({",", ">"})
             q == Scan(p, {",", ">"})
  <2>3. kept[p].p = q /\ kept[p].st = "ok"
    BY DEF ScanKept, Ok, Result
  <2>4. q \in p .. Len(text) + 1 /\ At(q) \in {",", ">", EOF}
    BY ScanStops
  <2>5. raw = kept && Blanks
    OBVIOUS
  <2>6. q = p
    <3> HIDE DEF kept, q, raw
    <3>1. Blanks[q].p = p
      BY <2>2, <2>3, <2>5, Sequence
    <3>2. Len(text) \in Nat /\ p \in Nat /\ p >= 1 /\ Positions = 1 .. Len(text) + 1
      BY Bounds
    <3>3. q \in Nat /\ q \in Positions /\ q >= p
      <4>1. q \in p .. Len(text) + 1
        BY <2>4
      <4>2. q \in Int /\ q >= p /\ q <= Len(text) + 1
        BY ONLY <3>2, <4>1
      <4> QED
        BY ONLY <3>2, <4>2
    <3>4. Parses(Blanks)
      BY ClassParses
    <3>5. Blanks[q].p \in q .. Len(text) + 1
      BY ONLY <3>3, <3>4 DEF Parses
    <3> QED
      BY ONLY <3>1, <3>2, <3>3, <3>5
  <2> QED
    BY <1>5, <2>4, <2>6
<1>6. ASSUME NEW p \in Positions, At(p) \notin {">", EOF}, (arg && Comma)[p].st = "ok"
      PROVE  (arg && Comma)[p].p # p
  <2> DEFINE q == arg[p].p
  <2>1. arg[p].st = "ok" /\ (arg && Comma)[p].p = Comma[q].p
    <3> HIDE DEF arg
    <3> QED
      BY <1>6, Sequence
  <2>2. q \in Positions /\ q >= p /\ Comma[q].p >= q /\ p \in Nat /\ q \in Nat /\ Comma[q].p \in Nat
    <3> HIDE DEF arg
    <3>1. Len(text) \in Nat /\ p \in Nat /\ p >= 1 /\ Positions = 1 .. Len(text) + 1
      BY Bounds
    <3>2. q \in p .. Len(text) + 1
      BY <1>2 DEF Parses
    <3>3. q \in Positions /\ q \in Nat /\ q >= p
      BY <3>1, <3>2
    <3>4. Comma[q].p \in q .. Len(text) + 1
      BY <1>2, <3>3 DEF Parses
    <3> QED
      BY <3>1, <3>3, <3>4
  <2>3. CASE q # p
    <3> HIDE DEF arg
    <3> QED
      BY <2>1, <2>2, <2>3
  <2>4. CASE q = p
    <3>1. At(p) = ","
      BY <1>5, <1>6, <2>1, <2>4
    <3>2. T(",")[p].st = "ok"
      <4>1. 1 .. Len(<<",">>) = {1} /\ <<",">>[1] = ","
        OBVIOUS
      <4>2. p + 1 - 1 = p
        BY Bounds
      <4>3. Matches(<<",">>, {}, p)
        BY <3>1, <4>1, <4>2 DEF Matches
      <4> QED
        BY <4>3 DEF T, Lit, LitX, Ok, Result
    <3>3. Comma[p] = T(",")[p]
      BY <3>2 DEF Comma, Opt, ||
    <3>4. T(",")[p].p # p
      BY <3>2, TokenConsumes DEF Consumes, EOF
    <3> QED
      BY <2>1, <2>4, <3>3, <3>4
  <2> QED
    BY <2>3, <2>4
<1>7. ASSUME NEW m \in Nat, Returns(g["type"], m) PROVE Returns(arg && Comma, m)
  <2>1. Returns(raw, m)
    BY ClassParses, TokenReturns, CombinatorReturns
  <2>2. Returns(arg, m)
    <3> HIDE DEF raw
    <3> QED
      BY <1>7, <2>1, CombinatorReturns DEF TypeAsked
  <2>3. Returns(Comma, m)
    BY TokenParses, TokenReturns, CombinatorReturns DEF Comma, EOF
  <2> HIDE DEF arg
  <2> QED
    BY <1>2, <2>2, <2>3, CombinatorReturns
<1>8. Parses(arg && Comma) /\ NeverFails(arg && Comma) /\ Balances(arg && Comma)
  <2>1. NeverFails(Comma)
    BY SmallRestores
  <2> HIDE DEF arg
  <2> QED
    BY <1>2, <1>3, <1>4, <2>1, CombinatorParses, CombinatorRestores, CombinatorBalances
<1> HIDE DEF arg
<1> QED
  BY <1>1, <1>6, <1>7, <1>8


\* What an opening and a closing bracket do to the count.
LEMMA BracketCounts ==
  ASSUME IsText
  PROVE  /\ \A p \in Positions : T("<")[p].st = "ok" =>
              At(p) = "<" /\ Open(T("<")[p].p) <= Open(p) - 1
         /\ \A p \in Positions : T(">")[p].st = "ok" => Open(T(">")[p].p) <= Open(p) + 1
         /\ \A p \in Positions : At(p) = ">" => T(">")[p].st = "ok"
<1>1. ASSUME NEW a, NEW p \in Positions
      PROVE  /\ T(a)[p].st = "ok" => At(p) = a /\ T(a)[p].p = Skip(p + 1)
             /\ At(p) = a => T(a)[p].st = "ok"
  <2>1. Len(<<a>>) = 1 /\ 1 .. Len(<<a>>) = {1} /\ <<a>>[1] = a
    OBVIOUS
  <2>2. p + 1 - 1 = p
    BY Bounds
  <2>3. Matches(<<a>>, {}, p) <=> At(p) = a
    BY <2>1, <2>2 DEF Matches
  <2> QED
    BY <2>1, <2>3 DEF T, Lit, LitX, Ok, Failed, Result
<1>2. ASSUME NEW p \in Positions, At(p) # EOF, At(p) \in {"<", ">"}
      PROVE  /\ Open(Skip(p + 1)) <= Open(p + 1)
             /\ At(p) = "<" => Open(p + 1) = Open(p) - 1
             /\ At(p) = ">" => Open(p + 1) = Open(p) + 1
             /\ Open(p) \in Int /\ Open(p + 1) \in Int /\ Open(Skip(p + 1)) \in Int
  <2>1. p \in 1 .. Len(text) /\ Len(text) \in Nat
    BY <1>2, Bounds
  <2>2. p + 1 \in Positions /\ p # Len(text) + 1 /\ p \in Nat /\ p + 1 \in Nat
    BY <2>1, Bounds
  <2>3. Skip(p + 1) \in p + 1 .. Len(text) + 1 /\ \A r \in p + 1 .. Skip(p + 1) - 1 : At(r) \in Blank
    BY <2>2, SkipStops
  <2>4. Skip(p + 1) \in Positions /\ p + 1 <= Skip(p + 1)
    BY <2>1, <2>2, <2>3, Bounds
  <2>5. ">" \notin Blank
    BY DEF Blank, Space, NewLine
  <2>6. \A r \in p + 1 .. Skip(p + 1) - 1 : At(r) # ">"
    BY <2>3, <2>5
  <2>7. Open(Skip(p + 1)) <= Open(p + 1)
    BY <2>2, <2>4, <2>6, OpenRange
  <2>8. /\ At(p) = "<" => Open(p + 1) = Open(p) - 1
        /\ At(p) = ">" => Open(p + 1) = Open(p) + 1
    BY <2>2, OpenStep
  <2> QED
    BY <2>2, <2>4, <2>7, <2>8, OpenInt
<1>3. ASSUME NEW p \in Positions, T("<")[p].st = "ok"
      PROVE  At(p) = "<" /\ Open(T("<")[p].p) <= Open(p) - 1
  <2>1. At(p) = "<" /\ T("<")[p].p = Skip(p + 1)
    BY <1>1, <1>3
  <2>2. At(p) # EOF /\ At(p) \in {"<", ">"}
    BY <2>1 DEF EOF
  <2> QED
    BY <1>2, <2>1, <2>2
<1>4. ASSUME NEW p \in Positions, T(">")[p].st = "ok" PROVE Open(T(">")[p].p) <= Open(p) + 1
  <2>1. At(p) = ">" /\ T(">")[p].p = Skip(p + 1)
    BY <1>1, <1>4
  <2>2. At(p) # EOF /\ At(p) \in {"<", ">"}
    BY <2>1 DEF EOF
  <2> QED
    BY <1>2, <2>1, <2>2
<1>5. \A p \in Positions : At(p) = ">" => T(">")[p].st = "ok"
  BY <1>1
<1> QED
  BY <1>3, <1>4, <1>5

LEMMA TemplateArgsReturn ==
  ASSUME IsText, ~Trap, NEW g, TypeAsked(g["type"])
  PROVE  /\ Parses(TemplateArgs(g)) /\ NeverFails(TemplateArgs(g)) /\ Balances(TemplateArgs(g))
         /\ \A m \in Nat : Returns(g["type"], m) => Returns(TemplateArgs(g), m)
<1> DEFINE arg == TemplateArg(g)
           loop == Until(T(">"), arg)
           R == Rounds(T(">"), arg)
           args == Node("args", loop)
<1>1. TemplateArgs(g) = If(T("<"), T("<") && args, Empty)
  BY DEF TemplateArgs
<1>2. /\ Parses(arg) /\ NeverFails(arg) /\ Balances(arg)
      /\ \A p \in Positions : At(p) \notin {">", EOF} /\ arg[p].st = "ok" => arg[p].p # p
      /\ \A m \in Nat : Returns(g["type"], m) => Returns(arg, m)
  BY TemplateArgMoves
<1> HIDE DEF arg
<1>3. /\ Parses(T("<")) /\ Parses(T(">")) /\ Parses(loop) /\ Parses(R) /\ Parses(args)
      /\ Parses(T("<") && args) /\ Parses(If(T("<"), T("<") && args, Empty))
  BY <1>2, TokenParses, RoundsParse, CombinatorParses DEF EOF
<1>4. NeverFails(loop) /\ NeverFails(args)
  <2>1. NeverFails(loop)
    BY <1>2, UntilNeverFails DEF NeverFails
  <2> QED
    BY <2>1, CombinatorRestores
<1>5. \A p \in Positions : R[p].st = "ok" => Open(R[p].p) <= Open(p) + 1
  <2> DEFINE N == {p \in Positions : R[p].st = "ok" /\ ~ Open(R[p].p) <= Open(p) + 1}
  <2>1. SUFFICES ASSUME N # {} PROVE FALSE
    OBVIOUS
  <2>2. PICK p \in N : \A q \in N : q <= p
    <3>1. N \subseteq Positions
      OBVIOUS
    <3> HIDE DEF N
    <3> QED
      BY <2>1, <3>1, LastPosition
  <2>3. p \in Positions /\ R[p].st = "ok" /\ ~ Open(R[p].p) <= Open(p) + 1
    BY <2>2
  <2>4. R[p] = RoundsAt(T(">"), arg, R, p)
    BY <1>2, <2>3, RoundsEquation
  <2>5. CASE T(">")[p].st = "ok"
    <3>1. R[p].p = T(">")[p].p
      <4> HIDE DEF R
      <4> QED
        BY <2>4, <2>5 DEF RoundsAt, Ok, Result
    <3> QED
      BY <2>3, <2>5, <3>1, BracketCounts
  <2>6. CASE T(">")[p].st # "ok"
    <3> DEFINE q == arg[p].p
    <3>1. arg[p].st = "ok" /\ q # p /\ R[q].st = "ok" /\ R[q].p = R[p].p
      <4> HIDE DEF R
      <4> QED
        BY <2>3, <2>4, <2>6 DEF RoundsAt, Ok, Failed, Hang, Result
    <3>2. q \in Positions /\ q > p /\ p \in Nat /\ q \in Nat
      BY <1>2, <2>3, <3>1, Bounds DEF Parses
    <3>3. q \notin N
      BY <2>2, <2>3, <3>2
    <3>4. Open(R[q].p) <= Open(q) + 1 /\ Open(q) <= Open(p)
      BY <1>2, <2>3, <3>1, <3>2, <3>3 DEF Balances
    <3>5. R[p].p \in Positions
      BY <1>3, <2>3, Bounds DEF Parses
    <3>6. Open(R[p].p) \in Int /\ Open(p) \in Int /\ Open(q) \in Int
      BY <2>3, <3>2, <3>5, OpenInt
    <3>7. Open(R[p].p) <= Open(q) + 1
      BY <3>1, <3>4
    <3> HIDE DEF R, q
    <3> QED
      BY <2>3, <3>4, <3>6, <3>7
  <2> QED
    BY <2>5, <2>6
<1>6. ASSUME NEW p \in Positions, args[p].st = "ok"
      PROVE  R[p].st = "ok" /\ args[p].p = R[p].p
  <2> HIDE DEF R
  <2>1. loop[p].st = "ok" /\ args[p].p = loop[p].p
    BY <1>6 DEF Node, Ok, Result
  <2> QED
    BY <2>1 DEF Until, R, Ok, Result
<1> HIDE DEF args, loop, R
<1>7. NeverFails(If(T("<"), T("<") && args, Empty))
  <2> SUFFICES ASSUME NEW p \in Positions PROVE If(T("<"), T("<") && args, Empty)[p].st # "fail"
    BY DEF NeverFails
  <2>1. CASE T("<")[p].st = "ok"
    <3>1. T("<")[p].p \in Positions
      BY <1>3, Bounds DEF Parses
    <3>2. (T("<") && args)[p].st # "fail"
      BY <1>4, <2>1, <3>1, Sequence DEF NeverFails
    <3> QED
      BY <2>1, <3>2 DEF If
  <2>2. CASE T("<")[p].st # "ok"
    BY <2>2 DEF If, Empty, Ok, Result
  <2> QED
    BY <2>1, <2>2
<1>8. Balances(T("<") && args)
  <2> SUFFICES ASSUME NEW p \in Positions, (T("<") && args)[p].st = "ok"
               PROVE  Open((T("<") && args)[p].p) <= Open(p)
    BY DEF Balances
  <2> DEFINE q == T("<")[p].p
  <2>1. T("<")[p].st = "ok" /\ args[q].st = "ok" /\ (T("<") && args)[p].p = args[q].p
    BY Sequence
  <2>2. q \in Positions /\ R[q].st = "ok" /\ args[q].p = R[q].p
    BY <1>3, <1>6, <2>1, Bounds DEF Parses
  <2>3. Open(R[q].p) <= Open(q) + 1 /\ Open(q) <= Open(p) - 1
    BY <1>5, <2>1, <2>2, BracketCounts
  <2>4. R[q].p \in Positions
    BY <1>3, <2>2, Bounds DEF Parses
  <2>5. Open(R[q].p) \in Int /\ Open(q) \in Int /\ Open(p) \in Int
    BY <2>2, <2>4, OpenInt
  <2> HIDE DEF q
  <2>6. Open(R[q].p) <= Open(p)
    BY <2>3, <2>5
  <2> QED
    BY <2>1, <2>2, <2>6
<1>9. Balances(If(T("<"), T("<") && args, Empty))
  BY <1>8, CombinatorBalances
<1>10. ASSUME NEW m \in Nat, Returns(g["type"], m)
       PROVE  Returns(If(T("<"), T("<") && args, Empty), m)
  <2> DEFINE G == {q \in Positions : q >= m /\ Open(q) < 0}
  <2>1. Returns(arg, m)
    BY <1>2, <1>10
  <2>2. ASSUME NEW q \in G, T(">")[q].st # "ok"
        PROVE  arg[q].st # "hang" /\ (arg[q].st = "ok" => arg[q].p # q /\ arg[q].p \in G)
    <3>1. q \in Positions /\ q >= m /\ Open(q) < 0 /\ q \in Nat
      BY Bounds
    <3>2. arg[q].st # "hang"
      BY <2>1, <3>1 DEF Returns
    <3>3. At(q) # ">"
      BY <2>2, <3>1, BracketCounts
    <3>4. q # Len(text) + 1
      BY <3>1, OpenStep
    <3>5. At(q) # EOF
      BY <3>1, <3>4, Bounds
    <3>6. ASSUME arg[q].st = "ok" PROVE arg[q].p # q /\ arg[q].p \in G
      <4>1. arg[q].p # q
        BY <1>2, <3>1, <3>3, <3>5, <3>6
      <4>2. arg[q].p \in Positions /\ arg[q].p >= m
        BY <1>2, <3>1, Bounds DEF Parses
      <4>3. Open(arg[q].p) <= Open(q) /\ Open(arg[q].p) \in Int /\ Open(q) \in Int
        BY <1>2, <3>1, <3>6, <4>2, OpenInt DEF Balances
      <4>4. Open(arg[q].p) < 0
        BY ONLY <3>1, <4>3
      <4> QED
        BY <4>1, <4>2, <4>4
    <3> QED
      BY <3>2, <3>6
  <2>3. \A q \in G : R[q].st # "hang"
    <3>1. G \subseteq Positions
      OBVIOUS
    <3> HIDE DEF G
    <3> QED
      BY <1>2, <2>2, <3>1, RoundsReturn DEF R
  <2>9. \A p \in Positions : T("<")[p].st # "hang"
    BY DEF T, Lit, LitX, Ok, Failed, Result
  <2> SUFFICES ASSUME NEW p \in Positions, p >= m, T("<")[p].st = "ok"
               PROVE  (T("<") && args)[p].st # "hang"
    BY <2>9 DEF Returns, If, Empty, Ok, Result
  <2> DEFINE q == T("<")[p].p
  <2>4. q \in Positions /\ q >= m /\ Open(q) <= Open(p) - 1 /\ At(p) = "<"
    BY <1>3, BracketCounts, Bounds DEF Parses
  <2>5. Open(p) <= 0 /\ Open(p) \in Int /\ Open(q) \in Int
    BY <2>4, NoTrap, OpenInt
  <2>6. Open(q) < 0
    <3> HIDE DEF q
    <3> QED
      BY ONLY <2>4, <2>5
  <2>7. R[q].st # "hang"
    BY <2>3, <2>4, <2>6
  <2>8. args[q].st # "hang"
    <3> HIDE DEF q
    <3>1. loop[q].st # "hang"
      BY <2>4, <2>7 DEF loop, Until, R, Ok, Result
    <3> QED
      BY <2>4, <3>1 DEF args, Node, Ok, Result
  <2> QED
    BY <2>8, Sequence
<1> QED
  BY <1>1, <1>3, <1>7, <1>9, <1>10

-----------------------------------------------------------------------------
(* Eats: a function that comes back from m on and, when it succeeds, has   *)
(* moved the cursor.                                                       *)

Fine(f, m) == Parses(f) /\ Returns(f, m)
Eats(f, m) == Fine(f, m) /\ Consumes(f)

\* How the operators pass this on; k is where a function has come to that has moved.
EatRules(m, k) ==
  /\ \A f : Eats(f, m) => Fine(f, m)
  /\ \A f : Fine(f, m) => Fine(f, k)
  /\ \A f : Eats(f, m) => Eats(f, k)
  /\ Fine(Empty, m) /\ Eats(Fail, m) /\ \A leaf : Fine(Give(leaf), m)
  /\ \A a, b : Fine(a, m) /\ Fine(b, m) => Fine(a && b, m)
  /\ \A a, b : Eats(a, m) /\ Fine(b, k) => Eats(a && b, m)
  /\ \A a, b : Fine(a, m) /\ Eats(b, m) => Eats(a && b, m)
  /\ \A a, b : Fine(a, m) /\ Fine(b, m) => Fine(a || b, m)
  /\ \A a, b : Eats(a, m) /\ Eats(b, m) => Eats(a || b, m)
  /\ \A t, a, b : Fine(t, m) /\ Fine(a, m) /\ Fine(b, m) => Fine(If(t, a, b), m)
  /\ \A t, a, b : Fine(t, m) /\ Eats(a, m) /\ Eats(b, m) => Eats(If(t, a, b), m)
  /\ \A e : Fine(e, m) => Fine(Opt(e), m) /\ Fine(Try(e), m) /\ Fine(Not(e), m)
  /\ \A e : Fine(e, m) => Fine(Drop(e), m) /\ Fine(Hold(e), m)
  /\ \A e : Eats(e, m) => Eats(Try(e), m) /\ Eats(Drop(e), m) /\ Fine(Many(e), m)
  /\ \A kind, e : Fine(e, m) => Fine(Node(kind, e), m)
  /\ \A kind, e : Eats(e, m) => Eats(Node(kind, e), m)
  /\ \A s, e : Fine(s, m) /\ Eats(e, m) => Fine(Until(s, e), m)
  /\ \A h, t : Fine(h, m) /\ Eats(t, m) => Fine(Grow(h, t), m)
  /\ \A h, t : Eats(h, m) /\ Eats(t, m) => Eats(Grow(h, t), m)
  /\ \A h, t : Fine(h, m) /\ Fine(t, m) => Fine(Grow1(h, t), m)
  /\ \A h, t : Eats(h, m) /\ Fine(t, m) => Eats(Grow1(h, t), m)

LEMMA Eating ==
  ASSUME IsText, NEW m \in Nat, NEW k \in Nat, k \in {m, m + 1}
  PROVE  EatRules(m, k)
<1>1. \A f : Returns(f, m) => Returns(f, k)
  BY Bounds DEF Returns
<1>2. \A a, b : Eats(a, m) /\ Fine(b, k) => Eats(a && b, m)
  <2>1. CASE k = m
    BY <2>1, CombinatorParses, CombinatorConsumes, CombinatorReturns DEF Fine, Eats
  <2>2. CASE k = m + 1
    BY <2>2, CombinatorParses, CombinatorConsumes, CombinatorReturns DEF Fine, Eats
  <2> QED
    BY <2>1, <2>2
<1>3. /\ \A f : Eats(f, m) => Fine(f, m)
      /\ \A f : Fine(f, m) => Fine(f, k)
      /\ \A f : Eats(f, m) => Eats(f, k)
  BY <1>1 DEF Fine, Eats
<1>4. Fine(Empty, m) /\ Eats(Fail, m) /\ \A leaf : Fine(Give(leaf), m)
  BY CombinatorParses, CombinatorConsumes, CombinatorReturns DEF Fine, Eats
<1>5. /\ \A a, b : Fine(a, m) /\ Fine(b, m) => Fine(a && b, m)
      /\ \A a, b : Fine(a, m) /\ Eats(b, m) => Eats(a && b, m)
      /\ \A a, b : Fine(a, m) /\ Fine(b, m) => Fine(a || b, m)
      /\ \A a, b : Eats(a, m) /\ Eats(b, m) => Eats(a || b, m)
  BY CombinatorParses, CombinatorConsumes, CombinatorReturns DEF Fine, Eats
<1>6. /\ \A t, a, b : Fine(t, m) /\ Fine(a, m) /\ Fine(b, m) => Fine(If(t, a, b), m)
      /\ \A t, a, b : Fine(t, m) /\ Eats(a, m) /\ Eats(b, m) => Eats(If(t, a, b), m)
  BY CombinatorParses, CombinatorConsumes, CombinatorReturns DEF Fine, Eats
<1>7. /\ \A e : Fine(e, m) => Fine(Opt(e), m) /\ Fine(Try(e), m) /\ Fine(Not(e), m)
      /\ \A e : Fine(e, m) => Fine(Drop(e), m) /\ Fine(Hold(e), m)
      /\ \A e : Eats(e, m) => Eats(Try(e), m) /\ Eats(Drop(e), m) /\ Fine(Many(e), m)
  BY CombinatorParses, CombinatorConsumes, CombinatorReturns DEF Fine, Eats
<1>8. /\ \A kind, e : Fine(e, m) => Fine(Node(kind, e), m)
      /\ \A kind, e : Eats(e, m) => Eats(Node(kind, e), m)
      /\ \A s, e : Fine(s, m) /\ Eats(e, m) => Fine(Until(s, e), m)
  BY CombinatorParses, CombinatorConsumes, CombinatorReturns DEF Fine, Eats
<1>9. /\ \A h, t : Fine(h, m) /\ Eats(t, m) => Fine(Grow(h, t), m)
      /\ \A h, t : Eats(h, m) /\ Eats(t, m) => Eats(Grow(h, t), m)
      /\ \A h, t : Fine(h, m) /\ Fine(t, m) => Fine(Grow1(h, t), m)
      /\ \A h, t : Eats(h, m) /\ Fine(t, m) => Eats(Grow1(h, t), m)
  BY CombinatorParses, CombinatorConsumes, CombinatorReturns DEF Fine, Eats
<1> QED
  BY <1>2, <1>3, <1>4, <1>5, <1>6, <1>7, <1>8, <1>9 DEF EatRules

\* The tokens.
TokenRules(m) ==
  /\ \A a : a # EOF => /\ Eats(T(a), m) /\ Eats(Raw(<<a>>), m) /\ Eats(Lit(<<a>>), m)
                       /\ Eats(Only(a), m) /\ Eats(Kept(<<a>>), m)
                       /\ \A x : Eats(LitX(<<a>>, x), m)
  /\ \A a, b : a # EOF /\ b # EOF =>
       /\ Eats(Lit(<<a, b>>), m) /\ Eats(Raw(<<a, b>>), m) /\ Eats(Kept(<<a, b>>), m)
       /\ \A x : Eats(LitX(<<a, b>>, x), m)
  /\ \A a, b, c : a # EOF /\ b # EOF /\ c # EOF =>
       Eats(Lit(<<a, b, c>>), m) /\ Eats(Kept(<<a, b, c>>), m)
  /\ \A S : EOF \notin S => Eats(Class(S), m) /\ Eats(RawClass(S), m)
  /\ \A S : Fine(Stop(S), m) /\ Fine(ScanTo(S), m) /\ Fine(ScanKept(S), m)
  /\ Fine(Blanks, m) /\ Eats(AnyAtom, m)
  /\ Eats(Name, m) /\ Eats(RawName, m) /\ Eats(Integer, m) /\ Eats(Float, m) /\ Eats(String, m)
  /\ Eats(Char, m) /\ Fine(Comma, m) /\ Fine(Semicolons, m) /\ Fine(CommaOrSemicolon, m)
  /\ \A close, e : Eats(e, m) => Fine(List(close, e), m)
  /\ \A e : Eats(e, m) => Fine(Bracketed(e), m)
  /\ \A kind, e : Eats(e, m) => Eats(Placeholder(kind, e), m)

LEMMA TokensEat ==
  ASSUME IsText, NEW m \in Nat
  PROVE  TokenRules(m)
<1> USE DEF Fine, Eats
<1>1. EatRules(m, m)
  BY Eating
<1>2. ASSUME NEW a, a # EOF
      PROVE  /\ Eats(T(a), m) /\ Eats(Raw(<<a>>), m) /\ Eats(Lit(<<a>>), m) /\ Eats(Only(a), m)
             /\ \A x : Eats(LitX(<<a>>, x), m)
  BY <1>2, TokenParses, TokenConsumes, TokenReturns DEF Only
<1>3. ASSUME NEW a, NEW b, a # EOF, b # EOF
      PROVE  /\ Eats(Lit(<<a, b>>), m) /\ Eats(Raw(<<a, b>>), m)
             /\ \A x : Eats(LitX(<<a, b>>, x), m)
  BY <1>3, TokenParses, TokenConsumes, TokenReturns
<1>4. ASSUME NEW a, NEW b, NEW c, a # EOF, b # EOF, c # EOF PROVE Eats(Lit(<<a, b, c>>), m)
  BY <1>4, TokenParses, TokenConsumes, TokenReturns
<1>5. /\ \A S : EOF \notin S => Eats(Class(S), m) /\ Eats(RawClass(S), m)
      /\ \A S : Fine(Stop(S), m) /\ Fine(ScanTo(S), m) /\ Fine(ScanKept(S), m)
      /\ Fine(Blanks, m) /\ Eats(AnyAtom, m)
  BY ClassParses, TokenConsumes, TokenReturns
<1> HIDE DEF Fine, Eats
<1>6. /\ \A a : a # EOF => Eats(Kept(<<a>>), m)
      /\ \A a, b : a # EOF /\ b # EOF => Eats(Kept(<<a, b>>), m)
      /\ \A a, b, c : a # EOF /\ b # EOF /\ c # EOF => Eats(Kept(<<a, b, c>>), m)
  BY <1>1, <1>2, <1>3, <1>4 DEF EatRules, Kept
<1>7. /\ Eats(Name, m) /\ Eats(RawName, m) /\ Eats(Integer, m) /\ Eats(Char, m)
      /\ Eats(String, m)
  <2>1. /\ Eats(Name, m) /\ Eats(RawName, m) /\ Eats(Integer, m) /\ Eats(Char, m)
    BY <1>5, Atoms DEF Name, RawName, Integer, Char
  <2>2. Eats(String, m)
    BY <1>1, <1>2, <1>5, Atoms DEF EatRules, String
  <2> QED
    BY <2>1, <2>2
<1>8. Eats(Float, m)
  <2>1. EOF # "."
    BY DEF EOF
  <2>2. Eats(RawClass(Numbers), m)
    BY <1>5, Atoms
  <2> QED
    BY <1>1, <1>2, <1>5, <2>1, <2>2 DEF EatRules, Float
<1>9. Fine(Comma, m) /\ Fine(Semicolons, m) /\ Fine(CommaOrSemicolon, m)
  <2>1. EOF # "," /\ EOF # ";"
    BY DEF EOF
  <2> QED
    BY <1>1, <1>2, <2>1 DEF EatRules, Comma, Semicolons, CommaOrSemicolon
<1>10. \A close, e : Eats(e, m) => Fine(List(close, e), m)
  BY <1>1, <1>5, <1>9 DEF EatRules, List
<1>11. \A e : Eats(e, m) => Fine(Bracketed(e), m)
  <2>1. EOF # "(" /\ EOF # ")"
    BY DEF EOF
  <2> QED
    BY <1>1, <1>2, <1>10, <2>1 DEF EatRules, Bracketed
<1>12. \A kind, e : Eats(e, m) => Eats(Placeholder(kind, e), m)
  BY <1>1 DEF EatRules, Placeholder
<1> QED
  BY <1>2, <1>3, <1>4, <1>5, <1>6, <1>7, <1>8, <1>9, <1>10, <1>11, <1>12 DEF TokenRules

-----------------------------------------------------------------------------
(* Eats: the functions of the grammar, in a text without traps.            *)

\* Those that may succeed without moving the cursor.
Idle == {"attributes", "body", "bitfield_body", "ifdef_rest"}
\* From k on, all functions that are called come back.
Within(g, k) ==
  /\ \A f \in Functions_ : Fine(g[f], k)
  /\ \A f \in Functions_ \ Idle : Eats(g[f], k)

LEMMA TypeEats ==
  ASSUME IsText, ~Trap, NEW g, TypeAsked(g["type"])
  PROVE  /\ TypeAsked(Type(g))
         /\ \A m \in Nat : Within(g, m + 1) => Eats(Type(g), m)
<1> DEFINE endian == Try(Node("EndianType", Name && g["type"]))
           builtin == Node("BuiltinType", Name)
           named == Try(Node("NamedType", QualifiedName && TemplateArgs(g)))
           other == If(Class(BuiltinTypes), builtin, named)
<1>1. Type(g) = If(Class({"le", "be"}), endian, other)
  BY DEF Type, NamedType
<1>2. /\ Parses(Name) /\ Parses(QualifiedName) /\ Parses(TemplateArgs(g))
      /\ Parses(g["type"]) /\ Restores(g["type"]) /\ Consumes(g["type"]) /\ Balances(g["type"])
      /\ Named(g["type"])
  <2>1. Parses(QualifiedName)
    BY TokenParses, SmallParses, CombinatorParses DEF QualifiedName, EOF
  <2> QED
    BY <2>1, SmallParses, TemplateArgsReturn DEF TypeAsked
<1>3. EOF \notin {"le", "be"} /\ EOF \notin BuiltinTypes
  BY Atoms DEF EOF
<1>4. Parses(endian) /\ Parses(builtin) /\ Parses(named) /\ Parses(other) /\ Parses(Type(g))
  BY <1>1, <1>2, <1>3, CombinatorParses, ClassParses
<1>5. Restores(Type(g))
  BY <1>1, SmallRestores, CombinatorRestores
<1>6. Consumes(Type(g))
  <2>1. Consumes(Name) /\ Consumes(QualifiedName)
    BY Atoms, TokenConsumes, QualifiedNames DEF Name
  <2> QED
    BY <1>1, <1>2, <2>1, CombinatorConsumes, CombinatorParses
<1>7. Balances(Type(g))
  BY <1>1, <1>2, NameBalances, QualifiedNames, TemplateArgsReturn, CombinatorBalances,
     CombinatorParses
<1>8. Named(Type(g))
  <2> SUFFICES ASSUME NEW p \in Positions, At(p) \in Words PROVE Type(g)[p].st # "fail"
    BY DEF Named
  <2>1. Name[p].st = "ok" /\ Name[p].p = Skip(p + 1) /\ Name[p].p \in Positions
    BY <1>2, NameFound, Bounds DEF Parses
  <2>2. At(p) \in {"le", "be"} => endian[p].st # "fail"
    <3> SUFFICES ASSUME At(p) \in {"le", "be"} PROVE endian[p].st # "fail"
      OBVIOUS
    <3>1. At(Name[p].p) \in Words
      BY <2>1, NoTrap
    <3>2. g["type"][Name[p].p].st # "fail"
      BY <1>2, <2>1, <3>1 DEF Named
    <3>3. (Name && g["type"])[p].st # "fail"
      BY <2>1, <3>2, Sequence
    <3> QED
      BY <3>3 DEF Try, Node, Ok, Result
  <2>3. builtin[p].st # "fail"
    BY <2>1 DEF Node, Ok, Result
  <2>4. named[p].st # "fail"
    <3>1. QualifiedName[p].st # "fail"
      BY QualifiedNames DEF Named
    <3>2. QualifiedName[p].p \in Positions
      BY <1>2, Bounds DEF Parses
    <3>3. TemplateArgs(g)[QualifiedName[p].p].st # "fail"
      BY <3>2, TemplateArgsReturn DEF NeverFails
    <3>4. (QualifiedName && TemplateArgs(g))[p].st # "fail"
      BY <3>1, <3>2, <3>3, Sequence
    <3> QED
      BY <3>4 DEF Try, Node, Ok, Result
  <2>5. other[p].st # "fail"
    <3> HIDE DEF builtin, named
    <3> QED
      BY <2>3, <2>4 DEF If, Class, Ok, Failed, Result
  <2>6. /\ Class({"le", "be"})[p].st = "ok" => At(p) \in {"le", "be"}
        /\ Class({"le", "be"})[p].st \in {"ok", "fail"}
    BY DEF Class, Ok, Failed, Result
  <2> HIDE DEF endian, other
  <2> QED
    BY <1>1, <2>2, <2>5, <2>6 DEF If
<1>9. ASSUME NEW m \in Nat, Within(g, m + 1) PROVE Eats(Type(g), m)
  <2>1. EatRules(m, m + 1) /\ TokenRules(m)
    BY Eating, TokensEat
  <2>2. Fine(g["type"], m + 1) /\ Fine(TemplateArgs(g), m + 1) /\ Eats(QualifiedName, m)
    BY <1>2, <1>9, QualifiedNames, TemplateArgsReturn DEF Within, Fine, Eats, Functions_
  <2>3. Eats(endian, m) /\ Eats(builtin, m) /\ Eats(named, m)
    BY <2>1, <2>2 DEF EatRules, TokenRules
  <2>4. Fine(Class({"le", "be"}), m) /\ Fine(Class(BuiltinTypes), m)
    BY <1>3, <2>1 DEF EatRules, TokenRules
  <2> HIDE DEF endian, builtin, named
  <2> QED
    BY <1>1, <2>1, <2>3, <2>4 DEF EatRules
<1> HIDE DEF endian, builtin, named, other
<1> QED
  BY <1>4, <1>5, <1>6, <1>7, <1>8, <1>9 DEF TypeAsked

\* Operators: an operand eats, so the whole does.
LEMMA LadderEats ==
  ASSUME IsText, NEW g, NEW m \in Nat, Eats(g["unary"], m)
  PROVE  Eats(LogicalOr(g), m)
<1>1. EatRules(m, m) /\ TokenRules(m)
  BY Eating, TokensEat
<1>2. /\ \A a, e : a # EOF /\ Eats(e, m) => Eats(Round(<<a>>, e), m)
      /\ \A a, b, e : a # EOF /\ b # EOF /\ Eats(e, m) => Eats(Round(<<a, b>>, e), m)
  BY <1>1 DEF EatRules, TokenRules, Round, MatchOp
<1>3. /\ \A a, e : a # EOF /\ Eats(e, m) => Eats(Left1(e, <<a>>), m)
      /\ \A a, b, e : a # EOF /\ b # EOF /\ Eats(e, m) => Eats(Left2(e, <<a>>, <<b>>), m)
      /\ \A a, b, e : a # EOF /\ b # EOF /\ Eats(e, m) => Eats(Left1(e, <<a, b>>), m)
      /\ \A a, b, c, d, e : a # EOF /\ b # EOF /\ c # EOF /\ d # EOF /\ Eats(e, m) =>
           Eats(Left2(e, <<a, b>>, <<c, d>>), m)
      /\ \A a, b, c, e : a # EOF /\ b # EOF /\ c # EOF /\ Eats(e, m) =>
           Eats(Left3(e, <<a>>, <<b>>, <<c>>), m)
  BY <1>1, <1>2 DEF EatRules, Left1, Left2, Left3
<1>4. Eats(Mul(g), m)
  BY <1>3 DEF Mul, EOF
<1>5. Eats(Add(g), m)
  BY <1>3, <1>4 DEF Add, EOF
<1>6. Eats(Shift(g), m)
  BY <1>3, <1>5 DEF Shift, EOF
<1>7. Eats(Comparison(g), m)
  <2> DEFINE s == Shift(g)
  <2>1. /\ Eats(Round(<<"<", "=">>, s), m) /\ Eats(Round(<<">", "=">>, s), m)
        /\ Eats(Round(<<"<">>, s), m) /\ Eats(Round(<<">">>, s), m)
    BY <1>2, <1>6 DEF EOF
  <2> QED
    BY <1>1, <1>6, <2>1 DEF EatRules, Comparison, Left4
<1>8. Eats(Equality(g), m)
  BY <1>3, <1>7 DEF Equality, EOF
<1>9. Eats(BitwiseAnd(g), m)
  BY <1>3, <1>8 DEF BitwiseAnd, EOF
<1>10. Eats(BitwiseXor(g), m)
  BY <1>3, <1>9 DEF BitwiseXor, EOF
<1>11. Eats(BitwiseOr(g), m)
  BY <1>3, <1>10 DEF BitwiseOr, EOF
<1>12. Eats(LogicalAnd(g), m)
  BY <1>3, <1>11 DEF LogicalAnd, EOF
<1> QED
  BY <1>3, <1>12 DEF LogicalOr, EOF

LEMMA ExprEats ==
  ASSUME IsText, ~Trap, NEW g, TypeAsked(g["type"]), NEW m \in Nat, Within(g, m + 1)
  PROVE  /\ Eats(g["unary"], m) => Eats(Ternary(g), m)
         /\ Eats(g["primary"], m) => Eats(Unary(g), m)
         /\ Eats(Primary(g), m)
<1>1. EatRules(m, m + 1) /\ TokenRules(m) /\ EatRules(m + 1, m + 1) /\ TokenRules(m + 1)
  BY Eating, TokensEat
<1>2. /\ Eats(g["expr"], m + 1) /\ Eats(g["type"], m + 1) /\ Eats(g["unary"], m + 1)
  BY DEF Within, Functions_, Idle
<1>3. ASSUME Eats(g["unary"], m) PROVE Eats(Ternary(g), m)
  <2>1. Fine(TernaryTail(g), m)
    BY <1>1, <1>2 DEF EatRules, TokenRules, TernaryTail, EOF
  <2> QED
    BY <1>1, <1>3, <2>1, LadderEats DEF EatRules, Ternary
<1>4. Eats(CallArgs(g), m)
  BY <1>1, <1>2 DEF EatRules, TokenRules, CallArgs, EOF
<1>5. Eats(Member(g), m)
  <2>1. Fine(CallArgs(g), m + 1)
    BY <1>1, <1>4 DEF EatRules
  <2> QED
    BY <1>1, <1>2, <2>1 DEF EatRules, TokenRules, Member, EOF
<1>6. /\ \A name : Fine(name, m) => Fine(NameExpr(g, name, Member(g)), m)
      /\ \A name : Eats(name, m) => Eats(NameExpr(g, name, Member(g)), m)
  <2>1. Fine(If(T("("), Give("FnCall") && CallArgs(g), Empty), m)
    BY <1>1, <1>4 DEF EatRules, TokenRules, EOF
  <2>2. Fine(Many(Lit(<<":", ":">>) && Name), m)
    BY <1>1 DEF EatRules, TokenRules, EOF
  <2> QED
    BY <1>1, <1>5, <2>1, <2>2 DEF EatRules, NameExpr
<1>7. Eats(ArrayInit(g), m) /\ Eats(Paren(g), m)
  BY <1>1, <1>2 DEF EatRules, TokenRules, ArrayInit, Paren, EOF
<1>8. /\ \A kind : Eats(Operation(g, kind), m)
      /\ \A name, operation :
           Eats(name, m) /\ Eats(operation, m) => Eats(OrName(name, operation), m)
  <2>1. Fine(Paren(g), m + 1)
    BY <1>1, <1>7 DEF EatRules
  <2> QED
    BY <1>1, <2>1 DEF EatRules, TokenRules, Operation, OrName, EOF
<1>9. ASSUME NEW p \in Positions, At(p) \in {"be", "le"}
      PROVE  EndianCast(g, Member(g))[p].st = "ok" => EndianCast(g, Member(g))[p].p # p
  <2> DEFINE typed == Name && g["type"]
             cast == Grow(Try(Node("CastExpr", Node("EndianType", typed) && T("(") && g["expr"]
                                               && Opt(T(")"))))
                          || (Node("Ident", Name) && Drop(g["type"]) && Opt(T("("))),
                          Member(g))
  <2>1. EndianCast(g, Member(g)) = If(typed, cast, NameExpr(g, Hold(Name), Member(g)))
    BY DEF EndianCast
  <2>2. Eats(typed, m)
    BY <1>1, <1>2 DEF EatRules, TokenRules
  <2>3. Eats(cast, m)
    <3> HIDE DEF typed
    <3> QED
      BY <1>1, <1>2, <1>5, <2>2 DEF EatRules, TokenRules, EOF
  <2>4. typed[p].st # "fail"
    <3>1. At(p) \in Words
      BY <1>9 DEF Words, Keywords
    <3>2. Name[p].st = "ok" /\ Name[p].p = Skip(p + 1)
      BY <3>1, NameFound
    <3>3. Name[p].p \in Positions
      BY SmallParses, Bounds DEF Parses
    <3>4. At(Name[p].p) \in Words
      BY <1>9, <3>2, NoTrap
    <3>5. g["type"][Name[p].p].st # "fail"
      BY <3>3, <3>4 DEF TypeAsked, Named
    <3> QED
      BY <3>2, <3>5, Sequence
  <2> HIDE DEF typed, cast
  <2> QED
    BY <2>1, <2>3, <2>4 DEF If, Eats, Consumes
<1>10. Fine(EndianCast(g, Member(g)), m)
  <2>1. Eats(Name && g["type"], m)
    BY <1>1, <1>2 DEF EatRules, TokenRules
  <2>2. Fine(NameExpr(g, Hold(Name), Member(g)), m)
    BY <1>1, <1>6 DEF EatRules, TokenRules
  <2> QED
    BY <1>1, <1>2, <1>5, <2>1, <2>2 DEF EatRules, TokenRules, EndianCast, EOF
<1>11. \A w, name : w \notin {"be", "le"} /\ Eats(name, m) => Eats(PrimaryAt(g, w, name, Member(g)), m)
  BY <1>1, <1>5, <1>7, <1>8 DEF EatRules, TokenRules, PrimaryAt, EOF
<1>12. Eats(Primary(g), m)
  <2> DEFINE e(w) == PrimaryAt(g, w, NameExpr(g, Name, Member(g)), Member(g))
  <2>1. \A p \in Positions : Primary(g)[p] = e(At(p))[p]
    BY DEF Primary
  <2>2. \A w \in {"be", "le"} : e(w) = EndianCast(g, Member(g))
    BY DEF PrimaryAt
  <2>3. \A w : w \notin {"be", "le"} => Eats(e(w), m)
    BY <1>1, <1>6, <1>11 DEF TokenRules
  <2>4. \A w : Fine(e(w), m)
    BY <1>1, <1>10, <2>2, <2>3 DEF EatRules
  <2> HIDE DEF e
  <2>5. \A p \in Positions : e(At(p))[p].st = "ok" => e(At(p))[p].p # p
    BY <1>9, <2>2, <2>3 DEF Eats, Consumes
  <2> QED
    BY <2>1, <2>4, <2>5 DEF Eats, Fine, Consumes, Parses, Returns
<1>13. Eats(Negative(g), m)
  BY <1>1, <1>5 DEF EatRules, TokenRules, Negative, EOF
<1>14. ASSUME Eats(g["primary"], m) PROVE Eats(Unary(g), m)
  BY <1>1, <1>2, <1>13, <1>14 DEF EatRules, TokenRules, Unary, EOF
<1> QED
  BY <1>3, <1>12, <1>14

\* Attributes, template parameters, conditional blocks.
LEMMA PartsEat ==
  ASSUME IsText, NEW g, NEW m \in Nat, Within(g, m + 1)
  PROVE  /\ Fine(Attributes(g), m) /\ Fine(IfDefRest(g), m) /\ Fine(TemplateParams, m)
         /\ Fine(SkipIfDefBlocks(g), m + 1) /\ Fine(AttrsEnd(g), m + 1) /\ Fine(Ending(g), m + 1)
         /\ \A words : EOF \notin words => Eats(Hash(words), m)
         /\ Eats(IfDefs, m) /\ Fine(IfDefEnd, m)
<1>1. EatRules(m, m + 1) /\ TokenRules(m) /\ EatRules(m + 1, m + 1) /\ TokenRules(m + 1)
  BY Eating, TokensEat
<1>2. Eats(g["expr"], m + 1) /\ Fine(g["attributes"], m + 1) /\ Fine(g["ifdef_rest"], m + 1)
  BY DEF Within, Functions_, Idle
<1>3. Eats(AttrName, m)
  BY <1>1 DEF EatRules, TokenRules, AttrName, EOF
<1>4. Eats(Attribute(g), m)
  <2>1. Eats(ScanTo({")"}) && Fail, m + 1)
    BY <1>1 DEF EatRules, TokenRules
  <2>2. Fine(Bracketed(g["expr"] || (ScanTo({")"}) && Fail)), m + 1)
    BY <1>1, <1>2, <2>1 DEF EatRules, TokenRules
  <2> QED
    BY <1>1, <1>3, <2>2 DEF EatRules, Attribute
<1>5. Fine(Attributes(g), m)
  <2>1. Fine(Many(Not(Stop({})) && Not(Lit(<<"]", "]">>)) && Attribute(g) && Comma), m)
    BY <1>1, <1>4 DEF EatRules, TokenRules, EOF
  <2> QED
    BY <1>1, <2>1 DEF EatRules, TokenRules, Attributes, EOF
<1>6. Fine(AttrsEnd(g), m + 1) /\ Fine(Ending(g), m + 1)
  BY <1>1, <1>2 DEF EatRules, TokenRules, AttrsEnd, Ending, EOF
<1>7. Fine(TemplateParams, m)
  BY <1>1 DEF EatRules, TokenRules, TemplateParams, EOF
<1>8. /\ \A words : EOF \notin words => Eats(Hash(words), m)
      /\ \A words : EOF \notin words => Eats(Hash(words), m + 1)
  BY <1>1 DEF EatRules, TokenRules, Hash, EOF
<1>9. EOF \notin {"ifdef", "ifndef"} /\ EOF \notin {"endif"}
  BY DEF EOF
<1>10. Eats(IfDefs, m) /\ Fine(IfDefEnd, m) /\ Eats(IfDefs, m + 1)
  BY <1>1, <1>8, <1>9 DEF EatRules, TokenRules, IfDefs, IfDefEnd
<1>11. Fine(IfDefRest(g), m) /\ Fine(SkipIfDefBlocks(g), m + 1)
  BY <1>1, <1>2, <1>10 DEF EatRules, TokenRules, IfDefRest, SkipIfDefBlocks
<1> QED
  BY <1>5, <1>6, <1>7, <1>8, <1>10, <1>11

LEMMA DefinitionsEat ==
  ASSUME IsText, NEW g, NEW m \in Nat, Within(g, m + 1)
  PROVE  /\ Eats(Struct(g), m) /\ Eats(Union(g), m) /\ Eats(Enum(g), m) /\ Eats(Bitfield(g), m)
         /\ Eats(Using(g), m) /\ Eats(Fn(g), m) /\ Eats(Namespace(g), m)
         /\ \A body : Fine(body, m + 1) => Eats(MatchWith(g, body), m)
<1>1. EatRules(m, m + 1) /\ TokenRules(m) /\ EatRules(m + 1, m + 1) /\ TokenRules(m + 1)
  BY Eating, TokensEat
<1>2. /\ Eats(g["expr"], m + 1) /\ Eats(g["type"], m + 1) /\ Eats(g["item"], m + 1)
      /\ Fine(g["body"], m + 1) /\ Fine(g["bitfield_body"], m + 1)
  BY DEF Within, Functions_, Idle
<1>3. /\ Fine(TemplateParams, m + 1) /\ Fine(AttrsEnd(g), m + 1) /\ Fine(Ending(g), m + 1)
      /\ Fine(SkipIfDefBlocks(g), m + 1)
  BY <1>1, PartsEat DEF EatRules
<1>4. Eats(Struct(g), m)
  BY <1>1, <1>2, <1>3 DEF EatRules, TokenRules, Struct, EOF
<1>5. Eats(Union(g), m)
  BY <1>1, <1>2, <1>3 DEF EatRules, TokenRules, Union, EOF
<1>6. Fine(RangeEnd(g), m + 1)
  BY <1>1, <1>2 DEF EatRules, TokenRules, RangeEnd, EOF
<1>7. Eats(EnumMember(g), m + 1)
  BY <1>1, <1>2, <1>6 DEF EatRules, TokenRules, EnumMember, EOF
<1>8. Eats(Enum(g), m)
  BY <1>1, <1>2, <1>3, <1>7 DEF EatRules, TokenRules, Enum, EOF
<1>9. Eats(Bitfield(g), m)
  BY <1>1, <1>2, <1>3 DEF EatRules, TokenRules, Bitfield, EOF
<1>10. Eats(Using(g), m)
  BY <1>1, <1>2, <1>3 DEF EatRules, TokenRules, Using, EOF
<1>11. Eats(Param(g), m + 1)
  BY <1>1, <1>2 DEF EatRules, TokenRules, Param, EOF
<1>12. Eats(Fn(g), m)
  BY <1>1, <1>2, <1>11 DEF EatRules, TokenRules, Fn, EOF
<1>13. Eats(Namespace(g), m)
  BY <1>1, <1>2 DEF EatRules, TokenRules, Namespace, EOF
<1>14. Fine(Patterns(g), m + 1)
  BY <1>1, <1>2, <1>6 DEF EatRules, TokenRules, Patterns, EOF
<1>15. \A body : Fine(body, m + 1) => Fine(Arms(g, body), m + 1)
  BY <1>1, <1>14 DEF EatRules, TokenRules, Arms, EOF
<1>16. \A body : Fine(body, m + 1) => Eats(MatchWith(g, body), m)
  BY <1>1, <1>2, <1>15 DEF EatRules, TokenRules, MatchWith, EOF
<1> QED
  BY <1>4, <1>5, <1>8, <1>9, <1>10, <1>12, <1>13, <1>16

-----------------------------------------------------------------------------
(* The recoveries: they move where the loop around them goes on.           *)

Moves(f, S) ==
  \A p \in Positions : At(p) \notin S \cup {EOF} /\ f[p].st = "ok" => f[p].p # p

MoveRules(S) ==
  /\ \A f : Consumes(f) => Moves(f, S)
  /\ \A a, b : Parses(a) /\ Parses(b) /\ Moves(b, S) => Moves(a && b, S)
  /\ \A a, b : Parses(a) /\ Parses(b) /\ Consumes(a) /\ Moves(b, S) => Moves(a || b, S)
  /\ \A t, a, b : Moves(a, S) /\ Moves(b, S) => Moves(If(t, a, b), S)
  /\ \A e, a, b : Parses(e) /\ Parses(b) /\ Moves(a, S) /\ Moves(b, S) =>
       Moves(Progress(e, a, b), S)
  /\ \A m \in Nat : \A e : Fine(e, m) /\ Moves(e, S) => Fine(Many(Not(Stop(S)) && e), m)

LEMMA Moving ==
  ASSUME IsText, NEW S
  PROVE  MoveRules(S)
<1>1. \A f : Consumes(f) => Moves(f, S)
  BY DEF Consumes, Moves
<1>2. ASSUME NEW a, NEW b, Parses(a), Parses(b), Moves(b, S) PROVE Moves(a && b, S)
  <2> SUFFICES ASSUME NEW p \in Positions, At(p) \notin S \cup {EOF}, (a && b)[p].st = "ok"
               PROVE  (a && b)[p].p # p
    BY DEF Moves
  <2>1. b[a[p].p].st = "ok" /\ (a && b)[p].p = b[a[p].p].p
    BY Sequence
  <2>2. a[p].p \in Positions /\ a[p].p >= p /\ b[a[p].p].p \in a[p].p .. Len(text) + 1
    BY <1>2, Bounds DEF Parses
  <2>3. CASE a[p].p = p
    BY <1>2, <2>1, <2>3 DEF Moves
  <2>4. CASE a[p].p # p
    BY <2>1, <2>2, <2>4, Bounds
  <2> QED
    BY <2>3, <2>4
<1>3. ASSUME NEW a, NEW b, Parses(a), Parses(b), Moves(b, S),
             NEW p \in Positions, At(p) \notin S \cup {EOF}, b[a[p].p].st = "ok"
      PROVE  b[a[p].p].p # p
  <2>1. a[p].p \in Positions /\ a[p].p >= p /\ b[a[p].p].p \in a[p].p .. Len(text) + 1
    BY <1>3, Bounds DEF Parses
  <2>2. CASE a[p].p = p
    BY <1>3, <2>2 DEF Moves
  <2>3. CASE a[p].p # p
    BY <2>1, <2>3, Bounds
  <2> QED
    BY <2>2, <2>3
<1>4. \A a, b : Parses(a) /\ Parses(b) /\ Consumes(a) /\ Moves(b, S) => Moves(a || b, S)
  BY <1>3 DEF ||, Consumes, Moves
<1>5. \A t, a, b : Moves(a, S) /\ Moves(b, S) => Moves(If(t, a, b), S)
  BY DEF If, Moves
<1>6. ASSUME NEW e, NEW a, NEW b, Parses(e), Parses(b), Moves(a, S), Moves(b, S)
      PROVE  Moves(Progress(e, a, b), S)
  BY <1>3, <1>6 DEF Progress, Moves
<1>7. ASSUME NEW m \in Nat, NEW e, Fine(e, m), Moves(e, S) PROVE Fine(Many(Not(Stop(S)) && e), m)
  <2>1. EatRules(m, m) /\ TokenRules(m)
    BY Eating, TokensEat
  <2>2. Fine(Not(Stop(S)) && e, m)
    BY <1>7, <2>1 DEF EatRules, TokenRules
  <2>3. Consumes(Not(Stop(S)) && e)
    <3> SUFFICES ASSUME NEW p \in Positions, (Not(Stop(S)) && e)[p].st = "ok"
                 PROVE  (Not(Stop(S)) && e)[p].p # p
      BY DEF Consumes
    <3>1. Not(Stop(S))[p].st = "ok"
      BY Sequence
    <3>2. At(p) \notin S \cup {EOF} /\ Not(Stop(S))[p].p = p
      BY <3>1 DEF Not, If, Stop, Fail, Empty, Ok, Failed, Result
    <3>3. e[p].st = "ok" /\ (Not(Stop(S)) && e)[p].p = e[p].p
      BY <3>1, <3>2, Sequence
    <3> QED
      BY <1>7, <3>2, <3>3 DEF Moves
  <2>4. Eats(Not(Stop(S)) && e, m)
    BY <2>2, <2>3 DEF Eats
  <2> QED
    BY <2>1, <2>4 DEF EatRules
<1> QED
  BY <1>1, <1>2, <1>4, <1>5, <1>6, <1>7 DEF MoveRules

\* To one atom or another, and past the first.
LEMMA ScansMove ==
  ASSUME IsText, NEW semi, NEW close, semi # EOF
  PROVE  /\ Moves(ScanTo({semi, close}) && Opt(T(semi)), {close})
         /\ Moves(ScanTo({semi, close}) && Many(T(semi)), {close})
<1> DEFINE scan == ScanTo({semi, close})
<1>1. ASSUME NEW b, Parses(b), \A p \in Positions : At(p) = semi /\ b[p].st = "ok" => b[p].p # p
      PROVE  Moves(scan && b, {close})
  <2> SUFFICES ASSUME NEW p \in Positions, At(p) \notin {close, EOF}, (scan && b)[p].st = "ok"
               PROVE  (scan && b)[p].p # p
    BY DEF Moves
  <2>1. scan[p].st = "ok" /\ scan[p].p = Scan(p, {semi, close})
    BY DEF ScanTo, Ok, Result
  <2> HIDE DEF scan
  <2>2. b[scan[p].p].st = "ok"
    BY <2>1, Sequence
  <2>3. scan[p].p = Scan(p, {semi, close}) /\ (scan && b)[p].p = b[scan[p].p].p
    BY <2>1, <2>2, Sequence
  <2>4. scan[p].p \in Positions /\ scan[p].p >= p /\ b[scan[p].p].p \in scan[p].p .. Len(text) + 1
    BY <1>1, <2>3, ScanStops, Bounds DEF Parses
  <2>5. At(scan[p].p) \in {semi, close, EOF}
    <3>1. At(Scan(p, {semi, close})) \in {semi, close} \cup {EOF}
      BY ScanStops
    <3> QED
      BY <2>3, <3>1
  <2>6. CASE scan[p].p = p
    BY <1>1, <2>2, <2>3, <2>5, <2>6
  <2>7. CASE scan[p].p # p
    BY <2>3, <2>4, <2>7, Bounds
  <2> QED
    BY <2>6, <2>7
<1>2. /\ Parses(T(semi)) /\ Consumes(T(semi)) /\ Parses(Opt(T(semi))) /\ Parses(Many(T(semi)))
      /\ Parses(Fail)
  BY TokenParses, TokenConsumes, CombinatorParses
<1>3. ASSUME NEW p \in Positions, At(p) = semi PROVE T(semi)[p].st = "ok" /\ T(semi)[p].p > p
  <2>1. Len(<<semi>>) = 1 /\ 1 .. Len(<<semi>>) = {1} /\ <<semi>>[1] = semi
    OBVIOUS
  <2>2. p + 1 - 1 = p
    BY Bounds
  <2>3. T(semi)[p].st = "ok"
    <3>1. Matches(<<semi>>, {}, p)
      BY <1>3, <2>1, <2>2 DEF Matches
    <3> QED
      BY <3>1 DEF T, Lit, LitX, Ok, Result
  <2>4. T(semi)[p].p \in p .. Len(text) + 1 /\ T(semi)[p].p # p /\ p \in Nat
    BY <1>2, <2>3, Bounds DEF Parses, Consumes
  <2> QED
    BY <2>3, <2>4, Bounds
<1>4. ASSUME NEW p \in Positions, At(p) = semi PROVE Opt(T(semi))[p].p # p
  <2>1. T(semi)[p].st = "ok" /\ T(semi)[p].p > p /\ p \in Nat
    BY <1>3, <1>4, Bounds
  <2>2. Opt(T(semi))[p] = T(semi)[p]
    BY <2>1 DEF Opt, ||
  <2> QED
    BY <2>1, <2>2
<1>5. ASSUME NEW p \in Positions, At(p) = semi, Many(T(semi))[p].st = "ok"
      PROVE  Many(T(semi))[p].p # p
  <2> DEFINE R == Rounds(Fail, T(semi))
  <2>1. R[p] = RoundsAt(Fail, T(semi), R, p)
    BY <1>2, RoundsEquation
  <2>2. T(semi)[p].st = "ok" /\ T(semi)[p].p > p
    BY <1>3, <1>5
  <2>3. T(semi)[p].p \in Positions /\ T(semi)[p].p # p /\ p \in Nat
    BY <1>2, <2>2, Bounds DEF Parses
  <2>4. Fail[p].st # "ok"
    BY DEF Fail, Failed, Result
  <2>5. Parses(R)
    BY <1>2, RoundsParse
  <2>6. R[p].p # p
    <3> HIDE DEF R
    <3>1. R[p].p = R[T(semi)[p].p].p
      BY <2>1, <2>2, <2>3, <2>4 DEF RoundsAt, Result
    <3>2. R[T(semi)[p].p].p \in T(semi)[p].p .. Len(text) + 1
      BY <2>3, <2>5 DEF Parses
    <3> QED
      BY <2>2, <2>3, <3>1, <3>2, Bounds
  <2> QED
    BY <1>5, <2>6 DEF Many, Ok, Hang, Result
<1> QED
  BY <1>1, <1>2, <1>4, <1>5

\* The body of a bitfield: an entry that is none is passed over.
LEMMA BitfieldBodyReturns ==
  ASSUME IsText, NEW g, NEW m \in Nat, Within(g, m + 1),
         Eats(g["expr"], m), Eats(g["type"], m), Eats(g["if"], m), Eats(g["padding"], m)
  PROVE  Fine(BitfieldBody(g), m)
<1>1. EatRules(m, m + 1) /\ TokenRules(m) /\ EatRules(m + 1, m + 1) /\ TokenRules(m + 1)
  BY Eating, TokensEat
<1>0. MoveRules({"}"})
  BY Moving
<1>2. /\ Eats(g["expr"], m + 1) /\ Fine(g["bitfield_body"], m + 1)
      /\ Fine(AttrsEnd(g), m + 1)
  BY PartsEat DEF Within, Functions_, Idle
<1>3. Eats(BitfieldMatch(g), m)
  <2>1. Fine(If(T("{"), T("{") && Drop(g["bitfield_body"]) && Opt(T("}")),
                ScanTo({";", "}"}) && Semicolons), m + 1)
    BY <1>1, <1>2 DEF EatRules, TokenRules, EOF
  <2> QED
    BY <2>1, DefinitionsEat DEF BitfieldMatch
<1>4. Eats(Bits(g), m + 1) /\ Eats(Value(g), m + 1)
  BY <1>1, <1>2 DEF EatRules, TokenRules, Bits, Value, EOF
<1>5. Eats(TypedEntry(g), m)
  BY <1>1, <1>2, <1>4 DEF EatRules, TokenRules, TypedEntry, EOF
<1>6. Eats(PaddingEntry(g), m)
  BY <1>1, <1>2 DEF EatRules, TokenRules, PaddingEntry, EOF
<1> DEFINE named == Node("BitfieldEntry",
                         Name && If(Only(":"), Opt(Bits(g)), Opt(Value(g))) && AttrsEnd(g))
           passed == ScanTo({";", "}"}) && Semicolons
           typed == Try(TypedEntry(g))
           expr == Try(Placeholder("__expr__", g["expr"]) && T(";") && Semicolons)
           sign == Drop(Opt(Class({"signed", "bool", "unsigned"})))
<1>7. Eats(named, m)
  BY <1>1, <1>2, <1>4 DEF EatRules, TokenRules, EOF
<1>8. Fine(passed, m)
  BY <1>1 DEF EatRules, TokenRules
<1>9. Fine(StandardEntry(g), m) /\ Moves(StandardEntry(g), {"}"})
  <2>1. StandardEntry(g) = If(Name, named, passed)
    BY DEF StandardEntry
  <2>2. Moves(passed, {"}"})
    BY ScansMove DEF Semicolons, EOF
  <2> HIDE DEF named, passed
  <2>3. Moves(named, {"}"})
    BY <1>7, <1>0 DEF MoveRules, Eats
  <2> QED
    BY <1>1, <1>7, <1>8, <2>1, <2>2, <2>3, <1>0 DEF MoveRules, EatRules, TokenRules
<1>10. Fine(PlainEntry(g), m) /\ Moves(PlainEntry(g), {"}"})
  <2>1. PlainEntry(g) = sign && (typed || expr || StandardEntry(g))
    BY DEF PlainEntry
  <2>2. Eats(typed, m) /\ Eats(expr, m)
    BY <1>1, <1>5 DEF EatRules, TokenRules, EOF
  <2>3. Fine(sign, m)
    BY <1>1 DEF EatRules, TokenRules, EOF
  <2> HIDE DEF typed, expr, sign
  <2>4. Moves(typed || expr || StandardEntry(g), {"}"})
    BY <1>1, <1>9, <2>2, <1>0 DEF MoveRules, EatRules, Eats, Fine
  <2>5. Fine(typed || expr || StandardEntry(g), m)
    BY <1>1, <1>9, <2>2 DEF EatRules
  <2>6. Fine(PlainEntry(g), m)
    BY <1>1, <2>1, <2>3, <2>5 DEF EatRules
  <2>7. Moves(PlainEntry(g), {"}"})
    BY <2>1, <2>3, <2>4, <2>5, <1>0 DEF MoveRules, Fine
  <2> QED
    BY <2>6, <2>7
<1>11. ASSUME NEW w
       PROVE  Fine(BitfieldEntryAt(g, w, PlainEntry(g)), m) /\
              Moves(BitfieldEntryAt(g, w, PlainEntry(g)), {"}"})
  <2> DEFINE if == Try(Placeholder("__if__", g["if"]))
             match == Try(Placeholder("__match__", BitfieldMatch(g)))
             padding == Try(PaddingEntry(g))
             bytes == Try(g["padding"])
             plain == PlainEntry(g)
  <2>1. /\ Eats(if, m) /\ Eats(match, m) /\ Eats(padding, m) /\ Eats(bytes, m)
        /\ Eats(T(";"), m)
    BY <1>1, <1>3, <1>6 DEF EatRules, TokenRules, EOF
  <2>2. BitfieldEntryAt(g, w, plain) \in
          {T(";"), if || plain, match || plain, padding || bytes || plain, plain}
    BY DEF BitfieldEntryAt
  <2> HIDE DEF if, match, padding, bytes, plain
  <2>3. Fine(plain, m) /\ Moves(plain, {"}"})
    BY <1>10 DEF plain
  <2>4. \A a : Eats(a, m) => Fine(a || plain, m) /\ Moves(a || plain, {"}"})
    BY <1>1, <2>3, <1>0 DEF MoveRules, EatRules, Eats, Fine
  <2>5. Eats(padding || bytes, m)
    BY <1>1, <2>1 DEF EatRules
  <2>6. Moves(T(";"), {"}"}) /\ Fine(T(";"), m)
    BY <1>1, <2>1, <1>0 DEF MoveRules, EatRules, Eats
  <2> QED
    BY <2>1, <2>2, <2>3, <2>4, <2>5, <2>6 DEF plain
<1>12. Fine(BitfieldEntry(g), m) /\ Moves(BitfieldEntry(g), {"}"})
  <2> DEFINE e(w) == BitfieldEntryAt(g, w, PlainEntry(g))
  <2>1. \A p \in Positions : BitfieldEntry(g)[p] = e(At(p))[p]
    BY DEF BitfieldEntry
  <2>2. \A w : Fine(e(w), m) /\ Moves(e(w), {"}"})
    BY <1>11
  <2> HIDE DEF e
  <2> QED
    BY <2>1, <2>2 DEF Fine, Parses, Returns, Moves
<1> QED
  BY <1>12, <1>0 DEF MoveRules, BitfieldBody

\* The statements, and a body of them.
LEMMA StatementsEat ==
  ASSUME IsText, NEW g, NEW m \in Nat, Within(g, m + 1)
  PROVE  /\ Eats(IfStmt(g), m) /\ Eats(WhileStmt(g), m) /\ Eats(ForStmt(g), m)
         /\ Eats(MatchStmt(g), m) /\ Eats(ReturnStmt(g), m) /\ Eats(Padding(g), m)
         /\ Eats(TryCatch(g), m)
<1>1. EatRules(m, m + 1) /\ TokenRules(m) /\ EatRules(m + 1, m + 1) /\ TokenRules(m + 1)
  BY Eating, TokensEat
<1>2. /\ Eats(g["expr"], m + 1) /\ Eats(g["statement"], m + 1) /\ Eats(g["if"], m + 1)
      /\ Fine(g["body"], m + 1)
  BY DEF Within, Functions_, Idle
<1>3. Fine(Block(g), m + 1) /\ Fine(ParenExpr(g), m + 1)
  BY <1>1, <1>2 DEF EatRules, TokenRules, Block, ParenExpr, EOF
<1>4. Fine(Else(g), m + 1)
  BY <1>1, <1>2, <1>3 DEF EatRules, TokenRules, Else, EOF
<1>5. Eats(IfStmt(g), m) /\ Eats(WhileStmt(g), m)
  BY <1>1, <1>3, <1>4 DEF EatRules, TokenRules, IfStmt, WhileStmt, EOF
<1>6. Eats(ForStmt(g), m)
  BY <1>1, <1>2, <1>3 DEF EatRules, TokenRules, ForStmt, EOF
<1>7. Eats(MatchStmt(g), m)
  BY <1>3, DefinitionsEat DEF MatchStmt
<1>8. Eats(ReturnStmt(g), m) /\ Eats(Padding(g), m)
  BY <1>1, <1>2 DEF EatRules, TokenRules, ReturnStmt, Padding, EOF
<1>9. Eats(TryCatch(g), m)
  BY <1>1, <1>3 DEF EatRules, TokenRules, TryCatch, EOF
<1> QED
  BY <1>5, <1>6, <1>7, <1>8, <1>9

\* Functions that start with a token of their own.
Led == {"struct", "union", "enum", "bitfield", "using", "fn", "namespace", "if", "while", "for",
        "match", "return", "padding", "try", "preprocessor", "import"}

LEMMA DeclarationsEat ==
  ASSUME IsText, NEW g, NEW m \in Nat, Within(g, m + 1), Eats(g["type"], m), Eats(g["expr"], m)
  PROVE  /\ Eats(VarDecl(g), m) /\ Eats(ItemAssign(g), m) /\ Eats(StatementAssign(g), m)
         /\ Eats(DollarAssign(g), m) /\ Eats(VarDeclOrExpr(g), m) /\ Eats(ExprStmt(g), m)
<1>1. EatRules(m, m + 1) /\ TokenRules(m) /\ EatRules(m + 1, m + 1) /\ TokenRules(m + 1)
  BY Eating, TokensEat
<1>2. /\ Eats(g["expr"], m + 1) /\ Eats(g["type"], m + 1) /\ Fine(AttrsEnd(g), m + 1)
  BY PartsEat DEF Within, Functions_, Idle
<1>3. Fine(ArraySize(g), m + 1)
  BY <1>1, <1>2 DEF EatRules, TokenRules, ArraySize, EOF
<1>4. Fine(Declarator(g), m + 1)
  BY <1>1, <1>2, <1>3 DEF EatRules, TokenRules, Declarator, EOF
<1>5. Eats(VarDecl(g), m)
  BY <1>1, <1>2, <1>4 DEF EatRules, TokenRules, VarDecl, Declared, EOF
<1>6. \A op : Eats(op, m) => Eats(Assign(g, op), m)
  BY <1>1, <1>2 DEF EatRules, TokenRules, Assign
<1>7. Eats(ItemAssign(g), m)
  <2>1. Eats(Only("=") && Give(<<"=">>), m)
    BY <1>1 DEF EatRules, TokenRules, EOF
  <2>2. /\ Eats(Kept(<<"+", "=">>), m) /\ Eats(Kept(<<"-", "=">>), m)
        /\ Eats(Kept(<<"*", "=">>), m) /\ Eats(Kept(<<"/", "=">>), m)
    BY <1>1 DEF TokenRules, EOF
  <2> QED
    BY <1>1, <1>6, <2>1, <2>2 DEF EatRules, ItemAssign
<1>8. Eats(StatementAssign(g), m)
  <2>1. /\ Eats(Kept(<<"%", "=">>), m) /\ Eats(Kept(<<"<", "<", "=">>), m)
        /\ Eats(Kept(<<">", ">", "=">>), m) /\ Eats(Kept(<<"&", "=">>), m)
        /\ Eats(Kept(<<"|", "=">>), m) /\ Eats(Kept(<<"^", "=">>), m)
    BY <1>1 DEF TokenRules, EOF
  <2> QED
    BY <1>1, <1>6, <1>7, <2>1 DEF EatRules, StatementAssign
<1>9. Eats(DollarAssign(g), m)
  BY <1>1, <1>2 DEF EatRules, TokenRules, DollarAssign, EOF
<1>10. Eats(VarDeclOrExpr(g), m)
  BY <1>1, <1>5, <1>7 DEF EatRules, TokenRules, VarDeclOrExpr
<1>11. Eats(ExprStmt(g), m)
  <2>1. Fine(Give("ExprStmt") && Semicolons, m)
    BY <1>1 DEF EatRules, TokenRules
  <2>2. Fine(StatementAssign(g) || (Give("ExprStmt") && Semicolons), m)
    BY <1>1, <1>8, <2>1 DEF EatRules
  <2> QED
    BY <1>1, <2>2 DEF EatRules, ExprStmt, Stated
<1> QED
  BY <1>5, <1>7, <1>8, <1>9, <1>10, <1>11

LEMMA StatementEats ==
  ASSUME IsText, NEW g, NEW m \in Nat, Within(g, m + 1), Eats(g["type"], m), Eats(g["expr"], m),
         \A w \in Led : Eats(g[w], m)
  PROVE  Eats(Statement(g), m)
<1>1. EatRules(m, m + 1) /\ TokenRules(m) /\ EatRules(m + 1, m + 1) /\ TokenRules(m + 1)
  BY Eating, TokensEat
<1> DEFINE plain == VarDecl(g) || ExprStmt(g)
           e(w) == StatementAt(g, w, ExprStmt(g), plain)
<1>2. /\ Eats(VarDecl(g), m) /\ Eats(DollarAssign(g), m) /\ Eats(ExprStmt(g), m)
  BY DeclarationsEat
<1>3. Eats(plain, m) /\ Fine(plain, m + 1)
  BY <1>1, <1>2 DEF EatRules
<1> HIDE DEF plain
<1>4. \A d : Eats(d, m) => Eats(Inner(d, plain), m)
  BY <1>1, <1>3 DEF EatRules, TokenRules, Inner
<1>5. Eats(Simple("BreakStmt", "break"), m) /\ Eats(Simple("ContinueStmt", "continue"), m)
  BY <1>1 DEF EatRules, TokenRules, Simple, EOF
<1>6. Eats(T("const") && plain, m) /\ Eats(DollarAssign(g) || ExprStmt(g), m)
  BY <1>1, <1>2, <1>3 DEF EatRules, TokenRules, EOF
<1>7. ASSUME NEW w PROVE Eats(e(w), m)
  <2>1. \/ /\ w \in {"struct", "union", "enum", "fn", "using", "namespace", "bitfield"}
           /\ e(w) = Inner(g[w], plain)
        \/ e(w) = Inner(g["preprocessor"], plain)
        \/ /\ w \in {"if", "while", "for", "match", "return", "padding", "try"}
           /\ e(w) = g[w]
        \/ e(w) = Simple("BreakStmt", "break")
        \/ e(w) = Simple("ContinueStmt", "continue")
        \/ e(w) = (T("const") && plain)
        \/ e(w) = (DollarAssign(g) || ExprStmt(g))
        \/ e(w) = plain
    BY DEF StatementAt
  <2> HIDE DEF e
  <2>2. /\ Eats(g["preprocessor"], m)
        /\ \A v \in {"struct", "union", "enum", "fn", "using", "namespace", "bitfield"} :
             Eats(g[v], m)
        /\ \A v \in {"if", "while", "for", "match", "return", "padding", "try"} : Eats(g[v], m)
    BY DEF Led
  <2> QED
    BY <1>3, <1>4, <1>5, <1>6, <2>1, <2>2
<1>8. \A p \in Positions : Statement(g)[p] = e(At(p))[p]
  BY DEF Statement, plain
<1> HIDE DEF e
<1> QED
  BY <1>7, <1>8 DEF Eats, Fine, Parses, Returns, Consumes

\* Where every statement moves the cursor, the second way on is never taken.
LEMMA BodyReturns ==
  ASSUME IsText, NEW g, NEW m \in Nat, Eats(g["statement"], m)
  PROVE  Fine(Body(g), m)
<1> DEFINE any == AnyAtom && Blanks
           failed == ScanTo({";", "}"}) && Opt(T(";"))
           round == Progress(g["statement"], any, failed)
<1>1. EatRules(m, m) /\ TokenRules(m) /\ MoveRules({"}"})
  BY Eating, TokensEat, Moving
<1>2. Eats(any, m) /\ Fine(failed, m) /\ Moves(failed, {"}"})
  BY <1>1, ScansMove DEF EatRules, TokenRules, EOF
<1>3. Body(g) = Many(Not(Stop({"}"})) && Progress(g["statement"], Clipped(g) || failed, failed))
  BY DEF Body
<1> HIDE DEF any, failed
<1>4. Progress(g["statement"], Clipped(g) || failed, failed) = round
  BY DEF Progress, Eats, Consumes
<1>5. Fine(round, m)
  BY <1>1, <1>2, CombinatorParses, CombinatorReturns DEF EatRules, Fine
<1>6. Moves(round, {"}"})
  BY <1>1, <1>2 DEF MoveRules, Eats, Fine
<1> HIDE DEF round
<1> QED
  BY <1>1, <1>3, <1>4, <1>5, <1>6 DEF MoveRules

\* Directives, imports and the items of a file.
LEMMA DirectivesEat ==
  ASSUME IsText, NEW g, NEW m \in Nat, Within(g, m + 1)
  PROVE  Eats(Preprocessor(g), m) /\ Eats(Import, m)
<1>1. EatRules(m, m + 1) /\ TokenRules(m) /\ EatRules(m + 1, m + 1) /\ TokenRules(m + 1)
  BY Eating, TokensEat
<1>2. Eats(g["item"], m + 1)
  BY DEF Within, Functions_, Idle
<1>3. Eats(Pragma, m + 1) /\ Eats(Define, m + 1)
  BY <1>1 DEF EatRules, TokenRules, Pragma, Define, EOF
<1>4. Eats(Include, m + 1)
  <2>1. Fine(If(T("<"), T("<") && ScanKept({">"}) && Opt(T(">")),
                AnyAtom && ScanKept({Quote}) && Opt(T(Quote))), m + 1)
    BY <1>1, Atoms DEF EatRules, TokenRules, EOF
  <2> QED
    BY <1>1, <2>1 DEF EatRules, TokenRules, Include, EOF
<1>5. Eats(IfDef(g), m + 1)
  <2>1. EatRules(m + 1, m + 2) /\ EOF \notin {"else"} /\ EOF \notin {"ifdef", "ifndef"}
    BY Eating DEF EOF
  <2>2. \A words : EOF \notin words => Eats(Hash(words), m + 1)
    BY <1>1, <2>1 DEF EatRules, TokenRules, Hash, EOF
  <2>3. Eats(Placeholder("else", Hash({"else"})) || g["item"], m + 1)
    BY <1>1, <1>2, <2>1, <2>2 DEF EatRules, TokenRules
  <2>4. Fine(IfDefEnd, m + 1)
    <3>1. EOF \notin {"endif"}
      BY DEF EOF
    <3> QED
      BY <1>1, <2>2, <3>1 DEF EatRules, TokenRules, IfDefEnd
  <2> QED
    BY <1>1, <2>1, <2>3, <2>4 DEF EatRules, TokenRules, IfDef
<1>6. ASSUME NEW w PROVE Eats(DirectiveAt(g, w), m + 1)
  <2>1. Eats(Drop(Name), m + 1) /\ Eats(Drop(RawName) && ScanTo({NewLine}) && Blanks, m + 1)
    BY <1>1 DEF EatRules, TokenRules
  <2> QED
    BY <1>3, <1>4, <1>5, <2>1 DEF DirectiveAt
<1>7. Eats(Directive(g), m + 1)
  BY <1>6 DEF Directive, Eats, Fine, Parses, Returns, Consumes
<1>8. Eats(Preprocessor(g), m)
  <2>1. Eats(Try(Raw(<<"#">>) && Not(Not(Name))), m)
    BY <1>1 DEF EatRules, TokenRules, EOF
  <2> QED
    BY <1>1, <1>7, <2>1 DEF EatRules, Preprocessor
<1>9. Eats(Import, m)
  BY <1>1 DEF EatRules, TokenRules, Import, EOF
<1> QED
  BY <1>8, <1>9

LEMMA ItemEats ==
  ASSUME IsText, NEW g, NEW m \in Nat, Within(g, m + 1), Eats(g["type"], m), Eats(g["expr"], m),
         \A w \in Led : Eats(g[w], m)
  PROVE  Eats(Item(g), m)
<1>1. EatRules(m, m + 1) /\ TokenRules(m)
  BY Eating, TokensEat
<1> DEFINE plain == VarDeclOrExpr(g)
           e(w) == ItemAt(g, w, plain)
<1>2. Eats(plain, m) /\ Fine(plain, m + 1)
  BY <1>1, DeclarationsEat DEF EatRules
<1> HIDE DEF plain
<1>3. Eats(T("const") && plain, m)
  BY <1>1, <1>2 DEF EatRules, TokenRules, EOF
<1>4. Eats(If(Name && T("namespace"), g["namespace"], plain), m)
  <2>1. Eats(g["namespace"], m)
    BY DEF Led
  <2> QED
    BY <1>1, <1>2, <2>1 DEF EatRules, TokenRules, EOF
<1>5. ASSUME NEW w PROVE Eats(e(w), m)
  <2>1. \/ /\ w \in {"import", "struct", "union", "enum", "bitfield", "using", "fn",
                     "namespace", "if", "while", "for", "match"}
           /\ e(w) = g[w]
        \/ e(w) = g["preprocessor"]
        \/ e(w) = (T("const") && plain)
        \/ e(w) = If(Name && T("namespace"), g["namespace"], plain)
        \/ e(w) = plain
    BY DEF ItemAt
  <2> HIDE DEF e
  <2>2. /\ Eats(g["preprocessor"], m)
        /\ \A v \in {"import", "struct", "union", "enum", "bitfield", "using", "fn",
                     "namespace", "if", "while", "for", "match"} : Eats(g[v], m)
    BY DEF Led
  <2> QED
    BY <1>2, <1>3, <1>4, <2>1, <2>2
<1>6. \A p \in Positions : Item(g)[p] = e(At(p))[p]
  BY DEF Item, plain
<1> HIDE DEF e
<1> QED
  BY <1>5, <1>6 DEF Eats, Fine, Parses, Returns, Consumes

-----------------------------------------------------------------------------
(* Ends: a function of rank k calls, where it was called itself, functions *)
(* of lower ranks only, and any function once it has moved.  There are     *)
(* five ranks, so five nested calls get past an atom.                      *)

Rank(f) ==
  CASE f = "unary" -> 1
    [] f = "expr" -> 2
    [] f \in {"statement", "item", "bitfield_body"} -> 3
    [] f = "body" -> 4
    [] OTHER -> 0

Well(f, e, m) == Fine(e, m) /\ (f \notin Idle => Eats(e, m))

LEMMA GrammarEats ==
  ASSUME IsText, ~Trap, NEW g, TypeAsked(g["type"]), NEW m \in Nat, Within(g, m + 1),
         NEW f \in Functions_,
         \A h \in Functions_ : Rank(h) < Rank(f) => Well(h, g[h], m)
  PROVE  Well(f, Grammar(g)[f], m)
<1>1. EatRules(m, m + 1)
  BY Eating
<1>2. \A e : Eats(e, m) => Well(f, e, m)
  BY <1>1 DEF EatRules, Well
<1>3. \A h \in Functions_ \ Idle : Rank(h) < Rank(f) => Eats(g[h], m)
  BY DEF Well
<1>4. CASE f \in {"type", "unary", "primary"}
  <2>1. Eats(Type(g), m) /\ Eats(Primary(g), m)
    BY TypeEats, ExprEats
  <2>2. f = "unary" => Eats(Unary(g), m)
    <3>1. f = "unary" => Eats(g["primary"], m)
      BY <1>3 DEF Functions_, Idle, Rank
    <3> QED
      BY <3>1, ExprEats
  <2> QED
    BY <1>2, <1>4, <2>1, <2>2 DEF Grammar, Functions_
<1>5. CASE f = "expr"
  <2>1. Eats(g["unary"], m)
    BY <1>3, <1>5 DEF Functions_, Idle, Rank
  <2>2. Eats(Ternary(g), m)
    BY <2>1, ExprEats
  <2> QED
    BY <1>2, <1>5, <2>2 DEF Grammar, Functions_
<1>6. CASE f \in {"attributes", "ifdef_rest"}
  <2>1. Fine(Attributes(g), m) /\ Fine(IfDefRest(g), m)
    BY PartsEat
  <2> QED
    BY <1>6, <2>1 DEF Grammar, Functions_, Well, Idle
<1>7. CASE f \in {"struct", "union", "enum", "bitfield", "using", "fn", "namespace"}
  <2>1. /\ Eats(Struct(g), m) /\ Eats(Union(g), m) /\ Eats(Enum(g), m) /\ Eats(Bitfield(g), m)
        /\ Eats(Using(g), m) /\ Eats(Fn(g), m) /\ Eats(Namespace(g), m)
    BY DefinitionsEat
  <2> QED
    BY <1>2, <1>7, <2>1 DEF Grammar, Functions_
<1>8. CASE f \in {"if", "while", "for", "match", "return", "padding", "try"}
  <2>1. /\ Eats(IfStmt(g), m) /\ Eats(WhileStmt(g), m) /\ Eats(ForStmt(g), m)
        /\ Eats(MatchStmt(g), m) /\ Eats(ReturnStmt(g), m) /\ Eats(Padding(g), m)
        /\ Eats(TryCatch(g), m)
    BY StatementsEat
  <2> QED
    BY <1>2, <1>8, <2>1 DEF Grammar, Functions_
<1>9. CASE f \in {"preprocessor", "import"}
  <2>1. Eats(Preprocessor(g), m) /\ Eats(Import, m)
    BY DirectivesEat
  <2> QED
    BY <1>2, <1>9, <2>1 DEF Grammar, Functions_
<1>10. CASE f \in {"statement", "item", "bitfield_body"}
  <2>1. Eats(g["expr"], m) /\ Eats(g["type"], m)
    BY <1>3, <1>10 DEF Functions_, Idle, Rank
  <2>2. \A w \in Led : Eats(g[w], m)
    <3>1. \A w \in Led : w \in Functions_ \ Idle /\ Rank(w) = 0
      BY DEF Led, Functions_, Idle, Rank
    <3>2. Rank(f) = 3
      BY <1>10 DEF Rank
    <3> QED
      BY <1>3, <3>1, <3>2
  <2>3. Eats(g["if"], m) /\ Eats(g["padding"], m)
    BY <2>2 DEF Led
  <2>4. Eats(Statement(g), m) /\ Eats(Item(g), m) /\ Fine(BitfieldBody(g), m)
    BY <2>1, <2>2, <2>3, StatementEats, ItemEats, BitfieldBodyReturns
  <2> QED
    BY <1>2, <1>10, <2>4 DEF Grammar, Functions_, Well, Idle
<1>11. CASE f = "body"
  <2>1. Eats(g["statement"], m)
    BY <1>3, <1>11 DEF Functions_, Idle, Rank
  <2>2. Fine(Body(g), m)
    BY <2>1, BodyReturns
  <2> QED
    BY <1>11, <2>2 DEF Grammar, Functions_, Well, Idle
<1> QED
  BY <1>4, <1>5, <1>6, <1>7, <1>8, <1>9, <1>10, <1>11 DEF Functions_

\* The calls that may be nested below a function from a position on.
Calls(f, q) == 5 * (Len(text) + 1 - q) + Rank(f) + 1

\* What the functions do whose calls nest up to n deep.
Answers(n) ==
  /\ TypeAsked(Nested[n]["type"])
  /\ \A f \in Functions_ \ Idle : Consumes(Nested[n][f])
  /\ \A f \in Functions_, q \in Positions : Calls(f, q) <= n => Returns(Nested[n][f], q)

LEMMA RankType == \A f : Rank(f) \in 0 .. 4
BY DEF Rank

LEMMA DeeperEnds ==
  ASSUME IsText, ~Trap, NEW n \in 0 .. Depth, n # 0, Answers(n - 1)
  PROVE  Answers(n)
<1> DEFINE g == Nested[n - 1]
<1>1. n \in Nat /\ n - 1 \in 0 .. Depth /\ Nested[n] = Grammar(g)
  BY NestedEquation, DepthAssumption
<1>2. /\ \A f \in Functions_ : Parses(g[f])
      /\ \A f \in Functions_ \ Idle : Consumes(g[f])
      /\ \A f \in Functions_, q \in Positions : Calls(f, q) <= n - 1 => Returns(g[f], q)
      /\ TypeAsked(g["type"])
  BY <1>1, NestedParses DEF AllParse, Answers
<1> HIDE DEF g
<1>3. \A f : \A q \in Nat : q > Len(text) + 1 => Returns(f, q)
  BY Bounds DEF Returns
<1>4. ASSUME NEW q \in Nat, \A f \in Functions_ : Returns(g[f], q)
      PROVE  Within(g, q)
  BY <1>2, <1>4 DEF Within, Fine, Eats
<1>5. \A f \in Functions_ \ Idle : Consumes(Grammar(g)[f])
  <2> DEFINE m == Len(text) + 2
  <2>1. m \in Nat /\ m + 1 \in Nat /\ m > Len(text) + 1 /\ m + 1 > Len(text) + 1
    BY Bounds
  <2>2. Within(g, m + 1) /\ Within(g, m)
    BY <1>3, <1>4, <2>1
  <2>3. \A h \in Functions_ : Well(h, g[h], m)
    BY <2>2 DEF Within, Well
  <2> HIDE DEF m
  <2>4. \A f \in Functions_ : Well(f, Grammar(g)[f], m)
    BY <1>2, <2>1, <2>2, <2>3, GrammarEats
  <2> QED
    BY <2>4 DEF Well, Eats
<1>6. TypeAsked(Grammar(g)["type"])
  <2>1. Grammar(g)["type"] = Type(g)
    BY DEF Grammar, Functions_
  <2> QED
    BY <1>2, <2>1, TypeEats
<1>7. ASSUME NEW f \in Functions_, NEW q \in Positions, Calls(f, q) <= n
      PROVE  Returns(Grammar(g)[f], q)
  <2>1. q \in Nat /\ q + 1 \in Nat /\ Len(text) \in Nat /\ q <= Len(text) + 1
    BY Bounds
  <2>2. ASSUME NEW h \in Functions_ PROVE Returns(g[h], q + 1)
    <3>1. CASE q = Len(text) + 1
      BY <1>3, <2>1, <3>1
    <3>2. CASE q # Len(text) + 1
      <4>1. q + 1 \in Positions
        BY <2>1, <3>2, Bounds
      <4>2. Calls(h, q + 1) <= n - 1
        BY <1>1, <1>7, <2>1, RankType DEF Calls
      <4> QED
        BY <1>2, <4>1, <4>2
    <3> QED
      BY <3>1, <3>2
  <2>3. Within(g, q + 1)
    BY <1>4, <2>1, <2>2
  <2>4. ASSUME NEW h \in Functions_, Rank(h) < Rank(f) PROVE Well(h, g[h], q)
    <3>1. Calls(h, q) <= n - 1
      BY <1>1, <1>7, <2>1, <2>4, RankType DEF Calls
    <3> QED
      BY <1>2, <3>1 DEF Well, Fine, Eats
  <2>5. Well(f, Grammar(g)[f], q)
    BY <1>2, <2>1, <2>3, <2>4, GrammarEats
  <2> QED
    BY <2>5 DEF Well, Fine
<1> QED
  BY <1>1, <1>5, <1>6, <1>7 DEF Answers

LEMMA NestedEnds ==
  ASSUME IsText, ~Trap
  PROVE  \A n \in 0 .. Depth : Answers(n)
<1> DEFINE N == {n \in 0 .. Depth : ~ Answers(n)}
<1>1. SUFFICES ASSUME N # {} PROVE FALSE
  OBVIOUS
<1>2. PICK x \in N : \A y \in N : x <= y
  <2>1. N \subseteq Nat
    OBVIOUS
  <2> HIDE DEF N
  <2> QED
    BY <1>1, <2>1, LeastNumber
<1>3. CASE x = 0
  <2>1. Nested[x] = TooDeep
    BY <1>2, <1>3, NestedEquation
  <2>2. \A f \in Functions_ : \A p \in Positions : TooDeep[f][p].st = "hang" /\ TooDeep[f][p].p = p
    BY DEF TooDeep, Hang, Result
  <2>3. \A f \in Functions_ : Parses(TooDeep[f]) /\ Consumes(TooDeep[f]) /\ TypeAsked(TooDeep[f])
    BY <2>2, Bounds DEF Parses, Restores, Consumes, Balances, Named, TypeAsked
  <2>4. "type" \in Functions_
    BY DEF Functions_
  <2>5. ASSUME NEW f \in Functions_, NEW q \in Positions PROVE ~(Calls(f, q) <= 0)
    BY RankType, Bounds DEF Calls
  <2>6. Answers(0)
    BY <1>3, <2>1, <2>3, <2>4, <2>5 DEF Answers
  <2> QED
    BY <1>2, <1>3, <2>6
<1>4. CASE x # 0
  <2>1. x - 1 \in 0 .. Depth /\ Answers(x - 1)
    BY <1>2, <1>4, DepthAssumption
  <2>2. Answers(x)
    BY <1>2, <1>4, <2>1, DeeperEnds
  <2> QED
    BY <1>2, <2>2
<1> QED
  BY <1>3, <1>4

\* The call of the parser's loop comes back.
LEMMA ItemReturns ==
  ASSUME IsText, ~Trap, 5 * Len(text) + 4 <= Depth, NEW p \in Positions
  PROVE  Parser["item"][p].st # "hang"
<1>1. "item" \in Functions_ /\ Rank("item") = 3 /\ Depth \in 0 .. Depth
  BY DepthAssumption DEF Functions_, Rank
<1>2. Calls("item", p) <= Depth
  BY <1>1, Bounds, DepthAssumption DEF Calls
<1>3. Returns(Parser["item"], p)
  BY <1>1, <1>2, NestedEnds DEF Answers, Parser
<1> QED
  BY <1>3, Bounds DEF Returns

\* Whatever file is given, none of the parser's inner loops goes round for ever, but
\* behind one of the three traps, and five nested calls per atom are enough.
THEOREM EndsAlways == Spec => []Ends
<1>1. TypeOK /\ Init => Ends
  BY DEF Init, Ends
<1>2. TypeOK /\ Ends /\ [Next]_vars => Ends'
  <2> SUFFICES ASSUME TypeOK, Ends, [Next]_vars, ~Trap', (5 * Len(text) + 4 <= Depth)'
               PROVE  status' # "looping"
    BY DEF Ends
  <2>1. text' = text
    BY DEF Next, StraySemicolon, ParseItem, EndOfFile, vars
  <2>2. ~Trap /\ 5 * Len(text) + 4 <= Depth
    <3>1. \A p : At(p)' = At(p)
      BY <2>1 DEF At
    <3>2. \A p : Skip(p)' = Skip(p)
      BY <2>1 DEF Skip, At
    <3>3. \A a, p : Count(a, p)' = Count(a, p)
      BY <2>1 DEF Count
    <3>4. Trap' <=> Trap
      BY <2>1, <3>1, <3>2, <3>3 DEF Trap
    <3> QED
      BY <2>1, <3>4
  <2>3. IsText /\ pos \in Positions /\ status # "looping"
    BY <2>2 DEF TypeOK, IsText, Ends
  <2>4. Parser["item"][pos].st # "hang"
    BY <2>2, <2>3, ItemReturns
  <2>5. CASE ParseItem
    BY <2>3, <2>4, <2>5 DEF ParseItem
  <2>6. CASE StraySemicolon \/ EndOfFile \/ UNCHANGED vars
    BY <2>3, <2>6 DEF StraySemicolon, EndOfFile, vars
  <2> QED
    BY <2>5, <2>6 DEF Next
<1> QED
  BY <1>1, <1>2, ParserTypeCorrect, PTL DEF Spec

=============================================================================
