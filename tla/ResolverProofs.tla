--------------------------- MODULE ResolverProofs ---------------------------
(***************************************************************************)
(* Theorems about Resolver, for every set of names, every set of files and *)
(* every limit of the recursion.                                           *)
(***************************************************************************)
EXTENDS Resolver, SequenceTheorems, FiniteSetTheorems, WellFoundedInduction, TLAPS

USE NamesAssumption, DepthAssumption

(***************************************************************************)
(* The fields of a member list.  FlattenSeq is a recursive function, and   *)
(* that it is one is shown by induction on the length.                     *)
(***************************************************************************)

\* Every set of natural numbers has a least one.
LEMMA LeastNumber ==
  ASSUME NEW T, T \subseteq Nat, T # {}
  PROVE  \E x \in T : \A y \in T : x <= y
<1> DEFINE R == OpToRel(<, Nat)
<1>1. IsWellFoundedOn(R, Nat)
  BY NatLessThanWellFounded
<1>2. PICK x \in T : \A y \in T : ~(<<y, x>> \in R)
  <2> HIDE DEF R
  <2>1. QED
    BY <1>1, WFMin
<1>3. \A y \in T : ~(y < x)
  BY <1>2 DEF OpToRel
<1>4. QED
  BY <1>3

FlatBody(ss, f) == [i \in 1 .. Len(ss) |-> IF i = 1 THEN ss[i] ELSE f[i - 1] \o ss[i]]

LEMMA FlattenChosen ==
  ASSUME NEW ss, Len(ss) # 0, NEW f, f = FlatBody(ss, f)
  PROVE  \E g : g = FlatBody(ss, g) /\ FlattenSeq(ss) = g[Len(ss)]
<1> DEFINE g == CHOOSE h : h = FlatBody(ss, h)
<1>1. g = FlatBody(ss, g)
  OBVIOUS
<1>2. FlattenSeq(ss) = g[Len(ss)]
  BY DEF FlattenSeq, FlatBody
<1>3. QED
  BY <1>1, <1>2

\* The first m sequences can be joined.
JoinsTo(ss, f, m, S) ==
  /\ f \in [1 .. m -> Seq(S)]
  /\ \A i \in 1 .. m : f[i] = IF i = 1 THEN ss[i] ELSE f[i - 1] \o ss[i]

LEMMA JoinExists ==
  ASSUME NEW S, NEW ss \in Seq(Seq(S))
  PROVE  \A m \in 1 .. Len(ss) : \E f : JoinsTo(ss, f, m, S)
<1> DEFINE T == {m \in 1 .. Len(ss) : ~ \E f : JoinsTo(ss, f, m, S)}
<1>1. SUFFICES ASSUME T # {} PROVE FALSE
  OBVIOUS
<1>2. PICK x \in T : \A y \in T : x <= y
  <2>1. T \subseteq Nat
    OBVIOUS
  <2> HIDE DEF T
  <2>2. QED
    BY <1>1, <2>1, LeastNumber
<1>3. x \in Nat /\ x \in 1 .. Len(ss) /\ ss[x] \in Seq(S) /\ ~ \E f : JoinsTo(ss, f, x, S)
  BY <1>2
<1>4. CASE x = 1
  <2> DEFINE f == [i \in 1 .. 1 |-> ss[1]]
  <2>1. ss[1] \in Seq(S) /\ \A i \in 1 .. 1 : i = 1
    BY <1>3, <1>4
  <2>2. f \in [1 .. 1 -> Seq(S)]
    BY <2>1
  <2>3. \A i \in 1 .. 1 : f[i] = IF i = 1 THEN ss[i] ELSE f[i - 1] \o ss[i]
    <3>1. ASSUME NEW i \in 1 .. 1
          PROVE  f[i] = ss[i] /\ i = 1
      BY <2>1
    <3>2. QED
      BY <3>1
  <2> HIDE DEF f
  <2>4. JoinsTo(ss, f, 1, S)
    BY <2>2, <2>3 DEF JoinsTo
  <2>5. QED
    BY <1>3, <1>4, <2>4
<1>5. CASE x # 1
  <2>1. x - 1 \in 1 .. Len(ss) /\ x - 1 \notin T
    <3>1. Len(ss) \in Nat /\ ~(x <= x - 1)
      BY <1>3
    <3>2. x - 1 \in 1 .. Len(ss)
      BY <1>3, <1>5, <3>1
    <3> HIDE DEF T
    <3>3. x - 1 \notin T
      BY <1>2, <3>1
    <3>4. QED
      BY <3>2, <3>3
  <2>2. PICK f : JoinsTo(ss, f, x - 1, S)
    BY <2>1
  <2> DEFINE g == [i \in 1 .. x |-> IF i = x THEN f[x - 1] \o ss[x] ELSE f[i]]
  <2>3. f[x - 1] \o ss[x] \in Seq(S)
    <3>1. f[x - 1] \in Seq(S)
      BY <2>1, <2>2 DEF JoinsTo
    <3>2. QED
      BY <1>3, <3>1
  <2>4. \A i \in 1 .. x : i = x \/ i \in 1 .. x - 1
    BY <1>3
  <2>5. g \in [1 .. x -> Seq(S)]
    BY <2>2, <2>3, <2>4 DEF JoinsTo
  <2>6. ASSUME NEW i \in 1 .. x
        PROVE  g[i] = IF i = 1 THEN ss[i] ELSE g[i - 1] \o ss[i]
    <3>1. CASE i = x
      <4>1. x - 1 \in 1 .. x /\ x - 1 # x
        BY <1>3, <1>5
      <4>2. QED
        BY <1>5, <3>1, <4>1
    <3>2. CASE i \in 1 .. x - 1
      <4>1. i # x /\ (i = 1 \/ (i - 1 \in 1 .. x /\ i - 1 # x))
        BY <1>3, <3>2
      <4>2. f[i] = IF i = 1 THEN ss[i] ELSE f[i - 1] \o ss[i]
        BY <2>2, <3>2 DEF JoinsTo
      <4>3. QED
        BY <4>1, <4>2
    <3>3. QED
      BY <2>4, <3>1, <3>2
  <2>7. JoinsTo(ss, g, x, S)
    BY <2>5, <2>6 DEF JoinsTo
  <2>8. QED
    BY <1>3, <2>7
<1>6. QED
  BY <1>4, <1>5

\* Two functions that obey the equations agree.
LEMMA JoinUnique ==
  ASSUME NEW S, NEW ss \in Seq(Seq(S)), NEW f, JoinsTo(ss, f, Len(ss), S),
         NEW g, g = FlatBody(ss, g)
  PROVE  \A m \in 1 .. Len(ss) : g[m] = f[m]
<1> DEFINE T == {m \in 1 .. Len(ss) : g[m] # f[m]}
<1>1. SUFFICES ASSUME T # {} PROVE FALSE
  OBVIOUS
<1>2. PICK x \in T : \A y \in T : x <= y
  <2>1. T \subseteq Nat
    OBVIOUS
  <2> HIDE DEF T
  <2>2. QED
    BY <1>1, <2>1, LeastNumber
<1>3. x \in 1 .. Len(ss) /\ g[x] # f[x]
  OBVIOUS
<1>4. g[x] = IF x = 1 THEN ss[x] ELSE g[x - 1] \o ss[x]
  BY <1>3 DEF FlatBody
<1>5. f[x] = IF x = 1 THEN ss[x] ELSE f[x - 1] \o ss[x]
  BY <1>3 DEF JoinsTo
<1>6. x # 1 => x - 1 \in 1 .. Len(ss) /\ ~(x <= x - 1)
  BY <1>3
<1>7. x # 1 => g[x - 1] = f[x - 1]
  BY <1>2, <1>6
<1>8. QED
  BY <1>3, <1>4, <1>5, <1>7

\* Joining sequences over a set gives a sequence over that set.
LEMMA FlattenType ==
  ASSUME NEW S, NEW ss \in Seq(Seq(S))
  PROVE  FlattenSeq(ss) \in Seq(S)
<1>1. CASE Len(ss) = 0
  <2>1. ss = << >>
    BY <1>1, EmptySeq
  <2>2. FlattenSeq(ss) = << >>
    BY <1>1, <2>1 DEF FlattenSeq
  <2>3. QED
    BY <2>2
<1>2. CASE Len(ss) # 0
  <2>1. Len(ss) \in 1 .. Len(ss)
    BY <1>2
  <2>2. PICK f : JoinsTo(ss, f, Len(ss), S)
    BY <2>1, JoinExists
  <2>3. f = FlatBody(ss, f)
    BY <2>2 DEF JoinsTo, FlatBody
  <2>4. PICK g : g = FlatBody(ss, g) /\ FlattenSeq(ss) = g[Len(ss)]
    BY <1>2, <2>3, FlattenChosen
  <2>5. g[Len(ss)] = f[Len(ss)]
    BY <2>1, <2>2, <2>4, JoinUnique
  <2>6. QED
    BY <2>1, <2>2, <2>4, <2>5 DEF JoinsTo
<1>3. QED
  BY <1>1, <1>2

Conditionals == [is : {"cond"}, fields : Seq(Fields)]

\* Fields() of a member list is a list of fields.
LEMMA FieldsOfType ==
  ASSUME NEW ms \in Seq(Members)
  PROVE  FieldsOf(ms) \in Seq(Fields)
<1> DEFINE part(m) == CASE m.is = "field" -> <<m>>
                        [] m.is = "cond"  -> m.fields
                        [] m.is = "pad"   -> << >>
<1> DEFINE parts == [k \in DOMAIN ms |-> part(ms[k])]
<1>1. ASSUME NEW m \in Members
      PROVE  part(m) \in Seq(Fields)
  <2>1. CASE m \in Fields
    <3>1. m.is = "field"
      BY <2>1 DEF Fields
    <3>2. <<m>> \in Seq(Fields)
      BY <2>1
    <3>3. QED
      BY <3>1, <3>2
  <2>2. CASE m \in Pads
    BY <2>2 DEF Pads
  <2>3. CASE m \in [is : {"cond"}, fields : Seq(Fields)]
    BY <2>3
  <2>4. QED
    BY <2>1, <2>2, <2>3 DEF Members
<1> HIDE DEF part
<1>2. \A k \in 1 .. Len(ms) : part(ms[k]) \in Seq(Fields)
  BY <1>1
<1>3. parts \in Seq(Seq(Fields))
  BY <1>2, IsASeq
<1>4. FieldsOf(ms) = FlattenSeq(parts)
  BY DEF FieldsOf, part
<1>5. QED
  BY <1>3, <1>4, FlattenType

-----------------------------------------------------------------------------
(***************************************************************************)
(* Types of the inputs and of the pieces of the state.                     *)
(***************************************************************************)
Structs == [members : Seq(Members), size : Nat \cup {-1}, inline : Nat]
Visits == [name : Names, todo : Seq(Fields)]
Phases == {"fields", "sort", "done", "failed", "overflow"}

\* A file is an order of names and their definitions.
LEMMA ProgType ==
  ASSUME TypeOK
  PROVE  /\ prog.order \in Seq(Names)
         /\ \A n \in Names : /\ prog.def[n] \in Defs
                             /\ prog.def[n].parent \in Names \cup {None, Missing}
                             /\ prog.def[n].body \in Seq(Decls \cup Pads \cup Ifs)
<1>1. prog \in [order : Seq(Names), def : [Names -> Defs]]
  BY ProgramsAssumption DEF TypeOK
<1>2. QED
  BY <1>1 DEF Defs

\* The newest call, and the stack without it.
LEMMA StackType ==
  ASSUME TypeOK, stack # << >>
  PROVE  /\ Len(stack) \in 1 .. MaxDepth /\ frame \in Frames
         /\ frame.name \in Names /\ frame.offset \in Nat
         /\ Front(stack) \in Seq(Frames) /\ Len(Front(stack)) <= MaxDepth
<1>1. stack \in Seq(Frames) /\ Len(stack) \in Nat /\ Len(stack) <= MaxDepth
  BY DEF TypeOK
<1>2. Len(stack) # 0
  BY <1>1, EmptySeq
<1>3. frame \in Frames
  BY <1>1, <1>2, ElementOfSeq DEF frame
<1>4. /\ SubSeq(stack, 1, Len(stack) - 1) \in Seq(Frames)
      /\ Len(SubSeq(stack, 1, Len(stack) - 1)) = Len(stack) - 1
  <2>1. 1 \in 1 .. Len(stack) + 1 /\ Len(stack) - 1 \in 1 - 1 .. Len(stack)
    BY <1>1, <1>2
  <2>2. Len(stack) - 1 + 1 - 1 = Len(stack) - 1
    BY <1>1
  <2>3. QED
    BY <1>1, <2>1, <2>2, SubSeqProperties
<1>5. QED
  BY SMTT(30), <1>1, <1>2, <1>3, <1>4 DEF Front, Frames

\* Replacing the newest frame keeps the stack's type.
LEMMA SetFrameType ==
  ASSUME TypeOK, stack # << >>, NEW f \in Frames, SetFrame(f)
  PROVE  stack' \in Seq(Frames) /\ Len(stack') <= MaxDepth
<1>1. stack \in Seq(Frames) /\ Len(stack) \in 1 .. MaxDepth
  BY StackType DEF TypeOK
<1>2. QED
  BY <1>1, ExceptSeq DEF SetFrame

\* So does a call.
LEMMA CallType_ ==
  ASSUME TypeOK, stack # << >>, NEW n \in Names, CallFrom(n)
  PROVE  stack' \in Seq(Frames) /\ Len(stack') <= MaxDepth /\ phase' \in Phases
<1>1. /\ stack \in Seq(Frames) /\ Len(stack) \in 1 .. MaxDepth /\ frame \in Frames
      /\ phase \in Phases
  BY StackType DEF TypeOK, Phases
<1>2. CASE Len(stack) < MaxDepth
  <2> DEFINE called == [frame EXCEPT !.called = TRUE]
             marked == [stack EXCEPT ![Len(stack)] = called]
  <2>1. called \in Frames
    BY <1>1 DEF Frames
  <2>2. marked \in Seq(Frames) /\ Len(marked) = Len(stack)
    BY <1>1, <2>1, ExceptSeq
  <2>3. NewFrame(n) \in Frames
    BY DEF NewFrame, Frames
  <2>4. Append(marked, NewFrame(n)) \in Seq(Frames)
        /\ Len(Append(marked, NewFrame(n))) = Len(stack) + 1
    BY <2>2, <2>3, AppendProperties
  <2>5. [stack EXCEPT ![Len(stack)].called = TRUE] = marked
    BY DEF frame
  <2>6. stack' = Append(marked, NewFrame(n)) /\ phase' = phase
    BY <1>2, <2>5 DEF CallFrom
  <2> HIDE DEF marked
  <2>7. QED
    BY <1>1, <1>2, <2>4, <2>6
<1>3. CASE ~(Len(stack) < MaxDepth)
  BY <1>1, <1>3 DEF CallFrom, Phases
<1>4. QED
  BY <1>2, <1>3

\* The declaration a frame stands at.
LEMMA DeclType ==
  ASSUME TypeOK, AtDecl
  PROVE  decl \in Decls /\ stack # << >> /\ phase = "fields"
<1>1. stack # << >> /\ phase = "fields" /\ InBody
  BY DEF AtDecl, InIf, InBody, Running
<1>2. frame \in Frames /\ def.body \in Seq(Decls \cup Pads \cup Ifs)
  BY <1>1, StackType, ProgType DEF def
<1>3. stmt \in Decls \cup Pads \cup Ifs
  BY <1>1, <1>2, ElementOfSeq DEF InBody, stmt
<1>4. CASE stmt.is = "if"
  <2>1. stmt \in Ifs
    BY <1>3, <1>4 DEF Decls, Pads
  <2>2. stmt.decls \in Seq(Decls) /\ frame.sub \in Nat \ {0}
    BY <1>2, <2>1 DEF Ifs, Frames
  <2>3. frame.sub <= Len(stmt.decls)
    BY <1>4 DEF AtDecl, InIf
  <2>4. frame.sub \in 1 .. Len(stmt.decls)
    BY <2>2, <2>3
  <2>5. stmt.decls[frame.sub] \in Decls
    BY <2>2, <2>4, ElementOfSeq
  <2>6. QED
    BY <1>1, <1>4, <2>5 DEF decl
<1>5. CASE stmt.is # "if"
  <2>1. stmt.is = "var"
    BY <1>5 DEF AtDecl, InIf
  <2>2. stmt \in Decls
    BY <1>3, <2>1 DEF Pads, Ifs
  <2>3. QED
    BY <1>1, <1>5, <2>2 DEF decl
<1>6. QED
  BY <1>4, <1>5

\* Sizes are integers, and what a field adds to the running offset is not negative.
LEMMA SizeType ==
  ASSUME TypeOK, NEW d \in Decls
  PROVE  UnitSize(d) \in Int /\ TypeSize(d) \in Int /\ Extent(d) \in Nat
<1>1. /\ d.ref \in Names \cup {None} /\ d.size \in Nat /\ d.ptr \in Nat
      /\ d.len \in Nat \cup {Single, Expr}
  BY DEF Decls
<1>2. \A n \in Names : resolved[n].size \in Int /\ resolved[n].inline \in Nat
  BY DEF TypeOK
<1>3. UnitSize(d) \in Int
  BY <1>1, <1>2 DEF UnitSize
<1>4. TypeSize(d) \in Int
  <2>1. CASE d.len \in Nat
    <3>1. d.len # Single /\ d.len # Expr /\ d.len >= 0
      BY <2>1 DEF Single, Expr
    <3>2. d.len * UnitSize(d) \in Int
      BY <1>3, <2>1
    <3>3. QED
      BY <3>1, <3>2 DEF TypeSize
  <2>2. CASE d.len = Single
    BY <1>3, <2>2 DEF TypeSize, Single, Expr
  <2>3. CASE d.len = Expr
    BY <2>3 DEF TypeSize, Single, Expr
  <2>4. QED
    BY <1>1, <2>1, <2>2, <2>3
<1>5. Kind(d) = "struct" => d.ref \in Names
  BY <1>1 DEF Kind
<1>6. Extent(d) \in Nat
  BY <1>2, <1>4, <1>5 DEF Extent
<1>7. QED
  BY <1>3, <1>4, <1>6

\* The field of a declaration, placed anywhere.
LEMMA FieldOfType ==
  ASSUME TypeOK, NEW d \in Decls
  PROVE  /\ FieldOf(d) \in Fields
         /\ \A o \in Int : [FieldOf(d) EXCEPT !.off = o] \in Fields
         /\ [FieldOf(d) EXCEPT !.remote = TRUE] \in Fields
<1>1. /\ d.ref \in Names \cup {None} /\ d.len \in Nat \cup {Single, Expr}
      /\ UnitSize(d) \in Int /\ TypeSize(d) \in Int
  BY SizeType DEF Decls
<1>2. /\ Kind(d) \in {"flat", "struct", "structs"}
      /\ Kind(d) # "flat" => d.ref \in Names
  BY <1>1 DEF Kind
<1>3. ASSUME NEW f, f.kind = Kind(d), f.ref = d.ref, f.len = d.len, f.size = TypeSize(d)
      PROVE  /\ ByValue(f) => f.ref \in Names /\ (f.kind = "struct" <=> f.len = Single)
             /\ f.len = Expr => f.size = -1
             /\ f.size < 0 => f.len = Expr \/ ByValue(f)
  <2>1. ByValue(f) => f.ref \in Names
    BY <1>2, <1>3 DEF ByValue
  <2>2. ByValue(f) => (f.kind = "struct" <=> f.len = Single)
    BY <1>3 DEF ByValue, Kind
  <2>3. f.len = Expr => f.size = -1
    BY <1>3 DEF TypeSize, Single, Expr
  <2>4. ASSUME ~ByValue(f), f.len # Expr
        PROVE  f.size >= 0
    <3>1. Kind(d) = "flat"
      BY <1>2, <1>3, <2>4 DEF ByValue
    <3>2. d.ref = None \/ d.ptr > 0
      BY <3>1 DEF Kind
    <3>3. d.size \in Nat /\ d.ptr \in Nat /\ None \notin Names
      BY NamesAssumption DEF Decls
    <3>4. UnitSize(d) \in Nat
      BY <3>2, <3>3 DEF UnitSize
    <3>5. CASE d.len = Single
      BY <1>3, <3>4, <3>5 DEF TypeSize, Single, Expr
    <3>6. CASE d.len \in Nat
      <4>1. TypeSize(d) = d.len * UnitSize(d)
        BY <3>6 DEF TypeSize, Single, Expr
      <4>2. d.len * UnitSize(d) \in Nat
        BY <3>4, <3>6
      <4>3. QED
        BY <1>3, <4>1, <4>2
    <3>7. QED
      BY <1>1, <1>3, <2>4, <3>5, <3>6
  <2>5. QED
    BY <1>1, <1>3, <2>1, <2>2, <2>3, <2>4
<1> DEFINE Shape == [is : {"field"}, ref : Names \cup {None}, kind : {"flat", "struct", "structs"},
                     size : Int, elem : Int, off : Int, len : Nat \cup {Single, Expr},
                     remote : BOOLEAN]
           OfDecl(f) == f.kind = Kind(d) /\ f.ref = d.ref /\ f.len = d.len /\ f.size = TypeSize(d)
<1>4. FieldOf(d) \in Shape /\ OfDecl(FieldOf(d))
  BY <1>1, <1>2 DEF FieldOf
<1>5. ASSUME NEW f \in Shape, OfDecl(f)
      PROVE  f \in Fields
  BY <1>3, <1>5 DEF Fields
<1>6. ASSUME NEW o \in Int
      PROVE  [FieldOf(d) EXCEPT !.off = o] \in Shape /\ OfDecl([FieldOf(d) EXCEPT !.off = o])
  BY <1>4
<1>7. [FieldOf(d) EXCEPT !.remote = TRUE] \in Shape /\ OfDecl([FieldOf(d) EXCEPT !.remote = TRUE])
  BY <1>4
<1> HIDE DEF Shape, OfDecl
<1>8. QED
  BY <1>4, <1>5, <1>6, <1>7

\* Appending members to the struct in progress and going to the next statement.
LEMMA EmitType ==
  ASSUME TypeOK, stack # << >>, NEW ms \in Seq(Members), NEW o \in Nat, Emit(ms, o)
  PROVE  TypeOK'
<1>1. frame \in Frames /\ frame.name \in Names
  BY StackType
<1>2. resolved \in [Names -> Structs]
  BY DEF TypeOK, Structs
<1>3. resolved[frame.name].members \o ms \in Seq(Members)
  BY <1>1, <1>2, ConcatProperties DEF Structs
<1>4. resolved' \in [Names -> Structs]
  BY <1>1, <1>2, <1>3 DEF Emit, Structs
<1>5. NextStatement([frame EXCEPT !.offset = o]) \in Frames
  <2>1. << >> \in Seq(Fields)
    OBVIOUS
  <2>2. frame.at + 1 \in Nat /\ 1 \in Nat \ {0}
    BY <1>1 DEF Frames
  <2>3. QED
    BY <1>1, <2>1, <2>2 DEF NextStatement, Frames
<1>6. stack' \in Seq(Frames) /\ Len(stack') <= MaxDepth
  BY <1>5, SetFrameType DEF Emit
<1>7. QED
  BY <1>4, <1>6 DEF TypeOK, Emit, sorting, Structs

\* The fields a visit still has to look at, without the first.
LEMMA RestType ==
  ASSUME TypeOK, AtDependency
  PROVE  /\ Len(dfs) \in Nat \ {0} /\ Last(dfs) = dfs[Len(dfs)]
         /\ Last(dfs).name \in Names /\ Last(dfs).todo \in Seq(Fields)
         /\ Head(Last(dfs).todo) \in Fields /\ Tail(Last(dfs).todo) \in Seq(Fields)
         /\ rest \in Seq(Visits) /\ Len(rest) = Len(dfs)
         /\ rest = [dfs EXCEPT ![Len(dfs)] = [name |-> Last(dfs).name,
                                              todo |-> Tail(Last(dfs).todo)]]
<1>1. dfs \in Seq(Visits) /\ dfs # << >> /\ Last(dfs).todo # << >>
  BY DEF TypeOK, Visits, AtDependency
<1>2. Len(dfs) \in Nat \ {0} /\ Last(dfs) = dfs[Len(dfs)]
  BY <1>1, EmptySeq DEF Last
<1>3. dfs[Len(dfs)] \in Visits
  BY <1>1, <1>2, ElementOfSeq
<1>4. Last(dfs).name \in Names /\ Last(dfs).todo \in Seq(Fields)
  BY <1>2, <1>3 DEF Visits
<1>5. Head(Last(dfs).todo) \in Fields /\ Tail(Last(dfs).todo) \in Seq(Fields)
  BY <1>1, <1>4, HeadTailProperties
<1> DEFINE v == [name |-> Last(dfs).name, todo |-> Tail(Last(dfs).todo)]
<1>6. rest = [dfs EXCEPT ![Len(dfs)] = v]
  <2>1. ASSUME NEW w \in Visits
        PROVE  [w EXCEPT !.todo = Tail(@)] = [name |-> w.name, todo |-> Tail(w.todo)]
    <3>1. ASSUME NEW t PROVE [w EXCEPT !.todo = t] = [name |-> w.name, todo |-> t]
      BY DEF Visits
    <3>2. QED
      BY <3>1
  <2>2. [dfs[Len(dfs)] EXCEPT !.todo = Tail(@)] = v
    BY <1>2, <1>3, <2>1
  <2>3. QED
    BY <2>2 DEF rest
<1>7. v \in Visits
  BY <1>4, <1>5 DEF Visits
<1>8. rest \in Seq(Visits) /\ Len(rest) = Len(dfs)
  BY <1>1, <1>2, <1>6, <1>7, ExceptSeq
<1>9. QED
  BY <1>2, <1>4, <1>5, <1>6, <1>8

\* A visit keeps the types of the depth-first search.
LEMMA VisitType ==
  ASSUME TypeOK, NEW n \in Names, NEW callers \in Seq(Visits), Visit(n, callers)
  PROVE  dfs' \in Seq(Visits) /\ visited' \subseteq Names
<1>1. CASE n \in visited
  BY <1>1 DEF Visit, TypeOK
<1>2. CASE n \notin visited
  <2> DEFINE v == [name |-> n, todo |-> FieldsOf(resolved[n].members)]
  <2>1. FieldsOf(resolved[n].members) \in Seq(Fields)
    BY FieldsOfType DEF TypeOK
  <2>2. v \in Visits
    BY <2>1 DEF Visits
  <2>3. dfs' = Append(callers, v) /\ visited' = visited \cup {n}
    BY <1>2 DEF Visit
  <2> HIDE DEF v
  <2>4. QED
    BY <2>2, <2>3, AppendProperties DEF TypeOK
<1>3. QED
  BY <1>1, <1>2

\* Inheriting keeps the types.
LEMMA InheritType ==
  ASSUME TypeOK, Inherit
  PROVE  TypeOK'
<1>1. /\ stack # << >> /\ frame \in Frames /\ frame.name \in Names
      /\ Front(stack) \in Seq(Frames) /\ Len(Front(stack)) <= MaxDepth
  BY StackType DEF Inherit, InPrologue, Running
<1>2. resolved \in [Names -> Structs]
  BY DEF TypeOK, Structs
<1>3. def.parent \in Names \cup {None}
  BY <1>1, ProgType DEF Inherit, def
<1> DEFINE parent == IF def.parent = None THEN [members |-> << >>, size |-> 0]
                                          ELSE resolved[def.parent]
           members == self.members \o parent.members
<1>4. parent.members \in Seq(Members) /\ parent.size \in Nat \cup {-1}
  BY <1>2, <1>3 DEF Structs
<1>5. self \in Structs
  BY <1>1, <1>2 DEF self
<1>6. members \in Seq(Members)
  BY <1>4, <1>5, ConcatProperties DEF Structs
<1>7. CASE def.template
  <2>1. resolved' = [resolved EXCEPT ![frame.name].members = members,
                                     ![frame.name].size = -1]
        /\ stack' = Front(stack)
    BY <1>7 DEF Inherit
  <2> HIDE DEF members
  <2>2. resolved' \in [Names -> Structs]
    BY <1>1, <1>2, <1>6, <2>1 DEF Structs
  <2>3. QED
    BY <1>1, <2>1, <2>2 DEF Inherit, TypeOK, Structs, sorting
<1>8. CASE ~def.template
  <2> DEFINE f == [frame EXCEPT !.at = 1, !.called = FALSE,
                                !.offset = IF parent.size > 0 THEN parent.size ELSE 0]
  <2>1. resolved' = [resolved EXCEPT ![frame.name].members = members] /\ SetFrame(f)
    BY <1>8 DEF Inherit
  <2>2. f \in Frames
    <3> DEFINE o == IF parent.size > 0 THEN parent.size ELSE 0
    <3>1. o \in Nat
      BY <1>4
    <3> HIDE DEF o, parent
    <3>2. [frame EXCEPT !.at = 1, !.called = FALSE, !.offset = o] \in Frames
      BY <1>1, <3>1 DEF Frames
    <3>3. QED
      BY <3>2 DEF o
  <2>3. stack' \in Seq(Frames) /\ Len(stack') <= MaxDepth
    BY <1>1, <2>1, <2>2, SetFrameType
  <2> HIDE DEF members, f
  <2>4. resolved' \in [Names -> Structs]
    BY <1>1, <1>2, <1>6, <2>1 DEF Structs
  <2>5. QED
    BY <2>3, <2>4 DEF Inherit, TypeOK, Structs, sorting
<1>9. QED
  BY <1>7, <1>8

\* So does dropping the calls an error unwinds.
LEMMA UnwindType ==
  ASSUME TypeOK, UnknownParent
  PROVE  TypeOK'
<1>1. stack \in Seq(Frames) /\ Len(stack) \in 1 .. MaxDepth
  BY StackType DEF UnknownParent, InPrologue, Running, TypeOK
<1> DEFINE callers == {k \in 1 .. Len(stack) : \E m \in k .. Len(stack) : stack[m].at # 0}
<1>2. CASE callers = {}
  <2>1. phase' = "failed" /\ stack' = << >>
    BY <1>2 DEF UnknownParent
  <2>2. stack' \in Seq(Frames) /\ Len(stack') = 0
    BY <2>1
  <2>3. QED
    BY <2>1, <2>2 DEF UnknownParent, TypeOK, sorting
<1>3. CASE callers # {}
  <2> DEFINE k == CHOOSE k \in callers : \A m \in callers : m <= k
  <2>1. stack' = SubSeq(stack, 1, k) /\ phase' = phase
    BY <1>3 DEF UnknownParent
  <2>2. k \in 1 .. Len(stack)
    <3> DEFINE T == {Len(stack) - c : c \in callers}
    <3>1. T \subseteq Nat /\ T # {}
      BY <1>1, <1>3
    <3>2. PICK t \in T : \A u \in T : t <= u
      <4> HIDE DEF T
      <4>1. QED
        BY <3>1, LeastNumber
    <3>3. PICK c \in callers : t = Len(stack) - c
      BY <3>2
    <3>4. ASSUME NEW m \in callers
          PROVE  m <= c
      <4>1. t <= Len(stack) - m
        BY <3>2
      <4>2. m \in Int /\ c \in Int /\ Len(stack) \in Int
        BY <1>1
      <4>3. QED
        BY <3>3, <4>1, <4>2
    <3>5. \E x \in callers : \A m \in callers : m <= x
      BY <3>4
    <3>6. k \in callers
      <4> HIDE DEF callers
      <4>1. QED
        BY <3>5
    <3>7. QED
      BY <3>6
  <2> HIDE DEF k
  <2>3. \A j \in 1 .. k : stack[j] \in Frames
    BY <1>1, <2>2, ElementOfSeq
  <2>4. SubSeq(stack, 1, k) \in Seq(Frames) /\ Len(SubSeq(stack, 1, k)) = k
    BY <2>2, <2>3, SubSeqProperties
  <2>5. QED
    BY <1>1, <2>1, <2>2, <2>4 DEF UnknownParent, TypeOK, sorting
<1>4. QED
  BY <1>2, <1>3

-----------------------------------------------------------------------------
(***************************************************************************)
(* Type correctness.                                                       *)
(***************************************************************************)

\* A step of the resolution of the fields.
LEMMA FieldsStep ==
  ASSUME TypeOK, \/ MainLoop \/ AlreadyResolved \/ CallParent \/ CallType \/ Return
                 \/ ConditionalDecl
  PROVE  TypeOK'
<1>1. CASE MainLoop
  <2>1. prog.order[next] \in Names
    BY <1>1, ProgType, ElementOfSeq DEF MainLoop, TypeOK
  <2>2. NewFrame(prog.order[next]) \in Frames
    BY <2>1 DEF NewFrame, Frames
  <2>3. stack' \in Seq(Frames) /\ Len(stack') = 1 /\ next' \in Nat \ {0}
    BY <1>1, <2>2 DEF MainLoop, TypeOK
  <2>4. QED
    BY <1>1, <2>3 DEF MainLoop, TypeOK, sorting
<1>2. CASE AlreadyResolved
  <2>1. stack' \in Seq(Frames) /\ Len(stack') <= MaxDepth
    BY <1>2, StackType DEF AlreadyResolved, InPrologue, Running
  <2>2. QED
    BY <1>2, <2>1 DEF AlreadyResolved, TypeOK, sorting
<1>3. CASE CallParent
  <2>1. stack # << >> /\ def.parent \in Names /\ CallFrom(def.parent)
    BY <1>3 DEF CallParent, InPrologue, Running
  <2>2. stack' \in Seq(Frames) /\ Len(stack') <= MaxDepth /\ phase' \in Phases
    BY <2>1, CallType_
  <2>3. QED
    BY <1>3, <2>2 DEF CallParent, TypeOK, sorting, Phases
<1>4. CASE CallType
  <2>1. stack # << >> /\ decl.ref \in Names /\ CallFrom(decl.ref)
    BY <1>4, DeclType DEF CallType, NeedsCall
  <2>2. stack' \in Seq(Frames) /\ Len(stack') <= MaxDepth /\ phase' \in Phases
    BY <2>1, CallType_
  <2>3. QED
    BY <1>4, <2>2 DEF CallType, TypeOK, sorting, Phases
<1>5. CASE Return
  <2>1. /\ frame.name \in Names /\ frame.offset \in Nat
        /\ Front(stack) \in Seq(Frames) /\ Len(Front(stack)) <= MaxDepth
    BY <1>5, StackType DEF Return, Running
  <2> DEFINE o == IF HasDynamicFields(self.members) THEN -1 ELSE frame.offset
  <2>2. o \in Nat \cup {-1}
    BY <2>1
  <2>3. resolved' = [resolved EXCEPT ![frame.name].inline = frame.offset,
                                     ![frame.name].size = o]
    BY <1>5 DEF Return
  <2> HIDE DEF o
  <2>4. resolved' \in [Names -> Structs]
    BY <2>1, <2>2, <2>3 DEF TypeOK, Structs
  <2>5. QED
    BY <1>5, <2>1, <2>4 DEF Return, TypeOK, sorting, Structs
<1>6. CASE ConditionalDecl
  <2>1. decl \in Decls /\ stack # << >>
    BY <1>6, DeclType DEF ConditionalDecl, AtDecl
  <2>2. frame \in Frames /\ FieldOf(decl) \in Fields
    BY <2>1, StackType, FieldOfType
  <2> DEFINE acc == IF decl.bad THEN frame.acc ELSE Append(frame.acc, FieldOf(decl))
  <2>3. frame.acc \in Seq(Fields) /\ frame.sub + 1 \in Nat \ {0}
    BY <2>2 DEF Frames
  <2>4. acc \in Seq(Fields)
    BY <2>2, <2>3, AppendProperties
  <2>5. SetFrame([frame EXCEPT !.sub = @ + 1, !.called = FALSE, !.acc = acc])
    BY <1>6 DEF ConditionalDecl
  <2> HIDE DEF acc
  <2>6. [frame EXCEPT !.sub = @ + 1, !.called = FALSE, !.acc = acc] \in Frames
    BY <2>2, <2>3, <2>4 DEF Frames
  <2>7. stack' \in Seq(Frames) /\ Len(stack') <= MaxDepth
    BY <2>1, <2>5, <2>6, SetFrameType
  <2>8. QED
    BY <1>6, <2>7 DEF ConditionalDecl, TypeOK, sorting
<1>7. QED
  BY <1>1, <1>2, <1>3, <1>4, <1>5, <1>6

\* A statement that adds members.
LEMMA StatementStep ==
  ASSUME TypeOK, \/ DeclareInUnion \/ DeclareRemote \/ Declare \/ SkipBadDecl
                 \/ Pad \/ CloseIf
  PROVE  TypeOK'
<1>1. stack # << >> /\ frame \in Frames /\ frame.offset \in Nat
  BY StackType DEF DeclareInUnion, DeclareRemote, Declare, SkipBadDecl, Pad, CloseIf,
                   InBody, Running
<1>2. ASSUME NEW m \in Members
      PROVE  <<m>> \in Seq(Members)
  OBVIOUS
<1>3. << >> \in Seq(Members)
  OBVIOUS
<1>4. ASSUME InBody, stmt.is = "var"
      PROVE  stmt \in Decls /\ offset \in Nat
  <2>1. decl = stmt /\ stmt \in Decls
    BY <1>4, DeclType DEF AtDecl, decl
  <2>2. stmt.at \in Nat \cup {Here, Expr}
    BY <2>1 DEF Decls
  <2>3. offset \in Nat
    BY <1>1, <2>1, <2>2 DEF offset, Here, Expr
  <2>4. QED
    BY <2>1, <2>3
<1>5. Fields \subseteq Members /\ Pads \subseteq Members /\ Conditionals \subseteq Members
  BY DEF Members, Conditionals
<1>6. CASE DeclareInUnion
  <2>1. stmt \in Decls
    BY <1>4, <1>6 DEF DeclareInUnion
  <2>2. [FieldOf(stmt) EXCEPT !.off = 0] \in Members
    <3>1. \A o \in Int : [FieldOf(stmt) EXCEPT !.off = o] \in Fields
      BY <2>1, FieldOfType
    <3>2. QED
      BY <1>5, <3>1, 0 \in Int
  <2> DEFINE o == IF TypeSize(stmt) > frame.offset THEN TypeSize(stmt) ELSE frame.offset
  <2>3. o \in Nat
    BY <1>1, <2>1, SizeType
  <2>4. Emit(<<[FieldOf(stmt) EXCEPT !.off = 0]>>, o)
    BY <1>6 DEF DeclareInUnion
  <2> HIDE DEF o
  <2>5. QED
    BY <1>1, <1>2, <2>2, <2>3, <2>4, EmitType
<1>7. CASE DeclareRemote
  <2>1. stmt \in Decls /\ offset \in Nat
    BY <1>4, <1>7 DEF DeclareRemote
  <2>2. [FieldOf(stmt) EXCEPT !.remote = TRUE] \in Members
    BY <1>5, <2>1, FieldOfType
  <2>3. QED
    BY <1>1, <1>2, <1>7, <2>1, <2>2, EmitType DEF DeclareRemote
<1>8. CASE Declare
  <2>1. stmt \in Decls /\ offset \in Nat /\ offset + Extent(stmt) \in Nat
    BY <1>4, <1>8, SizeType DEF Declare
  <2>2. [FieldOf(stmt) EXCEPT !.off = offset] \in Members
    <3>1. \A o \in Int : [FieldOf(stmt) EXCEPT !.off = o] \in Fields
      BY <2>1, FieldOfType
    <3>2. offset \in Int
      BY <2>1
    <3>3. QED
      BY <1>5, <3>1, <3>2
  <2>3. QED
    BY <1>1, <1>2, <1>8, <2>1, <2>2, EmitType DEF Declare
<1>9. CASE SkipBadDecl
  <2>1. stmt \in Decls /\ offset \in Nat /\ stmt.size \in Nat
    BY <1>4, <1>9 DEF SkipBadDecl, Decls
  <2>2. [is |-> "pad", size |-> stmt.size] \in Members /\ offset + stmt.size \in Nat
    BY <1>5, <2>1 DEF Pads
  <2>3. \/ Emit(<<[is |-> "pad", size |-> stmt.size]>>, offset + stmt.size)
        \/ Emit(<< >>, offset)
    BY <1>9 DEF SkipBadDecl
  <2>4. QED
    BY <1>1, <1>2, <1>3, <2>1, <2>2, <2>3, EmitType
<1>10. ASSUME InBody
       PROVE  stmt \in Decls \cup Pads \cup Ifs
  <2>1. def.body \in Seq(Decls \cup Pads \cup Ifs)
    BY <1>1, StackType, ProgType DEF def
  <2>2. QED
    BY <1>1, <1>10, <2>1, ElementOfSeq DEF InBody, stmt
<1>11. CASE Pad
  <2>1. stmt \in Pads
    BY <1>10, <1>11 DEF Pad, Decls, Ifs
  <2> DEFINE o == IF def.union THEN frame.offset ELSE frame.offset + stmt.size
  <2>2. [is |-> "pad", size |-> stmt.size] \in Members /\ o \in Nat
    BY <1>1, <1>5, <2>1 DEF Pads
  <2>3. Emit(<<[is |-> "pad", size |-> stmt.size]>>, o)
    BY <1>11 DEF Pad
  <2> HIDE DEF o
  <2>4. QED
    BY <1>1, <1>2, <2>2, <2>3, EmitType
<1>12. CASE CloseIf
  <2>1. frame.acc \in Seq(Fields)
    BY <1>1 DEF Frames
  <2>2. [is |-> "cond", fields |-> frame.acc] \in Members
    BY <1>5, <2>1 DEF Conditionals
  <2>3. \/ Emit(<<[is |-> "cond", fields |-> frame.acc]>>, frame.offset)
        \/ Emit(<< >>, frame.offset)
    BY <1>12 DEF CloseIf
  <2>4. QED
    BY <1>1, <1>2, <1>3, <2>2, <2>3, EmitType
<1>13. QED
  BY <1>6, <1>7, <1>8, <1>9, <1>11, <1>12

\* A step of topoSort.
LEMMA SortStep ==
  ASSUME TypeOK, \/ StartSort \/ VisitRoot \/ VisitDependency \/ SkipField
                 \/ EmitStruct \/ Done
  PROVE  TypeOK'
<1>1. dfs \in Seq(Visits)
  BY DEF TypeOK, Visits
<1>2. CASE StartSort
  BY <1>2 DEF StartSort, TypeOK, sorting
<1>3. CASE VisitRoot
  <2>1. prog.order[next] \in Names
    BY <1>3, ProgType, ElementOfSeq DEF VisitRoot, TypeOK
  <2>2. << >> \in Seq(Visits)
    OBVIOUS
  <2>3. dfs' \in Seq(Visits) /\ visited' \subseteq Names
    BY <1>3, <2>1, <2>2, VisitType DEF VisitRoot
  <2>4. QED
    BY <1>3, <2>3 DEF VisitRoot, TypeOK, Visits
<1>4. CASE VisitDependency
  <2>1. Head(Last(dfs).todo).ref \in Names /\ rest \in Seq(Visits)
    BY <1>4, RestType DEF VisitDependency, Fields
  <2>2. dfs' \in Seq(Visits) /\ visited' \subseteq Names
    BY <1>4, <2>1, VisitType DEF VisitDependency
  <2>3. QED
    BY <1>4, <2>2 DEF VisitDependency, TypeOK, Visits
<1>5. CASE SkipField
  BY <1>5, RestType DEF SkipField, TypeOK, Visits
<1>6. CASE EmitStruct
  <2>1. Len(dfs) \in Nat \ {0}
    BY <1>1, <1>6, EmptySeq DEF EmitStruct
  <2>2. Last(dfs).name \in Names
    <3>1. dfs[Len(dfs)] \in Visits
      BY <1>1, <2>1, ElementOfSeq
    <3>2. QED
      BY <3>1 DEF Last, Visits
  <2>3. Append(sorted, Last(dfs).name) \in Seq(Names)
    BY <2>2, AppendProperties DEF TypeOK
  <2>4. \A i \in 1 .. Len(dfs) - 1 : dfs[i] \in Visits
    BY <1>1, <2>1, ElementOfSeq
  <2>5. Front(dfs) \in Seq(Visits)
    BY <2>1, <2>4, SubSeqProperties DEF Front
  <2>6. QED
    BY <1>6, <2>3, <2>5 DEF EmitStruct, TypeOK, Visits
<1>7. CASE Done
  BY <1>7 DEF Done, TypeOK, sorting
<1>8. QED
  BY <1>2, <1>3, <1>4, <1>5, <1>6, <1>7

\* Every step keeps the types.
LEMMA TypeStep ==
  ASSUME TypeOK, [Next]_vars
  PROVE  TypeOK'
<1>1. CASE UNCHANGED vars
  BY <1>1 DEF vars, TypeOK
<1>2. CASE Next
  BY <1>2, FieldsStep, StatementStep, SortStep, InheritType, UnwindType DEF Next
<1>3. QED
  BY <1>1, <1>2

\* Every name has an empty StructType.
LEMMA TypeInit == Init => TypeOK
<1>1. SUFFICES ASSUME Init PROVE TypeOK
  OBVIOUS
<1>2. << >> \in Seq(Members) /\ << >> \in Seq(Frames) /\ << >> \in Seq(Visits)
      /\ << >> \in Seq(Names)
  OBVIOUS
<1>3. Len(<< >>) <= MaxDepth
  OBVIOUS
<1>4. QED
  BY <1>1, <1>2, <1>3 DEF Init, TypeOK, Visits

\* Whatever the file, and wherever an error or the end of the goroutine stack stops
\* the recursion, the half-built structs keep their types; a field that holds
\* structs always says which, and no running offset is negative.
THEOREM ResolverTypeCorrect == Spec => []TypeOK
<1>1. QED
  BY TypeInit, TypeStep, PTL DEF Spec

-----------------------------------------------------------------------------
(***************************************************************************)
(* topoSort.  d is a stack of visits, s what has been emitted, v what has  *)
(* been visited.                                                           *)
(***************************************************************************)

\* The structs that the fields of a list hold by value.
Refs(fs) == {fs[k].ref : k \in {j \in 1 .. Len(fs) : ByValue(fs[j])}}

\* What shows that no struct contains itself.
Ranks == {r \in [Names -> 1 .. Cardinality(Names)] :
            \A n \in Names : \A m \in Contained(n) : r[m] < r[n]}

\* The visited structs are those emitted and those being visited, each once.
Marks(d, s, v) ==
  /\ v = {s[k] : k \in 1 .. Len(s)} \cup {d[i].name : i \in 1 .. Len(d)}
  /\ \A j, k \in 1 .. Len(s) : s[j] = s[k] => j = k
  /\ \A i, j \in 1 .. Len(d) : d[i].name = d[j].name => i = j
  /\ \A i \in 1 .. Len(d), k \in 1 .. Len(s) : d[i].name # s[k]

\* A visit looks at fields of its own struct only.
OwnFields(d) == \A i \in 1 .. Len(d) : Refs(d[i].todo) \subseteq Contained(d[i].name)

\* Each visit was called for a struct contained in that of its caller.
Descends(d) ==
  \A r \in Ranks : \A i, j \in 1 .. Len(d) : i < j => r[d[j].name] < r[d[i].name]

\* Whatever a struct being visited contains has been emitted, is still to be looked
\* at, or is the next one visited; below the newest visit that is n.
Covered(d, s, n) ==
  \A i \in 1 .. Len(d) : \A m \in Contained(d[i].name) :
    \/ \E k \in 1 .. Len(s) : s[k] = m
    \/ m \in Refs(d[i].todo)
    \/ m = (IF i = Len(d) THEN n ELSE d[i + 1].name)

EmittedFirst(s) ==
  \A k \in 1 .. Len(s) : \A m \in Contained(s[k]) : \E j \in 1 .. k - 1 : s[j] = m

\* The main loop has been through the structs before `next`.
RootsVisited ==
  \A k \in 1 .. Len(prog.order) : k < next => prog.order[k] \in visited

Idle == dfs = << >> /\ visited = {} /\ sorted = << >>

SortInv ==
  /\ ~Resolved => Idle
  /\ Resolved => /\ Marks(dfs, sorted, visited)
                 /\ OwnFields(dfs) /\ Descends(dfs)
                 /\ Ranks # {} => Covered(dfs, sorted, None) /\ EmittedFirst(sorted)
                 /\ RootsVisited
  /\ phase = "done" => dfs = << >> /\ next > Len(prog.order)

LEMMA RankType ==
  ASSUME NEW r \in Ranks, NEW n \in Names
  PROVE  r[n] \in Nat
<1>1. Cardinality(Names) \in Nat
  BY FiniteAssumption, FS_CardinalityType
<1>2. QED
  BY <1>1 DEF Ranks

\* A struct contains what the fields in its list hold by value.
LEMMA ContainedRefs ==
  ASSUME TypeOK, NEW n \in Names
  PROVE  /\ FieldsOf(resolved[n].members) \in Seq(Fields)
         /\ Contained(n) = Refs(FieldsOf(resolved[n].members))
         /\ Contained(n) \subseteq Names
<1> DEFINE fs == FieldsOf(resolved[n].members)
<1>1. fs \in Seq(Fields)
  BY FieldsOfType DEF TypeOK
<1> HIDE DEF fs
<1>2. \A k \in 1 .. Len(fs) : /\ ByValue(fs[k]) <=> fs[k].kind # "flat"
                              /\ ByValue(fs[k]) => fs[k].ref \in Names
  <2>1. \A f \in Fields : /\ ByValue(f) <=> f.kind # "flat"
                          /\ ByValue(f) => f.ref \in Names
    BY DEF Fields, ByValue
  <2>2. QED
    BY <1>1, <2>1, ElementOfSeq
<1>3. DOMAIN fs = 1 .. Len(fs)
  BY <1>1
<1>4. Contained(n) = {fs[k].ref : k \in {j \in 1 .. Len(fs) : fs[j].kind # "flat"}}
  <2>1. Contained(n) = {f.ref : f \in {g \in ToSet(fs) : g.kind # "flat"}}
    BY DEF Contained, fs
  <2>2. ToSet(fs) = {fs[k] : k \in 1 .. Len(fs)}
    BY <1>3 DEF ToSet
  <2>3. QED
    BY <2>1, <2>2
<1>5. Contained(n) = Refs(fs)
  BY <1>2, <1>4 DEF Refs
<1>6. Refs(fs) \subseteq Names
  BY <1>2 DEF Refs
<1>7. QED
  BY <1>1, <1>5, <1>6 DEF fs

\* One field less to look at.
LEMMA RefsTail ==
  ASSUME NEW fs \in Seq(Fields), fs # << >>
  PROVE  Refs(fs) = Refs(Tail(fs)) \cup (IF ByValue(Head(fs)) THEN {Head(fs).ref} ELSE {})
<1>1. /\ Len(fs) \in Nat \ {0} /\ Len(Tail(fs)) = Len(fs) - 1 /\ Head(fs) = fs[1]
      /\ \A i \in 1 .. Len(Tail(fs)) : Tail(fs)[i] = fs[i + 1]
  BY HeadTailProperties, EmptySeq
<1>2. ASSUME NEW m \in Refs(fs)
      PROVE  m \in Refs(Tail(fs)) \cup (IF ByValue(Head(fs)) THEN {Head(fs).ref} ELSE {})
  <2>1. PICK k \in 1 .. Len(fs) : ByValue(fs[k]) /\ m = fs[k].ref
    BY <1>2 DEF Refs
  <2>2. CASE k = 1
    BY <1>1, <2>1, <2>2
  <2>3. CASE k # 1
    <3>1. k - 1 \in 1 .. Len(Tail(fs)) /\ Tail(fs)[k - 1] = fs[k]
      BY <1>1, <2>3
    <3>2. QED
      BY <2>1, <3>1 DEF Refs
  <2>4. QED
    BY <2>2, <2>3
<1>3. ASSUME NEW m \in Refs(Tail(fs))
      PROVE  m \in Refs(fs)
  <2>1. PICK k \in 1 .. Len(Tail(fs)) : ByValue(Tail(fs)[k]) /\ m = Tail(fs)[k].ref
    BY <1>3 DEF Refs
  <2>2. k + 1 \in 1 .. Len(fs) /\ Tail(fs)[k] = fs[k + 1]
    BY <1>1
  <2>3. QED
    BY <2>1, <2>2 DEF Refs
<1>4. ByValue(Head(fs)) => Head(fs).ref \in Refs(fs)
  <2>1. 1 \in 1 .. Len(fs)
    BY <1>1
  <2>2. QED
    BY <1>1, <2>1 DEF Refs
<1>5. QED
  BY <1>2, <1>3, <1>4

\* The visits when the newest one has taken a field off its list.
LEMMA RestShape ==
  ASSUME TypeOK, AtDependency
  PROVE  /\ Len(dfs) \in Nat \ {0} /\ dfs \in Seq(Visits)
         /\ rest \in Seq(Visits) /\ Len(rest) = Len(dfs)
         /\ \A i \in 1 .. Len(dfs) : rest[i].name = dfs[i].name
         /\ \A i \in 1 .. Len(dfs) - 1 : rest[i] = dfs[i]
         /\ dfs[Len(dfs)].todo \in Seq(Fields) /\ dfs[Len(dfs)].todo # << >>
         /\ rest[Len(dfs)].todo = Tail(dfs[Len(dfs)].todo)
<1>1. dfs \in Seq(Visits) /\ Len(dfs) \in Nat \ {0}
  BY EmptySeq DEF TypeOK, AtDependency, Visits
<1>2. dfs[Len(dfs)] \in Visits /\ dfs[Len(dfs)].todo # << >>
  BY <1>1, ElementOfSeq DEF AtDependency, Last
<1> DEFINE top == [dfs[Len(dfs)] EXCEPT !.todo = Tail(@)]
<1>3. rest = [dfs EXCEPT ![Len(dfs)] = top]
  BY DEF rest
<1>4. /\ top \in Visits /\ top.name = dfs[Len(dfs)].name
      /\ top.todo = Tail(dfs[Len(dfs)].todo)
  <2>1. Tail(dfs[Len(dfs)].todo) \in Seq(Fields)
    BY <1>2, HeadTailProperties DEF Visits
  <2>2. QED
    BY <1>2, <2>1 DEF Visits
<1> HIDE DEF top
<1>5. /\ rest \in Seq(Visits) /\ Len(rest) = Len(dfs)
      /\ \A j \in 1 .. Len(dfs) : rest[j] = IF j = Len(dfs) THEN top ELSE dfs[j]
  BY <1>1, <1>3, <1>4, ExceptSeq
<1>6. \A i \in 1 .. Len(dfs) : rest[i].name = dfs[i].name
  BY <1>4, <1>5
<1>7. Len(dfs) \in 1 .. Len(dfs) /\ \A i \in 1 .. Len(dfs) - 1 : i \in 1 .. Len(dfs) /\ i # Len(dfs)
  BY <1>1
<1>8. rest[Len(dfs)] = top /\ \A i \in 1 .. Len(dfs) - 1 : rest[i] = dfs[i]
  BY <1>5, <1>7
<1>9. dfs[Len(dfs)].todo \in Seq(Fields)
  BY <1>2 DEF Visits
<1>10. QED
  BY <1>1, <1>2, <1>4, <1>5, <1>6, <1>8, <1>9

\* When no struct contains itself, a visited struct that is looked at from inside a
\* visit is no caller of that visit: it has been emitted.
LEMMA CalleeEmitted ==
  ASSUME NEW d \in Seq(Visits), Len(d) # 0, Ranks # {}, Descends(d),
         NEW n \in visited, n \in Contained(d[Len(d)].name),
         Marks(d, sorted, visited), visited \subseteq Names
  PROVE  \E k \in 1 .. Len(sorted) : sorted[k] = n
<1>1. SUFFICES ASSUME NEW i \in 1 .. Len(d), d[i].name = n
               PROVE  FALSE
  BY DEF Marks
<1>2. PICK r : r \in Ranks
  OBVIOUS
<1>3. Len(d) \in 1 .. Len(d) /\ d[Len(d)].name \in Names /\ n \in Names
  <2>1. Len(d) \in 1 .. Len(d)
    OBVIOUS
  <2>2. d[Len(d)] \in Visits
    BY <2>1, ElementOfSeq
  <2>3. QED
    BY <2>1, <2>2 DEF Visits
<1>4. r[n] < r[d[Len(d)].name] /\ r[n] \in Nat /\ r[d[Len(d)].name] \in Nat
  BY <1>2, <1>3, RankType DEF Ranks
<1>5. i # Len(d)
  BY <1>1, <1>4
<1>6. r[d[Len(d)].name] < r[n]
  BY <1>1, <1>2, <1>3, <1>5 DEF Descends
<1>7. QED
  BY <1>4, <1>6

\* A call of visit, from the main loop or from a visit that took a field off its
\* list.
LEMMA VisitKeeps ==
  ASSUME TypeOK, NEW n \in Names, NEW d \in Seq(Visits), Visit(n, d),
         Len(d) # 0 => n \in Contained(d[Len(d)].name),
         Marks(d, sorted, visited), OwnFields(d), Descends(d),
         Ranks # {} => Covered(d, sorted, n)
  PROVE  /\ Marks(dfs', sorted, visited') /\ OwnFields(dfs') /\ Descends(dfs')
         /\ Ranks # {} => Covered(dfs', sorted, None)
         /\ n \in visited' /\ visited \subseteq visited'
<1>1. CASE n \in visited
  <2>1. dfs' = d /\ visited' = visited
    BY <1>1 DEF Visit
  <2>2. ASSUME Ranks # {}
        PROVE  Covered(d, sorted, None)
    <3>1. ASSUME Len(d) # 0
          PROVE  \E k \in 1 .. Len(sorted) : sorted[k] = n
      BY <1>1, <2>2, <3>1, CalleeEmitted DEF TypeOK
    <3>2. QED
      BY <2>2, <3>1 DEF Covered
  <2>3. QED
    BY <1>1, <2>1, <2>2
<1>2. CASE n \notin visited
  <2> DEFINE new == [name |-> n, todo |-> FieldsOf(resolved[n].members)]
  <2>1. new \in Visits /\ new.name = n /\ Refs(new.todo) = Contained(n)
    BY ContainedRefs DEF Visits
  <2>2. dfs' = Append(d, new) /\ visited' = visited \cup {n}
    BY <1>2 DEF Visit
  <2> HIDE DEF new
  <2>3. /\ Len(dfs') = Len(d) + 1 /\ \A i \in 1 .. Len(d) : dfs'[i] = d[i]
        /\ dfs'[Len(d) + 1] = new /\ Len(d) \in Nat
    BY <2>1, <2>2, AppendProperties, LenProperties
  <2>4. Marks(dfs', sorted, visited')
    BY <1>2, <2>1, <2>2, <2>3 DEF Marks
  <2>5. OwnFields(dfs')
    BY <2>1, <2>3 DEF OwnFields
  <2>6. ASSUME NEW r \in Ranks, NEW i \in 1 .. Len(dfs'), NEW j \in 1 .. Len(dfs'), i < j
        PROVE  r[dfs'[j].name] < r[dfs'[i].name]
    <3>1. CASE j \in 1 .. Len(d)
      BY <2>3, <2>6, <3>1 DEF Descends
    <3>2. CASE j = Len(d) + 1
      <4>1. i \in 1 .. Len(d) /\ Len(d) \in 1 .. Len(d)
        BY <2>3, <2>6, <3>2
      <4>2. /\ d[i].name \in Names /\ d[Len(d)].name \in Names
            /\ r[n] \in Nat /\ r[d[i].name] \in Nat /\ r[d[Len(d)].name] \in Nat
        <5>1. d[i] \in Visits /\ d[Len(d)] \in Visits
          BY <4>1, ElementOfSeq
        <5>2. QED
          BY <5>1, RankType DEF Visits
      <4>3. r[n] < r[d[Len(d)].name]
        BY <4>1, <4>2 DEF Ranks
      <4>4. i # Len(d) => r[d[Len(d)].name] < r[d[i].name]
        BY <4>1 DEF Descends
      <4>5. r[n] < r[d[i].name]
        BY <4>2, <4>3, <4>4
      <4>6. QED
        BY <2>1, <2>3, <3>2, <4>1, <4>5
    <3>3. QED
      BY <2>3, <3>1, <3>2
  <2>7. Descends(dfs')
    BY <2>6 DEF Descends
  <2>8. ASSUME Ranks # {}, NEW i \in 1 .. Len(dfs'), NEW m \in Contained(dfs'[i].name)
        PROVE  \/ \E k \in 1 .. Len(sorted) : sorted[k] = m
               \/ m \in Refs(dfs'[i].todo)
               \/ m = (IF i = Len(dfs') THEN None ELSE dfs'[i + 1].name)
    <3>1. CASE i = Len(d) + 1
      BY <2>1, <2>3, <2>8, <3>1
    <3>2. CASE i \in 1 .. Len(d)
      <4>1. dfs'[i] = d[i] /\ dfs'[i + 1].name = (IF i = Len(d) THEN n ELSE d[i + 1].name)
        BY <2>1, <2>3, <3>2
      <4>2. i # Len(dfs')
        BY <2>3, <3>2
      <4>3. QED
        BY <2>8, <3>2, <4>1, <4>2 DEF Covered
    <3>3. QED
      BY <2>3, <3>1, <3>2
  <2>9. QED
    BY <2>2, <2>4, <2>5, <2>7, <2>8 DEF Covered
<1>3. QED
  BY <1>1, <1>2

-----------------------------------------------------------------------------
(***************************************************************************)
(* The steps.                                                              *)
(***************************************************************************)

\* Before topoSort none of its state is used.
LEMMA BeforeSort ==
  ASSUME TypeOK, SortInv, [Next]_vars, ~Resolved
  PROVE  SortInv'
<1>1. Idle /\ dfs = << >> /\ phase \notin {"sort", "done"}
  BY DEF SortInv, Idle, Resolved
<1>2. CASE StartSort
  <2>1. Idle' /\ next' = 1 /\ phase' = "sort"
    BY <1>1, <1>2 DEF StartSort, sorting, Idle
  <2>2. Len(dfs') = 0 /\ Len(sorted') = 0 /\ visited' = {}
    BY <2>1 DEF Idle
  <2>3. Marks(dfs', sorted', visited')
    BY <2>2 DEF Marks
  <2>4. OwnFields(dfs)' /\ Descends(dfs)' /\ Covered(dfs, sorted, None)' /\ EmittedFirst(sorted)'
    BY <2>2 DEF OwnFields, Descends, Covered, EmittedFirst
  <2>5. RootsVisited'
    BY <2>1 DEF RootsVisited
  <2>6. QED
    BY <2>1, <2>3, <2>4, <2>5 DEF SortInv, Resolved, Marks
<1>3. CASE UNCHANGED vars
  <2>1. ~Resolved' /\ Idle' /\ phase' # "done"
    BY <1>1, <1>3 DEF vars, Idle, Resolved
  <2>2. QED
    BY <2>1 DEF SortInv
<1>4. CASE Next /\ ~StartSort
  <2>1. UNCHANGED sorting /\ phase' \notin {"sort", "done"}
    BY <1>1, <1>4 DEF Next, MainLoop, AlreadyResolved, UnknownParent, CallParent, Inherit,
         CallType, DeclareInUnion, DeclareRemote, Declare, SkipBadDecl, Pad, ConditionalDecl,
         CloseIf, Return, VisitRoot, VisitDependency, SkipField, EmitStruct, Done, CallFrom,
         Emit, AtDependency
  <2>2. ~Resolved' /\ Idle' /\ phase' # "done"
    BY <1>1, <2>1 DEF sorting, Idle, Resolved
  <2>3. QED
    BY <2>2 DEF SortInv
<1>5. QED
  BY <1>2, <1>3, <1>4

\* Once the structs are resolved they stay what they are.
LEMMA AfterFields ==
  ASSUME [Next]_vars, Resolved
  PROVE  /\ \/ UNCHANGED vars \/ VisitRoot \/ VisitDependency \/ SkipField
            \/ EmitStruct \/ Done
         /\ UNCHANGED <<prog, resolved>> /\ Resolved'
<1>1. phase # "fields"
  BY DEF Resolved
<1>2. \/ UNCHANGED vars \/ VisitRoot \/ VisitDependency \/ SkipField
      \/ EmitStruct \/ Done
  BY <1>1 DEF Next, MainLoop, AlreadyResolved, UnknownParent, CallParent, Inherit,
       CallType, DeclareInUnion, DeclareRemote, Declare, SkipBadDecl, Pad, ConditionalDecl,
       CloseIf, Return, StartSort, InPrologue, AtDecl, InIf, InBody, Running
<1>3. QED
  BY <1>2 DEF vars, VisitRoot, VisitDependency, SkipField, EmitStruct, Done, AtDependency,
       Resolved

\* What the parts of the invariant are after a step that leaves the structs alone.
LEMMA SameStructs ==
  ASSUME UNCHANGED <<prog, resolved>>
  PROVE  /\ Ranks' = Ranks
         /\ OwnFields(dfs)' <=> OwnFields(dfs')
         /\ Descends(dfs)' <=> Descends(dfs')
         /\ Covered(dfs, sorted, None)' <=> Covered(dfs', sorted', None)
         /\ EmittedFirst(sorted)' <=> EmittedFirst(sorted')
         /\ Marks(dfs, sorted, visited)' <=> Marks(dfs', sorted', visited')
<1>1. \A n : Contained(n)' = Contained(n)
  BY DEF Contained
<1>2. Ranks' = Ranks
  BY <1>1 DEF Ranks
<1>3. QED
  BY <1>1, <1>2 DEF OwnFields, Descends, Covered, EmittedFirst, Marks

\* The main loop of topoSort.
LEMMA VisitRootKeeps ==
  ASSUME TypeOK, SortInv, VisitRoot
  PROVE  SortInv'
<1>1. /\ Resolved /\ Resolved' /\ UNCHANGED <<prog, resolved>> /\ phase' = "sort"
      /\ dfs = << >> /\ sorted' = sorted /\ next' = next + 1
      /\ next \in 1 .. Len(prog.order) /\ Visit(prog.order[next], << >>)
  BY DEF VisitRoot, Resolved, TypeOK
<1>2. prog.order[next] \in Names
  BY <1>1, ProgType, ElementOfSeq
<1>3. << >> \in Seq(Visits) /\ Len(<< >>) = 0
  BY EmptySeq
<1>4. /\ Marks(<< >>, sorted, visited) /\ RootsVisited
      /\ Ranks # {} => EmittedFirst(sorted)
  BY <1>1 DEF SortInv
<1>5. OwnFields(<< >>) /\ Descends(<< >>) /\ Covered(<< >>, sorted, prog.order[next])
  BY <1>3 DEF OwnFields, Descends, Covered
<1>6. /\ Marks(dfs', sorted, visited') /\ OwnFields(dfs') /\ Descends(dfs')
      /\ Ranks # {} => Covered(dfs', sorted, None)
      /\ prog.order[next] \in visited' /\ visited \subseteq visited'
  BY <1>1, <1>2, <1>3, <1>4, <1>5, VisitKeeps
<1>7. RootsVisited'
  <2>1. SUFFICES ASSUME NEW k \in 1 .. Len(prog.order), k < next + 1
                 PROVE  prog.order[k] \in visited'
    BY <1>1 DEF RootsVisited
  <2>2. QED
    BY <1>1, <1>4, <1>6, <2>1 DEF RootsVisited
<1>8. QED
  BY <1>1, <1>4, <1>6, <1>7, SameStructs DEF SortInv

\* Taking a field off the list of the newest visit, which may then hold n by value.
LEMMA RestKeeps ==
  ASSUME TypeOK, AtDependency, OwnFields(dfs), Descends(dfs),
         Marks(dfs, sorted, visited), Ranks # {} => Covered(dfs, sorted, None),
         NEW n,
         ByValue(Head(dfs[Len(dfs)].todo)) => n = Head(dfs[Len(dfs)].todo).ref
  PROVE  /\ Marks(rest, sorted, visited) /\ OwnFields(rest) /\ Descends(rest)
         /\ Ranks # {} => Covered(rest, sorted, n)
         /\ ByValue(Head(dfs[Len(dfs)].todo)) => n \in Contained(rest[Len(rest)].name)
<1> DEFINE L == Len(dfs)
           head == Head(dfs[L].todo)
<1>1. /\ L \in Nat \ {0} /\ Len(rest) = L
      /\ \A i \in 1 .. L : rest[i].name = dfs[i].name
      /\ \A i \in 1 .. L - 1 : rest[i] = dfs[i]
  BY RestShape
<1>2. Refs(dfs[L].todo) = Refs(rest[L].todo) \cup (IF ByValue(head) THEN {head.ref} ELSE {})
  BY RestShape, RefsTail
<1> HIDE DEF head
<1>3. Marks(rest, sorted, visited) /\ Descends(rest)
  BY <1>1 DEF Marks, Descends
<1>4. \A i \in 1 .. L : Refs(rest[i].todo) \subseteq Refs(dfs[i].todo)
  <2>1. \A i \in 1 .. L : i # L => i \in 1 .. L - 1
    BY <1>1
  <2>2. QED
    BY <1>1, <1>2, <2>1
<1>5. OwnFields(rest)
  BY <1>1, <1>4 DEF OwnFields
<1>6. ASSUME Ranks # {}, NEW i \in 1 .. L, NEW m \in Contained(rest[i].name)
      PROVE  \/ \E k \in 1 .. Len(sorted) : sorted[k] = m
             \/ m \in Refs(rest[i].todo)
             \/ m = (IF i = L THEN n ELSE rest[i + 1].name)
  <2>1. \/ \E k \in 1 .. Len(sorted) : sorted[k] = m
        \/ m \in Refs(dfs[i].todo)
        \/ m = (IF i = L THEN None ELSE dfs[i + 1].name)
    BY <1>1, <1>6 DEF Covered
  <2>2. CASE i = L
    <3>1. dfs[L].name \in Names
      <4>1. L \in 1 .. Len(dfs)
        BY <1>1
      <4>2. dfs[L] \in Visits
        BY <4>1, RestShape, ElementOfSeq
      <4>3. QED
        BY <4>2 DEF Visits
    <3>2. m # None
      BY <1>1, <1>6, <2>2, <3>1, ContainedRefs
    <3>3. QED
      BY <1>2, <2>1, <2>2, <3>2 DEF head
  <2>3. CASE i # L
    <3>1. i \in 1 .. L - 1 /\ i + 1 \in 1 .. L
      BY <1>1, <2>3
    <3>2. QED
      BY <1>1, <2>1, <2>3, <3>1
  <2>4. QED
    BY <2>2, <2>3
<1>7. Ranks # {} => Covered(rest, sorted, n)
  BY <1>1, <1>6 DEF Covered
<1>8. ASSUME ByValue(head)
      PROVE  n \in Contained(rest[L].name)
  <2>1. n \in Refs(dfs[L].todo)
    BY <1>2, <1>8 DEF head
  <2>2. L \in 1 .. Len(dfs)
    BY <1>1
  <2>3. QED
    BY <1>1, <2>1, <2>2 DEF OwnFields
<1>9. QED
  BY <1>1, <1>3, <1>5, <1>7, <1>8 DEF head

\* A field that holds a struct, or an array of them.
LEMMA VisitDependencyKeeps ==
  ASSUME TypeOK, SortInv, VisitDependency
  PROVE  SortInv'
<1> DEFINE n == Head(dfs[Len(dfs)].todo).ref
<1>1. /\ Resolved /\ Resolved' /\ UNCHANGED <<prog, resolved>> /\ phase' = "sort"
      /\ sorted' = sorted /\ next' = next /\ AtDependency
      /\ ByValue(Head(dfs[Len(dfs)].todo)) /\ Visit(n, rest)
  BY DEF VisitDependency, AtDependency, Resolved, Last
<1>2. n \in Names
  <2>1. Head(dfs[Len(dfs)].todo) \in Fields
    BY <1>1, RestShape, HeadTailProperties
  <2>2. QED
    BY <1>1, <2>1 DEF Fields
<1> HIDE DEF n
<1>3. /\ Marks(dfs, sorted, visited) /\ OwnFields(dfs) /\ Descends(dfs) /\ RootsVisited
      /\ Ranks # {} => Covered(dfs, sorted, None) /\ EmittedFirst(sorted)
  BY <1>1 DEF SortInv
<1>4. /\ Marks(rest, sorted, visited) /\ OwnFields(rest) /\ Descends(rest)
      /\ Ranks # {} => Covered(rest, sorted, n)
      /\ n \in Contained(rest[Len(rest)].name) /\ rest \in Seq(Visits)
  BY <1>1, <1>3, RestKeeps, RestShape DEF n
<1>5. /\ Marks(dfs', sorted, visited') /\ OwnFields(dfs') /\ Descends(dfs')
      /\ Ranks # {} => Covered(dfs', sorted, None)
      /\ visited \subseteq visited'
  BY <1>1, <1>2, <1>4, VisitKeeps
<1>6. RootsVisited'
  BY <1>1, <1>3, <1>5 DEF RootsVisited
<1>7. QED
  BY <1>1, <1>3, <1>5, <1>6, SameStructs DEF SortInv

\* Any other field.
LEMMA SkipFieldKeeps ==
  ASSUME TypeOK, SortInv, SkipField
  PROVE  SortInv'
<1>1. /\ Resolved /\ Resolved' /\ UNCHANGED <<prog, resolved>> /\ phase' = "sort"
      /\ sorted' = sorted /\ next' = next /\ visited' = visited /\ AtDependency
      /\ ~ByValue(Head(dfs[Len(dfs)].todo)) /\ dfs' = rest
  BY DEF SkipField, AtDependency, Resolved, Last
<1>2. /\ Marks(dfs, sorted, visited) /\ OwnFields(dfs) /\ Descends(dfs) /\ RootsVisited
      /\ Ranks # {} => Covered(dfs, sorted, None) /\ EmittedFirst(sorted)
  BY <1>1 DEF SortInv
<1>3. /\ Marks(rest, sorted, visited) /\ OwnFields(rest) /\ Descends(rest)
      /\ Ranks # {} => Covered(rest, sorted, None)
  BY <1>1, <1>2, RestKeeps
<1>4. RootsVisited'
  BY <1>1, <1>2 DEF RootsVisited
<1>5. QED
  BY <1>1, <1>2, <1>3, <1>4, SameStructs DEF SortInv

\* The newest visit has looked at all its fields.
LEMMA EmitKeeps ==
  ASSUME TypeOK, SortInv, EmitStruct
  PROVE  SortInv'
<1> DEFINE L == Len(dfs)
           K == Len(sorted)
           top == dfs[L].name
<1>1. /\ Resolved /\ Resolved' /\ UNCHANGED <<prog, resolved>> /\ phase' = "sort"
      /\ next' = next /\ visited' = visited /\ dfs # << >> /\ dfs[L].todo = << >>
      /\ sorted' = Append(sorted, top) /\ dfs' = SubSeq(dfs, 1, L - 1)
  BY DEF EmitStruct, Resolved, Last, Front
<1>2. dfs \in Seq(Visits) /\ L \in Nat \ {0} /\ sorted \in Seq(Names) /\ K \in Nat
  BY <1>1, EmptySeq, LenProperties DEF TypeOK, Visits
<1>3. L \in 1 .. L /\ dfs[L] \in Visits
  BY <1>2, ElementOfSeq
<1>4. top \in Names
  BY <1>3 DEF Visits
<1>5. /\ Len(sorted') = K + 1 /\ sorted'[K + 1] = top
      /\ \A k \in 1 .. K : sorted'[k] = sorted[k]
  BY <1>1, <1>2, <1>4, AppendProperties
<1>6. Len(dfs') = L - 1 /\ \A i \in 1 .. L - 1 : dfs'[i] = dfs[i]
  <2> DEFINE d == SubSeq(dfs, 1, L - 1)
  <2>1. 1 \in Int /\ L - 1 \in Int /\ \A i \in 1 .. L - 1 : dfs[i] \in Visits
    BY <1>2, ElementOfSeq
  <2>2. /\ Len(d) = IF 1 <= L - 1 THEN L - 1 - 1 + 1 ELSE 0
        /\ \A i \in 1 .. L - 1 - 1 + 1 : d[i] = dfs[1 + i - 1]
    BY <2>1, SubSeqProperties
  <2>3. dfs' = d
    BY <1>1
  <2> HIDE DEF d, L
  <2>4. Len(d) = L - 1
    <3>1. L \in Nat /\ L >= 1
      BY <1>2
    <3>2. Len(d) = IF 1 <= L - 1 THEN L - 1 - 1 + 1 ELSE 0
      BY <2>2
    <3>3. QED
      BY <3>1, <3>2
  <2>5. ASSUME NEW i \in 1 .. L - 1
        PROVE  d[i] = dfs[i]
    <3>1. i \in 1 .. L - 1 - 1 + 1 /\ 1 + i - 1 = i
      BY <1>2
    <3>2. QED
      BY <2>2, <3>1
  <2>6. QED
    BY <2>3, <2>4, <2>5
<1>7. /\ Marks(dfs, sorted, visited) /\ OwnFields(dfs) /\ Descends(dfs) /\ RootsVisited
      /\ Ranks # {} => Covered(dfs, sorted, None) /\ EmittedFirst(sorted)
  BY <1>1 DEF SortInv
<1> HIDE DEF L, K
<1>8. Marks(dfs', sorted', visited)
  <2>1. visited = {sorted'[k] : k \in 1 .. K + 1} \cup {dfs'[i].name : i \in 1 .. L - 1}
    <3>1. visited = {sorted[k] : k \in 1 .. K} \cup {dfs[i].name : i \in 1 .. L}
      BY <1>7 DEF Marks, K, L
    <3>2. 1 .. K + 1 = 1 .. K \cup {K + 1} /\ 1 .. L = 1 .. L - 1 \cup {L}
      BY <1>2
    <3>3. {sorted'[k] : k \in 1 .. K + 1} = {sorted[k] : k \in 1 .. K} \cup {top}
      BY <1>5, <3>2
    <3>4. {dfs[i].name : i \in 1 .. L} = {dfs'[i].name : i \in 1 .. L - 1} \cup {top}
      BY <1>6, <3>2
    <3>5. QED
      BY <3>1, <3>3, <3>4
  <2>2. \A k \in 1 .. K : sorted[k] # top
    BY <1>3, <1>7 DEF Marks, K, L
  <2>3. ASSUME NEW j \in 1 .. K + 1, NEW k \in 1 .. K + 1, sorted'[j] = sorted'[k]
        PROVE  j = k
    <3>1. CASE j = K + 1 /\ k = K + 1
      BY <3>1
    <3>2. CASE j \in 1 .. K /\ k \in 1 .. K
      BY <1>5, <1>7, <2>3, <3>2 DEF Marks, K
    <3>3. CASE j = K + 1 /\ k \in 1 .. K
      BY <1>5, <2>2, <2>3, <3>3
    <3>4. CASE j \in 1 .. K /\ k = K + 1
      BY <1>5, <2>2, <2>3, <3>4
    <3>5. QED
      BY <1>2, <3>1, <3>2, <3>3, <3>4
  <2>4. ASSUME NEW i \in 1 .. L - 1
        PROVE  /\ i \in 1 .. L /\ i # L /\ dfs'[i] = dfs[i]
    BY <1>2, <1>6
  <2>5. ASSUME NEW i \in 1 .. L - 1, NEW j \in 1 .. L - 1, dfs'[i].name = dfs'[j].name
        PROVE  i = j
    BY <1>7, <2>4, <2>5 DEF Marks, L
  <2>6. ASSUME NEW i \in 1 .. L - 1, NEW k \in 1 .. K + 1
        PROVE  dfs'[i].name # sorted'[k]
    <3>1. CASE k \in 1 .. K
      <4>1. dfs[i].name # sorted[k]
        BY <1>7, <2>4, <3>1 DEF Marks, K, L
      <4>2. QED
        BY <1>5, <2>4, <3>1, <4>1
    <3>2. CASE k = K + 1
      BY <1>3, <1>5, <1>7, <2>4, <3>2 DEF Marks, L
    <3>3. QED
      BY <1>2, <3>1, <3>2
  <2>7. QED
    BY <1>5, <1>6, <2>1, <2>3, <2>5, <2>6 DEF Marks
<1>9. \A i \in 1 .. L - 1 : i \in 1 .. L /\ i # L /\ i + 1 \in 1 .. L
  BY <1>2
<1>10. OwnFields(dfs') /\ Descends(dfs')
  <2>1. OwnFields(dfs')
    BY <1>6, <1>7, <1>9 DEF OwnFields, L
  <2>2. ASSUME NEW r \in Ranks, NEW i \in 1 .. L - 1, NEW j \in 1 .. L - 1, i < j
        PROVE  r[dfs'[j].name] < r[dfs'[i].name]
    <3>1. r[dfs[j].name] < r[dfs[i].name]
      BY <1>7, <1>9, <2>2 DEF Descends, L
    <3>2. QED
      BY <1>6, <3>1
  <2>3. QED
    BY <1>6, <2>1, <2>2 DEF Descends
<1>11. ASSUME Ranks # {}, NEW i \in 1 .. L - 1, NEW m \in Contained(dfs'[i].name)
       PROVE  \/ \E k \in 1 .. K + 1 : sorted'[k] = m
              \/ m \in Refs(dfs'[i].todo)
              \/ m = (IF i = L - 1 THEN None ELSE dfs'[i + 1].name)
  <2>1. \/ \E k \in 1 .. K : sorted[k] = m
        \/ m \in Refs(dfs[i].todo)
        \/ m = dfs[i + 1].name
    BY <1>6, <1>7, <1>9, <1>11 DEF Covered, K, L
  <2>2. \A k \in 1 .. K : k \in 1 .. K + 1
    BY <1>2
  <2>3. K + 1 \in 1 .. K + 1
    BY <1>2
  <2>4. i # L - 1 => i + 1 \in 1 .. L - 1
    BY <1>2
  <2>5. i = L - 1 => i + 1 = L
    BY <1>2
  <2>6. QED
    BY <1>5, <1>6, <2>1, <2>2, <2>3, <2>4, <2>5
<1>12. Ranks # {} => Covered(dfs', sorted', None)
  BY <1>5, <1>6, <1>11 DEF Covered
<1>13. ASSUME Ranks # {}
       PROVE  EmittedFirst(sorted')
  <2>1. ASSUME NEW m \in Contained(top)
        PROVE  \E j \in 1 .. K : sorted[j] = m
    <3>1. m # None
      BY <1>4, ContainedRefs
    <3>2. m \notin Refs(dfs[L].todo)
      <4>1. Len(dfs[L].todo) = 0
        BY <1>1 DEF L
      <4>2. QED
        BY <4>1 DEF Refs
    <3>3. QED
      BY <1>3, <1>7, <1>13, <2>1, <3>1, <3>2 DEF Covered, K, L
  <2>2. SUFFICES ASSUME NEW k \in 1 .. K + 1, NEW m \in Contained(sorted'[k])
                 PROVE  \E j \in 1 .. k - 1 : sorted'[j] = m
    BY <1>5 DEF EmittedFirst
  <2>3. CASE k = K + 1
    <3>1. PICK j \in 1 .. K : sorted[j] = m
      BY <1>5, <2>1, <2>2, <2>3
    <3>2. j \in 1 .. k - 1 /\ sorted'[j] = m
      BY <1>2, <1>5, <2>3, <3>1
    <3>3. QED
      BY <3>2
  <2>4. CASE k \in 1 .. K
    <3>1. PICK j \in 1 .. k - 1 : sorted[j] = m
      BY <1>5, <1>7, <1>13, <2>2, <2>4 DEF EmittedFirst, K
    <3>2. j \in 1 .. K
      BY <1>2, <2>4
    <3>3. QED
      BY <1>5, <3>1, <3>2
  <2>5. QED
    BY <1>2, <2>3, <2>4
<1>14. RootsVisited'
  BY <1>1, <1>7 DEF RootsVisited
<1>15. QED
  BY <1>1, <1>8, <1>10, <1>12, <1>13, <1>14, SameStructs DEF SortInv

\* Every step keeps the invariant.
LEMMA SortInvStep ==
  ASSUME TypeOK, SortInv, [Next]_vars
  PROVE  SortInv'
<1>1. CASE ~Resolved
  BY <1>1, BeforeSort
<1>2. CASE Resolved
  <2>1. /\ \/ UNCHANGED vars \/ VisitRoot \/ VisitDependency \/ SkipField
           \/ EmitStruct \/ Done
        /\ UNCHANGED <<prog, resolved>> /\ Resolved'
    BY <1>2, AfterFields
  <2>2. CASE UNCHANGED vars
    BY <1>2, <2>1, <2>2, SameStructs DEF SortInv, vars, RootsVisited
  <2>3. CASE Done
    <3>1. /\ UNCHANGED sorting /\ next' = next /\ dfs = << >> /\ next > Len(prog.order)
      BY <2>3 DEF Done
    <3>2. UNCHANGED <<dfs, visited, sorted>>
      BY <3>1 DEF sorting
    <3>3. RootsVisited' <=> RootsVisited
      BY <2>1, <3>1, <3>2 DEF RootsVisited
    <3>4. QED
      BY <1>2, <2>1, <3>1, <3>2, <3>3, SameStructs DEF SortInv
  <2>4. QED
    BY <2>1, <2>2, <2>3, VisitRootKeeps, VisitDependencyKeeps, SkipFieldKeeps, EmitKeeps
<1>3. QED
  BY <1>1, <1>2

\* At the end no visit is left.
LEMMA SortedAtEnd ==
  ASSUME TypeOK, SortInv
  PROVE  DependenciesFirst
<1>1. SUFFICES ASSUME phase = "done", ~ContainsItself
               PROVE  /\ ToSet(prog.order) \subseteq ToSet(sorted) /\ IsInjective(sorted)
                      /\ \A k \in DOMAIN sorted : \A m \in Contained(sorted[k]) :
                           \E j \in 1 .. k - 1 : sorted[j] = m
  BY DEF DependenciesFirst
<1>2. Ranks # {}
  BY <1>1 DEF ContainsItself, Ranks
<1>3. /\ Marks(dfs, sorted, visited) /\ RootsVisited /\ EmittedFirst(sorted)
      /\ dfs = << >> /\ next > Len(prog.order)
  BY <1>1, <1>2 DEF SortInv, Resolved
<1>4. DOMAIN sorted = 1 .. Len(sorted) /\ DOMAIN prog.order = 1 .. Len(prog.order)
      /\ Len(prog.order) \in Nat /\ next \in Nat
  BY ProgType, LenProperties DEF TypeOK
<1>5. visited = ToSet(sorted)
  <2>1. Len(dfs) = 0
    BY <1>3
  <2>2. QED
    BY <1>3, <1>4, <2>1 DEF Marks, ToSet
<1>6. ToSet(prog.order) \subseteq visited
  BY <1>3, <1>4 DEF RootsVisited, ToSet
<1>7. IsInjective(sorted)
  BY <1>3, <1>4 DEF Marks, IsInjective
<1>8. QED
  BY <1>3, <1>4, <1>5, <1>6, <1>7 DEF EmittedFirst

\* Whatever the file, and in whatever order it declares its structs: when none
\* contains itself by value, topoSort puts each once, after all it contains.
THEOREM DependenciesFirstAlways == Spec => []DependenciesFirst
<1>1. Init => SortInv
  BY DEF Init, SortInv, Idle, Resolved
<1>2. TypeOK /\ SortInv /\ [Next]_vars => SortInv'
  BY SortInvStep
<1>3. TypeOK /\ SortInv => DependenciesFirst
  BY SortedAtEnd
<1>4. QED
  BY <1>1, <1>2, <1>3, ResolverTypeCorrect, PTL DEF Spec

(***************************************************************************)
(* The members, the sizes and the offsets of the structs that have been    *)
(* resolved.                                                               *)
(*                                                                         *)
(* Most definitions are about d, the definitions of a file (prog.def), D,  *)
(* one of them, r, the structs (resolved), s, the calls (stack), and fin,  *)
(* the structs that some call has completed.                               *)
(***************************************************************************)

Blank == [members |-> << >>, size |-> 0, inline |-> 0]

\* AddsMember, for a definition that is given.
Adds(D, s) == CASE s.is = "pad" -> TRUE
                [] s.is = "if"  -> s.cond = "ok"
                [] s.is = "var" -> ~s.bad \/ (~D.union /\ s.size > 0)

\* The members that the first i statements of D add, and those of its parent.
Adding(D, i) == {k \in 1 .. i : Adds(D, D.body[k])}
Tally(D, i) == Cardinality(Adding(D, i))
FromParent(r, D) == IF D.parent = None THEN 0 ELSE Len(r[D.parent].members)

\* The running offset after i statements of a struct without members: nothing but a
\* number after @ has moved it.
StartOf(r, D) == IF D.parent = None THEN 0
                 ELSE IF r[D.parent].size > 0 THEN r[D.parent].size ELSE 0
Moved(D, i) == {k \in 1 .. i : D.body[k].is = "var" /\ ~D.union /\ D.body[k].at >= 0}
Reaches(r, D, i, o) ==
  \/ Moved(D, i) = {} /\ o = StartOf(r, D)
  \/ \E k \in Moved(D, i) : (\A j \in Moved(D, i) : j <= k) /\ o = D.body[k].at

\* The struct that a frame calls for.
Target(D, f) == IF f.at = 0 THEN D.parent
                ELSE IF D.body[f.at].is = "if" THEN D.body[f.at].decls[f.sub].ref
                     ELSE D.body[f.at].ref

\* A struct that has nothing to resolve.
Bare(D) == D.body = << >> /\ D.parent = None /\ ~D.template

Settled(d, n, fin) == n \in fin \/ Bare(d[n])
ParentSettled(d, n, fin) == d[n].parent # None => Settled(d, d[n].parent, fin)

\* What is settled stays as it is.
Agree(d, r, r2, fin) == \A n \in Names : Settled(d, n, fin) => r2[n] = r[n]

-----------------------------------------------------------------------------
(***************************************************************************)
(* The calls, the members they have added and the offsets they have reached*)
(***************************************************************************)
Distinct(s) == \A i, j \in 1 .. Len(s) : s[i].name = s[j].name => i = j

\* What is neither complete nor in progress is blank.
Untouched(d, r, s, fin) ==
  \A n \in Names :
    /\ Bare(d[n]) => r[n] = Blank
    /\ n \in fin \/ (\E k \in 1 .. Len(s) : s[k].name = n /\ s[k].at # 0) \/ r[n] = Blank

FrameOK(d, r, f, fin) ==
  /\ f.at <= Len(d[f.name].body) + 1
  /\ f.at = 0 /\ f.called => r[f.name].members = << >>
  /\ f.at # 0 =>
       /\ ~d[f.name].template /\ ParentSettled(d, f.name, fin)
       /\ Len(r[f.name].members) = FromParent(r, d[f.name]) + Tally(d[f.name], f.at - 1)
       /\ r[f.name].members = << >> => Reaches(r, d[f.name], f.at - 1, f.offset)
       /\ f.name \in fin => r[f.name].members = << >>

\* Each call but the newest waits for the one above it; the newest may have waited.
Links(d, s, fin) ==
  \A k \in 1 .. Len(s) :
    LET f == s[k]
    IN  /\ k < Len(s) => f.called /\ Target(d[f.name], f) = s[k + 1].name
        /\ k = Len(s) /\ f.called => Target(d[f.name], f) \in fin

CompleteOK(d, r, n, fin) ==
  /\ ParentSettled(d, n, fin)
  /\ d[n].template => /\ Len(r[n].members) = FromParent(r, d[n])
                      /\ r[n].size = -1 /\ r[n].inline = 0
  /\ ~d[n].template =>
       /\ Len(r[n].members) = FromParent(r, d[n]) + Tally(d[n], Len(d[n].body))
       /\ r[n].size \in {-1, r[n].inline}
       /\ r[n].members = << >> => /\ Reaches(r, d[n], Len(d[n].body), r[n].inline)
                                  /\ r[n].size = r[n].inline

Core(d, r, s, fin) ==
  /\ Distinct(s) /\ Untouched(d, r, s, fin) /\ Links(d, s, fin)
  /\ \A k \in 1 .. Len(s) : FrameOK(d, r, s[k], fin)
  /\ \A n \in fin : CompleteOK(d, r, n, fin)

(***************************************************************************)
(* Why no call is for a struct in progress: calls lead down the ranks, or a*)
(* struct that calls has a member.                                         *)
(***************************************************************************)
Ordered(rank) ==
  \A n \in Names : \A m \in Mentions(n) : rank[m] < rank[n] /\ ~Hollow(m)

Descending(s, rank) ==
  \A i, j \in 1 .. Len(s) : i < j => rank[s[j].name] < rank[s[i].name]

Started(r, s) ==
  \A k \in 1 .. Len(s) : /\ k < Len(s) => s[k].at >= 2
                         /\ s[k].at >= 2 => r[s[k].name].members # << >>

-----------------------------------------------------------------------------
(***************************************************************************)
(* The sizes taken over into fields.                                       *)
(***************************************************************************)
SizeFinal(r, f) ==
  /\ f.elem = r[f.ref].size
  /\ f.kind = "struct" => f.size = r[f.ref].size
  /\ f.kind = "structs" /\ f.len >= 0 => f.size = f.len * r[f.ref].size

Captured(d, r, fs, fin) ==
  \A f \in ToSet(fs) : ByValue(f) => Settled(d, f.ref, fin) /\ SizeFinal(r, f)

Sizes(d, r, s, fin) ==
  /\ \A n \in Names : Captured(d, r, FieldsOf(r[n].members), fin)
  /\ \A k \in 1 .. Len(s) : Captured(d, r, s[k].acc, fin)

(***************************************************************************)
(* The bytes.  No two placed members share one, and none reaches past o.   *)
(***************************************************************************)
ReachOf(r, f) == IF f.kind = "flat" THEN f.off + f.size
                 ELSE f.off + (IF f.len = Single THEN 1 ELSE f.len) * r[f.ref].inline

Apart(r, ms, o) ==
  \A j \in 1 .. Len(ms) :
    ms[j].is = "field" =>
      /\ ReachOf(r, ms[j]) <= o
      /\ \A k \in 1 .. Len(ms) :
           ms[k].is = "field" /\ j < k => ReachOf(r, ms[j]) <= ms[k].off

InLine(d, r, n) ==
  /\ ~d[n].union /\ ~d[n].template /\ d[n].parent = None
  /\ \A k \in 1 .. Len(d[n].body) : d[n].body[k].is = "var" => d[n].body[k].at = Here
  /\ \A f \in ToSet(FieldsOf(r[n].members)) :
       f.len # Expr /\ ~(f.kind = "structs" /\ r[f.ref].size < 0)

Places(d, r, s, fin) ==
  /\ \A n \in fin : InLine(d, r, n) => Apart(r, r[n].members, r[n].inline)
  /\ \A k \in 1 .. Len(s) :
       s[k].at # 0 /\ InLine(d, r, s[k].name) => Apart(r, r[s[k].name].members, s[k].offset)

(***************************************************************************)
(* The bytes again, all of them.  In a file that places everything by its  *)
(* position, each member begins where the bytes of those before it end,    *)
(* unless the parent is dynamic: then the struct is dynamic, too.          *)
(***************************************************************************)
BytesOf(r, m) == CASE m.is = "pad"   -> m.size
                   [] m.is = "cond"  -> 0
                   [] m.is = "field" -> IF m.remote THEN 0
                                        ELSE IF m.kind = "struct" THEN r[m.ref].inline
                                        ELSE IF m.size > 0 THEN m.size ELSE 0

Along(r, ms, o, p) ==
  /\ p[1] = 0 /\ p[Len(ms) + 1] = o
  /\ \A k \in 1 .. Len(ms) :
       /\ p[k + 1] = p[k] + BytesOf(r, ms[k])
       /\ ms[k].is = "field" /\ ~ms[k].remote => ms[k].off = p[k]
Lined(r, ms, o) == \E p \in [1 .. Len(ms) + 1 -> Nat] : Along(r, ms, o, p)

ByPosition(d) ==
  \A n \in Names :
    /\ ~d[n].union /\ ~d[n].template
    /\ \A k \in 1 .. Len(d[n].body) :
         d[n].body[k].is = "var" => d[n].body[k].at \in {Here, Expr}

Straight(d, r, n) == d[n].parent # None => ~HasDynamicFields(r[d[n].parent].members)

Even(d, r, n, o) == IF Straight(d, r, n) THEN Lined(r, r[n].members, o)
                                         ELSE HasDynamicFields(r[n].members)

Lines(d, r, s, fin) ==
  ByPosition(d) =>
    /\ \A n \in fin : /\ r[n].size = -1 => HasDynamicFields(r[n].members)
                      /\ Even(d, r, n, r[n].inline)
    /\ \A k \in 1 .. Len(s) : s[k].at # 0 => Even(d, r, s[k].name, s[k].offset)

-----------------------------------------------------------------------------
(***************************************************************************)
(* The parents.                                                            *)
(***************************************************************************)
Active == phase \in {"fields", "sort", "done"}

NoMissing == \A n \in Names : prog.def[n].parent # Missing

\* A struct whose parent is unknown gets no members, and the main loop does not get
\* past it.
ParentsKnown ==
  /\ \A n \in Names : resolved[n].members # << >> => prog.def[n].parent # Missing
  /\ \A k \in 1 .. Len(stack) : stack[k].at # 0 => prog.def[stack[k].name].parent # Missing
  /\ phase = "fields" =>
       /\ stack # << >> => /\ next \in 2 .. Len(prog.order) + 1
                           /\ stack[1].name = prog.order[next - 1]
       /\ \A k \in 1 .. Len(prog.order) :
            \/ k >= next \/ (stack # << >> /\ k = next - 1)
            \/ prog.def[prog.order[k]].parent # Missing
  /\ Resolved => NoMissing /\ stack = << >>

\* The main loop has completed what it has been through.
RootsDone(fin) ==
  /\ phase = "fields" => \A k \in 1 .. Len(prog.order) :
       k >= next \/ (stack # << >> /\ k = next - 1) \/ prog.order[k] \in fin
  /\ Resolved => fin = Names

Lazily(fin) == Core(prog.def, resolved, stack, fin) /\ RootsDone(fin)

InOrder(rank, fin) ==
  /\ Ordered(rank) /\ Descending(stack, rank) /\ Lazily(fin)
  /\ Sizes(prog.def, resolved, stack, fin) /\ Places(prog.def, resolved, stack, fin)
  /\ Lines(prog.def, resolved, stack, fin)

FromPlain(fin) == Started(resolved, stack) /\ Lazily(fin)

RInv ==
  NoMissing /\ Active =>
    /\ Orderly => \E rank \in [Names -> Nat], fin \in SUBSET Names : InOrder(rank, fin)
    /\ StartsPlain => \E fin \in SUBSET Names : FromPlain(fin)

-----------------------------------------------------------------------------
(***************************************************************************)
(* Lemmas: the members a body adds, and the offset it reaches without any. *)
(***************************************************************************)

LEMMA TallyStep ==
  ASSUME NEW D, NEW i \in Nat
  PROVE  /\ IsFiniteSet(Adding(D, i)) /\ Tally(D, i) \in Nat
         /\ Tally(D, 0) = 0
         /\ Tally(D, i + 1) = Tally(D, i) + (IF Adds(D, D.body[i + 1]) THEN 1 ELSE 0)
<1>1. IsFiniteSet(1 .. i) /\ IsFiniteSet(1 .. 0)
  BY FS_Interval
<1>2. Adding(D, i) \in SUBSET (1 .. i)
  BY DEF Adding
<1>3. IsFiniteSet(Adding(D, i))
  BY <1>1, <1>2, FS_Subset
<1>4. Tally(D, i) \in Nat
  BY <1>3, FS_CardinalityType DEF Tally
<1>5. Tally(D, 0) = 0
  <2>1. Adding(D, 0) = {}
    BY DEF Adding
  <2>2. QED
    BY <2>1, FS_EmptySet DEF Tally
<1>6. CASE Adds(D, D.body[i + 1])
  <2>1. Adding(D, i + 1) = Adding(D, i) \cup {i + 1} /\ i + 1 \notin Adding(D, i)
    BY <1>6 DEF Adding
  <2>2. QED
    BY <1>3, <1>4, <1>5, <1>6, <2>1, FS_AddElement DEF Tally
<1>7. CASE ~Adds(D, D.body[i + 1])
  <2>1. Adding(D, i + 1) = Adding(D, i)
    BY <1>7 DEF Adding
  <2>2. QED
    BY <1>3, <1>4, <1>5, <1>7, <2>1 DEF Tally
<1>8. QED
  BY <1>6, <1>7

LEMMA TallyZero ==
  ASSUME NEW D, NEW i \in Nat, Tally(D, i) = 0
  PROVE  \A k \in 1 .. i : ~Adds(D, D.body[k])
<1>1. IsFiniteSet(Adding(D, i))
  BY TallyStep
<1>2. Adding(D, i) = {}
  BY <1>1, FS_EmptySet DEF Tally
<1>3. QED
  BY <1>2 DEF Adding

\* The offset is determined.
LEMMA ReachesUnique ==
  ASSUME NEW r, NEW D, NEW i \in Nat, NEW o, NEW p, Reaches(r, D, i, o), Reaches(r, D, i, p)
  PROVE  o = p
<1>1. CASE Moved(D, i) = {}
  BY <1>1 DEF Reaches
<1>2. CASE Moved(D, i) # {}
  <2>1. PICK k \in Moved(D, i) : (\A j \in Moved(D, i) : j <= k) /\ o = D.body[k].at
    BY <1>2 DEF Reaches
  <2>2. PICK l \in Moved(D, i) : (\A j \in Moved(D, i) : j <= l) /\ p = D.body[l].at
    BY <1>2 DEF Reaches
  <2>3. k \in Nat /\ l \in Nat /\ k <= l /\ l <= k
    BY <2>1, <2>2 DEF Moved
  <2>4. QED
    BY <2>1, <2>2, <2>3
<1>3. QED
  BY <1>1, <1>2

LEMMA ReachesStep ==
  ASSUME NEW r, NEW D, NEW i \in Nat, NEW o, NEW p, Reaches(r, D, i, o),
         p = IF D.body[i + 1].is = "var" /\ ~D.union /\ D.body[i + 1].at >= 0
             THEN D.body[i + 1].at ELSE o
  PROVE  Reaches(r, D, i + 1, p)
<1>1. CASE D.body[i + 1].is = "var" /\ ~D.union /\ D.body[i + 1].at >= 0
  <2>1. i + 1 \in Moved(D, i + 1) /\ \A j \in Moved(D, i + 1) : j <= i + 1
    BY <1>1 DEF Moved
  <2>2. QED
    BY <1>1, <2>1 DEF Reaches
<1>2. CASE ~(D.body[i + 1].is = "var" /\ ~D.union /\ D.body[i + 1].at >= 0)
  <2>1. Moved(D, i + 1) = Moved(D, i) /\ p = o
    BY <1>2 DEF Moved
  <2>2. QED
    BY <2>1 DEF Reaches
<1>3. QED
  BY <1>1, <1>2

LEMMA ReachesStart ==
  ASSUME NEW r, NEW D
  PROVE  Reaches(r, D, 0, StartOf(r, D))
BY DEF Reaches, Moved

-----------------------------------------------------------------------------
(***************************************************************************)
(* Lemmas: the fields of a member list.                                    *)
(***************************************************************************)
Holds(s, x) == \E i \in 1 .. Len(s) : s[i] = x

LEMMA HoldsToSet ==
  ASSUME NEW S, NEW s \in Seq(S), NEW x
  PROVE  x \in ToSet(s) <=> Holds(s, x)
<1>1. DOMAIN s = 1 .. Len(s)
  BY LenProperties
<1>2. QED
  BY <1>1 DEF ToSet, Holds

LEMMA HoldsConcat ==
  ASSUME NEW S, NEW s \in Seq(S), NEW t \in Seq(S), NEW x
  PROVE  Holds(s \o t, x) <=> Holds(s, x) \/ Holds(t, x)
<1>1. /\ Len(s) \in Nat /\ Len(t) \in Nat /\ Len(s \o t) = Len(s) + Len(t)
      /\ \A i \in 1 .. Len(s) + Len(t) :
           (s \o t)[i] = IF i <= Len(s) THEN s[i] ELSE t[i - Len(s)]
  BY ConcatProperties
<1>2. ASSUME Holds(s \o t, x) PROVE Holds(s, x) \/ Holds(t, x)
  <2>1. PICK i \in 1 .. Len(s) + Len(t) : (s \o t)[i] = x
    BY <1>1, <1>2 DEF Holds
  <2>2. CASE i <= Len(s)
    BY <1>1, <2>1, <2>2 DEF Holds
  <2>3. CASE ~(i <= Len(s))
    <3>1. i - Len(s) \in 1 .. Len(t)
      BY <1>1, <2>1, <2>3
    <3>2. QED
      BY <1>1, <2>1, <2>3, <3>1 DEF Holds
  <2>4. QED
    BY <2>2, <2>3
<1>3. ASSUME Holds(s, x) PROVE Holds(s \o t, x)
  <2>1. PICK i \in 1 .. Len(s) : s[i] = x
    BY <1>3 DEF Holds
  <2>2. i \in 1 .. Len(s) + Len(t) /\ i <= Len(s)
    BY <1>1, <2>1
  <2>3. QED
    BY <1>1, <2>1, <2>2 DEF Holds
<1>4. ASSUME Holds(t, x) PROVE Holds(s \o t, x)
  <2>1. PICK i \in 1 .. Len(t) : t[i] = x
    BY <1>4 DEF Holds
  <2>2. i + Len(s) \in 1 .. Len(s) + Len(t) /\ ~(i + Len(s) <= Len(s)) /\ i + Len(s) - Len(s) = i
    BY <1>1, <2>1
  <2>3. QED
    BY <1>1, <2>1, <2>2 DEF Holds
<1>5. QED
  BY <1>2, <1>3, <1>4

\* What is in the joined sequence is in one of the parts, and conversely.
LEMMA FlattenHolds ==
  ASSUME NEW S, NEW ss \in Seq(Seq(S)), NEW x
  PROVE  Holds(FlattenSeq(ss), x) <=> \E k \in 1 .. Len(ss) : Holds(ss[k], x)
<1>0. Len(ss) \in Nat /\ \A k \in 1 .. Len(ss) : ss[k] \in Seq(S)
  BY ElementOfSeq
<1>1. CASE Len(ss) = 0
  <2>1. ss = << >>
    BY <1>1, EmptySeq
  <2>2. FlattenSeq(ss) = << >>
    BY <1>1, <2>1 DEF FlattenSeq
  <2>3. QED
    BY <1>1, <2>2 DEF Holds
<1>2. CASE Len(ss) # 0
  <2>1. Len(ss) \in 1 .. Len(ss)
    BY <1>0, <1>2
  <2>2. PICK f : JoinsTo(ss, f, Len(ss), S)
    BY <2>1, JoinExists
  <2>3. f = FlatBody(ss, f)
    BY <2>2 DEF JoinsTo, FlatBody
  <2>4. PICK g : g = FlatBody(ss, g) /\ FlattenSeq(ss) = g[Len(ss)]
    BY <1>2, <2>3, FlattenChosen
  <2>5. FlattenSeq(ss) = f[Len(ss)]
    BY <2>1, <2>2, <2>4, JoinUnique
  <2> DEFINE Right(m) == Holds(f[m], x) <=> \E k \in 1 .. m : Holds(ss[k], x)
             Wrong == {m \in 1 .. Len(ss) : ~Right(m)}
  <2>6. ASSUME NEW m \in 1 .. Len(ss), m # 1 => Right(m - 1)
        PROVE  Right(m)
    <3>1. f[m] = IF m = 1 THEN ss[m] ELSE f[m - 1] \o ss[m]
      BY <2>2 DEF JoinsTo
    <3>2. CASE m = 1
      BY <3>1, <3>2
    <3>3. CASE m # 1
      <4>1. m - 1 \in 1 .. Len(ss) /\ m \in Nat
        BY <1>0, <3>3
      <4>2. f[m - 1] \in Seq(S) /\ ss[m] \in Seq(S)
        BY <1>0, <2>2, <4>1 DEF JoinsTo
      <4>3. Holds(f[m], x) <=> Holds(f[m - 1], x) \/ Holds(ss[m], x)
        BY <3>1, <3>3, <4>2, HoldsConcat
      <4>4. \A k : k \in 1 .. m <=> k \in 1 .. m - 1 \/ k = m
        BY <1>0, <3>3
      <4>5. QED
        BY <2>6, <3>3, <4>3, <4>4
    <3>4. QED
      BY <3>2, <3>3
  <2> HIDE DEF Right
  <2>7. Wrong = {}
    <3>1. SUFFICES ASSUME Wrong # {} PROVE FALSE
      OBVIOUS
    <3>2. PICK m \in Wrong : \A y \in Wrong : m <= y
      <4>1. Wrong \subseteq Nat
        OBVIOUS
      <4> HIDE DEF Wrong
      <4>2. QED
        BY <3>1, <4>1, LeastNumber
    <3>3. m \in 1 .. Len(ss) /\ ~Right(m)
      BY <3>2
    <3>4. m # 1 => m - 1 \in 1 .. Len(ss) /\ ~(m <= m - 1)
      BY <1>0, <3>3
    <3>5. m # 1 => Right(m - 1)
      BY <3>2, <3>4
    <3>6. QED
      BY <2>6, <3>3, <3>5
  <2>8. Right(Len(ss))
    BY <2>1, <2>7
  <2>9. QED
    BY <2>5, <2>8 DEF Right
<1>3. QED
  BY <1>1, <1>2

\* The fields that a member stands for.
Part(m) == CASE m.is = "field" -> <<m>>
             [] m.is = "cond"  -> m.fields
             [] m.is = "pad"   -> << >>

LEMMA PartType ==
  ASSUME NEW m \in Members
  PROVE  /\ Part(m) \in Seq(Fields)
         /\ m.is = "field" => m \in Fields /\ Part(m) = <<m>>
         /\ m.is = "cond" => m \in Conditionals /\ Part(m) = m.fields
         /\ m.is = "pad" => Part(m) = << >>
         /\ m.is \in {"field", "cond", "pad"}
<1>1. CASE m \in Fields
  <2>1. m.is = "field"
    BY <1>1 DEF Fields
  <2>2. <<m>> \in Seq(Fields)
    BY <1>1
  <2>3. QED
    BY <1>1, <2>1, <2>2 DEF Part
<1>2. CASE m \in Pads
  <2>1. m.is = "pad" /\ << >> \in Seq(Fields)
    BY <1>2 DEF Pads
  <2>2. QED
    BY <2>1 DEF Part
<1>3. CASE m \in Conditionals
  BY <1>3 DEF Part, Conditionals
<1>4. QED
  BY <1>1, <1>2, <1>3 DEF Members, Conditionals

LEMMA FieldsOfHolds ==
  ASSUME NEW ms \in Seq(Members), NEW x
  PROVE  x \in ToSet(FieldsOf(ms)) <=> \E k \in 1 .. Len(ms) : Holds(Part(ms[k]), x)
<1> DEFINE parts == [k \in 1 .. Len(ms) |-> Part(ms[k])]
<1>1. Len(ms) \in Nat /\ \A k \in 1 .. Len(ms) : Part(ms[k]) \in Seq(Fields)
  BY PartType, ElementOfSeq
<1>2. parts \in Seq(Seq(Fields)) /\ Len(parts) = Len(ms)
  BY <1>1, IsASeq
<1>3. FieldsOf(ms) = FlattenSeq(parts)
  BY LenProperties DEF FieldsOf, Part
<1>4. FieldsOf(ms) \in Seq(Fields)
  BY FieldsOfType
<1>5. Holds(FieldsOf(ms), x) <=> \E k \in 1 .. Len(ms) : Holds(parts[k], x)
  <2> HIDE DEF parts
  <2>1. QED
    BY <1>2, <1>3, FlattenHolds
<1>6. \A k \in 1 .. Len(ms) : parts[k] = Part(ms[k])
  OBVIOUS
<1>7. QED
  BY <1>4, <1>5, <1>6, HoldsToSet

LEMMA FieldsOfEmpty ==
  /\ FieldsOf(<< >>) = << >>
  /\ ~HasDynamicFields(<< >>)
<1>1. << >> \in Seq(Members) /\ Len(<< >>) = 0
  OBVIOUS
<1>0. FieldsOf(<< >>) \in Seq(Fields)
  BY <1>1, FieldsOfType
<1>2. ASSUME NEW x PROVE ~(x \in ToSet(FieldsOf(<< >>)))
  <2>1. x \in ToSet(FieldsOf(<< >>)) <=> \E k \in 1 .. Len(<< >>) : Holds(Part((<< >>)[k]), x)
    BY <1>1, FieldsOfHolds
  <2>2. 1 .. Len(<< >>) = {}
    BY <1>1
  <2>3. QED
    BY <2>1, <2>2
<1>3. FieldsOf(<< >>) = << >>
  <2>1. SUFFICES ASSUME FieldsOf(<< >>) # << >> PROVE FALSE
    OBVIOUS
  <2>2. 1 \in 1 .. Len(FieldsOf(<< >>))
    BY <1>0, <2>1, EmptySeq
  <2>3. Holds(FieldsOf(<< >>), FieldsOf(<< >>)[1])
    BY <2>2 DEF Holds
  <2>4. QED
    BY <1>0, <1>2, <2>3, HoldsToSet
<1>4. ~HasDynamicFields(<< >>)
  BY <1>2 DEF HasDynamicFields
<1>5. QED
  BY <1>3, <1>4

\* The fields of a list that grows.
LEMMA FieldsOfConcat ==
  ASSUME NEW ms \in Seq(Members), NEW ns \in Seq(Members), NEW x
  PROVE  x \in ToSet(FieldsOf(ms \o ns)) <=>
           x \in ToSet(FieldsOf(ms)) \/ x \in ToSet(FieldsOf(ns))
<1>1. /\ ms \o ns \in Seq(Members) /\ Len(ms) \in Nat /\ Len(ns) \in Nat
      /\ Len(ms \o ns) = Len(ms) + Len(ns)
      /\ \A i \in 1 .. Len(ms) + Len(ns) :
           (ms \o ns)[i] = IF i <= Len(ms) THEN ms[i] ELSE ns[i - Len(ms)]
  BY ConcatProperties
<1>2. /\ x \in ToSet(FieldsOf(ms \o ns)) <=>
           \E k \in 1 .. Len(ms) + Len(ns) : Holds(Part((ms \o ns)[k]), x)
      /\ x \in ToSet(FieldsOf(ms)) <=> \E k \in 1 .. Len(ms) : Holds(Part(ms[k]), x)
      /\ x \in ToSet(FieldsOf(ns)) <=> \E k \in 1 .. Len(ns) : Holds(Part(ns[k]), x)
  <2>1. x \in ToSet(FieldsOf(ms \o ns)) <=>
           \E k \in 1 .. Len(ms \o ns) : Holds(Part((ms \o ns)[k]), x)
    BY <1>1, FieldsOfHolds
  <2>2. QED
    BY <1>1, <2>1, FieldsOfHolds
<1>3. ASSUME NEW k \in 1 .. Len(ms) + Len(ns), Holds(Part((ms \o ns)[k]), x)
      PROVE  \/ \E j \in 1 .. Len(ms) : Holds(Part(ms[j]), x)
             \/ \E j \in 1 .. Len(ns) : Holds(Part(ns[j]), x)
  <2>1. CASE k <= Len(ms)
    BY <1>1, <1>3, <2>1
  <2>2. CASE ~(k <= Len(ms))
    <3>1. k - Len(ms) \in 1 .. Len(ns)
      BY <1>1, <2>2
    <3>2. QED
      BY <1>1, <1>3, <2>2, <3>1
  <2>3. QED
    BY <2>1, <2>2
<1>4. ASSUME NEW j \in 1 .. Len(ms), Holds(Part(ms[j]), x)
      PROVE  \E k \in 1 .. Len(ms) + Len(ns) : Holds(Part((ms \o ns)[k]), x)
  <2>1. j \in 1 .. Len(ms) + Len(ns) /\ j <= Len(ms)
    BY <1>1
  <2>2. QED
    BY <1>1, <1>4, <2>1
<1>5. ASSUME NEW j \in 1 .. Len(ns), Holds(Part(ns[j]), x)
      PROVE  \E k \in 1 .. Len(ms) + Len(ns) : Holds(Part((ms \o ns)[k]), x)
  <2>1. /\ j + Len(ms) \in 1 .. Len(ms) + Len(ns) /\ ~(j + Len(ms) <= Len(ms))
        /\ j + Len(ms) - Len(ms) = j
    BY <1>1
  <2>2. QED
    BY <1>1, <1>5, <2>1
<1>6. QED
  BY <1>2, <1>3, <1>4, <1>5

-----------------------------------------------------------------------------
(***************************************************************************)
(* Lemmas: what a change of one struct keeps of the others.                *)
(***************************************************************************)
Given(d, r, s, fin) ==
  /\ d \in [Names -> Defs] /\ r \in [Names -> Structs] /\ s \in Seq(Frames)
  /\ fin \in SUBSET Names
  /\ \A n \in Names : d[n].parent # Missing

LEMMA GivenTypes ==
  ASSUME NEW d, NEW r, NEW s, NEW fin, Given(d, r, s, fin)
  PROVE  /\ Len(s) \in Nat
         /\ \A k \in 1 .. Len(s) : s[k] \in Frames /\ s[k].name \in Names /\ s[k].at \in Nat
                                   /\ s[k].acc \in Seq(Fields) /\ s[k].offset \in Nat
         /\ \A n \in Names :
              /\ d[n].parent \in Names \cup {None} /\ d[n] \in Defs
              /\ Len(d[n].body) \in Nat
              /\ r[n] \in Structs
              /\ r[n].members \in Seq(Members) /\ Len(r[n].members) \in Nat
              /\ r[n].size \in Nat \cup {-1} /\ r[n].inline \in Nat
<1>1. Len(s) \in Nat /\ \A k \in 1 .. Len(s) : s[k] \in Frames
  BY ElementOfSeq DEF Given
<1>2. \A n \in Names : d[n] \in Defs /\ r[n] \in Structs /\ d[n].parent # Missing
  BY DEF Given
<1>3. QED
  BY <1>1, <1>2, LenProperties DEF Frames, Structs, Defs

\* The parent of a struct is settled before the struct is begun.
LEMMA ParentAgrees ==
  ASSUME NEW d, NEW r, NEW s, NEW fin, Given(d, r, s, fin),
         NEW r2, Agree(d, r, r2, fin), NEW n \in Names, ParentSettled(d, n, fin)
  PROVE  /\ FromParent(r2, d[n]) = FromParent(r, d[n])
         /\ StartOf(r2, d[n]) = StartOf(r, d[n])
         /\ \A i, o : Reaches(r2, d[n], i, o) <=> Reaches(r, d[n], i, o)
<1>1. d[n].parent # None => d[n].parent \in Names /\ r2[d[n].parent] = r[d[n].parent]
  BY GivenTypes DEF Agree, ParentSettled
<1>2. /\ FromParent(r2, d[n]) = FromParent(r, d[n])
      /\ StartOf(r2, d[n]) = StartOf(r, d[n])
  BY <1>1 DEF FromParent, StartOf
<1>3. QED
  BY <1>2 DEF Reaches

LEMMA CompleteStays ==
  ASSUME NEW d, NEW r, NEW s, NEW fin, Given(d, r, s, fin),
         NEW r2, Agree(d, r, r2, fin), NEW fin2, fin \subseteq fin2,
         NEW n \in fin, CompleteOK(d, r, n, fin)
  PROVE  CompleteOK(d, r2, n, fin2)
<1>1. n \in Names /\ ParentSettled(d, n, fin)
  BY DEF Given, CompleteOK
<1>2. ParentSettled(d, n, fin2)
  BY <1>1 DEF ParentSettled, Settled
<1>3. r2[n] = r[n]
  BY <1>1 DEF Agree, Settled
<1>4. QED
  BY <1>1, <1>2, <1>3, ParentAgrees DEF CompleteOK

LEMMA FrameStays ==
  ASSUME NEW d, NEW r, NEW s, NEW fin, Given(d, r, s, fin),
         NEW r2, Agree(d, r, r2, fin), NEW fin2, fin \subseteq fin2,
         NEW f \in Frames, FrameOK(d, r, f, fin),
         r2[f.name] = r[f.name], f.name \in fin2 => f.name \in fin
  PROVE  FrameOK(d, r2, f, fin2)
<1>1. f.name \in Names
  BY DEF Frames
<1>2. CASE f.at = 0
  BY <1>2 DEF FrameOK
<1>3. CASE f.at # 0
  <2>1. ParentSettled(d, f.name, fin)
    BY <1>3 DEF FrameOK
  <2>2. ParentSettled(d, f.name, fin2)
    BY <2>1 DEF ParentSettled, Settled
  <2>3. QED
    BY <1>1, <1>3, <2>1, <2>2, ParentAgrees DEF FrameOK
<1>4. QED
  BY <1>2, <1>3

\* The newest call, of which a step speaks, and the others.
Top(s) == s[Len(s)]

LEMMA TopType ==
  ASSUME NEW d, NEW r, NEW s, NEW fin, Given(d, r, s, fin), s # << >>
  PROVE  /\ Len(s) \in Nat \ {0} /\ Len(s) \in 1 .. Len(s)
         /\ Top(s) \in Frames /\ Top(s).name \in Names
         /\ Front(s) \in Seq(Frames) /\ Len(Front(s)) = Len(s) - 1
         /\ \A k \in 1 .. Len(s) - 1 : k \in 1 .. Len(s) /\ k # Len(s) /\ Front(s)[k] = s[k]
<1>1. s \in Seq(Frames)
  BY DEF Given
<1>2. Len(s) \in Nat \ {0}
  BY <1>1, EmptySeq
<1>3. Top(s) \in Frames /\ \A k \in 1 .. Len(s) : s[k] \in Frames
  BY <1>1, <1>2, ElementOfSeq DEF Top
<1>4. /\ SubSeq(s, 1, Len(s) - 1) \in Seq(Frames)
      /\ Len(SubSeq(s, 1, Len(s) - 1)) = Len(s) - 1
      /\ \A k \in 1 .. Len(s) - 1 : SubSeq(s, 1, Len(s) - 1)[k] = s[k]
  <2>1. \A k \in 1 .. Len(s) - 1 : s[k] \in Frames /\ 1 + k - 1 = k
    BY <1>2, <1>3
  <2>2. Len(s) - 1 \in Int /\ Len(s) - 1 - 1 + 1 = Len(s) - 1
    BY <1>2
  <2>3. /\ SubSeq(s, 1, Len(s) - 1) \in Seq(Frames)
        /\ Len(SubSeq(s, 1, Len(s) - 1)) = IF 1 <= Len(s) - 1 THEN Len(s) - 1 - 1 + 1 ELSE 0
        /\ \A k \in 1 .. Len(s) - 1 - 1 + 1 : SubSeq(s, 1, Len(s) - 1)[k] = s[1 + k - 1]
    BY <2>1, <2>2, SubSeqProperties
  <2>4. QED
    BY <1>2, <2>1, <2>2, <2>3
<1>5. QED
  BY <1>2, <1>3, <1>4 DEF Front, Frames

\* A step of the newest call that stays in it: its struct becomes x, its frame g.
LEMMA CoreSet ==
  ASSUME NEW d, NEW r, NEW s, NEW fin, Given(d, r, s, fin), Core(d, r, s, fin), s # << >>,
         NEW r2, \A n \in Names : n # Top(s).name => r2[n] = r[n], Agree(d, r, r2, fin),
         NEW g \in Frames, g.name = Top(s).name, g.at # 0,
         FrameOK(d, r2, g, fin),
         g.called => Target(d[g.name], g) \in fin,
         NEW s2, s2 = [s EXCEPT ![Len(s)] = g]
  PROVE  Core(d, r2, s2, fin)
<1>1. /\ Len(s) \in 1 .. Len(s) /\ Len(s) \in Nat
      /\ \A k \in 1 .. Len(s) : s[k] \in Frames /\ s[k].name \in Names
  BY GivenTypes, TopType
<1>2. /\ Len(s2) = Len(s)
      /\ \A k \in 1 .. Len(s) : s2[k] = IF k = Len(s) THEN g ELSE s[k]
  BY <1>1, ExceptSeq DEF Given
<1>3. \A k \in 1 .. Len(s) : s2[k].name = s[k].name
  BY <1>2 DEF Top
<1>4. Distinct(s2)
  BY <1>2, <1>3 DEF Distinct, Core
<1>5. ASSUME NEW n \in Names
      PROVE  /\ Bare(d[n]) => r2[n] = Blank
             /\ \/ n \in fin \/ r2[n] = Blank
                \/ \E k \in 1 .. Len(s2) : s2[k].name = n /\ s2[k].at # 0
  <2>1. /\ Bare(d[n]) => r[n] = Blank
        /\ n \in fin \/ (\E k \in 1 .. Len(s) : s[k].name = n /\ s[k].at # 0) \/ r[n] = Blank
    BY DEF Core, Untouched
  <2>2. Bare(d[n]) => r2[n] = Blank
    BY <2>1 DEF Agree, Settled
  <2>3. CASE n = Top(s).name
    <3>1. Len(s) \in 1 .. Len(s2) /\ s2[Len(s)].name = n /\ s2[Len(s)].at # 0
      BY <1>1, <1>2, <2>3
    <3>2. QED
      BY <2>2, <3>1
  <2>4. CASE n # Top(s).name
    <3>1. r2[n] = r[n]
      BY <2>4
    <3>2. ASSUME NEW k \in 1 .. Len(s), s[k].name = n, s[k].at # 0
          PROVE  s2[k].name = n /\ s2[k].at # 0
      <4>1. k # Len(s)
        BY <2>4, <3>2 DEF Top
      <4>2. QED
        BY <1>2, <3>2, <4>1
    <3>3. QED
      BY <1>2, <2>1, <2>2, <3>1, <3>2
  <2>5. QED
    BY <2>3, <2>4
<1>6. Untouched(d, r2, s2, fin)
  BY <1>5 DEF Untouched
<1>7. ASSUME NEW k \in 1 .. Len(s2)
      PROVE  /\ k < Len(s2) => s2[k].called /\ Target(d[s2[k].name], s2[k]) = s2[k + 1].name
             /\ k = Len(s2) /\ s2[k].called => Target(d[s2[k].name], s2[k]) \in fin
  <2>1. CASE k < Len(s)
    <3>0. k \in 1 .. Len(s) /\ Len(s) \in Nat
      BY <1>1, <1>2
    <3>1. k \in 1 .. Len(s) /\ k # Len(s) /\ k + 1 \in 1 .. Len(s)
      BY <2>1, <3>0
    <3>2. s[k].called /\ Target(d[s[k].name], s[k]) = s[k + 1].name
      BY <2>1, <3>1 DEF Core, Links
    <3>3. s2[k] = s[k] /\ s2[k + 1].name = s[k + 1].name /\ k # Len(s2)
      BY <1>2, <1>3, <3>1
    <3>4. QED
      BY <3>2, <3>3
  <2>2. CASE k = Len(s)
    <3>1. s2[k] = g /\ ~(k < Len(s2)) /\ (g.called => Target(d[g.name], g) \in fin)
      BY <1>1, <1>2, <2>2
    <3>2. QED
      BY <3>1
  <2>3. QED
    BY <1>1, <1>2, <2>1, <2>2
<1>8. Links(d, s2, fin)
  BY <1>7 DEF Links
<1>9. ASSUME NEW k \in 1 .. Len(s2)
      PROVE  FrameOK(d, r2, s2[k], fin)
  <2>1. CASE k = Len(s)
    BY <1>2, <2>1
  <2>2. CASE k # Len(s)
    <3>1. k \in 1 .. Len(s) /\ s2[k] = s[k] /\ s[k] \in Frames /\ FrameOK(d, r, s[k], fin)
      BY <1>1, <1>2, <2>2 DEF Core
    <3>2. s[k].name # Top(s).name
      BY <1>1, <2>2, <3>1 DEF Core, Distinct, Top
    <3>3. r2[s[k].name] = r[s[k].name]
      BY <1>1, <3>1, <3>2
    <3>4. QED
      BY <3>1, <3>3, FrameStays
  <2>3. QED
    BY <2>1, <2>2
<1>10. \A n \in fin : CompleteOK(d, r2, n, fin)
  BY CompleteStays DEF Core
<1>11. QED
  BY <1>4, <1>6, <1>8, <1>9, <1>10 DEF Core

\* A step that returns from the newest call.
LEMMA CorePop ==
  ASSUME NEW d, NEW r, NEW s, NEW fin, Given(d, r, s, fin), Core(d, r, s, fin), s # << >>,
         NEW n, n = Top(s).name,
         NEW r2, \A m \in Names : m # n => r2[m] = r[m], Agree(d, r, r2, fin),
         NEW fin2, fin2 = fin \cup {n}, CompleteOK(d, r2, n, fin2),
         NEW s2, s2 = Front(s)
  PROVE  Core(d, r2, s2, fin2)
<1>1. /\ Len(s) \in Nat \ {0} /\ n \in Names /\ Len(s2) = Len(s) - 1 /\ Len(s) \in 1 .. Len(s)
      /\ \A k \in 1 .. Len(s2) : k \in 1 .. Len(s) /\ k # Len(s) /\ s2[k] = s[k]
                                 /\ s2[k].name # n /\ s2[k] \in Frames
  <2>1. /\ Len(s) \in Nat \ {0} /\ n \in Names /\ Len(s2) = Len(s) - 1 /\ Len(s) \in 1 .. Len(s)
        /\ \A k \in 1 .. Len(s2) : k \in 1 .. Len(s) /\ k # Len(s) /\ s2[k] = s[k]
    BY TopType
  <2>2. \A k \in 1 .. Len(s) : s[k] \in Frames /\ (s[k].name = n => k = Len(s))
    BY <2>1, GivenTypes DEF Core, Distinct, Top
  <2>3. QED
    BY <2>1, <2>2
<1>2. Distinct(s2)
  BY <1>1 DEF Distinct, Core
<1>3. ASSUME NEW m \in Names
      PROVE  /\ Bare(d[m]) => r2[m] = Blank
             /\ \/ m \in fin2 \/ r2[m] = Blank
                \/ \E k \in 1 .. Len(s2) : s2[k].name = m /\ s2[k].at # 0
  <2>1. /\ Bare(d[m]) => r[m] = Blank
        /\ m \in fin \/ (\E k \in 1 .. Len(s) : s[k].name = m /\ s[k].at # 0) \/ r[m] = Blank
    BY DEF Core, Untouched
  <2>2. Bare(d[m]) => r2[m] = Blank
    BY <2>1 DEF Agree, Settled
  <2>3. CASE m = n
    BY <2>2, <2>3
  <2>4. CASE m # n
    <3>1. r2[m] = r[m]
      BY <2>4
    <3>2. ASSUME NEW k \in 1 .. Len(s), s[k].name = m, s[k].at # 0
          PROVE  k \in 1 .. Len(s2) /\ s2[k].name = m /\ s2[k].at # 0
      <4>1. k # Len(s)
        BY <2>4, <3>2 DEF Top
      <4>2. k \in 1 .. Len(s2)
        BY <1>1, <4>1
      <4>3. QED
        BY <1>1, <3>2, <4>2
    <3>3. QED
      BY <2>1, <2>2, <3>1, <3>2
  <2>5. QED
    BY <2>3, <2>4
<1>4. Untouched(d, r2, s2, fin2)
  BY <1>3 DEF Untouched
<1>5. ASSUME NEW k \in 1 .. Len(s2)
      PROVE  /\ k < Len(s2) => s2[k].called /\ Target(d[s2[k].name], s2[k]) = s2[k + 1].name
             /\ k = Len(s2) /\ s2[k].called => Target(d[s2[k].name], s2[k]) \in fin2
  <2>1. k \in 1 .. Len(s) /\ k < Len(s) /\ k \in Nat
    BY <1>1
  <2>2. s[k].called /\ Target(d[s[k].name], s[k]) = s[k + 1].name
    BY <2>1 DEF Core, Links
  <2>3. s2[k] = s[k]
    BY <1>1
  <2>4. CASE k < Len(s2)
    <3>1. k + 1 \in 1 .. Len(s2)
      BY <1>1, <2>1, <2>4
    <3>2. s2[k + 1] = s[k + 1] /\ k # Len(s2)
      BY <1>1, <2>4, <3>1
    <3>3. QED
      BY <2>2, <2>3, <3>2
  <2>5. CASE k = Len(s2)
    <3>1. k + 1 = Len(s) /\ ~(k < Len(s2))
      BY <1>1, <2>5
    <3>2. Target(d[s2[k].name], s2[k]) = n
      BY <2>2, <2>3, <3>1 DEF Top
    <3>3. QED
      BY <3>1, <3>2
  <2>6. k < Len(s2) \/ k = Len(s2)
    BY <1>1, <2>1
  <2>7. QED
    BY <2>4, <2>5, <2>6
<1>6. Links(d, s2, fin2)
  BY <1>5 DEF Links
<1>7. ASSUME NEW k \in 1 .. Len(s2)
      PROVE  FrameOK(d, r2, s2[k], fin2)
  <2>1. k \in 1 .. Len(s) /\ s2[k] = s[k] /\ s[k] \in Frames /\ s[k].name # n
    BY <1>1
  <2>2. FrameOK(d, r, s[k], fin) /\ s[k].name \in Names
    BY <2>1 DEF Core, Frames
  <2>3. r2[s[k].name] = r[s[k].name] /\ (s[k].name \in fin2 => s[k].name \in fin)
    BY <2>1, <2>2
  <2>4. QED
    BY <2>1, <2>2, <2>3, FrameStays
<1>8. ASSUME NEW m \in fin2
      PROVE  CompleteOK(d, r2, m, fin2)
  BY CompleteStays DEF Core
<1>9. QED
  BY <1>2, <1>4, <1>6, <1>7, <1>8 DEF Core

LEMMA NewFrameType ==
  ASSUME NEW m \in Names
  PROVE  /\ NewFrame(m) \in Frames /\ NewFrame(m).name = m /\ NewFrame(m).at = 0
         /\ ~NewFrame(m).called /\ NewFrame(m).acc = << >> /\ NewFrame(m).offset = 0
BY DEF NewFrame, Frames

LEMMA NewFrameOK ==
  ASSUME NEW d, NEW r, NEW s, NEW fin, Given(d, r, s, fin), NEW m \in Names
  PROVE  FrameOK(d, r, NewFrame(m), fin)
BY NewFrameType, GivenTypes DEF FrameOK

\* The newest call g is made to wait for a struct that is not in progress.
LEMMA CorePush ==
  ASSUME NEW d, NEW r, NEW s, NEW fin, Given(d, r, s, fin), Core(d, r, s, fin), s # << >>,
         NEW g \in Frames, g.name = Top(s).name, g.at = Top(s).at, FrameOK(d, r, g, fin),
         NEW m \in Names, \A k \in 1 .. Len(s) : s[k].name # m,
         g.called, Target(d[g.name], g) = m,
         NEW s2, s2 = Append([s EXCEPT ![Len(s)] = g], NewFrame(m))
  PROVE  Core(d, r, s2, fin)
<1>1. /\ Len(s) \in Nat \ {0} /\ Len(s) \in 1 .. Len(s)
      /\ \A k \in 1 .. Len(s) : s[k] \in Frames /\ s[k].name \in Names
  BY GivenTypes, TopType
<1> DEFINE w == [s EXCEPT ![Len(s)] = g]
<1>2. /\ w \in Seq(Frames) /\ Len(w) = Len(s)
      /\ \A k \in 1 .. Len(s) : w[k] = IF k = Len(s) THEN g ELSE s[k]
  BY <1>1, ExceptSeq DEF Given
<1>3. s2 = Append(w, NewFrame(m))
  OBVIOUS
<1> HIDE DEF w
<1>4. /\ Len(s2) = Len(s) + 1 /\ s2[Len(s) + 1] = NewFrame(m)
      /\ \A k \in 1 .. Len(s) : s2[k] = IF k = Len(s) THEN g ELSE s[k]
  BY <1>2, <1>3, NewFrameType, AppendProperties
<1>5. \A k \in 1 .. Len(s2) : k \in 1 .. Len(s) \/ k = Len(s) + 1
  BY <1>1, <1>4
<1>6. \A k \in 1 .. Len(s) : s2[k].name = s[k].name /\ s2[k].at = s[k].at
  BY <1>4 DEF Top
<1>7. s2[Len(s) + 1].name = m
  BY <1>4, NewFrameType
<1>8. Distinct(s2)
  <2>1. ASSUME NEW i \in 1 .. Len(s2), NEW j \in 1 .. Len(s2), s2[i].name = s2[j].name
        PROVE  i = j
    BY <1>5, <1>6, <1>7, <2>1 DEF Distinct, Core
  <2>2. QED
    BY <2>1 DEF Distinct
<1>9. Untouched(d, r, s2, fin)
  <2>1. ASSUME NEW n \in Names
        PROVE  /\ Bare(d[n]) => r[n] = Blank
               /\ \/ n \in fin \/ r[n] = Blank
                  \/ \E k \in 1 .. Len(s2) : s2[k].name = n /\ s2[k].at # 0
    <3>1. /\ Bare(d[n]) => r[n] = Blank
          /\ n \in fin \/ (\E k \in 1 .. Len(s) : s[k].name = n /\ s[k].at # 0) \/ r[n] = Blank
      BY DEF Core, Untouched
    <3>2. \A k \in 1 .. Len(s) : k \in 1 .. Len(s2)
      BY <1>1, <1>4
    <3>3. QED
      BY <1>6, <3>1, <3>2
  <2>2. QED
    BY <2>1 DEF Untouched
<1>10. ASSUME NEW k \in 1 .. Len(s2)
       PROVE  /\ k < Len(s2) => s2[k].called /\ Target(d[s2[k].name], s2[k]) = s2[k + 1].name
              /\ k = Len(s2) /\ s2[k].called => Target(d[s2[k].name], s2[k]) \in fin
  <2>1. CASE k = Len(s) + 1
    <3>1. ~(k < Len(s2)) /\ ~s2[k].called
      BY <1>1, <1>4, <2>1, NewFrameType
    <3>2. QED
      BY <3>1
  <2>2. CASE k = Len(s)
    <3>1. s2[k] = g /\ s2[k + 1].name = m /\ k # Len(s2)
      BY <1>1, <1>4, <1>7, <2>2
    <3>2. QED
      BY <3>1
  <2>3. CASE k \in 1 .. Len(s) /\ k # Len(s)
    <3>1. k < Len(s) /\ k + 1 \in 1 .. Len(s) /\ k # Len(s2)
      BY <1>1, <1>4, <2>3
    <3>2. s2[k] = s[k] /\ s2[k + 1].name = s[k + 1].name
      BY <1>4, <1>6, <2>3, <3>1
    <3>3. s[k].called /\ Target(d[s[k].name], s[k]) = s[k + 1].name
      BY <2>3, <3>1 DEF Core, Links
    <3>4. QED
      BY <3>1, <3>2, <3>3
  <2>4. QED
    BY <1>5, <2>1, <2>2, <2>3
<1>11. Links(d, s2, fin)
  BY <1>10 DEF Links
<1>12. ASSUME NEW k \in 1 .. Len(s2)
       PROVE  FrameOK(d, r, s2[k], fin)
  <2>1. CASE k = Len(s) + 1
    BY <1>4, <2>1, NewFrameOK
  <2>2. CASE k \in 1 .. Len(s)
    BY <1>4, <2>2 DEF Core
  <2>3. QED
    BY <1>5, <2>1, <2>2
<1>13. QED
  BY <1>8, <1>9, <1>11, <1>12 DEF Core

\* The main loop calls.
LEMMA CoreFirst ==
  ASSUME NEW d, NEW r, NEW s, NEW fin, Given(d, r, s, fin), Core(d, r, s, fin), s = << >>,
         NEW m \in Names, NEW s2, s2 = <<NewFrame(m)>>
  PROVE  Core(d, r, s2, fin)
<1>1. Len(s2) = 1 /\ s2[1] = NewFrame(m) /\ Len(s) = 0
  OBVIOUS
<1>2. \A k \in 1 .. Len(s2) : k = 1
  BY <1>1
<1>3. Distinct(s2)
  BY <1>2 DEF Distinct
<1>4. Untouched(d, r, s2, fin)
  BY <1>1 DEF Core, Untouched
<1>5. Links(d, s2, fin)
  <2>1. ASSUME NEW k \in 1 .. Len(s2)
        PROVE  ~(k < Len(s2)) /\ ~s2[k].called
    BY <1>1, <1>2, NewFrameType
  <2>2. QED
    BY <2>1 DEF Links
<1>6. \A k \in 1 .. Len(s2) : FrameOK(d, r, s2[k], fin)
  BY <1>1, <1>2, NewFrameOK
<1>7. QED
  BY <1>3, <1>4, <1>5, <1>6 DEF Core

-----------------------------------------------------------------------------
(***************************************************************************)
(* The steps of the resolution and Core.                                   *)
(***************************************************************************)
Setting(fin) == /\ TypeOK /\ NoMissing /\ fin \in SUBSET Names
                /\ Core(prog.def, resolved, stack, fin)

LEMMA SettingGiven ==
  ASSUME NEW fin, Setting(fin)
  PROVE  Given(prog.def, resolved, stack, fin)
<1>1. prog \in [order : Seq(Names), def : [Names -> Defs]]
  BY ProgramsAssumption DEF Setting, TypeOK
<1>2. QED
  BY <1>1 DEF Setting, TypeOK, NoMissing, Given, Structs

LEMMA FrameFacts ==
  ASSUME NEW fin, Setting(fin), stack # << >>
  PROVE  /\ frame = Top(stack) /\ frame \in Frames /\ frame.name \in Names
         /\ frame.at \in Nat /\ frame.offset \in Nat /\ frame.acc \in Seq(Fields)
         /\ frame.sub \in Nat \ {0}
         /\ def = prog.def[frame.name] /\ def \in Defs /\ self = resolved[frame.name]
         /\ Len(def.body) \in Nat /\ def.body \in Seq(Decls \cup Pads \cup Ifs)
         /\ FrameOK(prog.def, resolved, frame, fin)
         /\ Links(prog.def, stack, fin)
         /\ Len(stack) \in 1 .. Len(stack) /\ Len(stack) \in Nat \ {0}
<1>1. Given(prog.def, resolved, stack, fin)
  BY SettingGiven
<1>2. /\ frame = Top(stack) /\ frame \in Frames /\ frame.name \in Names
      /\ Len(stack) \in 1 .. Len(stack) /\ Len(stack) \in Nat \ {0}
  BY <1>1, TopType DEF Top, frame
<1>3. FrameOK(prog.def, resolved, frame, fin) /\ Links(prog.def, stack, fin)
  BY <1>2 DEF Setting, Core, frame
<1>4. def.body \in Seq(Decls \cup Pads \cup Ifs) /\ def \in Defs /\ Len(def.body) \in Nat
  <2>1. def = prog.def[frame.name]
    BY DEF def
  <2>2. QED
    BY <1>1, <1>2, <2>1, ProgType, GivenTypes DEF Setting
<1>5. QED
  BY <1>2, <1>3, <1>4 DEF def, self, Frames

\* A statement adds the members ms.
LEMMA CoreEmit ==
  ASSUME NEW fin, Setting(fin), InBody,
         NEW ms \in Seq(Members), NEW o \in Nat, Emit(ms, o),
         Len(ms) = IF Adds(def, stmt) THEN 1 ELSE 0,
         ms = << >> => o = IF stmt.is = "var" /\ ~def.union /\ stmt.at >= 0
                           THEN stmt.at ELSE frame.offset
  PROVE  /\ Core(prog.def, resolved', stack', fin)
         /\ Agree(prog.def, resolved, resolved', fin)
<1> DEFINE n == frame.name
           D == prog.def[n]
           i == frame.at
           g == NextStatement([frame EXCEPT !.offset = o])
<1>1. /\ stack # << >> /\ i \in 1 .. Len(D.body)
      /\ frame = Top(stack) /\ frame \in Frames /\ n \in Names /\ i \in Nat
      /\ def = D /\ stmt = D.body[i] /\ Len(D.body) \in Nat
      /\ FrameOK(prog.def, resolved, frame, fin)
      /\ Given(prog.def, resolved, stack, fin)
  <2>1. stack # << >>
    BY DEF InBody, Running
  <2>2. QED
    BY <2>1, FrameFacts, SettingGiven DEF InBody, stmt
<1>2. /\ ~D.template /\ ParentSettled(prog.def, n, fin)
      /\ Len(resolved[n].members) = FromParent(resolved, D) + Tally(D, i - 1)
      /\ resolved[n].members = << >> => Reaches(resolved, D, i - 1, frame.offset)
      /\ n \in fin => resolved[n].members = << >>
  BY <1>1 DEF FrameOK
<1>3. /\ resolved[n] \in Structs /\ resolved[n].members \in Seq(Members)
      /\ resolved \in [Names -> Structs]
      /\ Len(resolved[n].members) \in Nat /\ FromParent(resolved, D) \in Nat
  <2>1. resolved[n] \in Structs /\ resolved[n].members \in Seq(Members)
        /\ Len(resolved[n].members) \in Nat /\ D.parent \in Names \cup {None}
    BY <1>1, GivenTypes
  <2>2. D.parent \in Names => Len(resolved[D.parent].members) \in Nat
    BY <1>1, GivenTypes
  <2>3. QED
    BY <1>1, <2>1, <2>2 DEF FromParent, Given
<1>4. /\ i - 1 \in Nat /\ i - 1 + 1 = i /\ Tally(D, i - 1) \in Nat
      /\ Tally(D, i) = Tally(D, i - 1) + Len(ms)
  <2>1. i - 1 \in Nat /\ i - 1 + 1 = i
    BY <1>1
  <2>2. QED
    BY <1>1, <2>1, TallyStep
<1>5. /\ resolved' = [resolved EXCEPT ![n].members = resolved[n].members \o ms]
      /\ stack' = [stack EXCEPT ![Len(stack)] = g]
  BY DEF Emit, SetFrame
<1>6. /\ g \in Frames /\ g.name = n /\ g.at = i + 1 /\ ~g.called /\ g.offset = o
  <2>1. << >> \in Seq(Fields) /\ i + 1 \in Nat /\ 1 \in Nat \ {0}
    BY <1>1
  <2>2. QED
    BY <1>1, <2>1 DEF NextStatement, Frames
<1>7. /\ resolved'[n].members = resolved[n].members \o ms
      /\ \A m \in Names : m # n => resolved'[m] = resolved[m]
      /\ ms = << >> => resolved'[n] = resolved[n]
  <2>1. \A m \in Names : m # n => resolved'[m] = resolved[m]
    BY <1>3, <1>5
  <2>2. resolved'[n] = [resolved[n] EXCEPT !.members = resolved[n].members \o ms]
    BY <1>1, <1>3, <1>5
  <2>3. ms = << >> => resolved[n].members \o ms = resolved[n].members
    BY <1>3, ConcatEmptySeq
  <2>4. QED
    BY <1>3, <2>1, <2>2, <2>3 DEF Structs
<1>8. n \in fin => ms = << >>
  <2>1. SUFFICES ASSUME n \in fin PROVE ms = << >>
    OBVIOUS
  <2>2. CompleteOK(prog.def, resolved, n, fin)
    BY <2>1 DEF Setting, Core
  <2>3. Len(resolved[n].members) = FromParent(resolved, D) + Tally(D, Len(D.body))
    BY <1>2, <2>2 DEF CompleteOK
  <2>4. Len(resolved[n].members) = 0
    BY <1>2, <2>1
  <2>5. Tally(D, Len(D.body)) = 0
    <3>1. Tally(D, Len(D.body)) \in Nat
      BY <1>1, TallyStep
    <3>2. QED
      BY <1>3, <2>3, <2>4, <3>1
  <2>6. ~Adds(D, D.body[i])
    BY <1>1, <2>5, TallyZero
  <2>7. Len(ms) = 0
    BY <1>1, <2>6
  <2>8. QED
    BY <2>7, EmptySeq
<1>9. Agree(prog.def, resolved, resolved', fin)
  <2>1. ~Bare(D)
    BY <1>1 DEF Bare
  <2>2. QED
    BY <1>7, <1>8, <2>1 DEF Agree, Settled
<1>10. /\ FromParent(resolved', D) = FromParent(resolved, D)
       /\ \A j, p : Reaches(resolved', D, j, p) <=> Reaches(resolved, D, j, p)
  BY <1>1, <1>2, <1>9, ParentAgrees
<1>11. /\ Len(resolved'[n].members) = Len(resolved[n].members) + Len(ms)
       /\ resolved'[n].members = << >> => resolved[n].members = << >> /\ ms = << >>
       /\ resolved[n].members = << >> /\ ms = << >> => resolved'[n].members = << >>
  <2>1. resolved[n].members \in Seq(Members) /\ ms \in Seq(Members)
    BY <1>3
  <2>2. Len(resolved[n].members \o ms) = Len(resolved[n].members) + Len(ms)
    BY <2>1, ConcatProperties
  <2>3. /\ resolved[n].members \o ms = << >> => resolved[n].members = << >> /\ ms = << >>
        /\ resolved[n].members = << >> /\ ms = << >> => resolved[n].members \o ms = << >>
    BY <2>1, ConcatSimplifications!concIsEmpty, ConcatEmptySeq
  <2>4. QED
    BY <1>7, <2>2, <2>3
<1>12. resolved'[n].members = << >> => Reaches(resolved', D, i, o)
  <2>1. SUFFICES ASSUME resolved'[n].members = << >> PROVE Reaches(resolved, D, i, o)
    BY <1>10
  <2>2. Reaches(resolved, D, i - 1, frame.offset) /\ ms = << >>
    BY <1>2, <1>11, <2>1
  <2>3. o = IF D.body[i - 1 + 1].is = "var" /\ ~D.union /\ D.body[i - 1 + 1].at >= 0
            THEN D.body[i - 1 + 1].at ELSE frame.offset
    BY <1>1, <1>4, <2>2
  <2>4. Reaches(resolved, D, i - 1 + 1, o)
    BY <1>4, <2>2, <2>3, ReachesStep
  <2>5. QED
    BY <1>4, <2>4
<1> HIDE DEF g
<1>13. FrameOK(prog.def, resolved', g, fin)
  <2>1. g.at <= Len(D.body) + 1 /\ g.at # 0 /\ g.at - 1 = i
    BY <1>1, <1>6
  <2>2. Len(resolved'[n].members) = FromParent(resolved', D) + Tally(D, i)
    BY <1>2, <1>3, <1>4, <1>10, <1>11
  <2>3. n \in fin => resolved'[n].members = << >>
    BY <1>2, <1>8, <1>11
  <2>4. QED
    BY <1>2, <1>6, <1>12, <2>1, <2>2, <2>3 DEF FrameOK
<1>14. Core(prog.def, resolved', stack', fin)
  <2>1. Core(prog.def, resolved, stack, fin)
    BY DEF Setting
  <2>2. g.name = Top(stack).name /\ g.at # 0
    BY <1>1, <1>6
  <2>3. \A m \in Names : m # Top(stack).name => resolved'[m] = resolved[m]
    BY <1>1, <1>7
  <2>4. QED
    BY <1>1, <1>5, <1>6, <1>9, <1>13, <2>1, <2>2, <2>3, CoreSet
<1>15. QED
  BY <1>9, <1>14

\* What every statement emits.
Emits(ms, o) ==
  /\ InBody /\ Emit(ms, o)
  /\ Len(ms) = IF Adds(def, stmt) THEN 1 ELSE 0
  /\ ms = << >> => o = IF stmt.is = "var" /\ ~def.union /\ stmt.at >= 0
                       THEN stmt.at ELSE frame.offset

\* What the member m has from the declaration d.
Takes(m, d) == /\ m.kind = Kind(d) /\ m.ref = d.ref /\ m.size = TypeSize(d) /\ m.len = d.len
               /\ m.elem = UnitSize(d)

\* Which member that is, and the offset behind it.
Made(ms, o) ==
  \/ \E m \in Fields :
       /\ ms = <<m>> /\ stmt.is = "var" /\ Ready /\ Takes(m, stmt)
       /\ ~def.union /\ stmt.at = Here => m.off = frame.offset /\ o = frame.offset + Extent(stmt)
  \/ \E m \in Conditionals : ms = <<m>> /\ m.fields = frame.acc /\ o = frame.offset
  \/ \E m \in Pads : ms = <<m>> /\ ((stmt.is = "var" => stmt.at = Here) => o >= frame.offset)
  \/ ms = << >>

\* Where that is when everything is placed by its position.
Laid(ms, o) ==
  ~def.union /\ (stmt.is = "var" => stmt.at \in {Here, Expr}) =>
    \/ \E m \in Fields :
         /\ ms = <<m>> /\ stmt.is = "var" /\ Ready /\ Takes(m, stmt) /\ ~m.remote
         /\ m.off = frame.offset /\ o = frame.offset + Extent(stmt)
    \/ \E m \in Fields : ms = <<m>> /\ m.remote /\ o = frame.offset
    \/ \E m \in Conditionals : ms = <<m>> /\ o = frame.offset
    \/ \E m \in Pads : ms = <<m>> /\ o = frame.offset + m.size
    \/ ms = << >> /\ o = frame.offset

Statement == DeclareInUnion \/ DeclareRemote \/ Declare \/ SkipBadDecl \/ Pad \/ CloseIf

\* The pieces of a statement.
LEMMA StatementType ==
  ASSUME NEW fin, Setting(fin), InBody
  PROVE  /\ stmt \in Decls \cup Pads \cup Ifs
         /\ stmt.is = "var" => /\ decl = stmt /\ stmt \in Decls /\ offset \in Nat
                               /\ UnitSize(stmt) \in Int /\ TypeSize(stmt) \in Int
                               /\ Extent(stmt) \in Nat /\ FieldOf(stmt) \in Fields
                               /\ \A x \in Int : [FieldOf(stmt) EXCEPT !.off = x] \in Fields
                               /\ [FieldOf(stmt) EXCEPT !.remote = TRUE] \in Fields
                               /\ stmt.size \in Nat /\ stmt.at \in Nat \cup {Here, Expr}
         /\ stmt.is = "pad" => stmt \in Pads /\ stmt.size \in Nat
         /\ stmt.is = "if" => stmt \in Ifs
<1>1. TypeOK /\ stack # << >>
  BY DEF Setting, InBody, Running
<1>2. /\ frame.at \in 1 .. Len(def.body) /\ frame.offset \in Nat
      /\ def.body \in Seq(Decls \cup Pads \cup Ifs)
  BY <1>1, FrameFacts DEF InBody
<1>3. stmt \in Decls \cup Pads \cup Ifs
  BY <1>2, ElementOfSeq DEF stmt
<1>4. CASE stmt.is = "var"
  <2>1. stmt \in Decls /\ decl = stmt
    BY <1>3, <1>4 DEF Pads, Ifs, decl
  <2>2. stmt.at \in Nat \cup {Here, Expr} /\ stmt.size \in Nat
    BY <2>1 DEF Decls
  <2>3. offset \in Nat
    BY <1>2, <2>1, <2>2 DEF offset, Here, Expr
  <2>4. UnitSize(stmt) \in Int /\ TypeSize(stmt) \in Int /\ Extent(stmt) \in Nat
    BY <1>1, <2>1, SizeType
  <2>5. /\ FieldOf(stmt) \in Fields /\ [FieldOf(stmt) EXCEPT !.remote = TRUE] \in Fields
        /\ \A x \in Int : [FieldOf(stmt) EXCEPT !.off = x] \in Fields
    BY <1>1, <2>1, FieldOfType
  <2>6. QED
    BY <1>3, <1>4, <2>1, <2>2, <2>3, <2>4, <2>5
<1>5. CASE stmt.is # "var"
  <2>1. /\ stmt.is = "pad" => stmt \in Pads
        /\ stmt.is = "if" => stmt \in Ifs
    BY <1>3 DEF Decls, Pads, Ifs
  <2>2. stmt \in Pads => stmt.size \in Nat
    BY DEF Pads
  <2>3. QED
    BY <1>3, <1>5, <2>1, <2>2
<1>6. QED
  BY <1>4, <1>5

LEMMA StatementEmits ==
  ASSUME NEW fin, Setting(fin), Statement
  PROVE  \E ms \in Seq(Members), o \in Nat : Emits(ms, o) /\ Made(ms, o) /\ Laid(ms, o)
<1>1. InBody
  BY DEF Statement, DeclareInUnion, DeclareRemote, Declare, SkipBadDecl, Pad, CloseIf
<1>2. frame.offset \in Nat /\ frame.acc \in Seq(Fields)
  BY <1>1, FrameFacts DEF InBody, Running
<1>3. ASSUME NEW m \in Members
      PROVE  <<m>> \in Seq(Members) /\ Len(<<m>>) = 1 /\ <<m>> # << >>
  OBVIOUS
<1>4. << >> \in Seq(Members) /\ Len(<< >>) = 0
  OBVIOUS
<1>5. Fields \subseteq Members /\ Pads \subseteq Members /\ Conditionals \subseteq Members
  BY DEF Members, Conditionals
<1>6. CASE DeclareInUnion
  <2>1. stmt.is = "var" /\ ~stmt.bad
    BY <1>6 DEF DeclareInUnion
  <2> DEFINE m == [FieldOf(stmt) EXCEPT !.off = 0]
             o == IF TypeSize(stmt) > frame.offset THEN TypeSize(stmt) ELSE frame.offset
  <2>2. m \in Members /\ o \in Nat
    <3>1. 0 \in Int /\ TypeSize(stmt) \in Int
      BY <1>1, <2>1, StatementType
    <3>2. m \in Fields
      BY <1>1, <2>1, <3>1, StatementType
    <3>3. QED
      BY <1>2, <1>5, <3>1, <3>2
  <2>3. Emit(<<m>>, o)
    BY <1>6 DEF DeclareInUnion
  <2>4. Adds(def, stmt)
    BY <2>1 DEF Adds
  <2>5. m \in Fields /\ Takes(m, stmt) /\ Ready /\ def.union
    <3>1. FieldOf(stmt) \in Fields /\ [FieldOf(stmt) EXCEPT !.off = 0] \in Fields
      BY <1>1, <2>1, StatementType
    <3>2. QED
      BY <1>6, <3>1 DEF Takes, FieldOf, DeclareInUnion
  <2> HIDE DEF m, o
  <2>6. Made(<<m>>, o) /\ Laid(<<m>>, o)
    BY <2>1, <2>5 DEF Made, Laid
  <2>7. QED
    BY <1>1, <1>3, <2>2, <2>3, <2>4, <2>6 DEF Emits
<1>7. CASE DeclareRemote
  <2>1. stmt.is = "var" /\ ~stmt.bad
    BY <1>7 DEF DeclareRemote
  <2> DEFINE m == [FieldOf(stmt) EXCEPT !.remote = TRUE]
  <2>2. m \in Members /\ offset \in Nat
    BY <1>1, <1>5, <2>1, StatementType
  <2>3. Emit(<<m>>, offset)
    BY <1>7 DEF DeclareRemote
  <2>4. Adds(def, stmt)
    BY <2>1 DEF Adds
  <2>5. m \in Fields /\ Takes(m, stmt) /\ Ready /\ stmt.at # Here /\ m.remote
    <3>1. FieldOf(stmt) \in Fields /\ [FieldOf(stmt) EXCEPT !.remote = TRUE] \in Fields
      BY <1>1, <2>1, StatementType
    <3>2. QED
      BY <1>7, <3>1 DEF Takes, FieldOf, DeclareRemote, Here, Expr
  <2>8. offset = frame.offset
    <3>1. decl = stmt /\ stmt.at = Expr
      BY <1>1, <1>7, <2>1, StatementType DEF DeclareRemote
    <3>2. QED
      BY <3>1 DEF offset, Expr
  <2> HIDE DEF m
  <2>6. Made(<<m>>, offset) /\ Laid(<<m>>, offset)
    BY <2>1, <2>5, <2>8 DEF Made, Laid
  <2>7. QED
    BY <1>1, <1>3, <2>2, <2>3, <2>4, <2>6 DEF Emits
<1>8. CASE Declare
  <2>1. stmt.is = "var" /\ ~stmt.bad
    BY <1>8 DEF Declare
  <2> DEFINE m == [FieldOf(stmt) EXCEPT !.off = offset]
             o == offset + Extent(stmt)
  <2>2. m \in Members /\ o \in Nat
    <3>1. offset \in Nat /\ offset \in Int /\ Extent(stmt) \in Nat
      BY <1>1, <2>1, StatementType
    <3>2. m \in Fields
      BY <1>1, <2>1, <3>1, StatementType
    <3>3. QED
      BY <1>5, <3>1, <3>2
  <2>3. Emit(<<m>>, o)
    BY <1>8 DEF Declare
  <2>4. Adds(def, stmt)
    BY <2>1 DEF Adds
  <2>5. m \in Fields /\ Takes(m, stmt) /\ Ready /\ m.off = offset /\ ~m.remote /\ stmt.at # Expr
    <3>1. offset \in Nat /\ offset \in Int
      BY <1>1, <2>1, StatementType
    <3>2. FieldOf(stmt) \in Fields /\ [FieldOf(stmt) EXCEPT !.off = offset] \in Fields
      BY <1>1, <2>1, <3>1, StatementType
    <3>3. QED
      BY <1>8, <3>2 DEF Takes, FieldOf, Declare
  <2>6. stmt.at = Here => offset = frame.offset
    <3>1. decl = stmt
      BY <1>1, <2>1, StatementType
    <3>2. QED
      BY <3>1 DEF offset, Here
  <2> HIDE DEF m
  <2>7. Made(<<m>>, o) /\ Laid(<<m>>, o)
    BY <2>1, <2>5, <2>6 DEF Made, Laid
  <2> HIDE DEF o
  <2>8. QED
    BY <1>1, <1>3, <2>2, <2>3, <2>4, <2>7 DEF Emits
<1>9. CASE SkipBadDecl
  <2>1. stmt.is = "var" /\ stmt.bad
    BY <1>9 DEF SkipBadDecl
  <2>2. offset \in Nat /\ stmt.size \in Nat /\ decl = stmt
    BY <1>1, <2>1, StatementType
  <2>3. CASE ~def.union /\ stmt.size > 0
    <3> DEFINE m == [is |-> "pad", size |-> stmt.size]
               o == offset + stmt.size
    <3>1. m \in Members /\ m \in Pads /\ o \in Nat
      BY <1>5, <2>2 DEF Pads
    <3>2. Emit(<<m>>, o)
      BY <1>9, <2>3 DEF SkipBadDecl
    <3>3. Adds(def, stmt)
      BY <2>1, <2>3 DEF Adds
    <3>4. /\ stmt.at = Here => o >= frame.offset
          /\ stmt.at \in {Here, Expr} => o = frame.offset + m.size
      BY <1>2, <2>2 DEF offset, Here, Expr
    <3> HIDE DEF m, o
    <3>5. Made(<<m>>, o) /\ Laid(<<m>>, o)
      BY <2>1, <3>1, <3>4 DEF Made, Laid
    <3>6. QED
      BY <1>1, <1>3, <3>1, <3>2, <3>3, <3>5 DEF Emits
  <2>4. CASE ~(~def.union /\ stmt.size > 0)
    <3>1. Emit(<< >>, offset)
      BY <1>9, <2>4 DEF SkipBadDecl
    <3>2. ~Adds(def, stmt)
      BY <2>1, <2>4 DEF Adds
    <3>3. offset = IF stmt.is = "var" /\ ~def.union /\ stmt.at >= 0
                   THEN stmt.at ELSE frame.offset
      BY <2>1, <2>2 DEF offset
    <3>4. Emits(<< >>, offset) /\ Made(<< >>, offset)
      BY <1>1, <1>4, <3>1, <3>2, <3>3 DEF Emits, Made
    <3>6. Laid(<< >>, offset)
      BY <2>1, <3>3 DEF Laid, Here, Expr
    <3>5. QED
      BY <1>4, <2>2, <3>4, <3>6
  <2>5. QED
    BY <2>3, <2>4
<1>10. CASE Pad
  <2>1. stmt.is = "pad"
    BY <1>10 DEF Pad
  <2> DEFINE m == [is |-> "pad", size |-> stmt.size]
             o == IF def.union THEN frame.offset ELSE frame.offset + stmt.size
  <2>2. /\ m \in Members /\ m \in Pads /\ o \in Nat /\ o >= frame.offset
        /\ ~def.union => o = frame.offset + m.size
    <3>1. stmt.size \in Nat
      BY <1>1, <2>1, StatementType
    <3>2. QED
      BY <1>2, <1>5, <3>1 DEF Pads
  <2>3. Emit(<<m>>, o)
    BY <1>10 DEF Pad
  <2>4. Adds(def, stmt)
    BY <2>1 DEF Adds
  <2> HIDE DEF m, o
  <2>5. Made(<<m>>, o) /\ Laid(<<m>>, o)
    BY <2>2 DEF Made, Laid
  <2>6. QED
    BY <1>1, <1>3, <2>2, <2>3, <2>4, <2>5 DEF Emits
<1>11. CASE CloseIf
  <2>1. stmt.is = "if"
    BY <1>11 DEF CloseIf
  <2>2. CASE stmt.cond = "ok"
    <3> DEFINE m == [is |-> "cond", fields |-> frame.acc]
    <3>1. m \in Members /\ m \in Conditionals /\ m.fields = frame.acc
      BY <1>2, <1>5 DEF Conditionals
    <3>2. Emit(<<m>>, frame.offset)
      BY <1>11, <2>2 DEF CloseIf
    <3>3. Adds(def, stmt)
      BY <2>1, <2>2 DEF Adds
    <3> HIDE DEF m
    <3>4. Made(<<m>>, frame.offset) /\ Laid(<<m>>, frame.offset)
      BY <3>1 DEF Made, Laid
    <3>5. QED
      BY <1>1, <1>2, <1>3, <3>1, <3>2, <3>3, <3>4 DEF Emits
  <2>3. CASE stmt.cond # "ok"
    <3>1. Emit(<< >>, frame.offset)
      BY <1>11, <2>3 DEF CloseIf
    <3>2. ~Adds(def, stmt)
      BY <2>1, <2>3 DEF Adds
    <3>3. Emits(<< >>, frame.offset) /\ Made(<< >>, frame.offset) /\ Laid(<< >>, frame.offset)
      BY <1>1, <1>4, <2>1, <3>1, <3>2 DEF Emits, Made, Laid
    <3>4. QED
      BY <1>2, <1>4, <3>3
  <2>4. QED
    BY <2>2, <2>3
<1>12. QED
  BY <1>6, <1>7, <1>8, <1>9, <1>10, <1>11 DEF Statement

-----------------------------------------------------------------------------
(***************************************************************************)
(* Lemmas: whom a struct mentions, and that the struct a call is for is not*)
(* in progress.                                                            *)
(***************************************************************************)
Lazy(rank) == \/ Ordered(rank) /\ Descending(stack, rank)
              \/ StartsPlain /\ Started(resolved, stack)

LEMMA DeclMentioned ==
  ASSUME NEW fin, Setting(fin), AtDecl
  PROVE  /\ decl \in DeclsOf(frame.name)
         /\ decl.ref \in Names => decl.ref \in Mentions(frame.name)
<1>1. InBody /\ stack # << >> /\ decl \in Decls
  BY DeclType DEF AtDecl, InIf, InBody, Running, Setting
<1>2. /\ frame.at \in 1 .. Len(def.body) /\ def.body \in Seq(Decls \cup Pads \cup Ifs)
      /\ def = prog.def[frame.name]
  BY <1>1, FrameFacts DEF InBody
<1>3. stmt \in ToSet(prog.def[frame.name].body)
  <2>1. stmt = def.body[frame.at] /\ DOMAIN def.body = 1 .. Len(def.body)
    BY <1>2, LenProperties DEF stmt
  <2>2. QED
    BY <1>2, <2>1 DEF ToSet
<1>4. decl \in CASE stmt.is = "var" -> {stmt}
                 [] stmt.is = "if"  -> ToSet(stmt.decls)
                 [] stmt.is = "pad" -> {}
  <2>1. CASE stmt.is = "var"
    BY <2>1 DEF decl
  <2>2. CASE stmt.is = "if"
    <3>1. stmt \in Ifs
      BY <1>1, <2>2, StatementType
    <3>2. stmt.decls \in Seq(Decls) /\ frame.sub \in Nat \ {0}
      BY <1>1, <3>1, FrameFacts DEF Ifs
    <3>3. frame.sub \in 1 .. Len(stmt.decls) /\ DOMAIN stmt.decls = 1 .. Len(stmt.decls)
      BY <2>2, <3>2, LenProperties DEF AtDecl, InIf
    <3>4. decl = stmt.decls[frame.sub]
      BY <2>2 DEF decl
    <3>5. decl \in ToSet(stmt.decls)
      BY <3>3, <3>4 DEF ToSet
    <3>6. QED
      BY <2>2, <3>5
  <2>3. QED
    BY <2>1, <2>2 DEF AtDecl, InIf
<1>5. decl \in DeclsOf(frame.name)
  BY <1>3, <1>4 DEF DeclsOf
<1>6. QED
  BY <1>5 DEF Mentions

LEMMA ParentMentioned ==
  ASSUME NEW n \in Names, prog.def[n].parent \in Names
  PROVE  prog.def[n].parent \in Mentions(n)
BY DEF Mentions

\* The struct on top has the least rank.
LEMMA LowerIsFresh ==
  ASSUME NEW fin, Setting(fin), NEW rank \in [Names -> Nat], stack # << >>,
         Ordered(rank), Descending(stack, rank), NEW m \in Mentions(frame.name)
  PROVE  m \in Names /\ rank[m] < rank[frame.name] /\ \A k \in 1 .. Len(stack) : stack[k].name # m
<1>1. frame.name \in Names /\ m \in Names
  BY FrameFacts DEF Mentions
<1>2. rank[m] < rank[frame.name]
  BY <1>1 DEF Ordered
<1>3. ASSUME NEW k \in 1 .. Len(stack)
      PROVE  stack[k].name # m
  <2>1. Len(stack) \in Nat /\ Len(stack) \in 1 .. Len(stack) /\ frame = stack[Len(stack)]
    BY FrameFacts DEF frame
  <2>2. CASE k = Len(stack)
    BY <1>1, <1>2, <2>1, <2>2
  <2>3. CASE k < Len(stack)
    <3>1. rank[frame.name] < rank[stack[k].name]
      BY <2>1, <2>3 DEF Descending
    <3>2. stack[k].name \in Names
      BY SettingGiven, GivenTypes
    <3>3. QED
      BY <1>1, <1>2, <3>1, <3>2
  <2>4. QED
    BY <2>1, <2>2, <2>3
<1>4. QED
  BY <1>1, <1>2, <1>3

\* A struct that is mentioned and is not called for is settled.
LEMMA MentionSettled ==
  ASSUME NEW fin, Setting(fin), NEW rank \in [Names -> Nat], stack # << >>,
         Ordered(rank), Descending(stack, rank), NEW m \in Mentions(frame.name),
         resolved[m].members # << >> \/ prog.def[m].body = << >>
  PROVE  Settled(prog.def, m, fin)
<1>1. m \in Names /\ \A k \in 1 .. Len(stack) : stack[k].name # m
  BY LowerIsFresh
<1>2. CASE resolved[m].members # << >>
  <2>1. resolved[m] # Blank
    BY <1>2 DEF Blank
  <2>2. m \in fin
    BY <1>1, <2>1 DEF Setting, Core, Untouched
  <2>3. QED
    BY <2>2 DEF Settled
<1>3. CASE prog.def[m].body = << >>
  <2>1. ~Hollow(m)
    BY FrameFacts DEF Ordered
  <2>2. prog.def[m].parent \in Names \cup {None}
    BY <1>1, SettingGiven, GivenTypes
  <2>3. Bare(prog.def[m])
    BY <1>3, <2>1, <2>2 DEF Bare, Hollow
  <2>4. QED
    BY <2>3 DEF Settled
<1>4. QED
  BY <1>2, <1>3

LEMMA ParentIsSettled ==
  ASSUME NEW fin, Setting(fin), NEW rank \in [Names -> Nat], Lazy(rank),
         InPrologue, def.parent \in Names => frame.called \/ ~ParentIsEmpty
  PROVE  ParentSettled(prog.def, frame.name, fin)
<1>1. /\ stack # << >> /\ frame.at = 0 /\ frame.name \in Names /\ def = prog.def[frame.name]
      /\ Links(prog.def, stack, fin) /\ frame = stack[Len(stack)]
      /\ Len(stack) \in 1 .. Len(stack)
  BY FrameFacts DEF InPrologue, Running, frame
<1>2. def.parent \in Names \cup {None}
  BY <1>1, SettingGiven, GivenTypes
<1>3. SUFFICES ASSUME def.parent \in Names PROVE Settled(prog.def, def.parent, fin)
  BY <1>1, <1>2 DEF ParentSettled
<1>4. CASE frame.called
  <2>1. Target(def, frame) \in fin
    BY <1>1, <1>4 DEF Links
  <2>2. QED
    BY <1>1, <2>1 DEF Target, Settled
<1>5. CASE ~frame.called
  <2>1. Ordered(rank) /\ Descending(stack, rank)
    BY <1>1, <1>3, NamesAssumption DEF Lazy, StartsPlain
  <2>2. def.parent \in Mentions(frame.name)
    BY <1>1, <1>3, ParentMentioned
  <2>3. resolved[def.parent].members # << >> \/ prog.def[def.parent].body = << >>
    BY <1>3, <1>5, FieldsOfEmpty DEF ParentIsEmpty
  <2>4. QED
    BY <1>1, <2>1, <2>2, <2>3, MentionSettled
<1>6. QED
  BY <1>4, <1>5

\* No call is for a struct in progress.
LEMMA CalleeFresh ==
  ASSUME NEW fin, Setting(fin), NEW rank \in [Names -> Nat], Lazy(rank),
         NEW m \in Names,
         \/ CallParent /\ m = def.parent
         \/ CallType /\ m = decl.ref
  PROVE  /\ \A k \in 1 .. Len(stack) : stack[k].name # m
         /\ Ordered(rank) /\ Descending(stack, rank) => m \in Mentions(frame.name)
         /\ StartsPlain /\ Started(resolved, stack) => frame.at >= 2
<1>1. /\ stack # << >> /\ frame.name \in Names /\ def = prog.def[frame.name]
      /\ frame = stack[Len(stack)] /\ frame.at \in Nat
      /\ Len(stack) \in 1 .. Len(stack) /\ Len(stack) \in Nat
  BY FrameFacts DEF CallParent, CallType, AtDecl, InIf, InBody, InPrologue, Running, frame
<1>2. m \in Mentions(frame.name)
  BY <1>1, ParentMentioned, DeclMentioned DEF CallType
<1>3. Ordered(rank) /\ Descending(stack, rank) => \A k \in 1 .. Len(stack) : stack[k].name # m
  BY <1>1, <1>2, LowerIsFresh
<1>4. ASSUME StartsPlain, Started(resolved, stack)
      PROVE  frame.at >= 2 /\ \A k \in 1 .. Len(stack) : stack[k].name # m
  <2>1. StartsPlain /\ Started(resolved, stack)
    BY <1>4
  <2>2. CallType /\ m = decl.ref
    BY <1>1, <2>1, NamesAssumption DEF CallParent, StartsPlain
  <2>3. /\ AtDecl /\ InBody /\ resolved[m].members = << >>
        /\ frame.at \in 1 .. Len(def.body)
    BY <2>2 DEF CallType, NeedsCall, AtDecl, InIf, InBody
  <2>4. frame.at # 1
    <3>1. SUFFICES ASSUME frame.at = 1 PROVE FALSE
      OBVIOUS
    <3>2. stmt = Head(def.body)
      BY <3>1 DEF stmt
    <3>3. stmt.is = "pad" \/ (stmt.is = "var" /\ stmt.ref = None)
      BY <1>1, <2>1, <3>2 DEF StartsPlain
    <3>4. stmt.is = "var" /\ decl = stmt
      BY <2>3, <3>3 DEF AtDecl, InIf, decl
    <3>5. QED
      BY <2>2, <3>3, <3>4, NamesAssumption
  <2>5. frame.at >= 2
    BY <1>1, <2>3, <2>4
  <2>6. ASSUME NEW k \in 1 .. Len(stack), stack[k].name = m
        PROVE  FALSE
    <3>1. stack[k].at >= 2
      BY <1>1, <2>1, <2>5 DEF Started
    <3>2. QED
      BY <2>1, <2>3, <2>6, <3>1 DEF Started
  <2>7. QED
    BY <2>5, <2>6
<1>5. QED
  BY <1>2, <1>3, <1>4 DEF Lazy

-----------------------------------------------------------------------------
(***************************************************************************)
(* The calls and returns and Core.                                         *)
(***************************************************************************)

LEMMA CoreMainLoop ==
  ASSUME NEW fin, Setting(fin), MainLoop
  PROVE  Core(prog.def, resolved', stack', fin) /\ resolved' = resolved
<1>1. prog.order[next] \in Names
  BY ProgType, ElementOfSeq DEF MainLoop, Setting, TypeOK
<1>2. /\ stack = << >> /\ stack' = <<NewFrame(prog.order[next])>> /\ resolved' = resolved
      /\ Core(prog.def, resolved, stack, fin)
  BY DEF MainLoop, Setting
<1>3. QED
  BY <1>1, <1>2, SettingGiven, CoreFirst

\* A struct in its prologue is complete or blank.
LEMMA TopInPrologue ==
  ASSUME NEW fin, Setting(fin), InPrologue
  PROVE  frame.name \in fin \/ resolved[frame.name] = Blank
<1>1. /\ stack # << >> /\ frame.at = 0 /\ frame.name \in Names
      /\ frame = stack[Len(stack)] /\ Len(stack) \in 1 .. Len(stack)
  BY FrameFacts DEF InPrologue, Running, frame
<1>2. \A k \in 1 .. Len(stack) : stack[k].name = frame.name => stack[k].at = 0
  BY <1>1 DEF Setting, Core, Distinct
<1>3. QED
  BY <1>1, <1>2 DEF Setting, Core, Untouched

LEMMA CoreAlreadyResolved ==
  ASSUME NEW fin, Setting(fin), AlreadyResolved
  PROVE  /\ Core(prog.def, resolved', stack', fin) /\ resolved' = resolved
         /\ frame.name \in fin
<1>1. /\ stack # << >> /\ frame = Top(stack) /\ resolved' = resolved /\ stack' = Front(stack)
      /\ frame.name \in Names /\ Core(prog.def, resolved, stack, fin)
      /\ Given(prog.def, resolved, stack, fin) /\ InPrologue
  BY FrameFacts, SettingGiven DEF AlreadyResolved, InPrologue, Running, Setting
<1>2. frame.name \in fin
  <2>1. Len(resolved[frame.name].members) > 0
    BY DEF AlreadyResolved, Guarded, self
  <2>2. resolved[frame.name] # Blank
    BY <2>1 DEF Blank
  <2>3. QED
    BY <1>1, <2>2, TopInPrologue
<1>3. fin = fin \cup {frame.name}
  BY <1>2
<1>4. CompleteOK(prog.def, resolved', frame.name, fin)
  BY <1>1, <1>2 DEF Core
<1>5. Agree(prog.def, resolved, resolved', fin)
  BY <1>1 DEF Agree
<1>6. QED
  BY <1>1, <1>2, <1>3, <1>4, <1>5, CorePop

LEMMA CoreCall ==
  ASSUME NEW fin, Setting(fin), NEW rank \in [Names -> Nat], Lazy(rank),
         CallParent \/ CallType, phase' = "fields"
  PROVE  Core(prog.def, resolved', stack', fin) /\ resolved' = resolved
<1>1. /\ stack # << >> /\ frame = Top(stack) /\ resolved' = resolved
      /\ frame \in Frames /\ frame.name \in Names /\ frame.at \in Nat
      /\ Len(stack) \in 1 .. Len(stack)
      /\ def = prog.def[frame.name] /\ self = resolved[frame.name]
      /\ FrameOK(prog.def, resolved, frame, fin)
      /\ Core(prog.def, resolved, stack, fin)
      /\ Given(prog.def, resolved, stack, fin)
  BY FrameFacts, SettingGiven
     DEF CallParent, CallType, AtDecl, InIf, InBody, InPrologue, Running, Setting
<1> DEFINE g == [frame EXCEPT !.called = TRUE]
<1>2. /\ g \in Frames /\ g.name = frame.name /\ g.at = frame.at /\ g.called
      /\ g.offset = frame.offset /\ g.sub = frame.sub
  BY <1>1 DEF Frames
<1>3. PICK m \in Names : /\ CallFrom(m)
                         /\ \/ CallParent /\ m = def.parent
                            \/ CallType /\ m = decl.ref
  BY DEF CallParent, CallType, NeedsCall
<1>4. phase = "fields" /\ phase # "overflow"
  BY DEF CallParent, CallType, AtDecl, InIf, InBody, InPrologue, Running
<1>5. stack' = Append([stack EXCEPT ![Len(stack)] = g], NewFrame(m))
  <2>1. stack' = Append([stack EXCEPT ![Len(stack)].called = TRUE], NewFrame(m))
    BY <1>3, <1>4 DEF CallFrom
  <2>2. QED
    BY <2>1 DEF frame
<1>6. Target(def, g) = m
  <2>1. CASE CallParent /\ m = def.parent
    BY <1>2, <2>1 DEF Target, CallParent, InPrologue
  <2>2. CASE CallType /\ m = decl.ref
    <3>1. frame.at # 0
      BY <2>2 DEF CallType, AtDecl, InIf, InBody
    <3>2. QED
      BY <1>2, <2>2, <3>1 DEF Target, decl, stmt
  <2>3. QED
    BY <1>3, <2>1, <2>2
<1>7. FrameOK(prog.def, resolved, g, fin)
  <2>1. CASE frame.at = 0
    <3>1. CallParent
      BY <1>3, <2>1 DEF CallType, AtDecl, InIf, InBody
    <3>2. ~(Len(self.members) > 0)
      BY <3>1 DEF CallParent, Guarded
    <3>3. resolved[frame.name].members = << >>
      BY <1>1, <3>2, GivenTypes, EmptySeq
    <3>4. QED
      BY <1>1, <1>2, <2>1, <3>3 DEF FrameOK
  <2>2. CASE frame.at # 0
    BY <1>1, <1>2, <2>2 DEF FrameOK
  <2>3. QED
    BY <2>1, <2>2
<1>8. \A k \in 1 .. Len(stack) : stack[k].name # m
  BY <1>3, CalleeFresh
<1> HIDE DEF g
<1>9. Core(prog.def, resolved, stack', fin)
  BY <1>1, <1>2, <1>3, <1>5, <1>6, <1>7, <1>8, CorePush
<1>10. QED
  BY <1>1, <1>9

LEMMA CoreConditionalDecl ==
  ASSUME NEW fin, Setting(fin), ConditionalDecl
  PROVE  Core(prog.def, resolved', stack', fin) /\ resolved' = resolved
<1>1. /\ stack # << >> /\ frame = Top(stack) /\ resolved' = resolved
      /\ frame \in Frames /\ frame.at # 0 /\ frame.name \in Names
      /\ frame.sub \in Nat \ {0} /\ frame.acc \in Seq(Fields)
      /\ FrameOK(prog.def, resolved, frame, fin)
      /\ Core(prog.def, resolved, stack, fin)
      /\ Given(prog.def, resolved, stack, fin)
  BY FrameFacts, SettingGiven DEF ConditionalDecl, InIf, InBody, Running, Setting
<1> DEFINE acc == IF decl.bad THEN frame.acc ELSE Append(frame.acc, FieldOf(decl))
           g == [frame EXCEPT !.sub = @ + 1, !.called = FALSE, !.acc = acc]
<1>2. acc \in Seq(Fields)
  <2>1. decl \in Decls /\ TypeOK
    BY DeclType DEF ConditionalDecl, AtDecl, Setting
  <2>2. FieldOf(decl) \in Fields
    BY <2>1, FieldOfType
  <2>3. QED
    BY <1>1, <2>2, AppendProperties
<1>3. stack' = [stack EXCEPT ![Len(stack)] = g]
  BY DEF ConditionalDecl, SetFrame
<1> HIDE DEF acc
<1>4. /\ g \in Frames /\ g.name = frame.name /\ g.at = frame.at /\ ~g.called
      /\ g.offset = frame.offset
  <2>1. frame.sub + 1 \in Nat \ {0}
    BY <1>1
  <2>2. QED
    BY <1>1, <1>2, <2>1 DEF Frames
<1> HIDE DEF g
<1>5. FrameOK(prog.def, resolved, g, fin)
  BY <1>1, <1>4 DEF FrameOK
<1>6. Agree(prog.def, resolved, resolved', fin)
  BY <1>1 DEF Agree
<1>7. QED
  BY <1>1, <1>3, <1>4, <1>5, <1>6, CoreSet

\* The end of the prologue.
LEMMA InheritFacts ==
  ASSUME NEW fin, Setting(fin), NEW rank \in [Names -> Nat], Lazy(rank), Inherit
  PROVE  /\ stack # << >> /\ frame = Top(stack) /\ frame.name \in Names /\ frame.at = 0
         /\ def = prog.def[frame.name]
         /\ ParentSettled(prog.def, frame.name, fin)
         /\ resolved[frame.name].members = << >>
         /\ LET ms == IF def.parent = None THEN << >> ELSE resolved[def.parent].members
                f == [frame EXCEPT !.at = 1, !.called = FALSE,
                                   !.offset = StartOf(resolved, def)]
            IN  /\ ms \in Seq(Members) /\ Len(ms) = FromParent(resolved, def)
                /\ StartOf(resolved, def) \in Nat
                /\ def.template =>
                     /\ resolved' = [resolved EXCEPT ![frame.name].members = ms,
                                                     ![frame.name].size = -1]
                     /\ stack' = Front(stack)
                /\ ~def.template =>
                     /\ resolved' = [resolved EXCEPT ![frame.name].members = ms]
                     /\ stack' = [stack EXCEPT ![Len(stack)] = f]
<1>1. /\ stack # << >> /\ frame = Top(stack) /\ frame.name \in Names /\ frame.at = 0
      /\ def = prog.def[frame.name] /\ self = resolved[frame.name] /\ InPrologue
      /\ FrameOK(prog.def, resolved, frame, fin)
      /\ Given(prog.def, resolved, stack, fin)
  BY FrameFacts, SettingGiven DEF Inherit, InPrologue, Running
<1>2. ParentSettled(prog.def, frame.name, fin)
  BY <1>1, ParentIsSettled DEF Inherit
<1>3. resolved[frame.name].members = << >>
  <2>1. CASE frame.called
    BY <1>1, <2>1 DEF FrameOK
  <2>2. CASE ~frame.called
    <3>1. ~(Len(self.members) > 0)
      BY <2>2 DEF Inherit, Guarded
    <3>2. QED
      BY <1>1, <3>1, GivenTypes, EmptySeq
  <2>3. QED
    BY <2>1, <2>2
<1> DEFINE parent == IF def.parent = None THEN [members |-> << >>, size |-> 0]
                                          ELSE resolved[def.parent]
           ms == IF def.parent = None THEN << >> ELSE resolved[def.parent].members
<1>4. /\ ms \in Seq(Members) /\ Len(ms) = FromParent(resolved, def)
      /\ StartOf(resolved, def) \in Nat
      /\ StartOf(resolved, def) = IF parent.size > 0 THEN parent.size ELSE 0
  <2>1. CASE def.parent = None
    <3>1. << >> \in Seq(Members) /\ Len(<< >>) = 0
      OBVIOUS
    <3>2. QED
      BY <2>1, <3>1 DEF FromParent, StartOf
  <2>2. CASE def.parent # None
    <3>1. /\ def.parent \in Names
          /\ resolved[def.parent].members \in Seq(Members)
          /\ resolved[def.parent].size \in Nat \cup {-1}
      BY <1>1, <2>2, GivenTypes
    <3>2. QED
      BY <2>2, <3>1 DEF FromParent, StartOf
  <2>3. QED
    BY <2>1, <2>2
<1>5. self.members \o parent.members = ms
  <2>1. parent.members = ms /\ self.members = << >>
    BY <1>1, <1>3
  <2> HIDE DEF parent, ms
  <2>2. QED
    BY <1>4, <2>1, ConcatEmptySeq
<1>6. /\ def.template =>
           /\ resolved' = [resolved EXCEPT ![frame.name].members = ms,
                                           ![frame.name].size = -1]
           /\ stack' = Front(stack)
      /\ ~def.template =>
           /\ resolved' = [resolved EXCEPT ![frame.name].members = ms]
           /\ stack' = [stack EXCEPT ![Len(stack)] =
                          [frame EXCEPT !.at = 1, !.called = FALSE,
                                        !.offset = StartOf(resolved, def)]]
  BY <1>4, <1>5 DEF Inherit, SetFrame
<1> HIDE DEF ms
<1>7. QED
  BY <1>1, <1>2, <1>3, <1>4, <1>6 DEF ms

LEMMA CoreInherit ==
  ASSUME NEW fin, Setting(fin), NEW rank \in [Names -> Nat], Lazy(rank), Inherit
  PROVE  /\ ~def.template => Core(prog.def, resolved', stack', fin)
         /\ def.template => Core(prog.def, resolved', stack', fin \cup {frame.name})
         /\ Agree(prog.def, resolved, resolved', fin)
<1> DEFINE n == frame.name
           D == prog.def[n]
           ms == IF def.parent = None THEN << >> ELSE resolved[def.parent].members
           o == StartOf(resolved, D)
           g == [frame EXCEPT !.at = 1, !.called = FALSE, !.offset = o]
<1>1. /\ stack # << >> /\ frame = Top(stack) /\ frame.name \in Names /\ frame.at = 0
      /\ def = D /\ ParentSettled(prog.def, n, fin)
      /\ resolved[n].members = << >>
      /\ ms \in Seq(Members) /\ Len(ms) = FromParent(resolved, D) /\ o \in Nat
      /\ D.template => /\ resolved' = [resolved EXCEPT ![n].members = ms, ![n].size = -1]
                       /\ stack' = Front(stack)
      /\ ~D.template => /\ resolved' = [resolved EXCEPT ![n].members = ms]
                        /\ stack' = [stack EXCEPT ![Len(stack)] = g]
  <2>1. def = D
    BY DEF def
  <2>2. QED
    BY <2>1, InheritFacts
<1>2. /\ Core(prog.def, resolved, stack, fin) /\ Given(prog.def, resolved, stack, fin)
      /\ InPrologue
  BY SettingGiven DEF Setting, Inherit
<1>3. /\ resolved \in [Names -> Structs] /\ resolved[n] \in Structs
      /\ FromParent(resolved, D) \in Nat /\ Len(D.body) \in Nat
  <2>1. resolved \in [Names -> Structs] /\ resolved[n] \in Structs
        /\ D.parent \in Names \cup {None} /\ Len(D.body) \in Nat
    BY <1>1, <1>2, GivenTypes DEF Given
  <2>2. D.parent \in Names => Len(resolved[D.parent].members) \in Nat
    BY <1>2, GivenTypes
  <2>3. QED
    BY <2>1, <2>2 DEF FromParent
<1> HIDE DEF ms
<1>4. /\ \A m \in Names : m # n => resolved'[m] = resolved[m]
      /\ resolved'[n].members = ms /\ resolved'[n].inline = resolved[n].inline
      /\ resolved'[n].size = IF D.template THEN -1 ELSE resolved[n].size
      /\ ms = << >> /\ (D.template => resolved[n].size = -1) => resolved'[n] = resolved[n]
  <2>1. CASE D.template
    <3>1. \A m \in Names : m # n => resolved'[m] = resolved[m]
      BY <1>1, <1>3, <2>1
    <3>2. resolved'[n] = [[resolved[n] EXCEPT !.members = ms] EXCEPT !.size = -1]
      BY <1>1, <1>3, <2>1
    <3>3. /\ resolved'[n].members = ms /\ resolved'[n].inline = resolved[n].inline
          /\ resolved'[n].size = -1
      BY <1>3, <3>2 DEF Structs
    <3>4. ASSUME ms = << >>, resolved[n].size = -1
          PROVE  resolved'[n] = resolved[n]
      <4>1. [resolved[n] EXCEPT !.members = ms] = resolved[n]
        BY <1>1, <1>3, <3>4 DEF Structs
      <4>2. [resolved[n] EXCEPT !.size = -1] = resolved[n]
        BY <1>3, <3>4 DEF Structs
      <4>3. QED
        BY <3>2, <4>1, <4>2
    <3>5. QED
      BY <2>1, <3>1, <3>3, <3>4
  <2>2. CASE ~D.template
    <3>1. \A m \in Names : m # n => resolved'[m] = resolved[m]
      BY <1>1, <1>3, <2>2
    <3>2. resolved'[n] = [resolved[n] EXCEPT !.members = ms]
      BY <1>1, <1>3, <2>2
    <3>3. /\ resolved'[n].members = ms /\ resolved'[n].inline = resolved[n].inline
          /\ resolved'[n].size = resolved[n].size
      BY <1>3, <3>2 DEF Structs
    <3>4. ASSUME ms = << >>
          PROVE  resolved'[n] = resolved[n]
      <4>1. [resolved[n] EXCEPT !.members = ms] = resolved[n]
        BY <1>1, <1>3, <3>4 DEF Structs
      <4>2. QED
        BY <3>2, <4>1
    <3>5. QED
      BY <2>2, <3>1, <3>3, <3>4
  <2>3. QED
    BY <2>1, <2>2
<1>5. n \in fin => ms = << >> /\ (D.template => resolved[n].size = -1 /\ resolved[n].inline = 0)
  <2>1. SUFFICES ASSUME n \in fin
                 PROVE  ms = << >> /\ (D.template => resolved[n].size = -1 /\ resolved[n].inline = 0)
    OBVIOUS
  <2>2. CompleteOK(prog.def, resolved, n, fin)
    BY <1>2, <2>1 DEF Core
  <2>3. Tally(D, Len(D.body)) \in Nat
    BY <1>3, TallyStep
  <2>4. FromParent(resolved, D) = 0
    <3>1. Len(resolved[n].members) = 0
      BY <1>1
    <3>2. CASE D.template
      BY <2>2, <3>1, <3>2 DEF CompleteOK
    <3>3. CASE ~D.template
      <4>1. 0 = FromParent(resolved, D) + Tally(D, Len(D.body))
        BY <2>2, <3>1, <3>3 DEF CompleteOK
      <4>2. QED
        BY <1>3, <2>3, <4>1
    <3>4. QED
      BY <3>2, <3>3
  <2>5. ms = << >>
    BY <1>1, <2>4, EmptySeq
  <2>6. QED
    BY <2>2, <2>5 DEF CompleteOK
<1>6. Bare(D) => resolved'[n] = resolved[n]
  <2>1. SUFFICES ASSUME Bare(D) PROVE ms = << >> /\ ~D.template
    BY <1>4
  <2>2. QED
    BY <1>1, <2>1 DEF Bare, ms
<1>7. Agree(prog.def, resolved, resolved', fin)
  BY <1>4, <1>5, <1>6 DEF Agree, Settled
<1>8. /\ FromParent(resolved', D) = FromParent(resolved, D)
      /\ StartOf(resolved', D) = o
  BY <1>1, <1>2, <1>7, ParentAgrees
<1>9. CASE D.template
  <2> DEFINE fin2 == fin \cup {n}
  <2>1. ParentSettled(prog.def, n, fin2)
    BY <1>1 DEF ParentSettled, Settled
  <2>2. resolved[n].inline = 0
    BY <1>2, <1>5, <1>9, TopInPrologue DEF Blank
  <2>3. CompleteOK(prog.def, resolved', n, fin2)
    BY <1>1, <1>4, <1>8, <1>9, <2>1, <2>2 DEF CompleteOK
  <2> HIDE DEF fin2
  <2>4. Core(prog.def, resolved', stack', fin2)
    <3>1. n = Top(stack).name /\ fin2 = fin \cup {n} /\ stack' = Front(stack)
      BY <1>1, <1>9 DEF fin2
    <3>2. \A m \in Names : m # n => resolved'[m] = resolved[m]
      BY <1>4
    <3>3. /\ Given(prog.def, resolved, stack, fin) /\ Core(prog.def, resolved, stack, fin)
          /\ stack # << >>
      BY <1>1, <1>2
    <3> HIDE DEF n
    <3>4. QED
      BY <1>7, <2>3, <3>1, <3>2, <3>3, CorePop
  <2>5. QED
    BY <1>1, <1>7, <1>9, <2>4 DEF fin2
<1>10. CASE ~D.template
  <2>1. frame \in Frames
    BY <1>1, FrameFacts
  <2>2. /\ g \in Frames /\ g.name = n /\ g.at = 1 /\ ~g.called /\ g.offset = o
    BY <1>1, <2>1 DEF Frames
  <2>3. stack' = [stack EXCEPT ![Len(stack)] = g]
    BY <1>1, <1>10
  <2> HIDE DEF g
  <2>4. FrameOK(prog.def, resolved', g, fin)
    <3>1. g.at <= Len(D.body) + 1 /\ g.at # 0 /\ g.at - 1 = 0
      BY <1>3, <2>2
    <3>2. Len(resolved'[n].members) = FromParent(resolved', D) + Tally(D, 0)
      <4>1. Tally(D, 0) = 0
        BY <1>3, TallyStep
      <4>2. QED
        BY <1>1, <1>3, <1>4, <1>8, <4>1
    <3>3. Reaches(resolved', D, 0, o)
      BY <1>8, ReachesStart
    <3>4. n \in fin => resolved'[n].members = << >>
      BY <1>4, <1>5
    <3>5. QED
      BY <1>1, <1>10, <2>2, <3>1, <3>2, <3>3, <3>4 DEF FrameOK
  <2>5. Core(prog.def, resolved', stack', fin)
    <3>1. \A m \in Names : m # Top(stack).name => resolved'[m] = resolved[m]
      BY <1>1, <1>4
    <3>2. g.name = Top(stack).name /\ g.at # 0
      BY <1>1, <2>2
    <3>3. stack # << >> /\ (g.called => Target(prog.def[g.name], g) \in fin)
      BY <1>1, <2>2
    <3>4. g \in Frames
      BY <2>2
    <3>5. QED
      BY <1>2, <1>7, <2>3, <2>4, <3>1, <3>2, <3>3, <3>4, CoreSet
  <2>6. QED
    BY <1>1, <1>7, <1>10, <2>5
<1>11. QED
  BY <1>9, <1>10

LEMMA CoreReturn ==
  ASSUME NEW fin, Setting(fin), Return
  PROVE  /\ Core(prog.def, resolved', stack', fin \cup {frame.name})
         /\ Agree(prog.def, resolved, resolved', fin)
         /\ \A m \in Names : /\ resolved'[m].members = resolved[m].members
                             /\ m # frame.name => resolved'[m] = resolved[m]
         /\ resolved'[frame.name].inline = frame.offset
<1> DEFINE n == frame.name
           D == prog.def[n]
           i == Len(D.body)
           z == IF HasDynamicFields(resolved[n].members) THEN -1 ELSE frame.offset
<1>1. /\ stack # << >> /\ frame = Top(stack) /\ n \in Names /\ frame.at = i + 1
      /\ i \in Nat /\ frame.at # 0 /\ frame.at - 1 = i
      /\ def = D /\ self = resolved[n]
      /\ FrameOK(prog.def, resolved, frame, fin)
      /\ Given(prog.def, resolved, stack, fin)
      /\ Core(prog.def, resolved, stack, fin)
      /\ resolved \in [Names -> Structs] /\ resolved[n] \in Structs
      /\ frame.offset \in Nat
  <2>1. stack # << >> /\ frame.at = Len(def.body) + 1
    BY DEF Return, Running
  <2>2. QED
    BY <2>1, FrameFacts, SettingGiven DEF Setting, Given
<1>2. /\ ~D.template /\ ParentSettled(prog.def, n, fin)
      /\ Len(resolved[n].members) = FromParent(resolved, D) + Tally(D, i)
      /\ resolved[n].members = << >> => Reaches(resolved, D, i, frame.offset)
      /\ n \in fin => resolved[n].members = << >>
  BY <1>1 DEF FrameOK
<1>3. /\ resolved' = [resolved EXCEPT ![n].inline = frame.offset, ![n].size = z]
      /\ stack' = Front(stack)
  BY <1>1 DEF Return
<1> HIDE DEF z
<1>4. resolved'[n] = [[resolved[n] EXCEPT !.inline = frame.offset] EXCEPT !.size = z]
  BY <1>1, <1>3
<1>5. /\ \A m \in Names : m # n => resolved'[m] = resolved[m]
      /\ resolved'[n].members = resolved[n].members
      /\ resolved'[n].inline = frame.offset /\ resolved'[n].size = z
  <2>1. \A m \in Names : m # n => resolved'[m] = resolved[m]
    BY <1>1, <1>3
  <2>2. QED
    BY <1>1, <1>4, <2>1 DEF Structs
<1>6. resolved[n].members = << >> => z = frame.offset
  BY FieldsOfEmpty DEF z
<1>7. ASSUME resolved[n].inline = frame.offset, resolved[n].size = z
      PROVE  resolved'[n] = resolved[n]
  <2>1. [resolved[n] EXCEPT !.inline = frame.offset] = resolved[n]
    BY <1>1, <1>7 DEF Structs
  <2>2. [resolved[n] EXCEPT !.size = z] = resolved[n]
    BY <1>1, <1>7 DEF Structs
  <2>3. QED
    BY <1>4, <2>1, <2>2
<1>8. n \in fin => resolved'[n] = resolved[n]
  <2>1. SUFFICES ASSUME n \in fin PROVE resolved'[n] = resolved[n]
    OBVIOUS
  <2>2. CompleteOK(prog.def, resolved, n, fin) /\ resolved[n].members = << >>
    BY <1>1, <1>2, <2>1 DEF Core
  <2>3. Reaches(resolved, D, i, resolved[n].inline) /\ resolved[n].size = resolved[n].inline
    BY <1>2, <2>2 DEF CompleteOK
  <2>4. resolved[n].inline = frame.offset
    BY <1>1, <1>2, <2>2, <2>3, ReachesUnique
  <2>5. QED
    BY <1>6, <1>7, <2>2, <2>3, <2>4
<1>9. Bare(D) => resolved'[n] = resolved[n]
  <2>1. SUFFICES ASSUME Bare(D) PROVE resolved'[n] = resolved[n]
    OBVIOUS
  <2>2. /\ resolved[n] = Blank /\ i = 0 /\ D.parent = None
    BY <1>1, <2>1 DEF Core, Untouched, Bare
  <2>3. resolved[n].members = << >> /\ resolved[n].inline = 0 /\ resolved[n].size = 0
    BY <2>2 DEF Blank
  <2>4. Reaches(resolved, D, 0, frame.offset) /\ Reaches(resolved, D, 0, 0)
    <3>1. StartOf(resolved, D) = 0
      BY <2>2 DEF StartOf
    <3>2. QED
      BY <1>2, <2>2, <2>3, <3>1, ReachesStart
  <2>5. frame.offset = 0
    BY <2>4, ReachesUnique
  <2>6. QED
    BY <1>6, <1>7, <2>3, <2>5
<1>10. Agree(prog.def, resolved, resolved', fin)
  BY <1>5, <1>8, <1>9 DEF Agree, Settled
<1>11. /\ FromParent(resolved', D) = FromParent(resolved, D)
       /\ \A j, p : Reaches(resolved', D, j, p) <=> Reaches(resolved, D, j, p)
  BY <1>1, <1>2, <1>10, ParentAgrees
<1> DEFINE fin2 == fin \cup {n}
<1>12. CompleteOK(prog.def, resolved', n, fin2)
  <2>1. ParentSettled(prog.def, n, fin2)
    BY <1>2 DEF ParentSettled, Settled
  <2>2. z \in {-1, frame.offset}
    BY DEF z
  <2>3. QED
    BY <1>2, <1>5, <1>6, <1>11, <2>1, <2>2 DEF CompleteOK
<1> HIDE DEF fin2
<1>13. Core(prog.def, resolved', stack', fin2)
  <2>1. n = Top(stack).name /\ fin2 = fin \cup {n}
    BY <1>1 DEF fin2
  <2>2. \A m \in Names : m # n => resolved'[m] = resolved[m]
    BY <1>5
  <2> HIDE DEF n
  <2>3. QED
    BY <1>1, <1>3, <1>10, <1>12, <2>1, <2>2, CorePop
<1>14. QED
  BY <1>5, <1>10, <1>13 DEF fin2

-----------------------------------------------------------------------------
(***************************************************************************)
(* What a step does to the stack.                                          *)
(***************************************************************************)
Stays == \E g \in Frames : /\ g.name = frame.name
                           /\ stack' = [stack EXCEPT ![Len(stack)] = g]
                           /\ \/ g.at = 1 /\ frame.at = 0 /\ Inherit
                              \/ g.at = frame.at /\ ConditionalDecl
                              \/ g.at = frame.at + 1 /\ frame.at >= 1 /\ Statement

Pops == stack' = Front(stack) /\ (AlreadyResolved \/ Return \/ Inherit)

Pushes == \E g \in Frames, m \in Names :
            /\ g.name = frame.name /\ g.at = frame.at /\ frame.acc = g.acc
            /\ g.offset = frame.offset
            /\ stack' = Append([stack EXCEPT ![Len(stack)] = g], NewFrame(m))
            /\ \/ CallParent /\ m = def.parent
               \/ CallType /\ m = decl.ref

Work == AlreadyResolved \/ CallParent \/ CallType \/ Inherit \/ Statement
        \/ ConditionalDecl \/ Return

LEMMA StatementFrame ==
  ASSUME NEW fin, Setting(fin), NEW ms \in Seq(Members), NEW o \in Nat, Emits(ms, o)
  PROVE  LET g == NextStatement([frame EXCEPT !.offset = o])
         IN  /\ stack # << >> /\ g \in Frames /\ g.name = frame.name /\ g.at = frame.at + 1
             /\ frame.at >= 1
             /\ g.offset = o /\ g.acc = << >> /\ ~g.called
             /\ stack' = [stack EXCEPT ![Len(stack)] = g]
             /\ resolved' = [resolved EXCEPT ![frame.name].members = @ \o ms]
<1>1. /\ stack # << >> /\ frame.at \in 1 .. Len(def.body)
      /\ resolved' = [resolved EXCEPT ![frame.name].members = @ \o ms]
      /\ SetFrame(NextStatement([frame EXCEPT !.offset = o]))
  BY DEF Emits, Emit, InBody, Running
<1>2. frame \in Frames /\ frame.at \in Nat /\ frame.at >= 1
  BY <1>1, FrameFacts
<1>3. << >> \in Seq(Fields) /\ frame.at + 1 \in Nat /\ 1 \in Nat \ {0}
  BY <1>2
<1>4. QED
  BY <1>1, <1>2, <1>3 DEF NextStatement, SetFrame, Frames

\* The frame on top after the steps that stay in it, and after a call.
LEMMA CallPushes ==
  ASSUME NEW fin, Setting(fin), CallParent \/ CallType, phase' = "fields"
  PROVE  Pushes
<1>1. stack # << >> /\ phase = "fields" /\ phase # "overflow"
  BY DEF CallParent, CallType, AtDecl, InIf, InBody, InPrologue, Running
<1>2. PICK m \in Names : /\ CallFrom(m)
                         /\ \/ CallParent /\ m = def.parent
                            \/ CallType /\ m = decl.ref
  BY DEF CallParent, CallType, NeedsCall
<1> DEFINE g == [frame EXCEPT !.called = TRUE]
<1>3. /\ g \in Frames /\ g.name = frame.name /\ g.at = frame.at /\ g.acc = frame.acc
      /\ g.offset = frame.offset
  BY <1>1, FrameFacts DEF Frames
<1>4. stack' = Append([stack EXCEPT ![Len(stack)] = g], NewFrame(m))
  <2>1. stack' = Append([stack EXCEPT ![Len(stack)].called = TRUE], NewFrame(m))
    BY <1>1, <1>2 DEF CallFrom
  <2>2. QED
    BY <2>1 DEF frame
<1> HIDE DEF g
<1>5. QED
  BY <1>2, <1>3, <1>4 DEF Pushes

LEMMA ConditionalFrame ==
  ASSUME NEW fin, Setting(fin), ConditionalDecl
  PROVE  \E g \in Frames :
           /\ g.name = frame.name /\ g.at = frame.at /\ g.offset = frame.offset /\ ~g.called
           /\ g.acc = IF decl.bad THEN frame.acc ELSE Append(frame.acc, FieldOf(decl))
           /\ stack' = [stack EXCEPT ![Len(stack)] = g]
<1> DEFINE acc == IF decl.bad THEN frame.acc ELSE Append(frame.acc, FieldOf(decl))
           g == [frame EXCEPT !.sub = @ + 1, !.called = FALSE, !.acc = acc]
<1>1. frame \in Frames /\ frame.sub \in Nat \ {0} /\ frame.acc \in Seq(Fields)
  BY FrameFacts DEF ConditionalDecl, InIf, InBody, Running
<1>2. acc \in Seq(Fields)
  <2>1. decl \in Decls /\ TypeOK
    BY DeclType DEF ConditionalDecl, AtDecl, Setting
  <2>2. FieldOf(decl) \in Fields
    BY <2>1, FieldOfType
  <2>3. QED
    BY <1>1, <2>2, AppendProperties
<1>3. stack' = [stack EXCEPT ![Len(stack)] = g]
  BY DEF ConditionalDecl, SetFrame
<1> HIDE DEF acc
<1>4. /\ g \in Frames /\ g.name = frame.name /\ g.at = frame.at /\ g.offset = frame.offset
      /\ ~g.called /\ g.acc = acc
  <2>1. frame.sub + 1 \in Nat \ {0}
    BY <1>1
  <2>2. QED
    BY <1>1, <1>2, <2>1 DEF Frames
<1> HIDE DEF g
<1>5. QED
  BY <1>3, <1>4 DEF acc

LEMMA InheritFrame ==
  ASSUME NEW fin, Setting(fin), NEW rank \in [Names -> Nat], Lazy(rank), Inherit,
         ~def.template
  PROVE  \E g \in Frames :
           /\ g.name = frame.name /\ g.at = 1 /\ frame.at = 0 /\ g.acc = frame.acc
           /\ ~g.called
           /\ g.offset = StartOf(resolved, def)
           /\ stack' = [stack EXCEPT ![Len(stack)] = g]
<1> DEFINE g == [frame EXCEPT !.at = 1, !.called = FALSE, !.offset = StartOf(resolved, def)]
<1>1. /\ StartOf(resolved, def) \in Nat /\ frame.at = 0 /\ stack # << >>
      /\ stack' = [stack EXCEPT ![Len(stack)] = g]
  BY InheritFacts
<1>2. frame \in Frames
  BY <1>1, FrameFacts
<1>3. /\ g \in Frames /\ g.name = frame.name /\ g.at = 1 /\ g.acc = frame.acc /\ ~g.called
      /\ g.offset = StartOf(resolved, def)
  BY <1>1, <1>2 DEF Frames
<1> HIDE DEF g
<1>4. QED
  BY <1>1, <1>3

LEMMA WorkMoves ==
  ASSUME NEW fin, Setting(fin), NEW rank \in [Names -> Nat], Lazy(rank),
         Work, phase' = "fields"
  PROVE  stack # << >> /\ (Stays \/ Pops \/ Pushes)
<1>1. stack # << >> /\ phase = "fields" /\ phase # "overflow"
  BY DEF Work, AlreadyResolved, CallParent, CallType, Inherit, ConditionalDecl, Return,
         Statement, DeclareInUnion, DeclareRemote, Declare, SkipBadDecl, Pad, CloseIf,
         AtDecl, InIf, InBody, InPrologue, Running
<1>2. /\ frame \in Frames /\ frame.at \in Nat /\ frame.sub \in Nat \ {0}
      /\ frame.acc \in Seq(Fields) /\ frame.name \in Names
  BY <1>1, FrameFacts
<1>3. CASE AlreadyResolved \/ Return
  BY <1>1, <1>3 DEF Pops, AlreadyResolved, Return
<1>4. CASE CallParent \/ CallType
  BY <1>1, <1>4, CallPushes
<1>5. CASE Inherit
  <2>1. CASE def.template
    BY <1>1, <1>5, <2>1, InheritFacts DEF Pops
  <2>2. CASE ~def.template
    BY <1>1, <1>5, <2>2, InheritFrame DEF Stays
  <2>3. QED
    BY <2>1, <2>2
<1>6. CASE ConditionalDecl
  BY <1>1, <1>6, ConditionalFrame DEF Stays
<1>7. CASE Statement
  <2>1. PICK ms \in Seq(Members), o \in Nat : Emits(ms, o)
    BY <1>7, StatementEmits
  <2> DEFINE g == NextStatement([frame EXCEPT !.offset = o])
  <2>2. /\ g \in Frames /\ g.name = frame.name /\ g.at = frame.at + 1 /\ frame.at >= 1
        /\ stack' = [stack EXCEPT ![Len(stack)] = g]
    BY <2>1, StatementFrame
  <2> HIDE DEF g
  <2>3. QED
    BY <1>1, <1>7, <2>2 DEF Stays
<1>8. QED
  BY <1>3, <1>4, <1>5, <1>6, <1>7 DEF Work

\* The names and positions on the stack after a step.
LEMMA StaysStack ==
  ASSUME NEW fin, Setting(fin), stack # << >>,
         NEW g \in Frames, g.name = frame.name, stack' = [stack EXCEPT ![Len(stack)] = g]
  PROVE  /\ Len(stack') = Len(stack) /\ Len(stack) \in 1 .. Len(stack) /\ Len(stack) \in Nat
         /\ stack'[Len(stack)] = g
         /\ \A k \in 1 .. Len(stack) : /\ stack'[k].name = stack[k].name
                                       /\ k # Len(stack) => stack'[k] = stack[k]
                                                            /\ stack[k].name # frame.name
<1>1. /\ stack \in Seq(Frames) /\ Len(stack) \in 1 .. Len(stack) /\ frame = stack[Len(stack)]
      /\ Len(stack) \in Nat
  BY FrameFacts, SettingGiven DEF Given, frame
<1>2. /\ Len(stack') = Len(stack)
      /\ \A k \in 1 .. Len(stack) : stack'[k] = IF k = Len(stack) THEN g ELSE stack[k]
  BY <1>1, ExceptSeq
<1>3. \A k \in 1 .. Len(stack) : stack[k].name = frame.name => k = Len(stack)
  BY <1>1 DEF Setting, Core, Distinct
<1>4. QED
  BY <1>1, <1>2, <1>3

LEMMA PopsStack ==
  ASSUME NEW fin, Setting(fin), stack # << >>, stack' = Front(stack)
  PROVE  /\ Len(stack') = Len(stack) - 1 /\ Len(stack) \in Nat \ {0}
         /\ \A k \in 1 .. Len(stack') : /\ k \in 1 .. Len(stack) /\ k < Len(stack)
                                        /\ stack'[k] = stack[k]
                                        /\ stack[k].name # frame.name
<1>1. /\ Len(stack) \in Nat \ {0} /\ Len(stack) \in 1 .. Len(stack) /\ frame = stack[Len(stack)]
      /\ Len(stack') = Len(stack) - 1
      /\ \A k \in 1 .. Len(stack) - 1 : k \in 1 .. Len(stack) /\ k # Len(stack)
                                        /\ stack'[k] = stack[k]
  BY FrameFacts, SettingGiven, TopType DEF frame
<1>2. \A k \in 1 .. Len(stack) : stack[k].name = frame.name => k = Len(stack)
  BY <1>1 DEF Setting, Core, Distinct
<1>3. QED
  BY <1>1, <1>2

LEMMA PushesStack ==
  ASSUME NEW fin, Setting(fin), stack # << >>,
         NEW g \in Frames, g.name = frame.name, g.at = frame.at,
         NEW m \in Names, stack' = Append([stack EXCEPT ![Len(stack)] = g], NewFrame(m))
  PROVE  /\ Len(stack') = Len(stack) + 1 /\ Len(stack) \in Nat /\ Len(stack) \in 1 .. Len(stack)
         /\ stack'[Len(stack) + 1] = NewFrame(m) /\ stack'[Len(stack)] = g
         /\ \A k \in 1 .. Len(stack') : k \in 1 .. Len(stack) \/ k = Len(stack) + 1
         /\ \A k \in 1 .. Len(stack) : /\ stack'[k].name = stack[k].name
                                       /\ stack'[k].at = stack[k].at
                                       /\ k # Len(stack) => stack'[k] = stack[k]
<1>1. /\ stack \in Seq(Frames) /\ Len(stack) \in 1 .. Len(stack) /\ frame = stack[Len(stack)]
      /\ Len(stack) \in Nat
  BY FrameFacts, SettingGiven DEF Given, frame
<1> DEFINE w == [stack EXCEPT ![Len(stack)] = g]
<1>2. /\ w \in Seq(Frames) /\ Len(w) = Len(stack)
      /\ \A k \in 1 .. Len(stack) : w[k] = IF k = Len(stack) THEN g ELSE stack[k]
  BY <1>1, ExceptSeq
<1>3. stack' = Append(w, NewFrame(m))
  OBVIOUS
<1> HIDE DEF w
<1>4. /\ Len(stack') = Len(stack) + 1 /\ stack'[Len(stack) + 1] = NewFrame(m)
      /\ \A k \in 1 .. Len(stack) : stack'[k] = IF k = Len(stack) THEN g ELSE stack[k]
  BY <1>2, <1>3, NewFrameType, AppendProperties
<1>5. QED
  BY <1>1, <1>4

\* Calls go on leading down.
LEMMA DescendingStep ==
  ASSUME NEW fin, Setting(fin), NEW rank \in [Names -> Nat],
         Ordered(rank), Descending(stack, rank), Work, phase' = "fields"
  PROVE  Descending(stack', rank)
<1>1. Lazy(rank)
  BY DEF Lazy
<1>2. stack # << >> /\ (Stays \/ Pops \/ Pushes)
  BY <1>1, WorkMoves
<1>3. CASE Stays
  <2>1. PICK g \in Frames : g.name = frame.name /\ stack' = [stack EXCEPT ![Len(stack)] = g]
    BY <1>3 DEF Stays
  <2>2. /\ Len(stack') = Len(stack)
        /\ \A k \in 1 .. Len(stack) : stack'[k].name = stack[k].name
    BY <1>2, <2>1, StaysStack
  <2>3. QED
    BY <2>2 DEF Descending
<1>4. CASE Pops
  <2>1. \A k \in 1 .. Len(stack') : k \in 1 .. Len(stack) /\ stack'[k] = stack[k]
    BY <1>2, <1>4, PopsStack DEF Pops
  <2>2. QED
    BY <2>1 DEF Descending
<1>5. CASE Pushes
  <2>1. PICK g \in Frames, m \in Names :
          /\ g.name = frame.name /\ g.at = frame.at
          /\ stack' = Append([stack EXCEPT ![Len(stack)] = g], NewFrame(m))
          /\ \/ CallParent /\ m = def.parent
             \/ CallType /\ m = decl.ref
    BY <1>5 DEF Pushes
  <2>2. /\ Len(stack') = Len(stack) + 1 /\ Len(stack) \in Nat /\ Len(stack) \in 1 .. Len(stack)
        /\ stack'[Len(stack) + 1].name = m
        /\ \A k \in 1 .. Len(stack') : k \in 1 .. Len(stack) \/ k = Len(stack) + 1
        /\ \A k \in 1 .. Len(stack) : stack'[k].name = stack[k].name
    BY <1>2, <2>1, PushesStack, NewFrameType
  <2>3. m \in Mentions(frame.name)
    BY <1>1, <2>1, CalleeFresh
  <2>4. rank[m] < rank[frame.name] /\ frame.name \in Names /\ frame = stack[Len(stack)]
    BY <1>2, <2>3, LowerIsFresh, FrameFacts DEF frame
  <2>5. ASSUME NEW k \in 1 .. Len(stack)
        PROVE  rank[m] < rank[stack[k].name]
    <3>1. stack[k].name \in Names
      BY SettingGiven, GivenTypes
    <3>2. CASE k = Len(stack)
      BY <2>4, <3>2
    <3>3. CASE k # Len(stack)
      <4>1. rank[frame.name] < rank[stack[k].name]
        BY <2>2, <2>4, <3>3 DEF Descending
      <4>2. QED
        BY <2>4, <3>1, <4>1
    <3>4. QED
      BY <3>2, <3>3
  <2>6. ASSUME NEW i \in 1 .. Len(stack'), NEW j \in 1 .. Len(stack'), i < j
        PROVE  rank[stack'[j].name] < rank[stack'[i].name]
    <3>1. CASE j = Len(stack) + 1
      <4>1. i \in 1 .. Len(stack)
        BY <2>2, <2>6, <3>1
      <4>2. QED
        BY <2>2, <2>5, <3>1, <4>1
    <3>2. CASE j \in 1 .. Len(stack)
      <4>1. i \in 1 .. Len(stack)
        BY <2>2, <2>6, <3>2
      <4>2. QED
        BY <2>2, <2>6, <3>2, <4>1 DEF Descending
    <3>3. QED
      BY <2>2, <3>1, <3>2
  <2>7. QED
    BY <2>6 DEF Descending
<1>6. QED
  BY <1>2, <1>3, <1>4, <1>5

\* Members are only added, and only to the struct on top.
LEMMA OnlyTopGrows ==
  ASSUME NEW fin, Setting(fin), NEW rank \in [Names -> Nat], Lazy(rank),
         Work, phase' = "fields"
  PROVE  \A m \in Names :
           /\ m # frame.name => resolved'[m] = resolved[m]
           /\ resolved[m].members # << >> => resolved'[m].members # << >>
<1>1. stack # << >> /\ frame.name \in Names /\ resolved \in [Names -> Structs]
  BY WorkMoves, FrameFacts, SettingGiven DEF Given
<1>2. CASE AlreadyResolved \/ CallParent \/ CallType \/ ConditionalDecl
  BY <1>2 DEF AlreadyResolved, CallParent, CallType, ConditionalDecl
<1>3. CASE Inherit
  <2>1. resolved[frame.name].members = << >>
    BY <1>3, InheritFacts
  <2>2. \A m \in Names : m # frame.name => resolved'[m] = resolved[m]
    BY <1>1, <1>3, InheritFacts
  <2>3. QED
    BY <2>1, <2>2
<1>4. CASE Statement
  <2>1. PICK ms \in Seq(Members), o \in Nat : Emits(ms, o)
    BY <1>4, StatementEmits
  <2>2. resolved' = [resolved EXCEPT ![frame.name].members = @ \o ms]
    BY <2>1, StatementFrame
  <2>3. resolved'[frame.name].members = resolved[frame.name].members \o ms
    BY <1>1, <2>2 DEF Structs
  <2>4. resolved[frame.name].members \in Seq(Members)
    BY <1>1 DEF Structs
  <2>5. resolved[frame.name].members # << >> => resolved'[frame.name].members # << >>
    BY <2>3, <2>4, ConcatSimplifications!concIsEmpty
  <2>6. QED
    BY <1>1, <2>2, <2>5
<1>5. CASE Return
  BY <1>5, CoreReturn
<1>6. QED
  BY <1>2, <1>3, <1>4, <1>5 DEF Work

\* A struct that calls still has a member.
LEMMA StartedStep ==
  ASSUME NEW fin, Setting(fin), StartsPlain, Started(resolved, stack),
         Work, phase' = "fields"
  PROVE  Started(resolved', stack')
<1>1. PICK rank \in [Names -> Nat] : Lazy(rank)
  <2>1. [n \in Names |-> 0] \in [Names -> Nat]
    OBVIOUS
  <2>2. QED
    BY <2>1 DEF Lazy
<1>2. stack # << >> /\ (Stays \/ Pops \/ Pushes)
  BY <1>1, WorkMoves
<1>3. /\ \A m \in Names : resolved[m].members # << >> => resolved'[m].members # << >>
      /\ \A k \in 1 .. Len(stack) : stack[k].name \in Names /\ stack[k].at \in Nat
      /\ frame = stack[Len(stack)]
  BY <1>1, OnlyTopGrows, SettingGiven, GivenTypes DEF frame
<1>4. \A k \in 1 .. Len(stack) : stack[k].at >= 2 => resolved'[stack[k].name].members # << >>
  BY <1>3 DEF Started
<1>5. CASE Stays
  <2>1. PICK g \in Frames : /\ g.name = frame.name
                            /\ stack' = [stack EXCEPT ![Len(stack)] = g]
                            /\ \/ g.at = 1
                               \/ g.at = frame.at
                               \/ g.at = frame.at + 1 /\ frame.at >= 1 /\ Statement
    BY <1>5 DEF Stays
  <2>2. /\ Len(stack') = Len(stack) /\ Len(stack) \in 1 .. Len(stack)
        /\ stack'[Len(stack)] = g
        /\ \A k \in 1 .. Len(stack) : k # Len(stack) => stack'[k] = stack[k]
    BY <1>2, <2>1, StaysStack
  <2>3. ASSUME g.at >= 2
        PROVE  resolved'[g.name].members # << >>
    <3>1. CASE g.at = frame.at
      BY <1>3, <1>4, <2>1, <2>2, <2>3, <3>1
    <3>2. CASE g.at = frame.at + 1 /\ frame.at >= 2
      BY <1>3, <1>4, <2>1, <2>2, <3>2
    <3>3. CASE g.at = frame.at + 1 /\ frame.at = 1 /\ Statement
      <4>1. PICK ms \in Seq(Members), o \in Nat : Emits(ms, o)
        BY <3>3, StatementEmits
      <4>2. resolved' = [resolved EXCEPT ![frame.name].members = @ \o ms]
        BY <4>1, StatementFrame
      <4>3. frame.name \in Names /\ resolved \in [Names -> Structs] /\ def = prog.def[frame.name]
        BY <1>2, FrameFacts, SettingGiven DEF Given
      <4>4. stmt = Head(def.body)
        BY <3>3 DEF stmt
      <4>5. stmt.is = "pad" \/ (stmt.is = "var" /\ ~stmt.bad)
        BY <4>3, <4>4 DEF StartsPlain
      <4>6. Adds(def, stmt)
        BY <4>5 DEF Adds
      <4>7. ms # << >>
        <5>1. Len(ms) = 1
          BY <4>1, <4>6 DEF Emits
        <5>2. ms = << >> => Len(ms) = 0
          OBVIOUS
        <5>3. QED
          BY <5>1, <5>2
      <4>8. resolved'[frame.name].members = resolved[frame.name].members \o ms
            /\ resolved[frame.name].members \in Seq(Members)
        BY <4>2, <4>3 DEF Structs
      <4>9. QED
        BY <2>1, <4>1, <4>7, <4>8, ConcatSimplifications!concIsEmpty
    <3>4. QED
      <4>1. frame.at \in Nat
        BY <1>2, FrameFacts
      <4>2. QED
        BY <2>1, <2>3, <3>1, <3>2, <3>3, <4>1
  <2>4. ASSUME NEW k \in 1 .. Len(stack')
        PROVE  /\ k < Len(stack') => stack'[k].at >= 2
               /\ stack'[k].at >= 2 => resolved'[stack'[k].name].members # << >>
    <3>1. CASE k = Len(stack)
      BY <2>2, <2>3, <3>1
    <3>2. CASE k # Len(stack)
      <4>1. k \in 1 .. Len(stack) /\ k < Len(stack) /\ stack'[k] = stack[k]
        BY <2>2, <3>2
      <4>2. QED
        BY <1>4, <4>1 DEF Started
    <3>3. QED
      BY <3>1, <3>2
  <2>5. QED
    BY <2>4 DEF Started
<1>6. CASE Pops
  <2>1. /\ Len(stack') = Len(stack) - 1 /\ Len(stack) \in Nat
        /\ \A k \in 1 .. Len(stack') : k \in 1 .. Len(stack) /\ k < Len(stack)
                                       /\ stack'[k] = stack[k]
    BY <1>2, <1>6, PopsStack DEF Pops
  <2>2. QED
    BY <1>4, <2>1 DEF Started
<1>7. CASE Pushes
  <2>1. PICK g \in Frames, m \in Names :
          /\ g.name = frame.name /\ g.at = frame.at
          /\ stack' = Append([stack EXCEPT ![Len(stack)] = g], NewFrame(m))
          /\ \/ CallParent /\ m = def.parent
             \/ CallType /\ m = decl.ref
    BY <1>7 DEF Pushes
  <2>2. /\ Len(stack') = Len(stack) + 1 /\ Len(stack) \in Nat /\ Len(stack) \in 1 .. Len(stack)
        /\ stack'[Len(stack) + 1].at = 0
        /\ \A k \in 1 .. Len(stack') : k \in 1 .. Len(stack) \/ k = Len(stack) + 1
        /\ \A k \in 1 .. Len(stack) : stack'[k].name = stack[k].name /\ stack'[k].at = stack[k].at
    BY <1>2, <2>1, PushesStack, NewFrameType
  <2>3. frame.at >= 2
    BY <1>1, <2>1, CalleeFresh
  <2>4. \A k \in 1 .. Len(stack) : stack[k].at >= 2
    BY <1>3, <2>2, <2>3 DEF Started
  <2>5. ASSUME NEW k \in 1 .. Len(stack')
        PROVE  /\ k < Len(stack') => stack'[k].at >= 2
               /\ stack'[k].at >= 2 => resolved'[stack'[k].name].members # << >>
    <3>1. CASE k \in 1 .. Len(stack)
      BY <1>4, <2>2, <2>4, <3>1
    <3>2. CASE k = Len(stack) + 1
      BY <2>2, <3>2
    <3>3. QED
      BY <2>2, <3>1, <3>2
  <2>6. QED
    BY <2>5 DEF Started
<1>8. QED
  BY <1>2, <1>5, <1>6, <1>7

-----------------------------------------------------------------------------
(***************************************************************************)
(* The parents are known when all structs are resolved.                    *)
(***************************************************************************)

\* The part of ParentsKnown that is about a state with calls.
KnownHere(r, s) ==
  /\ \A n \in Names : r[n].members # << >> => prog.def[n].parent # Missing
  /\ \A k \in 1 .. Len(s) : s[k].at # 0 => prog.def[s[k].name].parent # Missing

\* Past the roots before the i-th no parent is unknown.
RootsKnown(i) == \A k \in 1 .. Len(prog.order) :
                   k < i => prog.def[prog.order[k]].parent # Missing

\* A step keeps the root, or returns from it when its parent is known.
RootKept ==
  \/ stack' # << >> /\ stack'[1].name = stack[1].name
  \/ stack' = << >> /\ prog.def[stack[1].name].parent # Missing

LEMMA OrderType ==
  ASSUME TypeOK
  PROVE  /\ prog.order \in Seq(Names) /\ Len(prog.order) \in Nat
         /\ \A n \in Names : \E k \in 1 .. Len(prog.order) : prog.order[k] = n
         /\ next \in Nat \ {0}
<1>1. prog.order \in Seq(Names)
  BY ProgType
<1>2. ToSet(prog.order) = Names
  BY ProgramsAssumption DEF TypeOK
<1>3. DOMAIN prog.order = 1 .. Len(prog.order) /\ Len(prog.order) \in Nat
  BY <1>1, LenProperties
<1>4. QED
  BY <1>1, <1>2, <1>3 DEF ToSet, TypeOK

\* While the fields are resolved, a step under a root.
LEMMA KnownUnderRoot ==
  ASSUME TypeOK, ParentsKnown, stack # << >>, phase = "fields", phase' = "fields",
         prog' = prog, next' = next, KnownHere(resolved', stack'), RootKept
  PROVE  ParentsKnown'
<1>1. /\ next \in 2 .. Len(prog.order) + 1 /\ stack[1].name = prog.order[next - 1]
      /\ \A k \in 1 .. Len(prog.order) :
           k >= next \/ k = next - 1 \/ prog.def[prog.order[k]].parent # Missing
  BY DEF ParentsKnown
<1>2. \A k \in 1 .. Len(prog.order) :
        k >= next \/ (stack' # << >> /\ k = next - 1)
                  \/ prog.def[prog.order[k]].parent # Missing
  BY <1>1 DEF RootKept
<1>3. stack' # << >> => stack'[1].name = prog.order[next - 1]
  BY <1>1 DEF RootKept
<1>4. QED
  BY <1>1, <1>2, <1>3 DEF ParentsKnown, KnownHere, Resolved

\* The stack by its types alone.
LEMMA PlainStack ==
  ASSUME TypeOK, stack # << >>
  PROVE  /\ Len(stack) \in Nat \ {0} /\ 1 \in 1 .. Len(stack) /\ Len(stack) \in 1 .. Len(stack)
         /\ frame = stack[Len(stack)] /\ frame.name \in Names /\ frame.at \in Nat
         /\ def = prog.def[frame.name] /\ frame \in Frames
         /\ resolved \in [Names -> Structs]
         /\ \A g \in Frames : LET w == [stack EXCEPT ![Len(stack)] = g]
                              IN  /\ Len(w) = Len(stack) /\ w \in Seq(Frames)
                                  /\ \A k \in 1 .. Len(stack) :
                                       w[k] = IF k = Len(stack) THEN g ELSE stack[k]
         /\ \A i \in 1 .. Len(stack) :
              /\ Len(SubSeq(stack, 1, i)) = i
              /\ \A k \in 1 .. i : k \in 1 .. Len(stack) /\ SubSeq(stack, 1, i)[k] = stack[k]
         /\ Len(stack) = 1 => Front(stack) = << >>
         /\ Len(Front(stack)) = Len(stack) - 1
         /\ \A k \in 1 .. Len(stack) - 1 : k \in 1 .. Len(stack) /\ Front(stack)[k] = stack[k]
<1>1. /\ Len(stack) \in Nat \ {0} /\ 1 \in 1 .. Len(stack) /\ Len(stack) \in 1 .. Len(stack)
      /\ stack \in Seq(Frames) /\ frame = stack[Len(stack)] /\ frame \in Frames
      /\ \A k \in 1 .. Len(stack) : stack[k] \in Frames
  BY StackType, ElementOfSeq DEF TypeOK, frame
<1>2. resolved \in [Names -> Structs]
  BY DEF TypeOK, Structs
<1>3. \A g \in Frames : LET w == [stack EXCEPT ![Len(stack)] = g]
                        IN  /\ Len(w) = Len(stack) /\ w \in Seq(Frames)
                            /\ \A k \in 1 .. Len(stack) :
                                 w[k] = IF k = Len(stack) THEN g ELSE stack[k]
  BY <1>1, ExceptSeq
<1>4. ASSUME NEW i \in 0 .. Len(stack)
      PROVE  /\ Len(SubSeq(stack, 1, i)) = i
             /\ \A k \in 1 .. i : k \in 1 .. Len(stack) /\ SubSeq(stack, 1, i)[k] = stack[k]
  <2>1. i \in Nat /\ i <= Len(stack) /\ Len(stack) \in Nat /\ i - 1 + 1 = i
    BY <1>1
  <2>2. \A k \in 1 .. i : k \in 1 .. Len(stack) /\ stack[k] \in Frames /\ 1 + k - 1 = k
    BY <1>1, <2>1
  <2>3. /\ Len(SubSeq(stack, 1, i)) = IF 1 <= i THEN i - 1 + 1 ELSE 0
        /\ \A k \in 1 .. i - 1 + 1 : SubSeq(stack, 1, i)[k] = stack[1 + k - 1]
    BY <2>1, <2>2, SubSeqProperties
  <2>4. QED
    BY <2>1, <2>2, <2>3
<1>5. Len(stack) = 1 => Front(stack) = << >>
  <2>1. SUFFICES ASSUME Len(stack) = 1 PROVE SubSeq(stack, 1, 0) = << >>
    BY DEF Front
  <2>2. QED
    BY SubSeqEmpty
<1>6. /\ Len(Front(stack)) = Len(stack) - 1
      /\ \A k \in 1 .. Len(stack) - 1 : k \in 1 .. Len(stack) /\ Front(stack)[k] = stack[k]
  <2>1. Len(stack) - 1 \in 0 .. Len(stack)
    BY <1>1
  <2>2. QED
    BY <1>4, <2>1 DEF Front
<1>7. \A i \in 1 .. Len(stack) :
        /\ Len(SubSeq(stack, 1, i)) = i
        /\ \A k \in 1 .. i : k \in 1 .. Len(stack) /\ SubSeq(stack, 1, i)[k] = stack[k]
  <2>1. \A i \in 1 .. Len(stack) : i \in 0 .. Len(stack)
    OBVIOUS
  <2>2. QED
    BY <1>4, <2>1
<1>8. QED
  BY <1>1, <1>2, <1>3, <1>5, <1>6, <1>7 DEF Frames, def

\* Steps that leave the members alone and do not begin a body.
LEMMA KnownCalls ==
  ASSUME TypeOK, ParentsKnown, AlreadyResolved \/ CallParent \/ CallType \/ ConditionalDecl \/ Return
  PROVE  ParentsKnown'
<1>1. stack # << >> /\ phase = "fields" /\ prog' = prog /\ next' = next
  BY DEF AlreadyResolved, CallParent, CallType, ConditionalDecl, Return,
         AtDecl, InIf, InBody, InPrologue, Running
<1>2. KnownHere(resolved, stack)
  BY DEF ParentsKnown, KnownHere
<1>3. ASSUME \A n \in Names : resolved'[n].members = resolved[n].members,
             phase' = phase, stack' = Front(stack),
             frame.at # 0 \/ resolved[frame.name].members # << >>
      PROVE  ParentsKnown'
  <2>1. /\ Len(stack') = Len(stack) - 1 /\ (Len(stack) = 1 => stack' = << >>)
        /\ \A k \in 1 .. Len(stack') : k \in 1 .. Len(stack) /\ stack'[k] = stack[k]
        /\ Len(stack) \in Nat \ {0} /\ frame = stack[Len(stack)] /\ frame.name \in Names
        /\ Len(stack) \in 1 .. Len(stack)
    BY <1>1, <1>3, PlainStack
  <2>2. KnownHere(resolved', stack')
    BY <1>2, <1>3, <2>1 DEF KnownHere
  <2>3. RootKept
    <3>1. CASE Len(stack) = 1
      <4>1. prog.def[frame.name].parent # Missing
        BY <1>2, <1>3, <2>1 DEF KnownHere
      <4>2. QED
        BY <2>1, <3>1, <4>1 DEF RootKept
    <3>2. CASE Len(stack) # 1
      <4>1. 1 \in 1 .. Len(stack') /\ (stack' = << >> => Len(stack') = 0)
        BY <2>1, <3>2
      <4>2. stack' # << >> /\ stack'[1] = stack[1]
        BY <2>1, <4>1
      <4>3. QED
        BY <4>2 DEF RootKept
    <3>3. QED
      BY <3>1, <3>2
  <2>4. QED
    BY <1>1, <1>3, <2>2, <2>3, KnownUnderRoot
<1>4. CASE AlreadyResolved
  <2>1. /\ resolved' = resolved /\ stack' = Front(stack) /\ phase' = phase
        /\ Len(resolved[frame.name].members) > 0
    BY <1>4 DEF AlreadyResolved, Guarded, self
  <2>2. resolved[frame.name].members # << >>
    BY <2>1
  <2>3. QED
    BY <1>3, <2>1, <2>2
<1>5. CASE Return
  <2>1. frame.name \in Names /\ resolved \in [Names -> Structs] /\ frame.at \in Nat
        /\ Len(def.body) \in Nat /\ frame.offset \in Nat
    BY <1>1, PlainStack, ProgType, LenProperties, StackType
  <2>2. /\ stack' = Front(stack) /\ phase' = phase /\ frame.at # 0
    BY <1>5, <2>1 DEF Return
  <2> DEFINE z == IF HasDynamicFields(self.members) THEN -1 ELSE frame.offset
  <2>3. resolved' = [resolved EXCEPT ![frame.name].inline = frame.offset, ![frame.name].size = z]
    BY <1>5 DEF Return
  <2> HIDE DEF z
  <2>4. ASSUME NEW n \in Names
        PROVE  resolved'[n].members = resolved[n].members
    BY <2>1, <2>3 DEF Structs
  <2>5. QED
    BY <1>3, <2>2, <2>4
<1>6. CASE ConditionalDecl
  <2> DEFINE acc == IF decl.bad THEN frame.acc ELSE Append(frame.acc, FieldOf(decl))
             g == [frame EXCEPT !.sub = @ + 1, !.called = FALSE, !.acc = acc]
  <2>1. /\ frame \in Frames /\ frame.sub + 1 \in Nat \ {0} /\ frame.at # 0
    BY SMTT(30), <1>1, <1>6, PlainStack DEF Frames, ConditionalDecl, InIf, InBody
  <2>2. acc \in Seq(Fields)
    <3>1. decl \in Decls /\ frame.acc \in Seq(Fields)
      BY <1>6, <2>1, DeclType DEF ConditionalDecl, AtDecl, Frames
    <3>2. FieldOf(decl) \in Fields
      BY <3>1, FieldOfType
    <3>3. QED
      BY <3>1, <3>2, AppendProperties
  <2>3. stack' = [stack EXCEPT ![Len(stack)] = g] /\ resolved' = resolved /\ phase' = phase
    BY <1>6 DEF ConditionalDecl, SetFrame
  <2> HIDE DEF acc
  <2>4. g \in Frames /\ g.name = frame.name /\ g.at = frame.at
    BY <2>1, <2>2 DEF Frames
  <2> HIDE DEF g
  <2>5. /\ Len(stack') = Len(stack) /\ Len(stack) \in Nat \ {0} /\ 1 \in 1 .. Len(stack)
        /\ \A k \in 1 .. Len(stack) : stack'[k].name = stack[k].name /\ stack'[k].at = stack[k].at
    BY <1>1, <2>3, <2>4, PlainStack
  <2>6. KnownHere(resolved', stack')
    BY <1>2, <2>3, <2>5 DEF KnownHere
  <2>7. RootKept
    BY <2>5 DEF RootKept
  <2>8. QED
    BY <1>1, <2>3, <2>6, <2>7, KnownUnderRoot
<1>7. CASE CallParent \/ CallType
  <2>1. PICK m : CallFrom(m) /\ m \in Names
    BY <1>7 DEF CallParent, CallType, NeedsCall
  <2>2. resolved' = resolved
    BY <1>7 DEF CallParent, CallType
  <2>3. CASE Len(stack) < MaxDepth
    <3> DEFINE g == [frame EXCEPT !.called = TRUE]
               w == [stack EXCEPT ![Len(stack)] = g]
    <3>1. g \in Frames /\ g.name = frame.name /\ g.at = frame.at
      BY <1>1, PlainStack DEF Frames
    <3>2. stack' = Append(w, NewFrame(m)) /\ phase' = phase
      <4>1. stack' = Append([stack EXCEPT ![Len(stack)].called = TRUE], NewFrame(m))
            /\ phase' = phase
        BY <2>1, <2>3 DEF CallFrom
      <4>2. QED
        BY <4>1 DEF frame
    <3> HIDE DEF g
    <3>3. /\ w \in Seq(Frames) /\ Len(w) = Len(stack) /\ Len(stack) \in Nat \ {0}
          /\ 1 \in 1 .. Len(stack) /\ frame = stack[Len(stack)]
          /\ \A k \in 1 .. Len(stack) : w[k] = IF k = Len(stack) THEN g ELSE stack[k]
      BY <1>1, <3>1, PlainStack
    <3> HIDE DEF w
    <3>4. NewFrame(m) \in Frames /\ NewFrame(m).at = 0
      BY <2>1, NewFrameType
    <3>5. /\ Len(stack') = Len(stack) + 1 /\ stack'[Len(stack) + 1].at = 0 /\ stack' # << >>
          /\ \A k \in 1 .. Len(stack) : /\ stack'[k].name = stack[k].name
                                        /\ stack'[k].at = stack[k].at
      BY <3>1, <3>2, <3>3, <3>4, AppendProperties
    <3>6. \A k \in 1 .. Len(stack') : k \in 1 .. Len(stack) \/ k = Len(stack) + 1
      BY <3>3, <3>5
    <3>7. KnownHere(resolved', stack')
      BY <1>2, <2>2, <3>5, <3>6 DEF KnownHere
    <3>8. RootKept
      BY <3>3, <3>5 DEF RootKept
    <3>9. QED
      BY <1>1, <3>2, <3>7, <3>8, KnownUnderRoot
  <2>4. CASE ~(Len(stack) < MaxDepth)
    <3>1. phase' = "overflow" /\ stack' = stack
      BY <2>1, <2>4 DEF CallFrom
    <3>2. QED
      BY <1>1, <2>2, <3>1 DEF ParentsKnown, Resolved
  <2>5. QED
    BY <2>3, <2>4
<1>8. QED
  BY <1>4, <1>5, <1>6, <1>7

\* Steps that add members or begin a body: the parent is known.
LEMMA KnownBodies ==
  ASSUME TypeOK, ParentsKnown, Inherit \/ Statement
  PROVE  ParentsKnown'
<1>1. stack # << >> /\ phase = "fields" /\ phase' = phase /\ prog' = prog /\ next' = next
  BY DEF Inherit, Statement, DeclareInUnion, DeclareRemote, Declare, SkipBadDecl, Pad, CloseIf,
         Emit, InBody, InPrologue, Running
<1>2. KnownHere(resolved, stack)
  BY DEF ParentsKnown, KnownHere
<1>3. /\ Len(stack) \in Nat \ {0} /\ 1 \in 1 .. Len(stack) /\ Len(stack) \in 1 .. Len(stack)
      /\ frame = stack[Len(stack)] /\ frame.name \in Names /\ frame.at \in Nat
      /\ def = prog.def[frame.name] /\ frame \in Frames
      /\ resolved \in [Names -> Structs]
  BY <1>1, PlainStack
<1>4. prog.def[frame.name].parent # Missing
  <2>1. CASE Inherit
    BY <1>3, <2>1 DEF Inherit
  <2>2. CASE Statement
    <3>1. frame.at # 0
      BY <2>2 DEF Statement, DeclareInUnion, DeclareRemote, Declare, SkipBadDecl, Pad, CloseIf,
                  InBody
    <3>2. QED
      BY <1>2, <1>3, <3>1 DEF KnownHere
  <2>3. QED
    BY <2>1, <2>2
<1>5. \A n \in Names : n # frame.name => resolved'[n] = resolved[n]
  BY <1>3 DEF Inherit, Statement, DeclareInUnion, DeclareRemote, Declare, SkipBadDecl, Pad,
              CloseIf, Emit
<1>6. \A n \in Names : resolved'[n].members # << >> => prog.def[n].parent # Missing
  BY <1>2, <1>4, <1>5 DEF KnownHere
<1>7. ASSUME NEW g \in Frames, g.name = frame.name, stack' = [stack EXCEPT ![Len(stack)] = g]
      PROVE  ParentsKnown'
  <2>1. /\ Len(stack') = Len(stack)
        /\ \A k \in 1 .. Len(stack) : stack'[k] = IF k = Len(stack) THEN g ELSE stack[k]
    BY <1>1, <1>7, PlainStack
  <2>2. \A k \in 1 .. Len(stack) : stack'[k].name = stack[k].name
    BY <1>3, <1>7, <2>1
  <2>3. KnownHere(resolved', stack')
    BY <1>2, <1>4, <1>6, <1>7, <2>1 DEF KnownHere
  <2>4. RootKept
    BY <1>3, <2>1, <2>2 DEF RootKept
  <2>5. QED
    BY <1>1, <2>3, <2>4, KnownUnderRoot
<1>8. CASE Inherit
  <2> DEFINE parent == IF def.parent = None THEN [members |-> << >>, size |-> 0]
                                            ELSE resolved[def.parent]
             o == IF parent.size > 0 THEN parent.size ELSE 0
             g == [frame EXCEPT !.at = 1, !.called = FALSE, !.offset = o]
  <2>1. CASE def.template
    <3>1. stack' = Front(stack)
      BY <1>8, <2>1 DEF Inherit
    <3>2. /\ Len(stack') = Len(stack) - 1 /\ (Len(stack) = 1 => stack' = << >>)
          /\ \A k \in 1 .. Len(stack') : k \in 1 .. Len(stack) /\ stack'[k] = stack[k]
      BY <1>1, <3>1, PlainStack
    <3>3. KnownHere(resolved', stack')
      BY <1>2, <1>6, <3>2 DEF KnownHere
    <3>4. RootKept
      <4>1. CASE Len(stack) = 1
        BY <1>3, <1>4, <3>2, <4>1 DEF RootKept
      <4>2. CASE Len(stack) # 1
        <5>1. 1 \in 1 .. Len(stack') /\ (stack' = << >> => Len(stack') = 0)
          BY <1>3, <3>2, <4>2
        <5>2. stack' # << >> /\ stack'[1] = stack[1]
          BY <3>2, <5>1
        <5>3. QED
          BY <5>2 DEF RootKept
      <4>3. QED
        BY <4>1, <4>2
    <3>5. QED
      BY <1>1, <3>3, <3>4, KnownUnderRoot
  <2>2. CASE ~def.template
    <3>1. o \in Nat
      <4>1. def.parent \in Names \cup {None}
        BY <1>3, <1>8, ProgType DEF Inherit
      <4>2. def.parent \in Names => resolved[def.parent].size \in Nat \cup {-1}
        BY <1>3 DEF Structs
      <4>3. QED
        BY <4>1, <4>2
    <3>2. stack' = [stack EXCEPT ![Len(stack)] = g]
      BY <1>8, <2>2 DEF Inherit, SetFrame
    <3> HIDE DEF o
    <3>3. g \in Frames /\ g.name = frame.name
      BY <1>3, <3>1 DEF Frames
    <3> HIDE DEF g
    <3>4. QED
      BY <1>7, <3>2, <3>3
  <2>3. QED
    BY <2>1, <2>2
<1>9. CASE Statement
  <2>1. TypeOK'
    BY <1>9, StatementStep DEF Statement
  <2>2. PICK o : stack' = [stack EXCEPT ![Len(stack)] = NextStatement([frame EXCEPT !.offset = o])]
    BY <1>9 DEF Statement, DeclareInUnion, DeclareRemote, Declare, SkipBadDecl, Pad, CloseIf,
                Emit, SetFrame
  <2> DEFINE g == NextStatement([frame EXCEPT !.offset = o])
  <2>3. stack \in Seq(Frames) /\ Len(stack) \in 1 .. Len(stack) /\ stack' \in Seq(Frames)
        /\ DOMAIN stack = 1 .. Len(stack)
    BY <1>3, <2>1, LenProperties DEF TypeOK
  <2>4. stack'[Len(stack)] = g /\ Len(stack') = Len(stack)
    <3>1. stack' = [k \in 1 .. Len(stack) |-> IF k = Len(stack) THEN g ELSE stack[k]]
      BY <2>2, <2>3
    <3> HIDE DEF g
    <3>2. DOMAIN stack' = 1 .. Len(stack) /\ DOMAIN stack' = 1 .. Len(stack')
      BY <2>3, <3>1, LenProperties
    <3>3. Len(stack) \in Nat /\ Len(stack') \in Nat
      BY <2>3
    <3>4. QED
      BY <1>3, <3>1, <3>2, <3>3
  <2>5. g \in Frames /\ g.name = frame.name
    <3>1. stack'[Len(stack)] \in Frames
      BY <1>3, <2>3, <2>4, ElementOfSeq
    <3>2. g.name = frame.name
      BY <1>3 DEF NextStatement, Frames
    <3>3. QED
      BY <2>4, <3>1, <3>2
  <2> HIDE DEF g
  <2>6. stack' = [stack EXCEPT ![Len(stack)] = g]
    BY <2>2 DEF g
  <2>7. QED
    BY <1>7, <2>5, <2>6
<1>10. QED
  BY <1>8, <1>9

LEMMA KnownUnwind ==
  ASSUME TypeOK, ParentsKnown, UnknownParent
  PROVE  ParentsKnown'
<1>1. /\ stack # << >> /\ phase = "fields" /\ prog' = prog /\ next' = next
      /\ resolved' = resolved
  BY DEF UnknownParent, InPrologue, Running
<1>2. KnownHere(resolved, stack)
  BY DEF ParentsKnown, KnownHere
<1> DEFINE callers == {k \in 1 .. Len(stack) : \E m \in k .. Len(stack) : stack[m].at # 0}
<1>3. CASE callers = {}
  <2>1. phase' = "failed" /\ stack' = << >>
    BY <1>3 DEF UnknownParent
  <2>2. \A k \in 1 .. Len(stack') : FALSE
    BY <2>1
  <2>3. QED
    BY <1>1, <1>2, <2>1, <2>2 DEF ParentsKnown, KnownHere, Resolved
<1>4. CASE callers # {}
  <2> DEFINE i == CHOOSE k \in callers : \A m \in callers : m <= k
  <2>1. stack' = SubSeq(stack, 1, i) /\ phase' = phase
    BY <1>4 DEF UnknownParent
  <2>2. i \in callers
    <3>1. Len(stack) \in Nat
      BY <1>1, PlainStack
    <3> DEFINE T == {Len(stack) - c : c \in callers}
    <3>2. T \subseteq Nat /\ T # {}
      BY <1>4, <3>1
    <3>3. PICK t \in T : \A u \in T : t <= u
      <4> HIDE DEF T
      <4>1. QED
        BY <3>2, LeastNumber
    <3>4. PICK c \in callers : t = Len(stack) - c
      BY <3>3
    <3>5. ASSUME NEW m \in callers
          PROVE  m <= c
      <4>1. t <= Len(stack) - m
        BY <3>3
      <4>2. m \in Int /\ c \in Int
        OBVIOUS
      <4>3. QED
        BY <3>1, <3>4, <4>1, <4>2
    <3> HIDE DEF callers
    <3>6. QED
      BY <3>5
  <2>3. i \in 1 .. Len(stack) /\ i \in Nat /\ 1 \in 1 .. i
    <3>1. i \in 1 .. Len(stack)
      BY <2>2
    <3> HIDE DEF i
    <3>2. QED
      BY <3>1
  <2> HIDE DEF i
  <2>4. /\ Len(stack') = i
        /\ \A k \in 1 .. i : k \in 1 .. Len(stack) /\ stack'[k] = stack[k]
    BY <1>1, <2>1, <2>3, PlainStack
  <2>5. KnownHere(resolved', stack')
    BY <1>1, <1>2, <2>4 DEF KnownHere
  <2>6. RootKept
    <3>1. stack' = << >> => Len(stack') = 0
      OBVIOUS
    <3>2. QED
      BY <2>3, <2>4, <3>1 DEF RootKept
  <2>7. QED
    BY <1>1, <2>1, <2>5, <2>6, KnownUnderRoot
<1>5. QED
  BY <1>3, <1>4

LEMMA KnownMainLoop ==
  ASSUME TypeOK, ParentsKnown, MainLoop
  PROVE  ParentsKnown'
<1>1. /\ stack = << >> /\ phase = "fields" /\ prog' = prog /\ next' = next + 1
      /\ resolved' = resolved /\ phase' = phase /\ next <= Len(prog.order)
      /\ stack' = <<NewFrame(prog.order[next])>>
  BY DEF MainLoop
<1>2. next \in Nat \ {0} /\ Len(prog.order) \in Nat /\ prog.order \in Seq(Names)
  BY OrderType
<1>3. /\ next' \in 2 .. Len(prog.order) + 1 /\ next' - 1 = next
      /\ next \in 1 .. Len(prog.order)
  BY <1>1, <1>2
<1>4. prog.order[next] \in Names
  BY <1>2, <1>3, ElementOfSeq
<1>5. /\ Len(stack') = 1 /\ stack' # << >> /\ stack'[1].name = prog.order[next]
      /\ stack'[1].at = 0
  BY <1>1, <1>4, NewFrameType
<1>6. \A k \in 1 .. Len(stack') : k = 1
  BY <1>5
<1>7. \A k \in 1 .. Len(prog.order) :
        k >= next' \/ k = next' - 1 \/ prog.def[prog.order[k]].parent # Missing
  <2>1. \A k \in 1 .. Len(prog.order) : k >= next \/ prog.def[prog.order[k]].parent # Missing
    BY <1>1 DEF ParentsKnown
  <2>2. \A k \in 1 .. Len(prog.order) : k >= next => k >= next' \/ k = next' - 1
    BY <1>1, <1>2
  <2>3. QED
    BY <2>1, <2>2
<1>8. QED
  BY <1>1, <1>3, <1>5, <1>6, <1>7 DEF ParentsKnown, Resolved

LEMMA KnownSort ==
  ASSUME TypeOK, ParentsKnown,
         StartSort \/ VisitRoot \/ VisitDependency \/ SkipField \/ EmitStruct \/ Done
  PROVE  ParentsKnown'
<1>1. /\ prog' = prog /\ resolved' = resolved /\ stack' = stack
      /\ phase' \in {"sort", "done"}
  BY DEF StartSort, VisitRoot, VisitDependency, AtDependency, SkipField, EmitStruct, Done
<1>2. NoMissing /\ stack = << >>
  <2>1. CASE StartSort
    <3>1. stack = << >> /\ phase = "fields" /\ next > Len(prog.order)
      BY <2>1 DEF StartSort
    <3>2. ASSUME NEW n \in Names
          PROVE  prog.def[n].parent # Missing
      <4>1. PICK k \in 1 .. Len(prog.order) : prog.order[k] = n
        BY OrderType
      <4>2. ~(k >= next)
        BY <3>1, OrderType
      <4>3. QED
        BY <3>1, <4>1, <4>2 DEF ParentsKnown
    <3>3. QED
      BY <3>1, <3>2 DEF NoMissing
  <2>2. CASE ~StartSort
    BY <2>2 DEF VisitRoot, VisitDependency, AtDependency, SkipField, EmitStruct, Done,
                ParentsKnown, Resolved
  <2>3. QED
    BY <2>1, <2>2
<1>3. QED
  BY <1>1, <1>2 DEF ParentsKnown, NoMissing, Resolved

LEMMA KnownInit == Init => ParentsKnown
<1>1. SUFFICES ASSUME Init PROVE ParentsKnown
  OBVIOUS
<1>2. /\ \A n \in Names : resolved[n].members = << >>
      /\ stack = << >> /\ next = 1 /\ phase = "fields"
  BY <1>1 DEF Init
<1>3. \A k \in 1 .. Len(stack) : FALSE
  BY <1>2
<1>4. QED
  BY <1>2, <1>3 DEF ParentsKnown, Resolved

LEMMA KnownStep ==
  ASSUME TypeOK, ParentsKnown, [Next]_vars
  PROVE  ParentsKnown'
<1>1. CASE UNCHANGED vars
  BY <1>1 DEF vars, ParentsKnown, NoMissing, Resolved
<1>2. CASE Next
  BY <1>2, KnownCalls, KnownBodies, KnownUnwind, KnownMainLoop, KnownSort DEF Next, Statement
<1>3. QED
  BY <1>1, <1>2

-----------------------------------------------------------------------------
(***************************************************************************)
(* Core is kept.                                                           *)
(***************************************************************************)

\* The complete structs after a step: whoever returns has completed its struct.
Fin(fin) == IF stack' = Front(stack) THEN fin \cup {frame.name} ELSE fin

LEMMA FinCases ==
  ASSUME NEW fin, Setting(fin), stack # << >>
  PROVE  /\ Stays \/ Pushes => Fin(fin) = fin
         /\ Pops => Fin(fin) = fin \cup {frame.name}
         /\ fin \subseteq Fin(fin) /\ Fin(fin) \in SUBSET Names
<1>1. Len(Front(stack)) = Len(stack) - 1 /\ Len(stack) \in Nat /\ frame.name \in Names
      /\ fin \in SUBSET Names
  BY SettingGiven, TopType, FrameFacts DEF Setting
<1>2. CASE Stays
  <2>1. Len(stack') = Len(stack)
    BY <1>2, StaysStack DEF Stays
  <2>2. stack' # Front(stack)
    BY <1>1, <2>1
  <2>3. QED
    BY <1>1, <2>2 DEF Fin, Pops
<1>3. CASE Pushes
  <2>1. Len(stack') = Len(stack) + 1
    BY <1>3, PushesStack DEF Pushes
  <2>2. stack' # Front(stack)
    BY <1>1, <2>1
  <2>3. QED
    BY <1>1, <2>2 DEF Fin, Pops
<1>4. CASE ~Stays /\ ~Pushes
  BY <1>1, <1>4 DEF Fin, Pops
<1>5. QED
  BY <1>2, <1>3, <1>4

LEMMA CoreStep ==
  ASSUME NEW fin, Setting(fin), NEW rank \in [Names -> Nat], Lazy(rank),
         Work, phase' = "fields"
  PROVE  /\ Core(prog.def, resolved', stack', Fin(fin))
         /\ Agree(prog.def, resolved, resolved', fin)
<1>1. stack # << >> /\ (Stays \/ Pops \/ Pushes)
  BY WorkMoves
<1>2. /\ Stays \/ Pushes => Fin(fin) = fin
      /\ Pops => Fin(fin) = fin \cup {frame.name}
  BY <1>1, FinCases
<1>3. resolved' = resolved => Agree(prog.def, resolved, resolved', fin)
  BY DEF Agree
<1>4. CASE AlreadyResolved
  <2>1. Core(prog.def, resolved', stack', fin) /\ resolved' = resolved /\ frame.name \in fin
    BY <1>4, CoreAlreadyResolved
  <2>2. Fin(fin) = fin
    BY <2>1 DEF Fin
  <2>3. QED
    BY <1>3, <2>1, <2>2
<1>5. CASE CallParent \/ CallType
  <2>1. Core(prog.def, resolved', stack', fin) /\ resolved' = resolved
    BY <1>5, CoreCall
  <2>2. Pushes
    BY <1>5, CallPushes
  <2>3. QED
    BY <1>2, <1>3, <2>1, <2>2
<1>6. CASE ConditionalDecl
  <2>1. Core(prog.def, resolved', stack', fin) /\ resolved' = resolved
    BY <1>6, CoreConditionalDecl
  <2>2. Len(stack') = Len(stack) /\ Len(Front(stack)) = Len(stack) - 1 /\ Len(stack) \in Nat
    <3>1. DOMAIN stack' = DOMAIN stack /\ stack \in Seq(Frames) /\ TypeOK
      BY <1>6 DEF ConditionalDecl, SetFrame, Setting, TypeOK
    <3>2. stack' \in Seq(Frames)
      BY <1>6, <3>1, FieldsStep DEF TypeOK
    <3>3. Len(stack') = Len(stack) /\ Len(stack) \in Nat
      <4>1. DOMAIN stack = 1 .. Len(stack) /\ DOMAIN stack' = 1 .. Len(stack')
            /\ Len(stack) \in Nat /\ Len(stack') \in Nat
        BY <3>1, <3>2, LenProperties
      <4>2. QED
        BY <3>1, <4>1
    <3>4. QED
      BY <1>1, <3>3, SettingGiven, TopType
  <2>3. stack' # Front(stack)
    BY <2>2
  <2>4. QED
    BY <1>3, <2>1, <2>3 DEF Fin
<1>7. CASE Inherit
  <2>1. CASE def.template
    <3>1. stack' = Front(stack)
      BY <1>7, <2>1 DEF Inherit
    <3>2. QED
      BY <1>7, <2>1, <3>1, CoreInherit DEF Fin
  <2>2. CASE ~def.template
    <3> DEFINE g == [frame EXCEPT !.at = 1, !.called = FALSE, !.offset = StartOf(resolved, def)]
    <3>1. StartOf(resolved, def) \in Nat /\ stack' = [stack EXCEPT ![Len(stack)] = g]
      BY <1>7, <2>2, InheritFacts
    <3>2. frame \in Frames
      BY <1>1, FrameFacts
    <3>3. g \in Frames /\ g.name = frame.name
      BY <3>1, <3>2 DEF Frames
    <3> HIDE DEF g
    <3>4. Len(stack') = Len(stack) /\ Len(stack) \in Nat /\ Len(Front(stack)) = Len(stack) - 1
      BY <1>1, <3>1, <3>3, StaysStack, SettingGiven, TopType
    <3>5. stack' # Front(stack)
      BY <3>4
    <3>6. QED
      BY <1>7, <2>2, <3>5, CoreInherit DEF Fin
  <2>3. QED
    BY <2>1, <2>2
<1>8. CASE Statement
  <2>1. PICK ms \in Seq(Members), o \in Nat : Emits(ms, o)
    BY <1>8, StatementEmits
  <2>2. Core(prog.def, resolved', stack', fin) /\ Agree(prog.def, resolved, resolved', fin)
    BY <2>1, CoreEmit DEF Emits
  <2> DEFINE g == NextStatement([frame EXCEPT !.offset = o])
  <2>3. g \in Frames /\ g.name = frame.name /\ stack' = [stack EXCEPT ![Len(stack)] = g]
    BY <2>1, StatementFrame
  <2> HIDE DEF g
  <2>4. Len(stack') = Len(stack) /\ Len(stack) \in Nat /\ Len(Front(stack)) = Len(stack) - 1
    BY <1>1, <2>3, StaysStack, SettingGiven, TopType
  <2>5. stack' # Front(stack)
    BY <2>4
  <2>6. QED
    BY <2>2, <2>5 DEF Fin
<1>9. CASE Return
  <2>1. stack' = Front(stack)
    BY <1>9 DEF Return
  <2>2. QED
    BY <1>9, <2>1, CoreReturn DEF Fin
<1>10. QED
  BY <1>4, <1>5, <1>6, <1>7, <1>8, <1>9 DEF Work

\* What the main loop has completed stays complete.
LEMMA RootsStep ==
  ASSUME NEW fin, Setting(fin), ParentsKnown, RootsDone(fin),
         NEW rank \in [Names -> Nat], Lazy(rank), Work, phase' = "fields"
  PROVE  \A k \in 1 .. Len(prog'.order) :
           k >= next' \/ (stack' # << >> /\ k = next' - 1) \/ prog'.order[k] \in Fin(fin)
<1>1. stack # << >> /\ (Stays \/ Pops \/ Pushes) /\ phase = "fields"
  BY WorkMoves DEF Work, AlreadyResolved, CallParent, CallType, Inherit, ConditionalDecl, Return,
         Statement, DeclareInUnion, DeclareRemote, Declare, SkipBadDecl, Pad, CloseIf,
         AtDecl, InIf, InBody, InPrologue, Running
<1>2. prog' = prog /\ next' = next
  BY DEF Work, AlreadyResolved, CallParent, CallType, Inherit, ConditionalDecl, Return, Emit,
         Statement, DeclareInUnion, DeclareRemote, Declare, SkipBadDecl, Pad, CloseIf
<1>3. /\ stack[1].name = prog.order[next - 1]
      /\ \A k \in 1 .. Len(prog.order) : k >= next \/ k = next - 1 \/ prog.order[k] \in fin
  BY <1>1 DEF ParentsKnown, RootsDone
<1>4. fin \subseteq Fin(fin)
  BY <1>1, FinCases
<1>5. stack' = << >> => stack[1].name \in Fin(fin)
  <2>1. Len(stack) \in Nat \ {0} /\ frame = stack[Len(stack)]
    BY <1>1, FrameFacts DEF frame
  <2>2. CASE Stays
    <3>1. Len(stack') = Len(stack)
      BY <1>1, <2>2, StaysStack DEF Stays
    <3>2. stack' = << >> => Len(stack') = 0
      OBVIOUS
    <3>3. QED
      BY <2>1, <3>1, <3>2
  <2>3. CASE Pushes
    <3>1. Len(stack') = Len(stack) + 1
      BY <1>1, <2>3, PushesStack DEF Pushes
    <3>2. stack' = << >> => Len(stack') = 0
      OBVIOUS
    <3>3. QED
      BY <2>1, <3>1, <3>2
  <2>4. CASE Pops
    <3>1. Len(stack') = Len(stack) - 1 /\ frame.name \in Fin(fin)
      BY <1>1, <2>4, PopsStack, FinCases DEF Pops
    <3>2. stack' = << >> => Len(stack') = 0
      OBVIOUS
    <3>3. stack' = << >> => Len(stack) = 1
      BY <2>1, <3>1, <3>2
    <3>4. QED
      BY <2>1, <3>1, <3>3
  <2>5. QED
    BY <1>1, <2>2, <2>3, <2>4
<1>6. QED
  BY <1>2, <1>3, <1>4, <1>5

-----------------------------------------------------------------------------
(***************************************************************************)
(* The sizes taken over into fields are kept.                              *)
(***************************************************************************)
LEMMA CapturedEmpty ==
  ASSUME NEW d, NEW r, NEW fin
  PROVE  Captured(d, r, << >>, fin) /\ Captured(d, r, FieldsOf(<< >>), fin)
<1>1. ToSet(<< >>) = {}
  BY DEF ToSet
<1>2. QED
  BY <1>1, FieldsOfEmpty DEF Captured

LEMMA CapturedStays ==
  ASSUME NEW d, NEW r, NEW r2, NEW fin, Agree(d, r, r2, fin), NEW fin2, fin \subseteq fin2,
         NEW fs \in Seq(Fields), Captured(d, r, fs, fin)
  PROVE  Captured(d, r2, fs, fin2)
<1>1. SUFFICES ASSUME NEW f \in ToSet(fs), ByValue(f)
               PROVE  Settled(d, f.ref, fin2) /\ SizeFinal(r2, f)
  BY DEF Captured
<1>2. f \in Fields
  BY HoldsToSet, ElementOfSeq DEF Holds
<1>3. f.ref \in Names
  BY <1>1, <1>2 DEF Fields
<1>4. Settled(d, f.ref, fin) /\ SizeFinal(r, f)
  BY <1>1 DEF Captured
<1>5. r2[f.ref] = r[f.ref]
  BY <1>3, <1>4 DEF Agree
<1>6. QED
  BY <1>4, <1>5 DEF Settled, SizeFinal

\* Every struct keeps its members or has got captured ones; so have the conditionals.
LEMMA SizesKeep ==
  ASSUME NEW d, NEW r, NEW s, NEW fin, Given(d, r, s, fin), Sizes(d, r, s, fin),
         NEW r2, Agree(d, r, r2, fin), NEW fin2, fin \subseteq fin2, NEW s2,
         \A n \in Names : \/ r2[n].members = r[n].members
                          \/ Captured(d, r2, FieldsOf(r2[n].members), fin2),
         \A k \in 1 .. Len(s2) : \/ k \in 1 .. Len(s) /\ s2[k].acc = s[k].acc
                                 \/ Captured(d, r2, s2[k].acc, fin2)
  PROVE  Sizes(d, r2, s2, fin2)
<1>1. ASSUME NEW n \in Names
      PROVE  Captured(d, r2, FieldsOf(r2[n].members), fin2)
  <2>1. FieldsOf(r[n].members) \in Seq(Fields)
    BY GivenTypes, FieldsOfType
  <2>2. Captured(d, r2, FieldsOf(r[n].members), fin2)
    BY <2>1, CapturedStays DEF Sizes
  <2>3. QED
    BY <2>2
<1>2. ASSUME NEW k \in 1 .. Len(s2)
      PROVE  Captured(d, r2, s2[k].acc, fin2)
  <2>1. ASSUME k \in 1 .. Len(s), s2[k].acc = s[k].acc
        PROVE  Captured(d, r2, s2[k].acc, fin2)
    <3>1. s[k].acc \in Seq(Fields) /\ Captured(d, r, s[k].acc, fin)
      BY <2>1, GivenTypes DEF Sizes
    <3>2. QED
      BY <2>1, <3>1, CapturedStays
  <2>2. QED
    BY <2>1
<1>3. QED
  BY <1>1, <1>2 DEF Sizes

\* Ready: the struct of the declaration is settled, with the size taken over.
LEMMA TakesFinal ==
  ASSUME NEW fin, Setting(fin), NEW rank \in [Names -> Nat],
         Ordered(rank), Descending(stack, rank), AtDecl, Ready,
         NEW m \in Fields, Takes(m, decl), ByValue(m)
  PROVE  Settled(prog.def, m.ref, fin) /\ SizeFinal(resolved, m)
<1>1. decl \in Decls /\ stack # << >> /\ InBody
  BY DeclType DEF Setting, AtDecl, InIf
<1>2. /\ decl.ptr \in Nat /\ decl.len \in Nat \cup {Single, Expr}
      /\ m.ref = decl.ref /\ m.ref \in Names /\ m.kind = Kind(decl) /\ m.len = decl.len
      /\ m.size = TypeSize(decl) /\ m.elem = UnitSize(decl)
  BY <1>1 DEF Takes, Decls, Fields
<1>3. decl.ptr = 0 /\ m.kind = IF decl.len = Single THEN "struct" ELSE "structs"
  BY <1>2 DEF Kind, ByValue
<1>4. decl.ref \in Mentions(frame.name)
  BY <1>2, DeclMentioned
<1>5. CASE frame.called
  <2>1. /\ frame = stack[Len(stack)] /\ Len(stack) \in 1 .. Len(stack)
        /\ Links(prog.def, stack, fin) /\ frame.at # 0 /\ def = prog.def[frame.name]
    BY <1>1, FrameFacts DEF frame, InBody
  <2>2. Target(def, frame) \in fin
    BY <1>5, <2>1 DEF Links
  <2>3. Target(def, frame) = decl.ref
    BY <2>1 DEF Target, decl, stmt
  <2>4. QED
    BY <1>2, <1>3, <2>2, <2>3 DEF Settled, SizeFinal, TypeSize, UnitSize, Single, Expr
<1>6. CASE ~NeedsCall(decl)
  <2>1. Settled(prog.def, decl.ref, fin)
    BY <1>1, <1>2, <1>4, <1>6, MentionSettled DEF NeedsCall
  <2>2. QED
    BY <1>2, <1>3, <2>1 DEF SizeFinal, TypeSize, UnitSize, Single, Expr
<1>7. QED
  BY <1>5, <1>6 DEF Ready

\* The fields of the one member of a list.
LEMMA FieldsOfOne ==
  ASSUME NEW m \in Members, NEW x
  PROVE  /\ <<m>> \in Seq(Members)
         /\ x \in ToSet(FieldsOf(<<m>>)) <=> x \in ToSet(Part(m))
<1>1. <<m>> \in Seq(Members) /\ Len(<<m>>) = 1 /\ <<m>>[1] = m
  OBVIOUS
<1>2. x \in ToSet(FieldsOf(<<m>>)) <=> \E k \in 1 .. Len(<<m>>) : Holds(Part(<<m>>[k]), x)
  BY <1>1, FieldsOfHolds
<1>3. x \in ToSet(FieldsOf(<<m>>)) <=> Holds(Part(m), x)
  BY <1>1, <1>2
<1>4. Part(m) \in Seq(Fields)
  BY PartType
<1>5. QED
  BY <1>1, <1>3, <1>4, HoldsToSet

LEMMA MadeCaptured ==
  ASSUME NEW fin, Setting(fin), NEW rank \in [Names -> Nat],
         Ordered(rank), Descending(stack, rank),
         Sizes(prog.def, resolved, stack, fin),
         NEW ms \in Seq(Members), NEW o \in Nat, Emits(ms, o), Made(ms, o)
  PROVE  Captured(prog.def, resolved, FieldsOf(ms), fin)
<1>1. InBody /\ stack # << >>
  BY DEF Emits, InBody, Running
<1>2. CASE ms = << >>
  BY <1>2, CapturedEmpty
<1>3. ASSUME NEW m \in Fields, ms = <<m>>, stmt.is = "var", Ready, Takes(m, stmt)
      PROVE  Captured(prog.def, resolved, FieldsOf(ms), fin)
  <2>1. AtDecl /\ decl = stmt
    BY <1>1, <1>3 DEF AtDecl, decl
  <2>2. m \in Members /\ m.is = "field"
    BY DEF Members, Fields
  <2>3. Part(m) = <<m>>
    BY <2>2, PartType
  <2>4. \A x \in ToSet(FieldsOf(ms)) : x = m
    <3>1. \A x \in ToSet(<<m>>) : x = m
      BY DEF ToSet
    <3>2. QED
      BY <1>3, <2>2, <2>3, <3>1, FieldsOfOne
  <2>5. ByValue(m) => Settled(prog.def, m.ref, fin) /\ SizeFinal(resolved, m)
    BY <1>3, <2>1, TakesFinal
  <2>6. QED
    BY <2>4, <2>5 DEF Captured
<1>4. ASSUME NEW m \in Conditionals, ms = <<m>>, m.fields = frame.acc
      PROVE  Captured(prog.def, resolved, FieldsOf(ms), fin)
  <2>1. m \in Members /\ m.is = "cond"
    BY DEF Members, Conditionals
  <2>2. Part(m) = frame.acc
    BY <1>4, <2>1, PartType
  <2>3. \A x : x \in ToSet(FieldsOf(ms)) => x \in ToSet(frame.acc)
    BY <1>4, <2>1, <2>2, FieldsOfOne
  <2>4. Captured(prog.def, resolved, frame.acc, fin)
    <3>1. frame = stack[Len(stack)] /\ Len(stack) \in 1 .. Len(stack)
      BY <1>1, FrameFacts DEF frame
    <3>2. QED
      BY <3>1 DEF Sizes
  <2>5. QED
    BY <2>3, <2>4 DEF Captured
<1>5. ASSUME NEW m \in Pads, ms = <<m>>
      PROVE  Captured(prog.def, resolved, FieldsOf(ms), fin)
  <2>1. m \in Members /\ m.is = "pad"
    BY DEF Members, Pads
  <2>2. Part(m) = << >>
    BY <2>1, PartType
  <2>3. \A x : x \notin ToSet(FieldsOf(ms))
    <3>1. ToSet(<< >>) = {}
      BY DEF ToSet
    <3>2. QED
      BY <1>5, <2>1, <2>2, <3>1, FieldsOfOne
  <2>4. QED
    BY <2>3 DEF Captured
<1>6. QED
  BY <1>2, <1>3, <1>4, <1>5 DEF Made

\* What is settled when its size is taken stays as it is, so the sizes stay final.
LEMMA SizesStep ==
  ASSUME NEW fin, Setting(fin), NEW rank \in [Names -> Nat],
         Ordered(rank), Descending(stack, rank),
         Sizes(prog.def, resolved, stack, fin), Work, phase' = "fields"
  PROVE  Sizes(prog.def, resolved', stack', Fin(fin))
<1> DEFINE fin2 == Fin(fin)
<1>1. Lazy(rank)
  BY DEF Lazy
<1>2. /\ stack # << >> /\ (Stays \/ Pops \/ Pushes)
      /\ Given(prog.def, resolved, stack, fin)
      /\ Agree(prog.def, resolved, resolved', fin)
      /\ fin \subseteq fin2
  BY <1>1, WorkMoves, SettingGiven, CoreStep, FinCases
<1>3. /\ frame = stack[Len(stack)] /\ Len(stack) \in 1 .. Len(stack) /\ Len(stack) \in Nat
      /\ frame \in Frames /\ frame.name \in Names /\ frame.acc \in Seq(Fields)
      /\ def = prog.def[frame.name] /\ resolved \in [Names -> Structs]
  BY <1>2, FrameFacts DEF frame, Given
<1> HIDE DEF fin2
<1>4. \A x \in {<< >>} : Captured(prog.def, resolved', x, fin2)
  BY CapturedEmpty
<1>5. SUFFICES ASSUME TRUE
               PROVE  /\ \A n \in Names :
                           \/ resolved'[n].members = resolved[n].members
                           \/ Captured(prog.def, resolved', FieldsOf(resolved'[n].members), fin2)
                      /\ \A k \in 1 .. Len(stack') :
                           \/ k \in 1 .. Len(stack) /\ stack'[k].acc = stack[k].acc
                           \/ Captured(prog.def, resolved', stack'[k].acc, fin2)
  BY <1>2, SizesKeep DEF fin2
<1>6. ASSUME NEW g \in Frames, g.name = frame.name, stack' = [stack EXCEPT ![Len(stack)] = g],
             g.acc = frame.acc \/ Captured(prog.def, resolved', g.acc, fin2)
      PROVE  \A k \in 1 .. Len(stack') :
               \/ k \in 1 .. Len(stack) /\ stack'[k].acc = stack[k].acc
               \/ Captured(prog.def, resolved', stack'[k].acc, fin2)
  <2>1. /\ Len(stack') = Len(stack) /\ stack'[Len(stack)] = g
        /\ \A k \in 1 .. Len(stack) : k # Len(stack) => stack'[k] = stack[k]
    BY <1>2, <1>6, StaysStack
  <2>2. ASSUME NEW k \in 1 .. Len(stack')
        PROVE  \/ k \in 1 .. Len(stack) /\ stack'[k].acc = stack[k].acc
               \/ Captured(prog.def, resolved', stack'[k].acc, fin2)
    <3>1. CASE k = Len(stack)
      BY <1>3, <1>6, <2>1, <3>1
    <3>2. CASE k # Len(stack)
      BY <2>1, <3>2
    <3>3. QED
      BY <3>1, <3>2
  <2>3. QED
    BY <2>2
<1>7. stack' = Front(stack) =>
        \A k \in 1 .. Len(stack') : k \in 1 .. Len(stack) /\ stack'[k].acc = stack[k].acc
  BY <1>2, PopsStack
<1>8. CASE AlreadyResolved
  BY <1>7, <1>8 DEF AlreadyResolved
<1>9. CASE CallParent \/ CallType
  <2>1. resolved' = resolved
    BY <1>9 DEF CallParent, CallType
  <2>2. PICK g \in Frames, m \in Names :
          /\ g.name = frame.name /\ g.at = frame.at /\ frame.acc = g.acc
          /\ stack' = Append([stack EXCEPT ![Len(stack)] = g], NewFrame(m))
    BY <1>9, CallPushes DEF Pushes
  <2>3. /\ Len(stack') = Len(stack) + 1 /\ stack'[Len(stack) + 1] = NewFrame(m)
        /\ stack'[Len(stack)] = g
        /\ \A k \in 1 .. Len(stack') : k \in 1 .. Len(stack) \/ k = Len(stack) + 1
        /\ \A k \in 1 .. Len(stack) : k # Len(stack) => stack'[k] = stack[k]
    BY <1>2, <2>2, PushesStack
  <2>4. ASSUME NEW k \in 1 .. Len(stack')
        PROVE  \/ k \in 1 .. Len(stack) /\ stack'[k].acc = stack[k].acc
               \/ Captured(prog.def, resolved', stack'[k].acc, fin2)
    <3>1. CASE k = Len(stack) + 1
      <4>1. stack'[k].acc = << >>
        BY <2>3, <3>1, NewFrameType
      <4>2. QED
        BY <1>4, <4>1
    <3>2. CASE k = Len(stack)
      BY <1>3, <2>2, <2>3, <3>2
    <3>3. CASE k \in 1 .. Len(stack) /\ k # Len(stack)
      BY <2>3, <3>3
    <3>4. QED
      BY <2>3, <3>1, <3>2, <3>3
  <2>5. QED
    BY <2>1, <2>4
<1>10. CASE Inherit
  <2> DEFINE ms == IF def.parent = None THEN << >> ELSE resolved[def.parent].members
  <2>1. /\ \A n \in Names : n # frame.name => resolved'[n] = resolved[n]
        /\ resolved'[frame.name].members = ms
    <3>1. /\ def.template =>
               resolved' = [resolved EXCEPT ![frame.name].members = ms, ![frame.name].size = -1]
          /\ ~def.template => resolved' = [resolved EXCEPT ![frame.name].members = ms]
      BY <1>1, <1>10, InheritFacts
    <3> HIDE DEF ms
    <3>2. CASE def.template
      <4>1. resolved'[frame.name] =
              [[resolved[frame.name] EXCEPT !.members = ms] EXCEPT !.size = -1]
        BY <1>3, <3>1, <3>2
      <4>2. resolved[frame.name] \in Structs
        BY <1>3
      <4>3. resolved'[frame.name].members = ms
        BY <4>1, <4>2 DEF Structs
      <4>4. QED
        BY <1>3, <3>1, <3>2, <4>3
    <3>3. CASE ~def.template
      BY <1>3, <3>1, <3>3 DEF Structs
    <3>4. QED
      BY <3>2, <3>3
  <2>2. Captured(prog.def, resolved', FieldsOf(ms), fin2)
    <3>1. CASE def.parent = None
      BY <3>1, CapturedEmpty
    <3>2. CASE def.parent # None
      <4>1. /\ def.parent \in Names
            /\ resolved[def.parent].members \in Seq(Members)
        BY <1>2, <1>3, <3>2, GivenTypes
      <4>2. /\ Captured(prog.def, resolved, FieldsOf(resolved[def.parent].members), fin)
            /\ FieldsOf(resolved[def.parent].members) \in Seq(Fields)
        BY <4>1, FieldsOfType DEF Sizes
      <4>3. QED
        BY <1>2, <3>2, <4>2, CapturedStays
    <3>3. QED
      BY <3>1, <3>2
  <2>3. \A k \in 1 .. Len(stack') :
          \/ k \in 1 .. Len(stack) /\ stack'[k].acc = stack[k].acc
          \/ Captured(prog.def, resolved', stack'[k].acc, fin2)
    <3>1. CASE def.template
      BY <1>1, <1>7, <1>10, <3>1, InheritFacts
    <3>2. CASE ~def.template
      BY <1>1, <1>6, <1>10, <3>2, InheritFrame
    <3>3. QED
      BY <3>1, <3>2
  <2> HIDE DEF ms
  <2>4. QED
    BY <2>1, <2>2, <2>3
<1>11. CASE ConditionalDecl
  <2>1. resolved' = resolved /\ AtDecl /\ Ready
    BY <1>11 DEF ConditionalDecl, AtDecl
  <2>2. PICK g \in Frames :
          /\ g.name = frame.name /\ stack' = [stack EXCEPT ![Len(stack)] = g]
          /\ g.acc = IF decl.bad THEN frame.acc ELSE Append(frame.acc, FieldOf(decl))
    BY <1>11, ConditionalFrame
  <2> DEFINE m == FieldOf(decl)
  <2>3. m \in Fields /\ Takes(m, decl)
    <3>1. decl \in Decls /\ TypeOK
      BY <2>1, DeclType DEF Setting
    <3>2. QED
      BY <3>1, FieldOfType DEF Takes, FieldOf
  <2> HIDE DEF m
  <2>4. \A x \in ToSet(Append(frame.acc, m)) : x \in ToSet(frame.acc) \/ x = m
    <3>1. Append(frame.acc, m) \in Seq(Fields)
      BY <1>3, <2>3, AppendProperties
    <3>2. ASSUME NEW x, Holds(Append(frame.acc, m), x)
          PROVE  Holds(frame.acc, x) \/ x = m
      <4>1. /\ Len(Append(frame.acc, m)) = Len(frame.acc) + 1 /\ Len(frame.acc) \in Nat
            /\ \A i \in 1 .. Len(frame.acc) : Append(frame.acc, m)[i] = frame.acc[i]
            /\ Append(frame.acc, m)[Len(frame.acc) + 1] = m
        BY <1>3, <2>3, AppendProperties
      <4>2. PICK i \in 1 .. Len(Append(frame.acc, m)) : Append(frame.acc, m)[i] = x
        BY <3>2 DEF Holds
      <4>3. i \in 1 .. Len(frame.acc) \/ i = Len(frame.acc) + 1
        BY <4>1
      <4>4. QED
        BY <4>1, <4>2, <4>3 DEF Holds
    <3>3. QED
      BY <1>3, <3>1, <3>2, HoldsToSet
  <2>5. Captured(prog.def, resolved, frame.acc, fin)
    BY <1>3 DEF Sizes
  <2>6. ByValue(m) => Settled(prog.def, m.ref, fin) /\ SizeFinal(resolved, m)
    BY <2>1, <2>3, TakesFinal
  <2>7. Captured(prog.def, resolved, Append(frame.acc, m), fin)
    BY <2>4, <2>5, <2>6 DEF Captured
  <2>8. Captured(prog.def, resolved', Append(frame.acc, m), fin2)
    <3>1. Append(frame.acc, m) \in Seq(Fields)
      BY <1>3, <2>3, AppendProperties
    <3>2. QED
      BY <1>2, <2>7, <3>1, CapturedStays
  <2>9. g.acc = frame.acc \/ Captured(prog.def, resolved', g.acc, fin2)
    BY <2>2, <2>8 DEF m
  <2>10. QED
    BY <1>6, <2>1, <2>2, <2>9
<1>12. CASE Statement
  <2>1. PICK ms \in Seq(Members), o \in Nat : Emits(ms, o) /\ Made(ms, o)
    BY <1>12, StatementEmits
  <2> DEFINE g == NextStatement([frame EXCEPT !.offset = o])
  <2>2. /\ g \in Frames /\ g.name = frame.name /\ g.acc = << >>
        /\ stack' = [stack EXCEPT ![Len(stack)] = g]
        /\ resolved' = [resolved EXCEPT ![frame.name].members = @ \o ms]
    BY <2>1, StatementFrame
  <2> HIDE DEF g
  <2> DEFINE old == resolved[frame.name].members
  <2>3. /\ \A n \in Names : n # frame.name => resolved'[n] = resolved[n]
        /\ resolved'[frame.name].members = old \o ms
        /\ old \in Seq(Members)
    BY <1>3, <2>2 DEF Structs
  <2>4. Captured(prog.def, resolved, FieldsOf(ms), fin) /\ FieldsOf(ms) \in Seq(Fields)
    BY <2>1, MadeCaptured, FieldsOfType
  <2>5. Captured(prog.def, resolved, FieldsOf(old), fin) /\ FieldsOf(old) \in Seq(Fields)
    BY <1>3, <2>3, FieldsOfType DEF Sizes
  <2>6. /\ Captured(prog.def, resolved', FieldsOf(ms), fin2)
        /\ Captured(prog.def, resolved', FieldsOf(old), fin2)
    BY <1>2, <2>4, <2>5, CapturedStays
  <2> HIDE DEF old
  <2>7. \A x : x \in ToSet(FieldsOf(old \o ms)) =>
               x \in ToSet(FieldsOf(old)) \/ x \in ToSet(FieldsOf(ms))
    BY <2>3, FieldsOfConcat
  <2>8. Captured(prog.def, resolved', FieldsOf(old \o ms), fin2)
    BY <2>6, <2>7 DEF Captured
  <2>9. \A n \in Names : \/ resolved'[n].members = resolved[n].members
                         \/ Captured(prog.def, resolved', FieldsOf(resolved'[n].members), fin2)
    BY <2>3, <2>8
  <2>10. QED
    BY <1>4, <1>6, <2>2, <2>9
<1>13. CASE Return
  <2>1. \A n \in Names : resolved'[n].members = resolved[n].members
    BY <1>13, CoreReturn
  <2>2. stack' = Front(stack)
    BY <1>13 DEF Return
  <2>3. QED
    BY <1>7, <2>1, <2>2
<1>14. QED
  BY <1>8, <1>9, <1>10, <1>11, <1>12, <1>13 DEF Work

-----------------------------------------------------------------------------
(***************************************************************************)
(* The placed members stay apart.                                          *)
(***************************************************************************)

\* A member that is a field is one of the fields.
LEMMA PlacedField ==
  ASSUME NEW ms \in Seq(Members), NEW j \in 1 .. Len(ms), ms[j].is = "field"
  PROVE  ms[j] \in Fields /\ ms[j] \in ToSet(FieldsOf(ms))
<1>1. ms[j] \in Members
  BY ElementOfSeq
<1>2. ms[j] \in Fields /\ Part(ms[j]) = <<ms[j]>>
  BY <1>1, PartType
<1>3. Holds(<<ms[j]>>, ms[j])
  <2>1. Len(<<ms[j]>>) = 1 /\ <<ms[j]>>[1] = ms[j]
    OBVIOUS
  <2>2. QED
    BY <2>1 DEF Holds
<1>4. QED
  BY <1>2, <1>3, FieldsOfHolds

\* Where a field ends, by its own numbers and its struct.
LEMMA ReachStays ==
  ASSUME NEW d, NEW r, NEW s, NEW fin, Given(d, r, s, fin),
         NEW r2, Agree(d, r, r2, fin),
         NEW f \in Fields, ByValue(f) => Settled(d, f.ref, fin)
  PROVE  ReachOf(r2, f) = ReachOf(r, f) /\ ReachOf(r, f) \in Int
<1>1. /\ f.kind \in {"flat", "struct", "structs"} /\ f.off \in Int /\ f.size \in Int
      /\ f.len \in Int /\ (ByValue(f) => f.ref \in Names)
  BY DEF Fields, Single, Expr
<1>2. CASE f.kind = "flat"
  BY <1>1, <1>2 DEF ReachOf
<1>3. CASE f.kind # "flat"
  <2>1. ByValue(f)
    BY <1>1, <1>3 DEF ByValue
  <2>2. f.ref \in Names /\ r2[f.ref] = r[f.ref] /\ r[f.ref].inline \in Int
    BY <1>1, <2>1, GivenTypes DEF Agree
  <2>3. (IF f.len = Single THEN 1 ELSE f.len) \in Int
    BY <1>1
  <2>4. (IF f.len = Single THEN 1 ELSE f.len) * r[f.ref].inline \in Int
    BY <2>2, <2>3
  <2>5. QED
    BY <1>1, <1>3, <2>2, <2>4 DEF ReachOf
<1>4. QED
  BY <1>2, <1>3

LEMMA ApartStays ==
  ASSUME NEW d, NEW r, NEW s, NEW fin, Given(d, r, s, fin),
         NEW r2, Agree(d, r, r2, fin),
         NEW ms \in Seq(Members), Captured(d, r, FieldsOf(ms), fin),
         NEW o, Apart(r, ms, o)
  PROVE  Apart(r2, ms, o)
<1>1. ASSUME NEW j \in 1 .. Len(ms), ms[j].is = "field"
      PROVE  ReachOf(r2, ms[j]) = ReachOf(r, ms[j])
  <2>1. ms[j] \in Fields /\ ms[j] \in ToSet(FieldsOf(ms))
    BY <1>1, PlacedField
  <2>2. ByValue(ms[j]) => Settled(d, ms[j].ref, fin)
    BY <2>1 DEF Captured
  <2>3. QED
    BY <2>1, <2>2, ReachStays
<1>2. QED
  BY <1>1 DEF Apart

LEMMA LongerByOne ==
  ASSUME NEW S, NEW s \in Seq(S), NEW m \in S
  PROVE  /\ Len(s) \in Nat /\ Len(s \o <<m>>) = Len(s) + 1
         /\ \A i \in 1 .. Len(s) : (s \o <<m>>)[i] = s[i]
         /\ (s \o <<m>>)[Len(s) + 1] = m
<1>1. \A t \in Seq(S) : Len(t) = 1 /\ t[1] = m =>
        /\ Len(s) \in Nat /\ Len(s \o t) = Len(s) + 1
        /\ \A i \in 1 .. Len(s) : (s \o t)[i] = s[i]
        /\ (s \o t)[Len(s) + 1] = m
  <2>1. SUFFICES ASSUME NEW t \in Seq(S), Len(t) = 1, t[1] = m
                 PROVE  /\ Len(s) \in Nat /\ Len(s \o t) = Len(s) + 1
                        /\ \A i \in 1 .. Len(s) : (s \o t)[i] = s[i]
                        /\ (s \o t)[Len(s) + 1] = m
    OBVIOUS
  <2>2. /\ Len(s) \in Nat /\ Len(s \o t) = Len(s) + Len(t)
        /\ \A i \in 1 .. Len(s) + Len(t) :
             (s \o t)[i] = IF i <= Len(s) THEN s[i] ELSE t[i - Len(s)]
    BY ConcatProperties
  <2>3. Len(s) + 1 \in 1 .. Len(s) + Len(t) /\ ~(Len(s) + 1 <= Len(s))
        /\ Len(s) + 1 - Len(s) = 1
    BY <2>1, <2>2
  <2>4. QED
    BY <2>1, <2>2, <2>3
<1>2. <<m>> \in Seq(S) /\ Len(<<m>>) = 1 /\ <<m>>[1] = m
  OBVIOUS
<1>3. QED
  BY <1>1, <1>2

\* A member is added at the offset that has been reached.
LEMMA ApartAppend ==
  ASSUME NEW d, NEW r, NEW s, NEW fin, Given(d, r, s, fin),
         NEW ms \in Seq(Members), Captured(d, r, FieldsOf(ms), fin),
         NEW o \in Nat, Apart(r, ms, o),
         NEW m \in Members, NEW p \in Nat, o <= p,
         m.is = "field" => m.off = o /\ ReachOf(r, m) <= p
  PROVE  Apart(r, ms \o <<m>>, p)
<1>1. Agree(d, r, r, fin)
  BY DEF Agree
<1>2. ASSUME NEW j \in 1 .. Len(ms), ms[j].is = "field"
      PROVE  ReachOf(r, ms[j]) \in Int /\ ReachOf(r, ms[j]) <= o /\ ReachOf(r, ms[j]) <= p
  <2>1. ms[j] \in Fields /\ ms[j] \in ToSet(FieldsOf(ms))
    BY <1>2, PlacedField
  <2>2. ByValue(ms[j]) => Settled(d, ms[j].ref, fin)
    BY <2>1 DEF Captured
  <2>3. ReachOf(r, ms[j]) \in Int
    BY <1>1, <2>1, <2>2, ReachStays
  <2>4. ReachOf(r, ms[j]) <= o
    BY <1>2 DEF Apart
  <2>5. QED
    BY <2>3, <2>4
<1> DEFINE ns == ms \o <<m>>
<1>3. /\ Len(ms) \in Nat /\ Len(ns) = Len(ms) + 1
      /\ \A i \in 1 .. Len(ms) : ns[i] = ms[i]
      /\ ns[Len(ms) + 1] = m
  BY LongerByOne
<1> HIDE DEF ns
<1>4. \A i \in 1 .. Len(ns) : i \in 1 .. Len(ms) \/ i = Len(ms) + 1
  BY <1>3
<1>5. ASSUME NEW j \in 1 .. Len(ns), ns[j].is = "field"
      PROVE  /\ ReachOf(r, ns[j]) <= p
             /\ \A k \in 1 .. Len(ns) :
                  ns[k].is = "field" /\ j < k => ReachOf(r, ns[j]) <= ns[k].off
  <2>1. CASE j = Len(ms) + 1
    <3>1. \A k \in 1 .. Len(ns) : ~(j < k)
      BY <1>3, <2>1
    <3>2. QED
      BY <1>3, <1>5, <2>1, <3>1
  <2>2. CASE j \in 1 .. Len(ms)
    <3>1. ns[j] = ms[j] /\ ms[j].is = "field"
      BY <1>3, <1>5, <2>2
    <3>2. ASSUME NEW k \in 1 .. Len(ns), ns[k].is = "field", j < k
          PROVE  ReachOf(r, ns[j]) <= ns[k].off
      <4>1. CASE k = Len(ms) + 1
        BY <1>2, <1>3, <2>2, <3>1, <3>2, <4>1
      <4>2. CASE k \in 1 .. Len(ms)
        BY <1>3, <2>2, <3>1, <3>2, <4>2 DEF Apart
      <4>3. QED
        BY <1>4, <4>1, <4>2
    <3>3. QED
      BY <1>2, <2>2, <3>1, <3>2
  <2>3. QED
    BY <1>4, <2>1, <2>2
<1>6. QED
  BY <1>5 DEF Apart, ns

\* Adding fields does not put the fields of a struct in line.
LEMMA InLineBack ==
  ASSUME NEW d, NEW r, NEW s, NEW fin, Given(d, r, s, fin),
         NEW r2, Agree(d, r, r2, fin), NEW n \in Names,
         Captured(d, r, FieldsOf(r[n].members), fin),
         \A x \in ToSet(FieldsOf(r[n].members)) : x \in ToSet(FieldsOf(r2[n].members)),
         InLine(d, r2, n)
  PROVE  InLine(d, r, n)
<1>1. ASSUME NEW f \in ToSet(FieldsOf(r[n].members))
      PROVE  f.len # Expr /\ ~(f.kind = "structs" /\ r[f.ref].size < 0)
  <2>1. f.len # Expr /\ ~(f.kind = "structs" /\ r2[f.ref].size < 0)
    BY <1>1 DEF InLine
  <2>2. f \in Fields
    <3>1. FieldsOf(r[n].members) \in Seq(Fields)
      BY GivenTypes, FieldsOfType
    <3>2. QED
      BY <3>1, HoldsToSet, ElementOfSeq DEF Holds
  <2>3. f.kind = "structs" => r2[f.ref] = r[f.ref]
    <3>1. SUFFICES ASSUME f.kind = "structs" PROVE r2[f.ref] = r[f.ref]
      OBVIOUS
    <3>2. ByValue(f) /\ f.ref \in Names
      BY <2>2, <3>1 DEF ByValue, Fields
    <3>3. Settled(d, f.ref, fin)
      BY <3>2 DEF Captured
    <3>4. QED
      BY <3>2, <3>3 DEF Agree
  <2>4. QED
    BY <2>1, <2>3
<1>2. QED
  BY <1>1 DEF InLine

\* What is complete, and what is in progress without a new member, is left alone.
LEMMA PlacesKeep ==
  ASSUME NEW d, NEW r, NEW s, NEW fin, Given(d, r, s, fin),
         Sizes(d, r, s, fin), Places(d, r, s, fin),
         NEW r2, Agree(d, r, r2, fin), NEW fin2, NEW s2,
         \A n \in fin2 : \/ n \in fin
                         \/ InLine(d, r2, n) => Apart(r2, r2[n].members, r2[n].inline),
         \A k \in 1 .. Len(s2) :
           \/ s2[k].at = 0
           \/ /\ k \in 1 .. Len(s) /\ s2[k].name = s[k].name /\ s[k].at # 0
              /\ s2[k].offset = s[k].offset
              /\ r2[s[k].name].members = r[s[k].name].members
           \/ InLine(d, r2, s2[k].name) => Apart(r2, r2[s2[k].name].members, s2[k].offset)
  PROVE  Places(d, r2, s2, fin2)
<1>1. ASSUME NEW n \in Names, r2[n].members = r[n].members, InLine(d, r2, n),
             NEW o, InLine(d, r, n) => Apart(r, r[n].members, o)
      PROVE  Apart(r2, r2[n].members, o)
  <2>1. Captured(d, r, FieldsOf(r[n].members), fin) /\ r[n].members \in Seq(Members)
    BY GivenTypes DEF Sizes
  <2>2. InLine(d, r, n)
    BY <1>1, <2>1, InLineBack
  <2>3. QED
    BY <1>1, <2>1, <2>2, ApartStays
<1>2. ASSUME NEW n \in fin2, InLine(d, r2, n)
      PROVE  Apart(r2, r2[n].members, r2[n].inline)
  <2>1. CASE n \in fin
    <3>1. n \in Names /\ r2[n] = r[n]
      BY <2>1 DEF Given, Agree, Settled
    <3>2. InLine(d, r, n) => Apart(r, r[n].members, r2[n].inline)
      BY <2>1, <3>1 DEF Places
    <3>3. QED
      BY <1>1, <1>2, <3>1, <3>2
  <2>2. QED
    BY <1>2, <2>1
<1>3. ASSUME NEW k \in 1 .. Len(s2), s2[k].at # 0, InLine(d, r2, s2[k].name)
      PROVE  Apart(r2, r2[s2[k].name].members, s2[k].offset)
  <2>1. CASE /\ k \in 1 .. Len(s) /\ s2[k].name = s[k].name /\ s[k].at # 0
             /\ s2[k].offset = s[k].offset
             /\ r2[s[k].name].members = r[s[k].name].members
    <3>1. s[k].name \in Names
      BY <2>1, GivenTypes
    <3>2. InLine(d, r, s[k].name) => Apart(r, r[s[k].name].members, s2[k].offset)
      BY <2>1 DEF Places
    <3>3. QED
      BY <1>1, <1>3, <2>1, <3>1, <3>2
  <2>2. QED
    BY <1>3, <2>1
<1>4. QED
  BY <1>2, <1>3 DEF Places

\* A finished struct is dynamic or has the size it takes in line.
LEMMA SettledSize ==
  ASSUME NEW d, NEW r, NEW s, NEW fin, Given(d, r, s, fin), Core(d, r, s, fin),
         NEW n \in Names, Settled(d, n, fin)
  PROVE  r[n].size \in {-1, r[n].inline}
<1>1. CASE n \in fin
  BY <1>1 DEF Core, CompleteOK
<1>2. CASE Bare(d[n])
  BY <1>2 DEF Core, Untouched, Blank
<1>3. QED
  BY <1>1, <1>2 DEF Settled

LEMMA KindCases ==
  ASSUME NEW x \in Decls
  PROVE  /\ Kind(x) = "struct" => x.len = Single /\ x.ptr = 0 /\ x.ref # None
         /\ Kind(x) = "structs" => x.len # Single /\ x.ptr = 0 /\ x.ref # None
<1>1. x.ptr \in Nat
  BY DEF Decls
<1>2. CASE x.ref = None \/ x.ptr > 0
  BY <1>2 DEF Kind
<1>3. CASE ~(x.ref = None \/ x.ptr > 0)
  <2>1. Kind(x) = IF x.len = Single THEN "struct" ELSE "structs"
    BY <1>3 DEF Kind
  <2>2. QED
    BY <1>1, <1>3, <2>1
<1>4. QED
  BY <1>2, <1>3

\* A declaration's field ends within the bytes by which the offset moves on.
LEMMA ReachBound ==
  ASSUME NEW fin, Setting(fin), NEW rank \in [Names -> Nat],
         Ordered(rank), Descending(stack, rank), AtDecl, Ready,
         NEW m \in Fields, Takes(m, decl), m.off = frame.offset, m.len # Expr,
         ~(m.kind = "structs" /\ resolved[m.ref].size < 0)
  PROVE  ReachOf(resolved, m) <= frame.offset + Extent(decl)
<1>1. decl \in Decls /\ stack # << >> /\ Given(prog.def, resolved, stack, fin)
      /\ Core(prog.def, resolved, stack, fin)
  BY DeclType, SettingGiven DEF Setting
<1>2. /\ decl.ptr \in Nat /\ decl.len \in Nat \cup {Single, Expr} /\ decl.size \in Nat
      /\ decl.ref \in Names \cup {None}
      /\ m.ref = decl.ref /\ m.kind = Kind(decl) /\ m.len = decl.len
      /\ m.size = TypeSize(decl) /\ decl.len \in Nat \cup {Single}
      /\ frame.offset \in Nat
  BY <1>1, FrameFacts DEF Takes, Decls
<1>3. CASE m.kind = "flat"
  <2>1. TypeSize(decl) \in Int /\ Extent(decl) \in Nat /\ TypeSize(decl) <= Extent(decl)
    <3>1. TypeSize(decl) \in Int /\ Extent(decl) \in Nat
      BY <1>1, SizeType DEF Setting
    <3>2. TypeSize(decl) > 0 => Extent(decl) = TypeSize(decl)
      BY DEF Extent
    <3>3. QED
      BY <3>1, <3>2
  <2>2. ReachOf(resolved, m) = frame.offset + TypeSize(decl)
    BY <1>2, <1>3 DEF ReachOf
  <2>3. QED
    BY <1>2, <2>1, <2>2
<1>4. CASE m.kind # "flat"
  <2>1. ByValue(m) /\ m.ref \in Names /\ decl.ptr = 0
    BY <1>2, <1>4 DEF ByValue, Kind, Fields
  <2>2. resolved[m.ref].size \in {-1, resolved[m.ref].inline} /\ resolved[m.ref].inline \in Nat
    <3>1. Settled(prog.def, m.ref, fin)
      BY <2>1, TakesFinal
    <3>2. QED
      BY <1>1, <2>1, <3>1, SettledSize, GivenTypes
  <2>3. CASE m.kind = "struct"
    <3>1. decl.len = Single
      <4>1. Kind(decl) = "struct"
        BY <1>2, <2>3
      <4>2. QED
        BY <1>1, <4>1, KindCases
    <3>2. TypeSize(decl) = resolved[m.ref].size
      <4>1. TypeSize(decl) = UnitSize(decl)
        BY <3>1 DEF TypeSize, Single, Expr
      <4>2. QED
        BY <1>2, <2>1, <4>1 DEF UnitSize
    <3>3. Extent(decl) >= resolved[m.ref].inline /\ Extent(decl) \in Nat
      BY <1>2, <2>2, <2>3, <3>2 DEF Extent
    <3>4. ReachOf(resolved, m) = frame.offset + resolved[m.ref].inline
      BY <1>2, <1>4, <2>2, <3>1 DEF ReachOf
    <3>5. QED
      BY <1>2, <2>2, <3>3, <3>4
  <2>4. CASE m.kind = "structs"
    <3>1. decl.len \in Nat /\ decl.len # Single
      BY <1>2, <1>4, <2>1, <2>4 DEF Kind, Single
    <3>2. resolved[m.ref].size = resolved[m.ref].inline
      BY <2>2, <2>4
    <3>3. TypeSize(decl) = decl.len * resolved[m.ref].inline
      BY <1>2, <2>1, <3>1, <3>2 DEF TypeSize, UnitSize, Single, Expr
    <3>4. ReachOf(resolved, m) = frame.offset + TypeSize(decl)
      BY <1>2, <1>4, <3>1, <3>3 DEF ReachOf
    <3>5. TypeSize(decl) \in Int /\ Extent(decl) \in Nat
      BY <1>1, SizeType DEF Setting
    <3>6. TypeSize(decl) > 0 => Extent(decl) = TypeSize(decl)
      BY DEF Extent
    <3>7. QED
      BY <1>2, <3>4, <3>5, <3>6
  <2>5. QED
    BY <1>2, <1>4, <2>3, <2>4 DEF Kind
<1>5. QED
  BY <1>3, <1>4

\* A statement puts its member behind the others.
LEMMA MadeApart ==
  ASSUME NEW fin, Setting(fin), NEW rank \in [Names -> Nat],
         Ordered(rank), Descending(stack, rank),
         Sizes(prog.def, resolved, stack, fin), Places(prog.def, resolved, stack, fin),
         NEW ms \in Seq(Members), NEW o \in Nat, Emits(ms, o), Made(ms, o),
         Agree(prog.def, resolved, resolved', fin),
         InLine(prog.def, resolved', frame.name)
  PROVE  Apart(resolved', resolved'[frame.name].members, o)
<1> DEFINE n == frame.name
           old == resolved[n].members
<1>1. /\ InBody /\ stack # << >> /\ Given(prog.def, resolved, stack, fin)
      /\ n \in Names /\ frame = stack[Len(stack)] /\ Len(stack) \in 1 .. Len(stack)
      /\ frame.at # 0 /\ frame.at \in 1 .. Len(prog.def[n].body) /\ def = prog.def[n]
      /\ resolved \in [Names -> Structs] /\ frame.offset \in Nat
  <2>1. InBody /\ stack # << >> /\ frame.at \in 1 .. Len(def.body)
    BY DEF Emits, InBody, Running
  <2>2. QED
    BY <2>1, FrameFacts, SettingGiven DEF frame, Given
<1>2. resolved'[n].members = old \o ms /\ old \in Seq(Members)
  <2>1. resolved' = [resolved EXCEPT ![n].members = @ \o ms]
    BY StatementFrame
  <2>2. QED
    BY <1>1, <2>1 DEF Structs
<1>3. Captured(prog.def, resolved, FieldsOf(old), fin)
  BY <1>1 DEF Sizes
<1> HIDE DEF old
<1>4. /\ \A x \in ToSet(FieldsOf(old)) : x \in ToSet(FieldsOf(old \o ms))
      /\ \A x \in ToSet(FieldsOf(ms)) : x \in ToSet(FieldsOf(old \o ms))
      /\ \A x \in ToSet(FieldsOf(old \o ms)) :
           x \in ToSet(FieldsOf(old)) \/ x \in ToSet(FieldsOf(ms))
  BY <1>2, FieldsOfConcat
<1>5. Captured(prog.def, resolved, FieldsOf(ms), fin)
  BY MadeCaptured
<1>6. Captured(prog.def, resolved, FieldsOf(old \o ms), fin)
  BY <1>3, <1>4, <1>5 DEF Captured
<1>7. InLine(prog.def, resolved, n)
  BY <1>1, <1>2, <1>3, <1>4, InLineBack DEF old
<1>8. Apart(resolved, old, frame.offset)
  BY <1>1, <1>7 DEF Places, old
<1>9. ~def.union /\ (stmt.is = "var" => stmt.at = Here)
  BY <1>1, <1>7 DEF InLine, stmt
<1>10. ASSUME NEW m \in Members, ms = <<m>>, frame.offset <= o,
              m.is = "field" => m.off = frame.offset /\ ReachOf(resolved, m) <= o
       PROVE  Apart(resolved, old \o ms, o)
  BY <1>1, <1>2, <1>3, <1>8, <1>10, ApartAppend
<1>11. ASSUME NEW m \in Fields, ms = <<m>>, stmt.is = "var", Ready, Takes(m, stmt),
              m.off = frame.offset, o = frame.offset + Extent(stmt)
       PROVE  Apart(resolved, old \o ms, o)
  <2>1. m \in Members /\ m.is = "field"
    BY DEF Members, Fields
  <2>2. AtDecl /\ decl = stmt
    BY <1>1, <1>11 DEF AtDecl, decl
  <2>3. Extent(stmt) \in Nat
    BY <1>1, <1>11, StatementType
  <2>4. m \in ToSet(FieldsOf(ms)) /\ m \in ToSet(FieldsOf(old \o ms))
    <3>1. 1 \in 1 .. Len(ms) /\ ms[1] = m
      BY <1>11
    <3>2. QED
      BY <1>4, <2>1, <3>1, PlacedField
  <2>5. m.len # Expr /\ ~(m.kind = "structs" /\ resolved'[m.ref].size < 0)
    BY <1>2, <2>4 DEF InLine
  <2>6. ~(m.kind = "structs" /\ resolved[m.ref].size < 0)
    <3>1. ByValue(m) => resolved'[m.ref] = resolved[m.ref]
      <4>1. ByValue(m) => Settled(prog.def, m.ref, fin) /\ m.ref \in Names
        BY <1>5, <2>4 DEF Captured, Fields
      <4>2. QED
        BY <4>1 DEF Agree
    <3>2. QED
      BY <2>5, <3>1 DEF ByValue
  <2>7. ReachOf(resolved, m) <= o
    BY <1>11, <2>2, <2>5, <2>6, ReachBound
  <2>8. frame.offset <= o
    BY <1>1, <1>11, <2>3
  <2>9. QED
    BY <1>10, <1>11, <2>1, <2>7, <2>8
<1>12. ASSUME NEW m \in Conditionals, ms = <<m>>, o = frame.offset
       PROVE  Apart(resolved, old \o ms, o)
  <2>1. m \in Members /\ m.is # "field" /\ frame.offset <= o
    BY <1>1, <1>12 DEF Members, Conditionals
  <2>2. QED
    BY <1>10, <1>12, <2>1
<1>13. ASSUME NEW m \in Pads, ms = <<m>>, o >= frame.offset
       PROVE  Apart(resolved, old \o ms, o)
  <2>1. m \in Members /\ m.is # "field" /\ frame.offset <= o
    BY <1>1, <1>13 DEF Members, Pads
  <2>2. QED
    BY <1>10, <1>13, <2>1
<1>14. ASSUME ms = << >>
       PROVE  Apart(resolved, old \o ms, o)
  <2>1. o = frame.offset
    BY <1>9, <1>14 DEF Emits, Here
  <2>2. old \o ms = old
    BY <1>2, <1>14, ConcatEmptySeq
  <2>3. QED
    BY <1>8, <2>1, <2>2
<1>15. Apart(resolved, old \o ms, o)
  BY <1>9, <1>11, <1>12, <1>13, <1>14 DEF Made
<1>16. old \o ms \in Seq(Members)
  BY <1>2, ConcatProperties
<1>17. Given(prog.def, resolved, stack, fin)
  BY <1>1
<1>18. Apart(resolved', old \o ms, o)
  BY <1>6, <1>15, <1>16, <1>17, ApartStays
<1>19. QED
  BY <1>2, <1>18

LEMMA PlacesStep ==
  ASSUME NEW fin, Setting(fin), NEW rank \in [Names -> Nat],
         Ordered(rank), Descending(stack, rank),
         Sizes(prog.def, resolved, stack, fin), Places(prog.def, resolved, stack, fin),
         Work, phase' = "fields"
  PROVE  Places(prog.def, resolved', stack', Fin(fin))
<1> DEFINE n == frame.name
           fin2 == Fin(fin)
           Kept(k) == /\ k \in 1 .. Len(stack) /\ stack'[k].name = stack[k].name
                      /\ stack[k].at # 0 /\ stack'[k].offset = stack[k].offset
                      /\ resolved'[stack[k].name].members = resolved[stack[k].name].members
           Clear(k) == InLine(prog.def, resolved', stack'[k].name) =>
                         Apart(resolved', resolved'[stack'[k].name].members, stack'[k].offset)
           Whole(m) == InLine(prog.def, resolved', m) =>
                         Apart(resolved', resolved'[m].members, resolved'[m].inline)
<1>1. Lazy(rank)
  BY DEF Lazy
<1>2. /\ stack # << >> /\ (Stays \/ Pops \/ Pushes)
      /\ Given(prog.def, resolved, stack, fin)
      /\ Agree(prog.def, resolved, resolved', fin)
      /\ \A m \in Names : m # n => resolved'[m] = resolved[m]
      /\ \A k \in 1 .. Len(stack) : stack[k].name \in Names
  BY <1>1, WorkMoves, SettingGiven, GivenTypes, CoreStep, OnlyTopGrows
<1>3. /\ frame = stack[Len(stack)] /\ Len(stack) \in 1 .. Len(stack) /\ Len(stack) \in Nat
      /\ frame \in Frames /\ n \in Names /\ def = prog.def[n]
      /\ resolved \in [Names -> Structs]
  BY <1>2, FrameFacts DEF frame, Given
<1>4. ASSUME \A m \in fin2 : m \in fin \/ Whole(m),
             \A k \in 1 .. Len(stack') : stack'[k].at = 0 \/ Kept(k) \/ Clear(k)
      PROVE  Places(prog.def, resolved', stack', fin2)
  <2> HIDE DEF fin2, n
  <2>1. QED
    BY <1>2, <1>4, PlacesKeep
<1>5. ASSUME NEW g \in Frames, g.name = n, stack' = [stack EXCEPT ![Len(stack)] = g],
             \/ g.at = frame.at /\ g.offset = frame.offset /\ resolved' = resolved
             \/ InLine(prog.def, resolved', n) =>
                  Apart(resolved', resolved'[n].members, g.offset)
      PROVE  Places(prog.def, resolved', stack', fin2)
  <2>1. /\ Len(stack') = Len(stack) /\ stack'[Len(stack)] = g
        /\ \A k \in 1 .. Len(stack) : k # Len(stack) => /\ stack'[k] = stack[k]
                                                        /\ stack[k].name # n
    BY <1>2, <1>5, StaysStack
  <2>2. fin2 = fin
    <3>1. Len(Front(stack)) = Len(stack) - 1
      BY <1>2, TopType
    <3>2. stack' # Front(stack)
      BY <1>3, <2>1, <3>1
    <3>3. QED
      BY <3>2 DEF Fin
  <2>3. ASSUME NEW k \in 1 .. Len(stack')
        PROVE  stack'[k].at = 0 \/ Kept(k) \/ Clear(k)
    <3>1. CASE k = Len(stack)
      <4>1. stack'[k] = g /\ stack[k] = frame /\ k \in 1 .. Len(stack)
        BY <1>3, <2>1, <3>1
      <4>2. QED
        BY <1>5, <4>1
    <3>2. CASE k # Len(stack)
      <4>1. /\ k \in 1 .. Len(stack) /\ stack'[k] = stack[k]
            /\ resolved'[stack[k].name] = resolved[stack[k].name]
        BY <1>2, <2>1, <3>2
      <4>2. QED
        BY <4>1
    <3>3. QED
      BY <3>1, <3>2
  <2>4. QED
    BY <1>4, <2>2, <2>3
<1>6. ASSUME stack' = Front(stack), n \in fin \/ Whole(n)
      PROVE  Places(prog.def, resolved', stack', fin2)
  <2>1. \A k \in 1 .. Len(stack') : /\ k \in 1 .. Len(stack) /\ stack'[k] = stack[k]
                                    /\ stack[k].name # n
    BY <1>2, <1>6, PopsStack
  <2>2. fin2 = fin \cup {n}
    BY <1>6 DEF Fin
  <2>3. ASSUME NEW k \in 1 .. Len(stack')
        PROVE  stack'[k].at = 0 \/ Kept(k) \/ Clear(k)
    <3>1. /\ k \in 1 .. Len(stack) /\ stack'[k] = stack[k]
          /\ resolved'[stack[k].name] = resolved[stack[k].name]
      BY <1>2, <2>1
    <3>2. QED
      BY <3>1
  <2>4. \A m \in fin2 : m \in fin \/ Whole(m)
    BY <1>6, <2>2
  <2>5. QED
    BY <1>4, <2>3, <2>4
<1>7. CASE AlreadyResolved
  BY <1>6, <1>7, CoreAlreadyResolved DEF AlreadyResolved
<1>8. CASE CallParent \/ CallType
  <2>1. resolved' = resolved
    BY <1>8 DEF CallParent, CallType
  <2>2. PICK g \in Frames, m \in Names :
          /\ g.name = n /\ g.at = frame.at /\ g.offset = frame.offset
          /\ stack' = Append([stack EXCEPT ![Len(stack)] = g], NewFrame(m))
    BY <1>8, CallPushes DEF Pushes
  <2>3. /\ stack'[Len(stack) + 1] = NewFrame(m) /\ stack'[Len(stack)] = g
        /\ \A k \in 1 .. Len(stack') : k \in 1 .. Len(stack) \/ k = Len(stack) + 1
        /\ \A k \in 1 .. Len(stack) : k # Len(stack) => stack'[k] = stack[k]
    BY <1>2, <2>2, PushesStack
  <2>4. fin2 = fin
    BY <1>2, <1>8, CallPushes, FinCases
  <2>5. ASSUME NEW k \in 1 .. Len(stack')
        PROVE  stack'[k].at = 0 \/ Kept(k) \/ Clear(k)
    <3>1. CASE k = Len(stack) + 1
      BY <2>3, <3>1, NewFrameType
    <3>2. CASE k = Len(stack)
      BY <1>3, <2>1, <2>2, <2>3, <3>2
    <3>3. CASE k \in 1 .. Len(stack) /\ k # Len(stack)
      BY <2>1, <2>3, <3>3
    <3>4. QED
      BY <2>3, <3>1, <3>2, <3>3
  <2>6. QED
    BY <1>4, <2>4, <2>5
<1>9. CASE Inherit
  <2>1. CASE def.template
    <3>1. stack' = Front(stack)
      BY <1>1, <1>9, <2>1, InheritFacts
    <3>2. ~InLine(prog.def, resolved', n)
      BY <1>3, <2>1 DEF InLine
    <3>3. QED
      BY <1>6, <3>1, <3>2
  <2>2. CASE ~def.template
    <3>1. PICK g \in Frames : g.name = n /\ stack' = [stack EXCEPT ![Len(stack)] = g]
      BY <1>1, <1>9, <2>2, InheritFrame
    <3>2. ASSUME InLine(prog.def, resolved', n)
          PROVE  Apart(resolved', resolved'[n].members, g.offset)
      <4>1. def.parent = None
        BY <1>3, <3>2 DEF InLine
      <4>2. resolved' = [resolved EXCEPT ![n].members = << >>]
        BY <1>1, <1>9, <2>2, <4>1, InheritFacts
      <4>3. resolved'[n].members = << >>
        BY <1>3, <4>2 DEF Structs
      <4>4. \A j \in 1 .. Len(resolved'[n].members) : FALSE
        BY <4>3
      <4>5. QED
        BY <4>4 DEF Apart
    <3>3. QED
      BY <1>5, <3>1, <3>2
  <2>3. QED
    BY <2>1, <2>2
<1>10. CASE ConditionalDecl
  <2>1. resolved' = resolved
    BY <1>10 DEF ConditionalDecl
  <2>2. QED
    BY <1>5, <1>10, <2>1, ConditionalFrame
<1>11. CASE Statement
  <2>1. PICK ms \in Seq(Members), o \in Nat : Emits(ms, o) /\ Made(ms, o)
    BY <1>11, StatementEmits
  <2> DEFINE g == NextStatement([frame EXCEPT !.offset = o])
  <2>2. /\ g \in Frames /\ g.name = n /\ g.offset = o
        /\ stack' = [stack EXCEPT ![Len(stack)] = g]
    BY <2>1, StatementFrame
  <2> HIDE DEF g
  <2>3. InLine(prog.def, resolved', n) => Apart(resolved', resolved'[n].members, o)
    BY <1>2, <2>1, MadeApart
  <2>4. QED
    BY <1>5, <2>2, <2>3
<1>12. CASE Return
  <2>1. /\ stack' = Front(stack) /\ frame.at = Len(def.body) + 1
        /\ resolved'[n].members = resolved[n].members
        /\ resolved'[n].inline = frame.offset
    BY <1>3, <1>12, CoreReturn DEF Return
  <2>2. frame.at # 0
    BY <1>2, <2>1, FrameFacts
  <2>3. ASSUME InLine(prog.def, resolved', n)
        PROVE  Apart(resolved', resolved'[n].members, resolved'[n].inline)
    <3>1. /\ Captured(prog.def, resolved, FieldsOf(resolved[n].members), fin)
          /\ resolved[n].members \in Seq(Members)
      BY <1>2, <1>3, GivenTypes DEF Sizes
    <3>2. InLine(prog.def, resolved, n)
      BY <1>2, <1>3, <2>1, <2>3, <3>1, InLineBack
    <3>3. Apart(resolved, resolved[n].members, frame.offset)
      BY <1>3, <2>2, <3>2 DEF Places
    <3>4. QED
      BY <1>2, <2>1, <3>1, <3>3, ApartStays
  <2>4. QED
    BY <1>6, <2>1, <2>3
<1>13. QED
  BY <1>7, <1>8, <1>9, <1>10, <1>11, <1>12 DEF Work

-----------------------------------------------------------------------------
(***************************************************************************)
(* The members stay in line.                                               *)
(***************************************************************************)
LEMMA DynamicConcat ==
  ASSUME NEW ms \in Seq(Members), NEW ns \in Seq(Members), HasDynamicFields(ms)
  PROVE  HasDynamicFields(ms \o ns)
<1>1. /\ ms \o ns \in Seq(Members) /\ Len(ms) \in Nat /\ Len(ns) \in Nat
      /\ Len(ms \o ns) = Len(ms) + Len(ns)
      /\ \A i \in 1 .. Len(ms) + Len(ns) :
           (ms \o ns)[i] = IF i <= Len(ms) THEN ms[i] ELSE ns[i - Len(ms)]
  BY ConcatProperties
<1>2. DOMAIN ms = 1 .. Len(ms) /\ DOMAIN (ms \o ns) = 1 .. Len(ms) + Len(ns)
  BY <1>1, LenProperties
<1>3. ASSUME NEW k \in DOMAIN ms, ms[k].is = "cond"
      PROVE  \E i \in DOMAIN (ms \o ns) : (ms \o ns)[i].is = "cond"
  <2>1. k \in DOMAIN (ms \o ns) /\ (ms \o ns)[k] = ms[k]
    BY <1>1, <1>2
  <2>2. QED
    BY <1>3, <2>1
<1>4. \A f \in ToSet(FieldsOf(ms)) : f \in ToSet(FieldsOf(ms \o ns))
  BY FieldsOfConcat
<1>5. QED
  BY <1>3, <1>4 DEF HasDynamicFields

LEMMA BytesType ==
  ASSUME NEW r \in [Names -> Structs], NEW m \in Members
  PROVE  BytesOf(r, m) \in Nat
<1>1. CASE m.is = "pad"
  BY <1>1 DEF BytesOf, Members, Pads, Fields
<1>2. CASE m.is = "cond"
  BY <1>2 DEF BytesOf
<1>3. CASE m.is = "field"
  <2>1. m \in Fields
    BY <1>3, PartType
  <2>2. m.size \in Int /\ (m.kind = "struct" => m.ref \in Names)
    BY <2>1 DEF Fields, ByValue
  <2>3. m.kind = "struct" => r[m.ref].inline \in Nat
    BY <2>2 DEF Structs
  <2>4. QED
    BY <1>3, <2>2, <2>3 DEF BytesOf
<1>4. QED
  BY <1>1, <1>2, <1>3, PartType

LEMMA LinedStays ==
  ASSUME NEW d, NEW r, NEW fin, NEW r2, Agree(d, r, r2, fin),
         NEW ms \in Seq(Members), Captured(d, r, FieldsOf(ms), fin),
         NEW o, Lined(r, ms, o)
  PROVE  Lined(r2, ms, o)
<1>1. ASSUME NEW k \in 1 .. Len(ms)
      PROVE  BytesOf(r2, ms[k]) = BytesOf(r, ms[k])
  <2>1. CASE ms[k].is = "field" /\ ms[k].kind = "struct"
    <3>1. ms[k] \in Fields /\ ms[k] \in ToSet(FieldsOf(ms))
      BY <2>1, PlacedField
    <3>2. ByValue(ms[k]) /\ ms[k].ref \in Names
      BY <2>1, <3>1 DEF ByValue, Fields
    <3>3. Settled(d, ms[k].ref, fin)
      BY <3>1, <3>2 DEF Captured
    <3>4. r2[ms[k].ref] = r[ms[k].ref]
      BY <3>2, <3>3 DEF Agree
    <3>5. QED
      BY <2>1, <3>4 DEF BytesOf
  <2>2. CASE ms[k].is = "field" /\ ms[k].kind # "struct"
    BY <2>2 DEF BytesOf
  <2>3. CASE ms[k].is # "field"
    <3>1. ms[k] \in Members
      BY ElementOfSeq
    <3>2. ms[k].is = "pad" \/ ms[k].is = "cond"
      BY <2>3, <3>1, PartType
    <3>3. QED
      BY <3>2 DEF BytesOf
  <2>4. QED
    BY <2>1, <2>2, <2>3
<1>2. PICK p \in [1 .. Len(ms) + 1 -> Nat] : Along(r, ms, o, p)
  BY DEF Lined
<1>3. Along(r2, ms, o, p)
  BY <1>1, <1>2 DEF Along
<1>4. QED
  BY <1>2, <1>3 DEF Lined

LEMMA LinedEmpty ==
  ASSUME NEW r, NEW ms \in Seq(Members), ms = << >>
  PROVE  Lined(r, ms, 0)
<1>1. Len(ms) = 0
  OBVIOUS
<1> DEFINE p == [i \in 1 .. Len(ms) + 1 |-> 0]
<1>2. p \in [1 .. Len(ms) + 1 -> Nat]
  OBVIOUS
<1>3. p[1] = 0 /\ p[Len(ms) + 1] = 0
  BY <1>1
<1>4. \A k \in 1 .. Len(ms) : FALSE
  BY <1>1
<1> HIDE DEF p
<1>5. Along(r, ms, 0, p)
  BY <1>3, <1>4 DEF Along
<1>6. QED
  BY <1>2, <1>5 DEF Lined

\* A member is added at the offset that has been reached.
LEMMA LinedAppend ==
  ASSUME NEW r \in [Names -> Structs], NEW ms \in Seq(Members), NEW o \in Nat, Lined(r, ms, o),
         NEW m \in Members, m.is = "field" /\ ~m.remote => m.off = o
  PROVE  Lined(r, ms \o <<m>>, o + BytesOf(r, m))
<1> DEFINE ns == ms \o <<m>>
           q == o + BytesOf(r, m)
<1>1. /\ Len(ms) \in Nat /\ Len(ns) = Len(ms) + 1
      /\ \A i \in 1 .. Len(ms) : ns[i] = ms[i]
      /\ ns[Len(ms) + 1] = m
  BY LongerByOne
<1>2. q \in Nat
  BY BytesType
<1>3. PICK p \in [1 .. Len(ms) + 1 -> Nat] : Along(r, ms, o, p)
  BY DEF Lined
<1> DEFINE p2 == [i \in 1 .. Len(ns) + 1 |-> IF i <= Len(ms) + 1 THEN p[i] ELSE q]
<1> HIDE DEF ns, q
<1>4. p2 \in [1 .. Len(ns) + 1 -> Nat]
  <2>1. \A i \in 1 .. Len(ns) + 1 : i <= Len(ms) + 1 => i \in 1 .. Len(ms) + 1
    BY <1>1
  <2>2. QED
    BY <1>2, <1>3, <2>1
<1>5. /\ p2[1] = 0 /\ p2[Len(ns) + 1] = q /\ p2[Len(ms) + 1] = o
      /\ \A i \in 1 .. Len(ms) : p2[i] = p[i] /\ p2[i + 1] = p[i + 1]
  <2>1. p[1] = 0 /\ p[Len(ms) + 1] = o
    BY <1>3 DEF Along
  <2>2. /\ 1 \in 1 .. Len(ns) + 1 /\ 1 <= Len(ms) + 1
        /\ Len(ns) + 1 \in 1 .. Len(ns) + 1 /\ ~(Len(ns) + 1 <= Len(ms) + 1)
        /\ Len(ms) + 1 \in 1 .. Len(ns) + 1
        /\ \A i \in 1 .. Len(ms) : /\ i \in 1 .. Len(ns) + 1 /\ i <= Len(ms) + 1
                                   /\ i + 1 \in 1 .. Len(ns) + 1 /\ i + 1 <= Len(ms) + 1
    BY <1>1
  <2>3. QED
    BY <2>1, <2>2
<1> HIDE DEF p2
<1>6. ASSUME NEW k \in 1 .. Len(ns)
      PROVE  /\ p2[k + 1] = p2[k] + BytesOf(r, ns[k])
             /\ ns[k].is = "field" /\ ~ns[k].remote => ns[k].off = p2[k]
  <2>1. CASE k \in 1 .. Len(ms)
    <3>1. /\ p[k + 1] = p[k] + BytesOf(r, ms[k])
          /\ ms[k].is = "field" /\ ~ms[k].remote => ms[k].off = p[k]
      BY <1>3, <2>1 DEF Along
    <3>2. QED
      BY <1>1, <1>5, <2>1, <3>1
  <2>2. CASE k = Len(ms) + 1
    <3>1. k + 1 = Len(ns) + 1 /\ ns[k] = m
      BY <1>1, <2>2
    <3>2. p2[k] = o /\ p2[k + 1] = q
      BY <1>5, <2>2, <3>1
    <3>3. QED
      BY <3>1, <3>2 DEF q
  <2>3. QED
    BY <1>1, <2>1, <2>2
<1>7. Along(r, ns, q, p2)
  BY <1>5, <1>6 DEF Along
<1>8. Lined(r, ns, q)
  BY <1>4, <1>7 DEF Lined
<1>9. QED
  BY <1>8 DEF ns, q

\* The parent of a struct that has begun is settled.
LEMMA StraightStays ==
  ASSUME NEW d, NEW r, NEW s, NEW fin, Given(d, r, s, fin), NEW r2, Agree(d, r, r2, fin),
         NEW n \in Names, ParentSettled(d, n, fin)
  PROVE  Straight(d, r2, n) <=> Straight(d, r, n)
<1>1. d[n].parent # None => d[n].parent \in Names /\ Settled(d, d[n].parent, fin)
  BY GivenTypes DEF ParentSettled
<1>2. d[n].parent # None => r2[d[n].parent] = r[d[n].parent]
  BY <1>1 DEF Agree
<1>3. QED
  BY <1>2 DEF Straight

LEMMA EvenStays ==
  ASSUME NEW d, NEW r, NEW s, NEW fin, Given(d, r, s, fin), Sizes(d, r, s, fin),
         NEW r2, Agree(d, r, r2, fin), NEW n \in Names, ParentSettled(d, n, fin),
         r2[n].members = r[n].members, NEW o, Even(d, r, n, o)
  PROVE  Even(d, r2, n, o)
<1>1. Straight(d, r2, n) <=> Straight(d, r, n)
  BY StraightStays
<1>2. CASE Straight(d, r, n)
  <2>1. Lined(r, r[n].members, o)
    BY <1>2 DEF Even
  <2>2. Captured(d, r, FieldsOf(r[n].members), fin) /\ r[n].members \in Seq(Members)
    BY GivenTypes DEF Sizes
  <2>3. Lined(r2, r[n].members, o)
    BY <2>1, <2>2, LinedStays
  <2>4. QED
    BY <1>1, <1>2, <2>3 DEF Even
<1>3. CASE ~Straight(d, r, n)
  BY <1>1, <1>3 DEF Even
<1>4. QED
  BY <1>2, <1>3

\* What is complete, and what is in progress without a new member, is left alone.
LEMMA LinesKeep ==
  ASSUME NEW d, NEW r, NEW s, NEW fin, Given(d, r, s, fin), Core(d, r, s, fin),
         Sizes(d, r, s, fin), Lines(d, r, s, fin), ByPosition(d),
         NEW r2, Agree(d, r, r2, fin), NEW fin2, NEW s2,
         \A n \in fin2 :
           \/ n \in fin
           \/ /\ r2[n].size = -1 => HasDynamicFields(r2[n].members)
              /\ Even(d, r2, n, r2[n].inline),
         \A k \in 1 .. Len(s2) :
           \/ s2[k].at = 0
           \/ /\ k \in 1 .. Len(s) /\ s2[k].name = s[k].name /\ s[k].at # 0
              /\ s2[k].offset = s[k].offset
              /\ r2[s[k].name].members = r[s[k].name].members
           \/ Even(d, r2, s2[k].name, s2[k].offset)
  PROVE  Lines(d, r2, s2, fin2)
<1>1. ASSUME NEW n \in fin2
      PROVE  /\ r2[n].size = -1 => HasDynamicFields(r2[n].members)
             /\ Even(d, r2, n, r2[n].inline)
  <2>1. CASE n \in fin
    <3>1. n \in Names /\ r2[n] = r[n]
      BY <2>1 DEF Given, Agree, Settled
    <3>2. ParentSettled(d, n, fin)
      BY <2>1 DEF Core, CompleteOK
    <3>3. /\ r[n].size = -1 => HasDynamicFields(r[n].members)
          /\ Even(d, r, n, r[n].inline)
      BY <2>1 DEF Lines
    <3>4. Even(d, r2, n, r[n].inline)
      BY <3>1, <3>2, <3>3, EvenStays
    <3>5. QED
      BY <3>1, <3>3, <3>4
  <2>2. QED
    BY <1>1, <2>1
<1>2. ASSUME NEW k \in 1 .. Len(s2), s2[k].at # 0
      PROVE  Even(d, r2, s2[k].name, s2[k].offset)
  <2>1. CASE /\ k \in 1 .. Len(s) /\ s2[k].name = s[k].name /\ s[k].at # 0
             /\ s2[k].offset = s[k].offset
             /\ r2[s[k].name].members = r[s[k].name].members
    <3>1. s[k].name \in Names
      BY <2>1, GivenTypes
    <3>2. ParentSettled(d, s[k].name, fin) /\ Even(d, r, s[k].name, s[k].offset)
      BY <2>1 DEF Core, FrameOK, Lines
    <3>3. Even(d, r2, s[k].name, s[k].offset)
      BY <2>1, <3>1, <3>2, EvenStays
    <3>4. QED
      BY <2>1, <3>3
  <2>2. QED
    BY <1>2, <2>1
<1>3. QED
  BY <1>1, <1>2 DEF Lines

\* The offset moves on by the bytes of the field that is declared.
LEMMA ExtentIsBytes ==
  ASSUME NEW fin, Setting(fin), NEW rank \in [Names -> Nat],
         Ordered(rank), Descending(stack, rank), AtDecl, Ready,
         NEW m \in Fields, Takes(m, decl), ~m.remote
  PROVE  Extent(decl) = BytesOf(resolved, m)
<1>1. decl \in Decls /\ stack # << >> /\ Given(prog.def, resolved, stack, fin)
      /\ Core(prog.def, resolved, stack, fin)
  BY DeclType, SettingGiven DEF Setting
<1>2. /\ m.ref = decl.ref /\ m.kind = Kind(decl) /\ m.size = TypeSize(decl) /\ m.is = "field"
      /\ TypeSize(decl) \in Int /\ m.elem = UnitSize(decl)
  BY <1>1, SizeType DEF Takes, Setting, Fields
<1>3. BytesOf(resolved, m) = IF m.kind = "struct" THEN resolved[m.ref].inline
                             ELSE IF m.size > 0 THEN m.size ELSE 0
  BY <1>2 DEF BytesOf
<1>4. CASE m.kind = "struct"
  <2>1. ByValue(m) /\ m.ref \in Names
    BY <1>4 DEF ByValue, Fields
  <2>2. /\ resolved[m.ref].size \in {-1, resolved[m.ref].inline} /\ resolved[m.ref].inline \in Nat
        /\ m.size = resolved[m.ref].size
    <3>1. Settled(prog.def, m.ref, fin) /\ SizeFinal(resolved, m)
      BY <2>1, TakesFinal
    <3>2. QED
      BY <1>1, <1>4, <2>1, <3>1, SettledSize, GivenTypes DEF SizeFinal
  <2>3. QED
    BY <1>2, <1>3, <1>4, <2>2 DEF Extent
<1>5. CASE m.kind # "struct"
  BY <1>2, <1>3, <1>5 DEF Extent
<1>6. QED
  BY <1>4, <1>5

\* A statement puts its member where the bytes of the others end.
LEMMA LaidEven ==
  ASSUME NEW fin, Setting(fin), NEW rank \in [Names -> Nat],
         Ordered(rank), Descending(stack, rank), ByPosition(prog.def),
         Sizes(prog.def, resolved, stack, fin), Lines(prog.def, resolved, stack, fin),
         NEW ms \in Seq(Members), NEW o \in Nat, Emits(ms, o), Made(ms, o), Laid(ms, o),
         Agree(prog.def, resolved, resolved', fin)
  PROVE  Even(prog.def, resolved', frame.name, o)
<1> DEFINE n == frame.name
           old == resolved[n].members
<1>1. /\ InBody /\ stack # << >> /\ Given(prog.def, resolved, stack, fin)
      /\ n \in Names /\ frame = stack[Len(stack)] /\ Len(stack) \in 1 .. Len(stack)
      /\ frame.at # 0 /\ frame.at \in 1 .. Len(prog.def[n].body) /\ def = prog.def[n]
      /\ resolved \in [Names -> Structs] /\ frame.offset \in Nat
      /\ Core(prog.def, resolved, stack, fin)
  <2>1. InBody /\ stack # << >> /\ frame.at \in 1 .. Len(def.body)
    BY DEF Emits, InBody, Running
  <2>2. QED
    BY <2>1, FrameFacts, SettingGiven DEF frame, Given, Setting
<1>2. resolved'[n].members = old \o ms /\ old \in Seq(Members)
  <2>1. resolved' = [resolved EXCEPT ![n].members = @ \o ms]
    BY StatementFrame
  <2>2. QED
    BY <1>1, <2>1 DEF Structs
<1>3. ParentSettled(prog.def, n, fin) /\ Even(prog.def, resolved, n, frame.offset)
  BY <1>1 DEF Core, FrameOK, Lines
<1>4. Straight(prog.def, resolved', n) <=> Straight(prog.def, resolved, n)
  BY <1>1, <1>3, StraightStays
<1>5. CASE ~Straight(prog.def, resolved, n)
  <2>1. HasDynamicFields(old)
    BY <1>3, <1>5 DEF Even
  <2> HIDE DEF old
  <2>2. HasDynamicFields(old \o ms)
    BY <1>2, <2>1, DynamicConcat
  <2>3. QED
    BY <1>2, <1>4, <1>5, <2>2 DEF Even
<1>6. CASE Straight(prog.def, resolved, n)
  <2>1. Lined(resolved, old, frame.offset)
    BY <1>3, <1>6 DEF Even
  <2>2. Captured(prog.def, resolved, FieldsOf(old), fin)
    BY <1>1 DEF Sizes
  <2> HIDE DEF old
  <2>3. Captured(prog.def, resolved, FieldsOf(ms), fin)
    BY MadeCaptured
  <2>4. Captured(prog.def, resolved, FieldsOf(old \o ms), fin) /\ old \o ms \in Seq(Members)
    <3>1. \A x \in ToSet(FieldsOf(old \o ms)) :
            x \in ToSet(FieldsOf(old)) \/ x \in ToSet(FieldsOf(ms))
      BY <1>2, FieldsOfConcat
    <3>2. QED
      BY <1>2, <2>2, <2>3, <3>1, ConcatProperties DEF Captured
  <2>5. ~def.union /\ (stmt.is = "var" => stmt.at \in {Here, Expr})
    BY <1>1 DEF ByPosition, stmt
  <2>6. ASSUME NEW m \in Members, ms = <<m>>, m.is = "field" /\ ~m.remote => m.off = frame.offset,
               o = frame.offset + BytesOf(resolved, m)
        PROVE  Lined(resolved, old \o ms, o)
    BY <1>1, <1>2, <2>1, <2>6, LinedAppend
  <2>7. ASSUME NEW m \in Fields, ms = <<m>>, stmt.is = "var", Ready, Takes(m, stmt), ~m.remote,
               m.off = frame.offset, o = frame.offset + Extent(stmt)
        PROVE  Lined(resolved, old \o ms, o)
    <3>1. AtDecl /\ decl = stmt
      BY <1>1, <2>7 DEF AtDecl, decl
    <3>2. Extent(stmt) = BytesOf(resolved, m)
      BY <2>7, <3>1, ExtentIsBytes
    <3>3. m \in Members
      BY DEF Members
    <3>4. QED
      BY <2>6, <2>7, <3>2, <3>3
  <2>8. ASSUME NEW m \in Fields, ms = <<m>>, m.remote, o = frame.offset
        PROVE  Lined(resolved, old \o ms, o)
    <3>1. m \in Members /\ BytesOf(resolved, m) = 0
      BY <2>8 DEF Members, Fields, BytesOf
    <3>2. QED
      BY <1>1, <2>6, <2>8, <3>1
  <2>9. ASSUME NEW m \in Conditionals, ms = <<m>>, o = frame.offset
        PROVE  Lined(resolved, old \o ms, o)
    <3>1. m \in Members /\ m.is = "cond" /\ BytesOf(resolved, m) = 0
      BY DEF Members, Conditionals, BytesOf
    <3>2. QED
      BY <1>1, <2>6, <2>9, <3>1
  <2>10. ASSUME NEW m \in Pads, ms = <<m>>, o = frame.offset + m.size
         PROVE  Lined(resolved, old \o ms, o)
    <3>1. m \in Members /\ m.is = "pad" /\ BytesOf(resolved, m) = m.size
      BY DEF Members, Pads, BytesOf
    <3>2. QED
      BY <2>6, <2>10, <3>1
  <2>11. ASSUME ms = << >>, o = frame.offset
         PROVE  Lined(resolved, old \o ms, o)
    <3>1. old \o ms = old
      BY <1>2, <2>11, ConcatEmptySeq
    <3>2. QED
      BY <2>1, <2>11, <3>1
  <2>12. Lined(resolved, old \o ms, o)
    BY <2>5, <2>7, <2>8, <2>9, <2>10, <2>11 DEF Laid
  <2>13. Lined(resolved', old \o ms, o)
    BY <2>4, <2>12, LinedStays
  <2>14. QED
    BY <1>2, <1>4, <1>6, <2>13 DEF Even
<1>7. QED
  BY <1>5, <1>6

\* A parent that is settled and not dynamic is in line up to its size.
LEMMA ParentLined ==
  ASSUME NEW d, NEW r, NEW s, NEW fin, Given(d, r, s, fin), Core(d, r, s, fin),
         Lines(d, r, s, fin), ByPosition(d), NEW n \in Names, Settled(d, n, fin),
         ~HasDynamicFields(r[n].members)
  PROVE  Lined(r, r[n].members, IF r[n].size > 0 THEN r[n].size ELSE 0)
<1>1. r[n].members \in Seq(Members)
  BY GivenTypes
<1>2. CASE n \in fin
  <2>1. r[n].size # -1 /\ Even(d, r, n, r[n].inline)
    BY <1>2 DEF Lines
  <2>2. Lined(r, r[n].members, r[n].inline)
    BY <2>1 DEF Even
  <2>3. r[n].size = r[n].inline /\ r[n].inline \in Nat
    BY <2>1, SettledSize, GivenTypes
  <2>4. QED
    BY <2>2, <2>3
<1>3. CASE n \notin fin
  <2>1. r[n] = Blank
    BY <1>3 DEF Settled, Core, Untouched
  <2>2. r[n].members = << >> /\ r[n].size = 0
    BY <2>1 DEF Blank
  <2>3. QED
    BY <1>1, <2>2, LinedEmpty
<1>4. QED
  BY <1>2, <1>3

\* The members of the parent end at its size.
LEMMA InheritEven ==
  ASSUME NEW fin, Setting(fin), NEW rank \in [Names -> Nat], Lazy(rank),
         ByPosition(prog.def), Inherit, ~def.template,
         Sizes(prog.def, resolved, stack, fin), Lines(prog.def, resolved, stack, fin),
         Agree(prog.def, resolved, resolved', fin)
  PROVE  Even(prog.def, resolved', frame.name, StartOf(resolved, def))
<1> DEFINE n == frame.name
           ms == IF def.parent = None THEN << >> ELSE resolved[def.parent].members
           o == StartOf(resolved, def)
<1>1. /\ n \in Names /\ def = prog.def[n] /\ ParentSettled(prog.def, n, fin)
      /\ ms \in Seq(Members) /\ o \in Nat
      /\ resolved' = [resolved EXCEPT ![n].members = ms]
      /\ Given(prog.def, resolved, stack, fin) /\ Core(prog.def, resolved, stack, fin)
  BY InheritFacts, SettingGiven DEF Setting
<1>2. resolved'[n].members = ms
  BY <1>1 DEF Given, Structs
<1>3. Straight(prog.def, resolved', n) <=> Straight(prog.def, resolved, n)
  BY <1>1, StraightStays
<1>4. CASE def.parent = None
  <2>1. ms = << >> /\ o = 0
    BY <1>4 DEF StartOf
  <2> HIDE DEF ms, o
  <2>2. Lined(resolved', ms, o)
    BY <1>1, <2>1, LinedEmpty
  <2>3. Straight(prog.def, resolved', n)
    BY <1>1, <1>4 DEF Straight
  <2>4. QED
    BY <1>2, <2>2, <2>3 DEF Even, o
<1>5. CASE def.parent # None
  <2> DEFINE q == def.parent
  <2>1. q \in Names /\ Settled(prog.def, q, fin) /\ ms = resolved[q].members
    BY <1>1, <1>5, GivenTypes DEF ParentSettled
  <2>2. CASE HasDynamicFields(resolved[q].members)
    <3>1. ~Straight(prog.def, resolved', n) /\ HasDynamicFields(ms)
      BY <1>1, <1>3, <1>5, <2>1, <2>2 DEF Straight
    <3>2. QED
      BY <1>2, <3>1 DEF Even
  <2>3. CASE ~HasDynamicFields(resolved[q].members)
    <3>1. Straight(prog.def, resolved', n)
      BY <1>1, <1>3, <2>3 DEF Straight
    <3>2. Lined(resolved, resolved[q].members, IF resolved[q].size > 0 THEN resolved[q].size ELSE 0)
      BY <1>1, <2>1, <2>3, ParentLined
    <3>3. Lined(resolved, ms, o)
      BY <1>5, <2>1, <3>2 DEF StartOf
    <3>4. Captured(prog.def, resolved, FieldsOf(ms), fin)
      BY <2>1 DEF Sizes
    <3> HIDE DEF ms, o
    <3>5. Lined(resolved', ms, o)
      BY <1>1, <3>3, <3>4, LinedStays
    <3>6. QED
      BY <1>2, <3>1, <3>5 DEF Even, o
  <2>4. QED
    BY <2>2, <2>3
<1>6. QED
  BY <1>4, <1>5

LEMMA LinesStep ==
  ASSUME NEW fin, Setting(fin), NEW rank \in [Names -> Nat],
         Ordered(rank), Descending(stack, rank),
         Sizes(prog.def, resolved, stack, fin), Lines(prog.def, resolved, stack, fin),
         Work, phase' = "fields"
  PROVE  Lines(prog.def, resolved', stack', Fin(fin))
<1> SUFFICES ASSUME ByPosition(prog.def)
             PROVE  Lines(prog.def, resolved', stack', Fin(fin))
  BY DEF Lines
<1> DEFINE n == frame.name
           fin2 == Fin(fin)
           Kept(k) == /\ k \in 1 .. Len(stack) /\ stack'[k].name = stack[k].name
                      /\ stack[k].at # 0 /\ stack'[k].offset = stack[k].offset
                      /\ resolved'[stack[k].name].members = resolved[stack[k].name].members
           Right(k) == Even(prog.def, resolved', stack'[k].name, stack'[k].offset)
           Whole(m) == /\ resolved'[m].size = -1 => HasDynamicFields(resolved'[m].members)
                       /\ Even(prog.def, resolved', m, resolved'[m].inline)
<1>1. Lazy(rank)
  BY DEF Lazy
<1>2. /\ stack # << >> /\ (Stays \/ Pops \/ Pushes)
      /\ Given(prog.def, resolved, stack, fin) /\ Core(prog.def, resolved, stack, fin)
      /\ Agree(prog.def, resolved, resolved', fin)
      /\ \A m \in Names : m # n => resolved'[m] = resolved[m]
      /\ \A k \in 1 .. Len(stack) : stack[k].name \in Names
  BY <1>1, WorkMoves, SettingGiven, GivenTypes, CoreStep, OnlyTopGrows DEF Setting
<1>3. /\ frame = stack[Len(stack)] /\ Len(stack) \in 1 .. Len(stack) /\ Len(stack) \in Nat
      /\ frame \in Frames /\ n \in Names /\ def = prog.def[n]
      /\ resolved \in [Names -> Structs]
  BY <1>2, FrameFacts DEF frame, Given
<1>4. ASSUME \A m \in fin2 : m \in fin \/ Whole(m),
             \A k \in 1 .. Len(stack') : stack'[k].at = 0 \/ Kept(k) \/ Right(k)
      PROVE  Lines(prog.def, resolved', stack', fin2)
  <2> HIDE DEF fin2, n
  <2>1. QED
    BY <1>2, <1>4, LinesKeep
<1>5. ASSUME NEW g \in Frames, g.name = n, stack' = [stack EXCEPT ![Len(stack)] = g],
             \/ g.at = frame.at /\ g.offset = frame.offset /\ resolved' = resolved
             \/ Even(prog.def, resolved', n, g.offset)
      PROVE  Lines(prog.def, resolved', stack', fin2)
  <2>1. /\ Len(stack') = Len(stack) /\ stack'[Len(stack)] = g
        /\ \A k \in 1 .. Len(stack) : k # Len(stack) => /\ stack'[k] = stack[k]
                                                        /\ stack[k].name # n
    BY <1>2, <1>5, StaysStack
  <2>2. fin2 = fin
    <3>1. Len(Front(stack)) = Len(stack) - 1
      BY <1>2, TopType
    <3>2. stack' # Front(stack)
      BY <1>3, <2>1, <3>1
    <3>3. QED
      BY <3>2 DEF Fin
  <2>3. ASSUME NEW k \in 1 .. Len(stack')
        PROVE  stack'[k].at = 0 \/ Kept(k) \/ Right(k)
    <3>1. CASE k = Len(stack)
      <4>1. stack'[k] = g /\ stack[k] = frame /\ k \in 1 .. Len(stack)
        BY <1>3, <2>1, <3>1
      <4>2. QED
        BY <1>5, <4>1
    <3>2. CASE k # Len(stack)
      <4>1. /\ k \in 1 .. Len(stack) /\ stack'[k] = stack[k]
            /\ resolved'[stack[k].name] = resolved[stack[k].name]
        BY <1>2, <2>1, <3>2
      <4>2. QED
        BY <4>1
    <3>3. QED
      BY <3>1, <3>2
  <2>4. QED
    BY <1>4, <2>2, <2>3
<1>6. ASSUME stack' = Front(stack), n \in fin \/ Whole(n)
      PROVE  Lines(prog.def, resolved', stack', fin2)
  <2>1. \A k \in 1 .. Len(stack') : /\ k \in 1 .. Len(stack) /\ stack'[k] = stack[k]
                                    /\ stack[k].name # n
    BY <1>2, <1>6, PopsStack
  <2>2. fin2 = fin \cup {n}
    BY <1>6 DEF Fin
  <2>3. ASSUME NEW k \in 1 .. Len(stack')
        PROVE  stack'[k].at = 0 \/ Kept(k) \/ Right(k)
    <3>1. /\ k \in 1 .. Len(stack) /\ stack'[k] = stack[k]
          /\ resolved'[stack[k].name] = resolved[stack[k].name]
      BY <1>2, <2>1
    <3>2. QED
      BY <3>1
  <2>4. \A m \in fin2 : m \in fin \/ Whole(m)
    BY <1>6, <2>2
  <2>5. QED
    BY <1>4, <2>3, <2>4
<1>7. CASE AlreadyResolved
  BY <1>6, <1>7, CoreAlreadyResolved DEF AlreadyResolved
<1>8. CASE CallParent \/ CallType
  <2>1. resolved' = resolved
    BY <1>8 DEF CallParent, CallType
  <2>2. PICK g \in Frames, m \in Names :
          /\ g.name = n /\ g.at = frame.at /\ g.offset = frame.offset
          /\ stack' = Append([stack EXCEPT ![Len(stack)] = g], NewFrame(m))
    BY <1>8, CallPushes DEF Pushes
  <2>3. /\ stack'[Len(stack) + 1] = NewFrame(m) /\ stack'[Len(stack)] = g
        /\ \A k \in 1 .. Len(stack') : k \in 1 .. Len(stack) \/ k = Len(stack) + 1
        /\ \A k \in 1 .. Len(stack) : k # Len(stack) => stack'[k] = stack[k]
    BY <1>2, <2>2, PushesStack
  <2>4. fin2 = fin
    BY <1>2, <1>8, CallPushes, FinCases
  <2>5. ASSUME NEW k \in 1 .. Len(stack')
        PROVE  stack'[k].at = 0 \/ Kept(k) \/ Right(k)
    <3>1. CASE k = Len(stack) + 1
      BY <2>3, <3>1, NewFrameType
    <3>2. CASE k = Len(stack)
      BY <1>3, <2>1, <2>2, <2>3, <3>2
    <3>3. CASE k \in 1 .. Len(stack) /\ k # Len(stack)
      BY <2>1, <2>3, <3>3
    <3>4. QED
      BY <2>3, <3>1, <3>2, <3>3
  <2>6. QED
    BY <1>4, <2>4, <2>5
<1>9. CASE Inherit
  <2>1. ~def.template
    BY <1>3 DEF ByPosition
  <2>2. PICK g \in Frames : /\ g.name = n /\ stack' = [stack EXCEPT ![Len(stack)] = g]
                            /\ g.offset = StartOf(resolved, def)
    BY <1>1, <1>9, <2>1, InheritFrame
  <2>3. Even(prog.def, resolved', n, g.offset)
    BY <1>1, <1>2, <1>9, <2>1, <2>2, InheritEven
  <2>4. QED
    BY <1>5, <2>2, <2>3
<1>10. CASE ConditionalDecl
  <2>1. resolved' = resolved
    BY <1>10 DEF ConditionalDecl
  <2>2. QED
    BY <1>5, <1>10, <2>1, ConditionalFrame
<1>11. CASE Statement
  <2>1. PICK ms \in Seq(Members), o \in Nat : Emits(ms, o) /\ Made(ms, o) /\ Laid(ms, o)
    BY <1>11, StatementEmits
  <2> DEFINE g == NextStatement([frame EXCEPT !.offset = o])
  <2>2. /\ g \in Frames /\ g.name = n /\ g.offset = o
        /\ stack' = [stack EXCEPT ![Len(stack)] = g]
    BY <2>1, StatementFrame
  <2> HIDE DEF g
  <2>3. Even(prog.def, resolved', n, o)
    BY <1>2, <2>1, LaidEven
  <2>4. QED
    BY <1>5, <2>2, <2>3
<1>12. CASE Return
  <2>1. /\ stack' = Front(stack) /\ frame.at = Len(def.body) + 1
        /\ resolved'[n].members = resolved[n].members
        /\ resolved'[n].inline = frame.offset
        /\ resolved'[n].size = IF HasDynamicFields(resolved[n].members) THEN -1 ELSE frame.offset
    BY <1>3, <1>12, CoreReturn DEF Return, self, Structs
  <2>2. frame.at # 0 /\ frame.offset \in Nat
    BY <1>2, <2>1, FrameFacts
  <2>3. /\ ParentSettled(prog.def, n, fin) /\ Even(prog.def, resolved, n, frame.offset)
    BY <1>2, <1>3, <2>2 DEF Core, FrameOK, Lines
  <2>4. Even(prog.def, resolved', n, frame.offset)
    BY <1>2, <1>3, <2>1, <2>3, EvenStays
  <2>5. resolved'[n].size = -1 => HasDynamicFields(resolved'[n].members)
    BY <2>1, <2>2
  <2>6. QED
    BY <1>6, <2>1, <2>4, <2>5
<1>13. QED
  BY <1>7, <1>8, <1>9, <1>10, <1>11, <1>12 DEF Work

-----------------------------------------------------------------------------
(***************************************************************************)
(* RInv is inductive.                                                      *)
(***************************************************************************)

\* The steps that leave the program in a phase that goes on.
LEMMA StepKinds ==
  ASSUME TypeOK, NoMissing, [Next]_vars, Active'
  PROVE  /\ prog' = prog /\ Active
         /\ \/ Work /\ phase = "fields" /\ phase' = "fields"
            \/ MainLoop
            \/ StartSort
            \/ /\ resolved' = resolved /\ stack' = stack
               /\ \/ Resolved /\ Resolved'
                  \/ phase' = phase /\ next' = next
<1>1. CASE UNCHANGED vars
  BY <1>1 DEF vars, Active
<1>2. CASE Work
  <2>1. phase = "fields" /\ phase' \in {phase, "overflow"} /\ prog' = prog
    BY <1>2
       DEF Work, AlreadyResolved, CallParent, CallType, Inherit, ConditionalDecl, Return, Emit,
           Statement, DeclareInUnion, DeclareRemote, Declare, SkipBadDecl, Pad, CloseIf,
           AtDecl, InIf, InBody, InPrologue, Running, CallFrom
  <2>2. QED
    BY <1>2, <2>1 DEF Active
<1>3. CASE MainLoop \/ StartSort
  BY <1>3 DEF MainLoop, StartSort, Active
<1>4. CASE UnknownParent
  <2>1. stack # << >> /\ def.parent = Missing
    BY <1>4 DEF UnknownParent, InPrologue, Running
  <2>2. frame.name \in Names
    BY <2>1, StackType
  <2>3. QED
    BY <2>1, <2>2 DEF NoMissing, def
<1>5. CASE VisitRoot \/ VisitDependency \/ SkipField \/ EmitStruct \/ Done
  BY <1>5 DEF VisitRoot, VisitDependency, AtDependency, SkipField, EmitStruct, Done,
              Resolved, Active
<1>6. QED
  BY <1>1, <1>2, <1>3, <1>4, <1>5 DEF Next, Work, Statement

\* What is complete when the main loop has ended.
LEMMA SortBegins ==
  ASSUME TypeOK, NEW fin \in SUBSET Names, RootsDone(fin), StartSort
  PROVE  fin = Names
<1>1. stack = << >> /\ phase = "fields" /\ next > Len(prog.order)
  BY DEF StartSort
<1>2. ASSUME NEW n \in Names
      PROVE  n \in fin
  <2>1. PICK k \in 1 .. Len(prog.order) : prog.order[k] = n
    BY OrderType
  <2>2. ~(k >= next)
    BY <1>1, OrderType
  <2>3. QED
    BY <1>1, <2>1, <2>2 DEF RootsDone
<1>3. QED
  BY <1>2

\* Core and the roots, by the kind of the step.
LEMMA LazilyWork ==
  ASSUME TypeOK, NoMissing, ParentsKnown, NEW fin \in SUBSET Names, Lazily(fin),
         NEW rank \in [Names -> Nat], Lazy(rank), Work, phase = "fields", phase' = "fields",
         NEW fin2, fin2 = Fin(fin)
  PROVE  /\ Setting(fin) /\ stack # << >> /\ prog' = prog
         /\ fin2 \in SUBSET Names /\ Lazily(fin2)'
<1>1. Setting(fin) /\ RootsDone(fin)
  BY DEF Lazily, Setting
<1>2. stack # << >>
  BY <1>1, WorkMoves
<1>3. fin2 \in SUBSET Names
  BY <1>1, <1>2, FinCases
<1>4. prog' = prog
  BY DEF Work, AlreadyResolved, CallParent, CallType, Inherit, ConditionalDecl, Return, Emit,
         Statement, DeclareInUnion, DeclareRemote, Declare, SkipBadDecl, Pad, CloseIf
<1>5. Core(prog.def, resolved', stack', fin2)
  BY <1>1, CoreStep
<1>6. \A k \in 1 .. Len(prog'.order) :
        k >= next' \/ (stack' # << >> /\ k = next' - 1) \/ prog'.order[k] \in fin2
  BY <1>1, RootsStep
<1>7. RootsDone(fin2)'
  BY <1>6 DEF RootsDone, Resolved
<1>8. QED
  BY <1>1, <1>2, <1>3, <1>4, <1>5, <1>7 DEF Lazily

LEMMA LazilyMainLoop ==
  ASSUME TypeOK, NoMissing, NEW fin \in SUBSET Names, Lazily(fin), MainLoop
  PROVE  /\ prog' = prog /\ resolved' = resolved /\ Lazily(fin)'
         /\ Len(stack') = 1 /\ stack'[1].at = 0 /\ stack'[1].acc = << >>
<1>1. /\ prog' = prog /\ resolved' = resolved /\ phase = "fields" /\ phase' = "fields"
      /\ stack = << >> /\ next <= Len(prog.order) /\ next' = next + 1
      /\ stack' = <<NewFrame(prog.order[next])>>
  BY DEF MainLoop
<1>2. Core(prog.def, resolved', stack', fin)
  BY CoreMainLoop DEF Lazily, Setting
<1>3. next \in Nat \ {0} /\ Len(prog.order) \in Nat /\ prog.order \in Seq(Names)
  BY OrderType
<1>4. prog.order[next] \in Names
  BY <1>1, <1>3, ElementOfSeq
<1>5. Len(stack') = 1 /\ stack'[1].at = 0 /\ stack'[1].acc = << >> /\ stack' # << >>
  BY <1>1, <1>4, NewFrameType
<1>6. \A k \in 1 .. Len(prog.order) : k >= next' \/ k = next' - 1 \/ prog.order[k] \in fin
  <2>1. \A k \in 1 .. Len(prog.order) : k >= next \/ prog.order[k] \in fin
    BY <1>1 DEF Lazily, RootsDone
  <2>2. \A k \in 1 .. Len(prog.order) : k >= next => k >= next' \/ k = next' - 1
    BY <1>1, <1>3
  <2>3. QED
    BY <2>1, <2>2
<1>7. RootsDone(fin)'
  BY <1>1, <1>5, <1>6 DEF RootsDone, Resolved
<1>8. QED
  BY <1>1, <1>2, <1>5, <1>7 DEF Lazily

LEMMA LazilyRest ==
  ASSUME TypeOK, NEW fin \in SUBSET Names, Lazily(fin), prog' = prog,
         \/ StartSort
         \/ /\ resolved' = resolved /\ stack' = stack
            /\ \/ Resolved /\ Resolved'
               \/ phase' = phase /\ next' = next
  PROVE  resolved' = resolved /\ stack' = stack /\ Lazily(fin)'
<1>1. resolved' = resolved /\ stack' = stack
  BY DEF StartSort
<1>2. RootsDone(fin)'
  <2>1. CASE StartSort
    <3>1. fin = Names /\ phase' = "sort"
      BY <2>1, SortBegins DEF Lazily, StartSort
    <3>2. QED
      BY <3>1 DEF RootsDone
  <2>2. CASE Resolved /\ Resolved'
    BY <2>2 DEF Lazily, RootsDone, Resolved
  <2>3. CASE phase' = phase /\ next' = next
    BY <1>1, <2>3 DEF Lazily, RootsDone, Resolved
  <2>4. QED
    BY <2>1, <2>2, <2>3
<1>3. QED
  BY <1>1, <1>2 DEF Lazily

\* The ranks are those of the program.
LEMMA SameProgram ==
  ASSUME prog' = prog
  PROVE  /\ Orderly' <=> Orderly
         /\ StartsPlain' <=> StartsPlain
         /\ NoMissing' <=> NoMissing
         /\ \A rank : Ordered(rank)' <=> Ordered(rank)
<1>1. \A n : Mentions(n)' = Mentions(n) /\ (Hollow(n)' <=> Hollow(n))
  BY DEF Mentions, DeclsOf, Hollow
<1>2. QED
  BY <1>1 DEF Orderly, Acyclic, StartsPlain, NoMissing, Ordered

LEMMA InOrderStep ==
  ASSUME TypeOK, NoMissing, ParentsKnown, NEW rank \in [Names -> Nat],
         NEW fin \in SUBSET Names, InOrder(rank, fin), [Next]_vars, Active'
  PROVE  \E fin2 \in SUBSET Names : InOrder(rank, fin2)'
<1>1. /\ Ordered(rank) /\ Descending(stack, rank) /\ Lazily(fin) /\ Lazy(rank)
      /\ Sizes(prog.def, resolved, stack, fin) /\ Places(prog.def, resolved, stack, fin)
      /\ Lines(prog.def, resolved, stack, fin)
  BY DEF InOrder, Lazy
<1>2. Ordered(rank)' /\ prog' = prog
  BY <1>1, StepKinds, SameProgram
<1>3. CASE Work /\ phase = "fields" /\ phase' = "fields"
  <2>1. PICK fin2 : fin2 = Fin(fin)
    OBVIOUS
  <2>2. Setting(fin) /\ fin2 \in SUBSET Names /\ Lazily(fin2)'
    BY <1>1, <1>3, <2>1, LazilyWork
  <2>3. Descending(stack', rank)
    BY <1>1, <1>3, <2>2, DescendingStep
  <2>4. /\ Sizes(prog.def, resolved', stack', fin2) /\ Places(prog.def, resolved', stack', fin2)
        /\ Lines(prog.def, resolved', stack', fin2)
    BY <1>1, <1>3, <2>1, <2>2, SizesStep, PlacesStep, LinesStep
  <2>5. InOrder(rank, fin2)'
    BY <1>2, <2>2, <2>3, <2>4 DEF InOrder
  <2>6. QED
    BY <2>2, <2>5
<1>4. CASE MainLoop
  <2>1. /\ resolved' = resolved /\ Lazily(fin)' /\ Len(stack') = 1
        /\ stack'[1].at = 0 /\ stack'[1].acc = << >>
    BY <1>1, <1>4, LazilyMainLoop
  <2>2. \A k \in 1 .. Len(stack') : k = 1
    BY <2>1
  <2>3. Descending(stack', rank)
    BY <2>2 DEF Descending
  <2>4. Sizes(prog.def, resolved', stack', fin)
    <3>1. \A k \in 1 .. Len(stack') : Captured(prog.def, resolved', stack'[k].acc, fin)
      BY <2>1, <2>2, CapturedEmpty
    <3>2. QED
      BY <1>1, <2>1, <3>1 DEF Sizes
  <2>5. Places(prog.def, resolved', stack', fin) /\ Lines(prog.def, resolved', stack', fin)
    BY <1>1, <2>1, <2>2 DEF Places, Lines
  <2>6. InOrder(rank, fin)'
    BY <1>2, <2>1, <2>3, <2>4, <2>5 DEF InOrder
  <2>7. QED
    BY <2>6
<1>5. CASE ~(Work /\ phase = "fields" /\ phase' = "fields") /\ ~MainLoop
  <2>1. resolved' = resolved /\ stack' = stack /\ Lazily(fin)'
    BY <1>1, <1>2, <1>5, StepKinds, LazilyRest
  <2>2. InOrder(rank, fin)'
    BY <1>1, <1>2, <2>1 DEF InOrder
  <2>3. QED
    BY <2>2
<1>6. QED
  BY <1>3, <1>4, <1>5

LEMMA FromPlainStep ==
  ASSUME TypeOK, NoMissing, ParentsKnown, StartsPlain,
         NEW fin \in SUBSET Names, FromPlain(fin), [Next]_vars, Active'
  PROVE  \E fin2 \in SUBSET Names : FromPlain(fin2)'
<1>1. Started(resolved, stack) /\ Lazily(fin)
  BY DEF FromPlain
<1>2. PICK rank \in [Names -> Nat] : Lazy(rank)
  <2>1. [n \in Names |-> 0] \in [Names -> Nat]
    OBVIOUS
  <2>2. QED
    BY <1>1, <2>1 DEF Lazy
<1>3. prog' = prog
  BY StepKinds
<1>4. CASE Work /\ phase = "fields" /\ phase' = "fields"
  <2>1. PICK fin2 : fin2 = Fin(fin)
    OBVIOUS
  <2>2. Setting(fin) /\ fin2 \in SUBSET Names /\ Lazily(fin2)'
    BY <1>1, <1>2, <1>4, <2>1, LazilyWork
  <2>3. Started(resolved', stack')
    BY <1>1, <1>4, <2>2, StartedStep
  <2>4. FromPlain(fin2)'
    BY <2>2, <2>3 DEF FromPlain
  <2>5. QED
    BY <2>2, <2>4
<1>5. CASE MainLoop
  <2>1. Lazily(fin)' /\ Len(stack') = 1 /\ stack'[1].at = 0
    BY <1>1, <1>5, LazilyMainLoop
  <2>2. \A k \in 1 .. Len(stack') : k = 1
    BY <2>1
  <2>3. Started(resolved', stack')
    BY <2>1, <2>2 DEF Started
  <2>4. FromPlain(fin)'
    BY <2>1, <2>3 DEF FromPlain
  <2>5. QED
    BY <2>4
<1>6. CASE ~(Work /\ phase = "fields" /\ phase' = "fields") /\ ~MainLoop
  <2>1. resolved' = resolved /\ stack' = stack /\ Lazily(fin)'
    BY <1>1, <1>3, <1>6, StepKinds, LazilyRest
  <2>2. FromPlain(fin)'
    BY <1>1, <2>1 DEF FromPlain
  <2>3. QED
    BY <2>2
<1>7. QED
  BY <1>4, <1>5, <1>6

LEMMA RInvStep ==
  ASSUME TypeOK, ParentsKnown, RInv, [Next]_vars
  PROVE  RInv'
<1>1. SUFFICES ASSUME NoMissing', Active'
               PROVE  /\ Orderly' => \E rank \in [Names -> Nat], fin \in SUBSET Names :
                                       InOrder(rank, fin)'
                      /\ StartsPlain' => \E fin \in SUBSET Names : FromPlain(fin)'
  BY DEF RInv
<1>2. prog' = prog
  BY DEF vars, Next, MainLoop, AlreadyResolved, UnknownParent, CallParent, Inherit, CallType,
         DeclareInUnion, DeclareRemote, Declare, SkipBadDecl, Pad, ConditionalDecl, CloseIf, Emit,
         Return, StartSort, VisitRoot, VisitDependency, SkipField, EmitStruct, Done
<1>3. NoMissing /\ (Orderly' <=> Orderly) /\ (StartsPlain' <=> StartsPlain)
  BY <1>1, <1>2, SameProgram
<1>4. Active
  BY <1>1, <1>3, StepKinds
<1>5. ASSUME Orderly
      PROVE  \E rank \in [Names -> Nat], fin \in SUBSET Names : InOrder(rank, fin)'
  <2>1. PICK rank \in [Names -> Nat], fin \in SUBSET Names : InOrder(rank, fin)
    BY <1>3, <1>4, <1>5 DEF RInv
  <2>2. PICK fin2 \in SUBSET Names : InOrder(rank, fin2)'
    BY <1>1, <1>3, <2>1, InOrderStep
  <2>3. QED
    BY <2>2
<1>6. ASSUME StartsPlain
      PROVE  \E fin \in SUBSET Names : FromPlain(fin)'
  <2>1. PICK fin \in SUBSET Names : FromPlain(fin)
    BY <1>3, <1>4, <1>6 DEF RInv
  <2>2. QED
    BY <1>1, <1>3, <1>6, <2>1, FromPlainStep
<1>7. QED
  BY <1>3, <1>5, <1>6

LEMMA RInvInit == Init => RInv
<1>1. SUFFICES ASSUME Init PROVE RInv
  OBVIOUS
<1>2. /\ stack = << >> /\ next = 1 /\ phase = "fields" /\ prog \in Programs
      /\ \A n \in Names : resolved[n] = Blank
  BY <1>1 DEF Init, Blank
<1>3. \A k \in 1 .. Len(stack) : FALSE
  BY <1>2
<1>4. Lazily({})
  <2>1. Core(prog.def, resolved, stack, {})
    BY <1>2, <1>3 DEF Core, Distinct, Untouched, Links
  <2>2. RootsDone({})
    <3>1. \A k \in 1 .. Len(prog.order) : k >= next
      BY <1>2
    <3>2. QED
      BY <1>2, <3>1 DEF RootsDone, Resolved
  <2>3. QED
    BY <2>1, <2>2 DEF Lazily
<1>5. /\ Sizes(prog.def, resolved, stack, {}) /\ Places(prog.def, resolved, stack, {})
      /\ Lines(prog.def, resolved, stack, {})
      /\ Started(resolved, stack) /\ \A rank : Descending(stack, rank)
  <2>1. \A n \in Names : resolved[n].members = << >>
    BY <1>2 DEF Blank
  <2>2. QED
    BY <1>3, <2>1, CapturedEmpty DEF Sizes, Places, Lines, Started, Descending
<1>6. ASSUME Orderly
      PROVE  \E rank \in [Names -> Nat] : Ordered(rank)
  <2>1. PICK rank \in [Names -> 1 .. Cardinality(Names)] :
          \A n \in Names : \A m \in Mentions(n) : rank[m] < rank[n]
    BY <1>6 DEF Orderly, Acyclic
  <2>2. rank \in [Names -> Nat]
    <3>1. Cardinality(Names) \in Nat
      BY FiniteAssumption, FS_CardinalityType
    <3>2. QED
      BY <3>1
  <2>3. QED
    BY <1>6, <2>1, <2>2 DEF Orderly, Ordered
<1>7. QED
  BY <1>4, <1>5, <1>6 DEF RInv, InOrder, FromPlain

-----------------------------------------------------------------------------
(***************************************************************************)
(* The theorems.                                                           *)
(***************************************************************************)

\* When all structs are resolved, all are complete.
LEMMA AtTheEnd ==
  ASSUME TypeOK, ParentsKnown, RInv, Resolved
  PROVE  /\ Orderly \/ StartsPlain => \A n \in Names : CompleteOK(prog.def, resolved, n, Names)
         /\ Orderly => /\ Sizes(prog.def, resolved, stack, Names)
                       /\ Places(prog.def, resolved, stack, Names)
                       /\ Lines(prog.def, resolved, stack, Names)
<1>1. NoMissing /\ Active
  BY DEF ParentsKnown, Resolved, Active
<1>2. ASSUME NEW fin \in SUBSET Names, Lazily(fin)
      PROVE  fin = Names /\ \A n \in Names : CompleteOK(prog.def, resolved, n, Names)
  BY <1>2 DEF Lazily, RootsDone, Core
<1>3. ASSUME Orderly
      PROVE  /\ \A n \in Names : CompleteOK(prog.def, resolved, n, Names)
             /\ Sizes(prog.def, resolved, stack, Names)
             /\ Places(prog.def, resolved, stack, Names)
             /\ Lines(prog.def, resolved, stack, Names)
  <2>1. PICK rank \in [Names -> Nat], fin \in SUBSET Names : InOrder(rank, fin)
    BY <1>1, <1>3 DEF RInv
  <2>2. QED
    BY <1>2, <2>1 DEF InOrder
<1>4. ASSUME StartsPlain
      PROVE  \A n \in Names : CompleteOK(prog.def, resolved, n, Names)
  <2>1. PICK fin \in SUBSET Names : FromPlain(fin)
    BY <1>1, <1>4 DEF RInv
  <2>2. QED
    BY <1>2, <2>1 DEF FromPlain
<1>5. QED
  BY <1>3, <1>4

LEMMA CompleteMembers ==
  ASSUME TypeOK, ParentsKnown, RInv
  PROVE  ResolvedOnce
<1>1. SUFFICES ASSUME Resolved, Orderly \/ StartsPlain, NEW n \in ToSet(prog.order)
               PROVE  Len(resolved[n].members) =
                        (IF prog.def[n].template THEN 0 ELSE MembersDeclared(n)) +
                        FromParent(resolved, prog.def[n])
  BY DEF ResolvedOnce, EachMemberOnce, FromParent
<1> DEFINE D == prog.def[n]
<1>2. n \in Names
  BY <1>1, OrderType, HoldsToSet, ElementOfSeq DEF Holds
<1>3. CompleteOK(prog.def, resolved, n, Names)
  BY <1>1, <1>2, AtTheEnd
<1>4. D.body \in Seq(Decls \cup Pads \cup Ifs)
  BY <1>2, ProgType
<1>5. MembersDeclared(n) = Tally(D, Len(D.body))
  <2>1. DOMAIN D.body = 1 .. Len(D.body)
    BY <1>4, LenProperties
  <2>2. \A k \in 1 .. Len(D.body) : AddsMember(D.body[k], n) <=> Adds(D, D.body[k])
    BY DEF AddsMember, Adds
  <2>3. {k \in DOMAIN D.body : AddsMember(D.body[k], n)} = Adding(D, Len(D.body))
    BY <2>1, <2>2 DEF Adding
  <2>4. QED
    BY <2>3 DEF MembersDeclared, Tally
<1>6. FromParent(resolved, D) \in Nat /\ Tally(D, Len(D.body)) \in Nat
  <2>1. NoMissing /\ Len(D.body) \in Nat
    BY <1>1, <1>4, LenProperties DEF ParentsKnown
  <2>2. D.parent \in Names \cup {None}
    BY <1>2, <2>1, ProgType DEF NoMissing
  <2>3. D.parent \in Names => Len(resolved[D.parent].members) \in Nat
    BY DEF TypeOK
  <2>4. QED
    BY <2>1, <2>2, <2>3, TallyStep DEF FromParent
<1>7. CASE D.template
  BY <1>3, <1>6, <1>7 DEF CompleteOK
<1>8. CASE ~D.template
  BY <1>3, <1>5, <1>6, <1>8 DEF CompleteOK
<1>9. QED
  BY <1>7, <1>8

LEMMA FinalSizes ==
  ASSUME TypeOK, ParentsKnown, RInv
  PROVE  SizesCaptured
<1>1. SUFFICES ASSUME Resolved, Orderly, NEW n \in Names,
                      NEW f \in ToSet(FieldsOf(resolved[n].members))
               PROVE  /\ ByValue(f) => f.elem = resolved[f.ref].size
                      /\ f.kind = "struct" => f.size = resolved[f.ref].size
                      /\ f.kind = "structs" /\ f.len >= 0 => f.size = f.len * resolved[f.ref].size
  BY DEF SizesCaptured, SizesAreFinal
<1>2. ByValue(f) => SizeFinal(resolved, f)
  BY <1>1, AtTheEnd DEF Sizes, Captured
<1>3. QED
  BY <1>2 DEF ByValue, SizeFinal

\* The fields that are placed one after the other are placed in line.
LEMMA SequentialInLine ==
  ASSUME TypeOK, NEW n \in Names, Sequential(n)
  PROVE  InLine(prog.def, resolved, n)
<1>1. ASSUME NEW k \in 1 .. Len(prog.def[n].body), prog.def[n].body[k].is = "var"
      PROVE  prog.def[n].body[k].at = Here
  <2>1. prog.def[n].body \in Seq(Decls \cup Pads \cup Ifs)
    BY ProgType
  <2>2. prog.def[n].body[k] \in ToSet(prog.def[n].body)
    BY <2>1, LenProperties DEF ToSet
  <2> DEFINE s == prog.def[n].body[k]
  <2>3. s \in CASE s.is = "var" -> {s}
                [] s.is = "if"  -> ToSet(s.decls)
                [] s.is = "pad" -> {}
    BY <1>1
  <2>4. s \in DeclsOf(n)
    BY <2>2, <2>3 DEF DeclsOf
  <2>5. QED
    BY <2>4 DEF Sequential
<1>2. QED
  BY <1>1 DEF Sequential, InLine

LEMMA PlacesApart ==
  ASSUME TypeOK, ParentsKnown, RInv
  PROVE  FieldsDisjoint
<1>1. SUFFICES ASSUME Resolved, Orderly, NEW n \in Names, Sequential(n)
               PROVE  LET ms == resolved[n].members
                          placed == {k \in DOMAIN ms : ms[k].is = "field"}
                      IN  \A j \in placed :
                            /\ EndOf(ms[j]) <= resolved[n].inline
                            /\ \A k \in placed : j < k => EndOf(ms[j]) <= ms[k].off
  BY DEF FieldsDisjoint
<1>2. Apart(resolved, resolved[n].members, resolved[n].inline)
  BY <1>1, AtTheEnd, SequentialInLine DEF Places
<1>3. \A f : EndOf(f) = ReachOf(resolved, f)
  BY DEF EndOf, ReachOf
<1>4. DOMAIN resolved[n].members = 1 .. Len(resolved[n].members)
  BY LenProperties DEF TypeOK
<1>5. QED
  BY <1>2, <1>3, <1>4 DEF Apart

LEMMA RInvAlways == Spec => [](TypeOK /\ ParentsKnown /\ RInv)
<1>1. Init => TypeOK /\ ParentsKnown /\ RInv
  BY TypeInit, KnownInit, RInvInit
<1>2. TypeOK /\ ParentsKnown /\ RInv /\ [Next]_vars => (TypeOK /\ ParentsKnown /\ RInv)'
  BY TypeStep, KnownStep, RInvStep
<1>3. QED
  BY <1>1, <1>2, PTL DEF Spec

\* Each struct gets the members that its parent and its own body declare, each once,
\* whatever calls lead to it (resolveStructFields, its guard and its lazy calls).
THEOREM ResolvedOnceAlways == Spec => []ResolvedOnce
<1>1. TypeOK /\ ParentsKnown /\ RInv => ResolvedOnce
  BY CompleteMembers
<1>2. QED
  BY <1>1, RInvAlways, PTL

\* A struct is finished before its size is taken over into a field (resolveType).
THEOREM SizesCapturedAlways == Spec => []SizesCaptured
<1>1. TypeOK /\ ParentsKnown /\ RInv => SizesCaptured
  BY FinalSizes
<1>2. QED
  BY <1>1, RInvAlways, PTL

\* The fields of a struct share no byte and end within it (resolveStructFields, its
\* running offset, and InlineSize).
THEOREM FieldsDisjointAlways == Spec => []FieldsDisjoint
<1>1. TypeOK /\ ParentsKnown /\ RInv => FieldsDisjoint
  BY PlacesApart
<1>2. QED
  BY <1>1, RInvAlways, PTL

=============================================================================
