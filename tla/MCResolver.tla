---------------------------- MODULE MCResolver -----------------------------
(***************************************************************************)
(* Small instances of Resolver: every program of two or three structs whose*)
(* definitions come from a menu.                                           *)
(***************************************************************************)
EXTENDS Resolver

Two == {"A", "B"}
Three == {"A", "B", "C"}

Var == [is |-> "var", ref |-> None, size |-> 1, ptr |-> 0, len |-> Single, at |-> Here,
        bad |-> FALSE]
Byte == Var
Value(m) == [Var EXCEPT !.ref = m]
Pointer(m) == [Var EXCEPT !.ref = m, !.ptr = 4]
Array(m, len) == [Var EXCEPT !.ref = m, !.len = len]
If(cond, ds) == [is |-> "if", cond |-> cond, decls |-> ds]
Padding == [is |-> "pad", size |-> 3]
BadType == [Var EXCEPT !.bad = TRUE, !.size = 2]
RefusedLength(m) == [Var EXCEPT !.ref = m, !.bad = TRUE, !.size = 0]

Struct(body) == [union |-> FALSE, template |-> FALSE, parent |-> None, body |-> body]

\* Definitions that mention no struct.
Leaves == {Struct(<<Byte, Byte>>), Struct(<< >>), Struct(<<BadType, Padding>>),
           Struct(<<Byte, Array(None, Expr)>>), Struct(<<[Byte EXCEPT !.at = 4], Byte>>),
           [Struct(<<Byte>>) EXCEPT !.template = TRUE],
           [Struct(<< >>) EXCEPT !.template = TRUE],
           [Struct(<<Byte>>) EXCEPT !.parent = Missing]}

\* Definitions that mention m.
Using(m) == {Struct(<<Byte, Value(m), Byte>>), Struct(<<Pointer(m), Byte>>),
             Struct(<<Byte, Pointer(m), Value(m)>>), Struct(<<Array(m, 2), Byte>>),
             Struct(<<If("ok", <<Value(m), BadType>>), Byte>>),
             Struct(<<If("badElse", <<Pointer(m)>>), If("bad", <<Byte>>), Byte>>),
             Struct(<<RefusedLength(m), Byte>>),
             Struct(<<Byte, [Value(m) EXCEPT !.at = Expr], Byte>>),
             [Struct(<<Value(m), Byte, Padding, BadType>>) EXCEPT !.union = TRUE],
             [Struct(<<Byte>>) EXCEPT !.parent = m], [Struct(<< >>) EXCEPT !.parent = m]}

Menu(names) == Leaves \cup UNION {Using(m) : m \in names}

Orders(names) == {o \in [1 .. Cardinality(names) -> names] : IsInjective(o)}

\* Two structs of any definition in the menu, in either order, and a third that
\* mentions none.
TwoPrograms ==
  {[order |-> Append(o, "C"), def |-> [n \in Three |-> IF n = "C" THEN Struct(<<Byte>>)
                                                      ELSE d[n]]] :
     o \in Orders(Two), d \in [Two -> Menu(Two)]}

\* Three structs in one order (the menu is symmetric in the names), of the kinds
\* of definition that lead from one to another.
Links(names) == {Struct(<<Byte, Byte>>)} \cup
  UNION {{Struct(<<Byte, Value(m), Byte>>), Struct(<<Pointer(m), Byte>>),
          Struct(<<Byte, Pointer(m)>>), Struct(<<Array(m, 2), Byte>>),
          Struct(<<Byte, [Value(m) EXCEPT !.at = Expr]>>),
          [Struct(<<Byte>>) EXCEPT !.parent = m]} : m \in names}

ThreePrograms == [order : {<<"A", "B", "C">>}, def : [Three -> Links(Three)]]

MCPrograms == TwoPrograms \cup ThreePrograms

\* struct A { B *b : u32; u8 x; }  struct B { u8 y; A *a : u32; }
MutualPointers == {[order |-> <<"A", "B">>,
                    def |-> [n \in Two |-> IF n = "A" THEN Struct(<<Pointer("B"), Byte>>)
                                           ELSE Struct(<<Byte, Pointer("A")>>)]]}
=============================================================================
