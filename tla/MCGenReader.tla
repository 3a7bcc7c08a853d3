---------------------------- MODULE MCGenReader ----------------------------
(***************************************************************************)
(* A small instance of GenReader, and of Resolver below it: the programs of *)
(* MCResolver are resolved, and those of this module are also read.  Here A *)
(* holds B and B holds C in every way that a layout depends on, and there   *)
(* are a few programs with cycles and without order.                       *)
(***************************************************************************)
EXTENDS GenReader, MCResolver

Remote(d) == [d EXCEPT !.at = Expr]

\* Negative, at the limit, above it.
MCLengths == {-1, 2, 3}

\* Static, of variable length at the end and before it, and rigid but dynamic.
Innermost == {Struct(<<Byte, Byte>>), Struct(<<Byte, Array(None, Expr), Byte>>),
           Struct(<<If("ok", <<Byte, Byte>>), Byte>>),
           Struct(<<Byte, Remote(Array(None, Expr)), Byte>>)}

Holding(m) ==
  {Struct(<<Byte, Value(m), Byte>>), Struct(<<Byte, Padding, Value(m)>>),
   Struct(<<Array(m, 2), Byte>>), Struct(<<Byte, Array(m, Expr), Padding, Byte>>),
   Struct(<<Byte, If("ok", <<Array(None, 2), Value(m)>>), Byte>>),
   Struct(<<Pointer(m), Remote(Value(m)), Value(m), Byte>>),
   Struct(<<Byte, Remote(Array(m, Expr)), Byte>>),
   [Struct(<<Byte, Array(m, Expr)>>) EXCEPT !.parent = m],
   [Struct(<<Byte>>) EXCEPT !.parent = m]}

Layered == {[order |-> <<"A", "B", "C">>,
             def |-> [n \in Three |-> CASE n = "A" -> a [] n = "B" -> b [] n = "C" -> c]] :
              a \in Holding("B"), b \in Holding("C"), c \in Innermost}

\* A struct that leads back to itself: by pointers, and in a slice.
Circular == {[order |-> <<"A", "B", "C">>,
              def |-> [n \in Three |-> CASE n = "A" -> Struct(<<Byte, d, Byte>>)
                                        [] n = "B" -> Struct(<<Byte, Pointer("A")>>)
                                        [] n = "C" -> Struct(<<Byte>>)]] :
               d \in {Pointer("A"), Pointer("B"), Remote(Array("A", Expr)), Array("A", Expr)}}

\* Positions that are no sequence: a union, a number after @, no bytes at all.
Placed3 == {[order |-> <<"A", "B", "C">>,
             def |-> [n \in Three |-> CASE n = "A" -> Struct(<<Byte, Value("B"), Byte>>)
                                       [] n = "B" -> b
                                       [] n = "C" -> Struct(<<Byte>>)]] :
              b \in {[Struct(<<Byte, Value("C")>>) EXCEPT !.union = TRUE],
                     Struct(<<Byte, [Byte EXCEPT !.at = 4], Value("C")>>),
                     Struct(<<Array(None, 0)>>)}}

\* Words in a bulk read, of a size that does not cover them: a number after @ moves the
\* end back, or A inherits from a template or from a struct that is still being resolved
\* (its own pointer to A leads to A); and, last, of one that does, with and without a parent.
Word == [Byte EXCEPT !.size = 4]
Words3 ==
  {[order |-> <<"B", "A", "C">>,
    def |-> [n \in Three |-> CASE n = "A" -> w[1] [] n = "B" -> w[2]
                              [] n = "C" -> Struct(<<Value("A"), Byte>>)]] :
     w \in {<<Struct(<<[Word EXCEPT !.at = 0], [Byte EXCEPT !.at = 0]>>), Struct(<<Byte>>)>>,
            <<Struct(<<[Array(None, 2) EXCEPT !.size = 2], [Byte EXCEPT !.at = 1]>>),
              Struct(<<Byte>>)>>,
            <<[Struct(<<Byte>>) EXCEPT !.parent = "B"], Struct(<<Word, Pointer("A")>>)>>,
            <<[Struct(<<Byte>>) EXCEPT !.parent = "B"],
              [Struct(<<Word>>) EXCEPT !.template = TRUE]>>,
            <<[Struct(<<Byte>>) EXCEPT !.parent = "B"], Struct(<<Word>>)>>,
            <<Struct(<<Word, Value("B")>>), Struct(<<Byte, Array(None, Expr)>>)>>}}

MCUsed == Layered \cup Circular \cup Placed3 \cup Words3

AllPrograms == MCPrograms \cup MCUsed
=============================================================================
