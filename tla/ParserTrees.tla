----------------------------- MODULE ParserTrees -----------------------------
(***************************************************************************)
(* What the trees of PatternParser look like: properties of a parse that   *)
(* are stated by walking the tree.                                         *)
(***************************************************************************)
EXTENDS PatternParser

\* What the fields of a node must hold (ast.go), by the kinds of its children.
TypeKinds == {"BuiltinType", "NamedType", "EndianType"}
ExprKinds ==
  {"NumberLit", "FloatLit", "BoolLit", "Ident", "MemberAccess", "IndexAccess", "BinaryExpr",
   "UnaryExpr", "TernaryExpr", "FnCall", "SizeOfExpr", "AddressOfExpr", "CastExpr",
   "DollarExpr", "WhileExpr", "ArrayInitExpr", "StringLit"} \cup Numbers \cup Chars
StatementKinds ==
  {"VarDecl", "IfStmt", "WhileStmt", "ForStmt", "MatchStmt", "ReturnStmt", "BreakStmt",
   "ContinueStmt", "AssignStmt", "ExprStmt", "PaddingStmt", "TryCatchStmt", "noop"}
ItemKinds ==
  {"Pragma", "Include", "Define", "IfDef", "Import", "StructDef", "UnionDef", "EnumDef",
   "BitfieldDef", "UsingDef", "FnDef", "NamespaceDef", "__expr__"} \cup StatementKinds

Symbols == {"*", "/", "%", "+", "-", "<", ">", "=", "!", "&", "^", "|", "~"}

\* Fields the later stages read without looking whether they are there.
Needs ==
  [BinaryExpr |-> <<ExprKinds, Symbols, ExprKinds>>, UnaryExpr |-> <<Symbols, ExprKinds>>,
   TernaryExpr |-> <<ExprKinds, ExprKinds, ExprKinds>>, IndexAccess |-> <<ExprKinds, ExprKinds>>,
   MemberAccess |-> <<ExprKinds, Words>>, FnCall |-> <<ExprKinds>>,
   CastExpr |-> <<TypeKinds, ExprKinds>>, SizeOfExpr |-> <<ExprKinds>>,
   EndianType |-> <<{"le", "be"}, TypeKinds>>, VarDecl |-> <<TypeKinds, Words>>,
   AssignStmt |-> <<ExprKinds, Symbols, ExprKinds>>, ExprStmt |-> <<ExprKinds>>,
   PaddingStmt |-> <<ExprKinds>>, IfStmt |-> <<ExprKinds, {"then"}>>,
   WhileStmt |-> <<ExprKinds, {"body"}>>, StructDef |-> <<Words>>, UnionDef |-> <<Words>>,
   BitfieldDef |-> <<Words>>, FnDef |-> <<Words>>, FnParam |-> <<TypeKinds \cup {"ref"}>>,
   EnumMember |-> <<Words>>, NamespaceDef |-> <<Words>>, bits |-> <<ExprKinds>>]

Bodies == {"body", "then", "else", "catch"}

RECURSIVE WellFormed(_)
WellFormed(node) ==
  LET kind == node[1]
      children == Tail(node) IN
  Len(node) = 1 \/
    /\ kind \in DOMAIN Needs =>
         /\ Len(children) >= Len(Needs[kind])
         /\ \A i \in DOMAIN Needs[kind] : children[i][1] \in Needs[kind][i]
    /\ kind \in Bodies => \A i \in DOMAIN children : children[i][1] \in StatementKinds
    /\ kind \notin Symbols => \A i \in DOMAIN children : WellFormed(children[i])

\* Whatever was left out of the text, every item is a tree the resolver can walk: no
\* operand, type or name it relies on is missing, and bodies hold statements.
Walkable == \A i \in DOMAIN items : items[i][1] \in ItemKinds /\ WellFormed(items[i])

\* Brackets of the three kinds that are always brackets are closed in turn.
Partner == (")" :> "(") @@ ("}" :> "{") @@ ("]" :> "[")
Opens(stack, atom) ==
  CASE atom \in {"(", "{", "["} -> Append(stack, atom)
    [] atom \in DOMAIN Partner /\ stack # << >> /\ Last(stack) = Partner[atom] -> Front(stack)
    [] atom \in DOMAIN Partner -> Append(stack, atom)
    [] OTHER -> stack
Balanced(t) == FoldLeft(Opens, << >>, t) = << >>

First == INSTANCE PatternGrammar WITH text <- parts[1]
Second == INSTANCE PatternGrammar WITH text <- parts[2]

\* The recoveries stay inside the item they are in: what follows a damaged item is
\* parsed as if it stood alone, and the damaged one as if nothing followed, as long
\* as its brackets match and it has no directive.
Composes ==
  /\ status = "parsed" /\ Len(parts) = 2 /\ Balanced(parts[1])
  /\ "#" \notin ToSet(parts[1])
  => items = First!Items \o Second!Items

\* The levels of C, weakest first.
Levels == <<{<<"|", "|">>}, {<<"&", "&">>}, {<<"|">>}, {<<"^">>}, {<<"&">>},
            {<<"=", "=">>, <<"!", "=">>}, {<<"<", "=">>, <<">", "=">>, <<"<">>, <<">">>},
            {<<"<", "<">>, <<">", ">">>}, {<<"+">>, <<"-">>}, {<<"*">>, <<"/">>, <<"%">>}>>
Level(op) == CHOOSE k \in DOMAIN Levels : op \in Levels[k]

\* The tree of operand, operator, ..., operand: split at the last of the weakest.
RECURSIVE TreeOf(_)
TreeOf(s) ==
  IF Len(s) = 1 THEN <<"Ident", s[1]>>
  ELSE LET ops == {k \in DOMAIN s : k % 2 = 0}
           k == CHOOSE i \in ops : \A j \in ops :
                  Level(s[j]) > Level(s[i]) \/ (Level(s[j]) = Level(s[i]) /\ j <= i)
       IN <<"BinaryExpr", TreeOf(SubSeq(s, 1, k - 1)), s[k], TreeOf(SubSeq(s, k + 1, Len(s)))>>

\* The ladder of functions from logicalOr to mulExpr, in which an operator must not
\* be taken for the first half of a longer one, gives every expression of binary
\* operators the tree its precedences and left associativity call for.
TreeByPrecedence ==
  Len(parts) > 2 =>
    /\ status \notin {"failed", "stuck"}
    /\ status = "parsed" => Last(Last(items)) = <<"init", TreeOf(SubSeq(parts, 2, Len(parts) - 1))>>

=============================================================================
