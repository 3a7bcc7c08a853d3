--------------------------- MODULE PatternGrammar ---------------------------
(***************************************************************************)
(* The functions of the pattern parser (src/hexpat/parser/parser.go).  A   *)
(* definition says what the function consumes, where it rolls the cursor   *)
(* back, which errors it passes on and which it swallows; the tree it      *)
(* builds keeps the fields of the AST node of ast.go.  Functions that call *)
(* one another do so through g, which is the whole parser again, one call  *)
(* deeper.                                                                 *)
(***************************************************************************)
EXTENDS ParseForms

CONSTANTS Names,      \* identifiers that are not keywords and have no _ in front: a match
                      \* pattern takes that for its wildcard and goes on inside the word
          Numbers,    \* runs of digits
          Chars,      \* character literals
          Depth       \* bound: how deep calls of the functions below may nest

Keywords ==
  {"struct", "union", "enum", "bitfield", "using", "fn", "namespace", "if",
   "else", "while", "for", "match", "return", "break", "continue", "try",
   "catch", "true", "false", "padding", "sizeof", "addressof", "le", "be",
   "in", "out", "ref", "auto", "this", "parent", "null", "import"}

BuiltinTypes == {"u8", "u16", "u32", "s8", "bool", "char", "str", "auto"}

\* Words a function asks for by name without their being keywords.
OtherWords ==
  {"const", "from", "as", "signed", "unsigned", "_", "pragma", "include",
   "define", "ifdef", "ifndef", "endif", "error"}

Words == Names \cup Keywords \cup BuiltinTypes \cup OtherWords

Punctuation ==
  {"(", ")", "[", "]", "{", "}", "<", ">", ";", ",", ":", ".", "=", "+", "-", "*", "/",
   "%", "&", "|", "^", "!", "~", "?", "@", "#", "$", Quote}

\* The lexer tells names, numbers and character literals from everything else.
ASSUME LexicalAssumption ==
  /\ (Names \cup Numbers \cup Chars) \cap
       (Keywords \cup BuiltinTypes \cup OtherWords \cup Punctuation \cup Blank \cup {EOF}) = {}
  /\ Numbers \cap (Names \cup Chars) = {} /\ Names \cap Chars = {}
ASSUME DepthAssumption == Depth \in Nat

\* The functions that call one another, by name.
Functions_ ==
  {"type", "expr", "unary", "primary", "ifdef_rest", "struct", "union", "enum", "bitfield",
   "bitfield_body", "using", "fn", "namespace", "attributes", "body", "statement", "if",
   "while", "for", "match", "return", "padding", "try", "preprocessor", "import", "item"}

-----------------------------------------------------------------------------
(* Tokens.  identifier() takes any word, keywords included.                *)

Name == Class(Words)
RawName == RawClass(Words)
Integer == Class(Numbers)
\* floatLit: a dot among digits, with no blank between them and a digit on one side.
Float ==
  Try(Node("FloatLit",
    ((RawClass(Numbers) && Raw(<<".">>) && Opt(RawClass(Numbers)))
     || (Raw(<<".">>) && RawClass(Numbers))) && Blanks))
String == Try(Node("StringLit", Raw(<<Quote>>) && ScanKept({Quote}) && T(Quote)))
Char == Class(Chars)

Comma == Opt(T(","))
Semicolons == Many(T(";"))
CommaOrSemicolon == Opt(T(",") || T(";"))
\* "= but not ==", "[ but not [[", and the like.
Only(atom) == LitX(<<atom>>, {atom})
Kept(atoms) == Lit(atoms) && Give(atoms)
\* Mutant: an element that is none does not end the loop.
MutList(close, elem) == Many(Not(Stop({close})) && Opt(elem) && Comma)
\* for { if at the end or at close, break; elem, or break; maybe a comma }
List(close, elem) == Many(Not(Stop({close})) && elem && Comma)
\* Maybe a list in round brackets whose closing bracket may be missing.
Bracketed(elem) == If(T("("), T("(") && List(")", elem) && Opt(T(")")), Empty)

-----------------------------------------------------------------------------
(* Types. *)

\* The loop ends at ">" only; what is no type is kept as raw text.
TemplateArg(g) == (g["type"] || (ScanKept({",", ">"}) && Blanks)) && Comma
TemplateArgs(g) ==
  If(T("<"), T("<") && Node("args", Until(T(">"), TemplateArg(g))), Empty)

QualifiedName ==
  Name && Until(Not(Lit(<<":", ":">>)), Lit(<<":", ":">>) && Name)
NamedType(g) == Try(Node("NamedType", QualifiedName && TemplateArgs(g)))
Type(g) ==
  If(Class({"le", "be"}), Try(Node("EndianType", Name && g["type"])),
  If(Class(BuiltinTypes), Node("BuiltinType", Name), NamedType(g)))

-----------------------------------------------------------------------------
(* Expressions. *)

\* matchOp: an operator is not taken for the start of a longer one.
MatchOp(op) ==
  LitX(op, CASE op = <<"|">> -> {"|"}
             [] op = <<"&">> -> {"&"}
             [] op = <<"<">> -> {"<", "="}
             [] op = <<">">> -> {">", "="}
             [] OTHER -> {})
  && Give(op)

\* Mutant: an operator without a right operand stays.
MutRound(op, operand) == Try(Give("BinaryExpr") && MatchOp(op) && Opt(operand))
\* binaryExprParser: an operator without a right operand is given back.
Round(op, operand) == Try(Give("BinaryExpr") && MatchOp(op) && operand)

\* An operand, then rounds of one of these operators, tried in turn, and another.
Left1(e, op) == Grow(e, Round(op, e))
Left2(e, op1, op2) == Grow(e, Round(op1, e) || Round(op2, e))
Left3(e, op1, op2, op3) == Grow(e, Round(op1, e) || Round(op2, e) || Round(op3, e))
Left4(e, op1, op2, op3, op4) ==
  Grow(e, Round(op1, e) || Round(op2, e) || Round(op3, e) || Round(op4, e))

Mul(g) == Left3(g["unary"], <<"*">>, <<"/">>, <<"%">>)
Add(g) == Left2(Mul(g), <<"+">>, <<"-">>)
Shift(g) == Left2(Add(g), <<"<", "<">>, <<">", ">">>)
Comparison(g) == Left4(Shift(g), <<"<", "=">>, <<">", "=">>, <<"<">>, <<">">>)
Equality(g) == Left2(Comparison(g), <<"=", "=">>, <<"!", "=">>)
\* Mutant: ^ binds like &.
MutBitwiseAnd(g) == Left2(Equality(g), <<"&">>, <<"^">>)
BitwiseAnd(g) == Left1(Equality(g), <<"&">>)
BitwiseXor(g) == Left1(BitwiseAnd(g), <<"^">>)
BitwiseOr(g) == Left1(BitwiseXor(g), <<"|">>)
LogicalAnd(g) == Left1(BitwiseOr(g), <<"&", "&">>)
LogicalOr(g) == Left1(LogicalAnd(g), <<"|", "|">>)

\* Without a ":" the condition alone is returned, the second part is dropped.
TernaryTail(g) ==
  LET Second == T("?") && g["expr"] IN
  If(Second && T(":"), Give("TernaryExpr") && Second && T(":") && g["expr"],
                     If(T("?"), Drop(Second), Empty))
Ternary(g) == Try(Grow1(LogicalOr(g), TernaryTail(g)))

\* Call arguments: the loop ends without a comma.
CallArgs(g) ==
  T("(") && Opt(Node("args", Not(T(")")) && g["expr"] && Many(T(",") && g["expr"])))
         && Opt(T(")"))

\* postfixExpr: what may follow, a member, a member called, an element.
Member(g) ==
  If(Only("."), T(".") && Give("MemberAccess") && Name && If(T("("), CallArgs(g), Empty),
  If(Only("["), T("[") && Give("IndexAccess") && g["expr"] && Opt(T("]")),
     Fail))

\* A name, with :: and names after it (exprName), and its call; member is Member(g).
NameExpr(g, name, member) ==
  Grow(Grow1(Node("Ident", name && Many(Lit(<<":", ":">>) && Name)),
             If(T("("), Give("FnCall") && CallArgs(g), Empty)),
       member)

ArrayInit(g) == Node("ArrayInitExpr", T("{") && List("}", g["expr"]) && Opt(T("}")))

Paren(g) == Try(T("(") && g["expr"] && Opt(T(")")))

\* sizeof, addressof and while with a bracket; without one they are names.
Operation(g, kind) == Try(Node(kind, Drop(Name) && Paren(g)))
OrName(name, operation) == If(Name && T("("), operation, name)

\* be or le: a cast; a type that is passed over; or, when no type follows, a
\* name, for which the cursor is back in front of the word.
EndianCast(g, member) ==
  LET Typed == Name && g["type"] IN
  If(Typed,
     Grow(Try(Node("CastExpr", Node("EndianType", Typed) && T("(") && g["expr"]
                               && Opt(T(")"))))
          || (Node("Ident", Name) && Drop(g["type"]) && Opt(T("("))),
          member),
     NameExpr(g, Hold(Name), member))

PrimaryAt(g, w, name, member) ==
  CASE w = "sizeof" -> OrName(name, Grow(Operation(g, "SizeOfExpr"), member))
    [] w = "addressof" -> OrName(name, Grow(Operation(g, "AddressOfExpr"), member))
    [] w = "while" -> OrName(name, Operation(g, "WhileExpr"))
    [] w \in {"be", "le"} -> EndianCast(g, member)
    [] w \in {"true", "false"} -> Grow(Node("BoolLit", Name), member)
    [] w \in {"this", "parent"} -> Grow(Node("Ident", Name), member)
    [] w = "null" -> Grow(Node("NumberLit", Name), member)
    [] w = "{" -> ArrayInit(g)
    [] w = "$" -> Grow(Node("DollarExpr", T("$")), member)
    [] w = "(" -> Grow(Paren(g), member)
    [] OTHER -> If(Integer, Grow(Float || Integer, member), If(Name, name, Grow(String || Char, member)))
Primary(g) ==
  [p \in Positions |-> PrimaryAt(g, At(p), NameExpr(g, Name, Member(g)), Member(g))[p]]

\* A minus and digits that follow at once are one literal.
Negative(g) ==
  Grow(Try(Node("NumberLit", Raw(<<"-">>) && Float))
       || Try(Node("NumberLit", Raw(<<"-">>) && Integer)),
       Member(g))
Unary(g) ==
  LET Prefix(c) == Try(Node("UnaryExpr", Kept(<<c>>) && g["unary"])) IN
  If(LitX(<<"!">>, {"="}), Prefix("!"),
  If(T("~"), Prefix("~"),
  If(T("-"), Negative(g) || Prefix("-"),
     g["primary"])))

-----------------------------------------------------------------------------
(* Attributes, template parameters, conditional blocks.                    *)

\* parseAttributes: [[name(args), ...]] any number of times.  A name that is
\* none ends the inner loop; an argument that is none skips to ")".
AttrName == RawName && Many(Raw(<<":", ":">>) && Opt(RawName)) && Blanks
Attribute(g) ==
  Node("Attribute", AttrName && Bracketed(g["expr"] || (ScanTo({")"}) && Fail)))
Attributes(g) ==
  Many(Lit(<<"[", "[">>)
       && Many(Not(Stop({})) && Not(Lit(<<"]", "]">>)) && Attribute(g) && Comma)
       && Opt(Lit(<<"]", "]">>)))

TemplateParams ==
  If(T("<"), T("<") && Node("params", List(">", Opt(T("auto")) && Name)) && Opt(T(">")), Empty)

\* skipIfDefBlocks: everything from an #ifdef to its #endif or the end.
Hash(words) == Try(Raw(<<"#">>) && Class(words))
IfDefs == Drop(Hash({"ifdef", "ifndef"}))
IfDefEnd == Stop({}) || Drop(Hash({"endif"}))
IfDefRest(g) == Until(IfDefEnd, (IfDefs && g["ifdef_rest"]) || AnyAtom)
SkipIfDefBlocks(g) == Many(IfDefs && g["ifdef_rest"] && Blanks)

-----------------------------------------------------------------------------
(* Definitions.                                                            *)

AttrsEnd(g) == g["attributes"] && Semicolons
Ending(g) == Opt(T("}")) && AttrsEnd(g)

Struct(g) ==
  Try(Node("StructDef",
    T("struct") && Name && TemplateParams && Opt(T(":") && Node("parent", Name)) && T("{")
    && Node("body", g["body"]) && Opt(T("}")) && SkipIfDefBlocks(g) && AttrsEnd(g)))

Union(g) ==
  Try(Node("UnionDef", T("union") && Name && TemplateParams && T("{")
                       && Node("body", g["body"]) && Ending(g)))

\* value ... end
RangeEnd(g) ==
  If(Lit(<<".", ".", ".">>), Lit(<<".", ".", ".">>) && Opt(Node("to", g["expr"])), Empty)

EnumMember(g) == Node("EnumMember", Name && Opt(T("=") && Opt(g["expr"]) && RangeEnd(g)))
Enum(g) ==
  Try(Node("EnumDef", T("enum") && Opt(Name) && Opt(T(":") && Opt(g["type"])) && T("{")
                      && List("}", EnumMember(g)) && Ending(g)))

Bitfield(g) ==
  Try(Node("BitfieldDef", T("bitfield") && Name && TemplateParams && T("{")
                          && g["bitfield_body"] && Ending(g)))

\* Match patterns: "_", or an expression and maybe the end of a range.
Patterns(g) ==
  List(")", Node("MatchPattern", If(T("_"), Drop(Name), g["expr"] && RangeEnd(g))))
\* The arms of a match: a round bracket starts one, anything else ends them.
Arms(g, body) ==
  Many(Not(Stop({"}"})) && T("(")
       && Node("MatchArm", Patterns(g) && Opt(T(")")) && Opt(T(":")) && body))
MatchWith(g, body) ==
  Try(Node("MatchStmt", T("match") && Bracketed(g["expr"]) && T("{") && Arms(g, body)
                        && Opt(T("}"))))

\* Inside a bitfield an arm without braces is passed over to its semicolon.
BitfieldMatch(g) ==
  MatchWith(g, If(T("{"), T("{") && Drop(g["bitfield_body"]) && Opt(T("}")),
                  ScanTo({";", "}"}) && Semicolons))

\* name : bits, name = value
Bits(g) == Only(":") && Node("bits", g["expr"])
Value(g) == Only("=") && Node("bits", g["expr"])
Placeholder(kind, e) == Node(kind, Drop(e))

TypedEntry(g) ==
  Node("BitfieldEntry", g["type"] && Name && If(Only("="), Value(g), If(Only(":"), Bits(g), Fail))
                        && AttrsEnd(g))
StandardEntry(g) ==
  If(Name,
     Node("BitfieldEntry", Name && If(Only(":"), Opt(Bits(g)), Opt(Value(g))) && AttrsEnd(g)),
     ScanTo({";", "}"}) && Semicolons)
PlainEntry(g) ==
  Drop(Opt(Class({"signed", "bool", "unsigned"})))
  && (Try(TypedEntry(g))
      || Try(Placeholder("__expr__", g["expr"]) && T(";") && Semicolons)
      || StandardEntry(g))
PaddingEntry(g) ==
  Node("BitfieldEntry", T("padding") && T(":") && Node("bits", g["expr"]) && AttrsEnd(g))
BitfieldEntryAt(g, w, plain) ==
  CASE w = ";" -> T(";")
    [] w = "if" -> Try(Placeholder("__if__", g["if"])) || plain
    [] w = "match" -> Try(Placeholder("__match__", BitfieldMatch(g))) || plain
    [] w = "padding" -> Try(PaddingEntry(g)) || Try(g["padding"]) || plain
    [] OTHER -> plain
BitfieldEntry(g) == [p \in Positions |-> BitfieldEntryAt(g, At(p), PlainEntry(g))[p]]
BitfieldBody(g) == Many(Not(Stop({"}"})) && BitfieldEntry(g))

Using(g) ==
  Try(Node("UsingDef", T("using") && Name && TemplateParams
                       && If(T(";"), T(";"), T("=") && g["type"] && AttrsEnd(g))))

\* A parameter whose type is none ends the list.
Param(g) ==
  Node("FnParam", Opt(Kept(<<"ref">>)) && g["type"] && Opt(Name)
                  && If(Only("="), T("=") && Opt(g["expr"]), Empty))
Fn(g) ==
  Try(Node("FnDef", T("fn") && Name && Bracketed(Param(g)) && T("{")
                    && Node("body", g["body"]) && Opt(T("}")) && Semicolons))

\* An item that is none ends the namespace; no semicolons are skipped in it.
Namespace(g) ==
  Try(Node("NamespaceDef", Opt(T("auto")) && T("namespace") && Name && T("{")
                           && Many(Not(Stop({"}"})) && g["item"]) && Opt(T("}"))))

-----------------------------------------------------------------------------
(* Statements.                                                             *)

\* parseBlock and parseMatchArmBody.
Block(g) == If(T("{"), T("{") && g["body"] && Opt(T("}")), Opt(g["statement"]))

\* parenExpr; the closing bracket may be missing.
ParenExpr(g) == If(T("("), T("(") && g["expr"] && Opt(T(")")), g["expr"])

\* Type name [size] : pointer type = value @ place [[attributes]] ;
ArraySize(g) ==
  If(Only("["),
     T("[") && Node("array", If(T("]"), Empty, Opt(g["expr"]))) && Opt(T("]")),
     Empty)
Declarator(g) ==
  If(T("*"),
     T("*") && Name && ArraySize(g) && Node("pointer", Opt(T(":") && Opt(g["type"]))),
     Name && ArraySize(g))
Declared(type, g) ==
  Try(Node("VarDecl", type && Declarator(g)
                      && Opt(Only("=") && Opt(Node("init", g["expr"])))
                      && Opt(T("@") && Opt(Node("at", g["expr"]))) && AttrsEnd(g)))
VarDecl(g) == Declared(g["type"], g)

\* An assignment after its target: the operators in turn; one whose value is
\* none stays consumed.
Assign(g, op) == Give("AssignStmt") && op && g["expr"] && Semicolons
ItemAssign(g) ==
  Assign(g, Only("=") && Give(<<"=">>)) || Assign(g, Kept(<<"+", "=">>))
  || Assign(g, Kept(<<"-", "=">>)) || Assign(g, Kept(<<"*", "=">>))
  || Assign(g, Kept(<<"/", "=">>))
StatementAssign(g) ==
  ItemAssign(g) || Assign(g, Kept(<<"%", "=">>)) || Assign(g, Kept(<<"<", "<", "=">>))
  || Assign(g, Kept(<<">", ">", "=">>)) || Assign(g, Kept(<<"&", "=">>))
  || Assign(g, Kept(<<"|", "=">>)) || Assign(g, Kept(<<"^", "=">>))

\* varDeclOrExprStmt: at the top level an expression leaves a placeholder.
VarDeclOrExpr(g) ==
  VarDecl(g) || Placeholder("__expr__", Try(g["expr"] && (ItemAssign(g) || Semicolons)))

DollarAssign(g) ==
  LET Op(atoms) == Kept(atoms) && g["expr"] IN
  Try(Node("AssignStmt", Node("DollarExpr", T("$"))
    && If(Lit(<<"+", "=">>), Op(<<"+", "=">>),
       If(Lit(<<"-", "=">>), Op(<<"-", "=">>), Op(<<"=">>))) && Semicolons))

Stated(expr, g) == Grow1(expr, StatementAssign(g) || (Give("ExprStmt") && Semicolons))
ExprStmt(g) == Stated(g["expr"], g)

\* The only statement that takes nothing is a be or le that is followed by no type.
\* Its first letter is dropped, and what is left of the word is a name like any other.
With(g, f, p, e) ==
  [h \in Functions_ |-> [q \in Positions |-> IF h = f /\ q = p THEN e[q] ELSE g[h][q]]]
NamedExpr(g) ==
  [p \in Positions |-> Ternary(With(g, "unary", p, NameExpr(g, Name, Member(g))))[p]]
Clipped(g) == Declared(NamedType(g), g) || Stated(NamedExpr(g), g)

\* Mutant: recovery looks for a semicolon only.
MutBody(g) ==
  LET Recover == ScanTo({";"}) && Opt(T(";")) IN
  Many(Not(Stop({"}"})) && Progress(g["statement"], Clipped(g) || Recover, Recover))

\* parseBody: a statement that is none is passed over to its semicolon or to a
\* closing brace.
Body(g) ==
  LET Recover == ScanTo({";", "}"}) && Opt(T(";")) IN
  Many(Not(Stop({"}"})) && Progress(g["statement"], Clipped(g) || Recover, Recover))

\* A definition inside a body is consumed and leaves an empty statement; one
\* that cannot be parsed is tried as a declaration, plain being any other statement.
Inner(definition, plain) == Try(Placeholder("noop", definition)) || plain
Simple(kind, word) == Node(kind, T(word) && Semicolons)
StatementAt(g, w, expr, plain) ==
  CASE w \in {"struct", "union", "enum", "fn", "using", "namespace", "bitfield"} ->
         Inner(g[w], plain)
    [] w = "#" -> Inner(g["preprocessor"], plain)
    [] w \in {"if", "while", "for", "match", "return", "padding", "try"} -> g[w]
    [] w = "break" -> Simple("BreakStmt", "break")
    [] w = "continue" -> Simple("ContinueStmt", "continue")
    [] w = "const" -> T("const") && plain
    [] w = "$" -> DollarAssign(g) || expr
    [] OTHER -> plain
Statement(g) ==
  [p \in Positions |-> StatementAt(g, At(p), ExprStmt(g), VarDecl(g) || ExprStmt(g))[p]]

\* An else-if that cannot be parsed is left out; the cursor stays before it.
Else(g) ==
  If(T("else"), T("else") && Node("else", If(T("if"), Opt(g["if"]), Block(g))), Empty)
\* Mutant: no Rollback after a missing condition.
MutIfStmt(g) == Node("IfStmt", T("if") && ParenExpr(g) && Node("then", Block(g)) && Else(g))
IfStmt(g) == Try(Node("IfStmt", T("if") && ParenExpr(g) && Node("then", Block(g)) && Else(g)))
WhileStmt(g) == Try(Node("WhileStmt", T("while") && ParenExpr(g) && Node("body", Block(g))))

\* Errors in the three parts of a for are not looked at.
ForStmt(g) ==
  LET Part(e) == Node("part", Opt(e)) && CommaOrSemicolon IN
  Try(Node("ForStmt", T("for") && T("(") && Part(g["statement"]) && Part(g["expr"])
                      && Node("part", Opt(g["statement"])) && Opt(T(")"))
                      && Node("body", Block(g))))
MatchStmt(g) == MatchWith(g, Block(g))
ReturnStmt(g) ==
  Node("ReturnStmt", T("return") && If(T(";"), Empty, Opt(g["expr"])) && Semicolons)
Padding(g) ==
  Try(Node("PaddingStmt", T("padding") && T("[") && g["expr"] && Opt(T("]")) && Semicolons))
TryCatch(g) ==
  Node("TryCatchStmt", T("try") && Node("body", Block(g))
                       && Opt(T("catch") && Node("catch", Block(g))))

-----------------------------------------------------------------------------
(* Items.                                                                  *)

\* parsePragma: blanks are skipped after the key, the line end among them.
Pragma == Node("Pragma", T("pragma") && Opt(Name) && ScanKept({NewLine}) && Blanks)
\* A path that is not in angle brackets goes on to the next quote, whatever it starts with.
Include ==
  Node("Include", T("include")
    && If(T("<"), T("<") && ScanKept({">"}) && Opt(T(">")),
                  AnyAtom && ScanKept({Quote}) && Opt(T(Quote))))
Define == Node("Define", T("define") && RawName && ScanKept({NewLine}) && Blanks)
IfDef(g) ==
  Node("IfDef", Class({"ifdef", "ifndef"}) && Name
                && Until(IfDefEnd, Placeholder("else", Hash({"else"})) || g["item"]))

\* #endif and #else are consumed and give no item.
DirectiveAt(g, w) ==
  CASE w = "pragma" -> Pragma
    [] w = "include" -> Include
    [] w = "define" -> Define
    [] w \in {"ifdef", "ifndef"} -> IfDef(g)
    [] w \in {"endif", "else"} -> Drop(Name)
    [] OTHER -> Drop(RawName) && ScanTo({NewLine}) && Blanks
Directive(g) == [p \in Positions |-> DirectiveAt(g, At(p))[p]]
Preprocessor(g) == Try(Raw(<<"#">>) && Not(Not(Name))) && Directive(g)

Import ==
  Try(Node("Import", T("import")
    && If(T("*"), T("*") && T("from") && (String || Name),
                  Name && Many(T(".") && (String || Name)))
    && Opt(T("as") && Opt(Node("alias", Name))) && Semicolons))

ItemAt(g, w, plain) ==
  CASE w \in {"import", "struct", "union", "enum", "bitfield", "using", "fn",
              "namespace", "if", "while", "for", "match"} -> g[w]
    [] w = "#" -> g["preprocessor"]
    [] w = "const" -> T("const") && plain
    [] w = "auto" -> If(Name && T("namespace"), g["namespace"], plain)
    [] OTHER -> plain
Item(g) == [p \in Positions |-> ItemAt(g, At(p), VarDeclOrExpr(g))[p]]

-----------------------------------------------------------------------------
(* The whole parser.                                                       *)

Grammar(g) ==
  [f \in Functions_ |->
     CASE f = "type" -> Type(g)
       [] f = "expr" -> Ternary(g)
       [] f = "unary" -> Unary(g)
       [] f = "primary" -> Primary(g)
       [] f = "ifdef_rest" -> IfDefRest(g)
       [] f = "struct" -> Struct(g)
       [] f = "union" -> Union(g)
       [] f = "enum" -> Enum(g)
       [] f = "bitfield" -> Bitfield(g)
       [] f = "bitfield_body" -> BitfieldBody(g)
       [] f = "using" -> Using(g)
       [] f = "fn" -> Fn(g)
       [] f = "namespace" -> Namespace(g)
       [] f = "attributes" -> Attributes(g)
       [] f = "body" -> Body(g)
       [] f = "statement" -> Statement(g)
       [] f = "if" -> IfStmt(g)
       [] f = "while" -> WhileStmt(g)
       [] f = "for" -> ForStmt(g)
       [] f = "match" -> MatchStmt(g)
       [] f = "return" -> ReturnStmt(g)
       [] f = "padding" -> Padding(g)
       [] f = "try" -> TryCatch(g)
       [] f = "preprocessor" -> Preprocessor(g)
       [] f = "import" -> Import
       [] f = "item" -> Item(g)]

\* Calls that nest deeper than n do not come back.
TooDeep == [f \in Functions_ |-> [p \in Positions |-> Hang(p)]]
Nested == LET nested[n \in 0 .. Depth] == IF n = 0 THEN TooDeep ELSE Grammar(nested[n - 1])
          IN  nested
Parser == Nested[Depth]

\* fileParser, as one more function: stray semicolons, and an item at a time.
File == Blanks && Until(Stop({}), T(";") || (Parser["item"] && Blanks))
Built(r) == IF r.st = "ok" THEN r.out ELSE << >>
Items == Built(File[1])

=============================================================================
