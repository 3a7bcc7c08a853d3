------------------------------ MODULE Resolver ------------------------------
(***************************************************************************)
(* Struct resolution of hexpat/resolve: resolveStructFields with its lazy  *)
(* re-entry through resolveType and through inheritance, then topoSort.    *)
(* The Go call stack is explicit, because the calls communicate through    *)
(* the half-built StructTypes of the resolved map.                         *)
(***************************************************************************)
EXTENDS Integers, FiniteSets, SequencesExt

CONSTANTS
  Names,      \* struct names
  Programs,   \* the inputs: [order, def], see Defs
  MaxDepth    \* bound: deeper calls stand for the exhausted goroutine stack

None == ""
Missing == "?"     \* a parent that is no struct
Single == -1       \* len of a declaration that is no array
Expr == -2         \* an array length or @ offset that is no literal
Here == -3         \* no @ offset

ASSUME NamesAssumption == Names # {} /\ None \notin Names /\ Missing \notin Names
ASSUME FiniteAssumption == IsFiniteSet(Names)
ASSUME DepthAssumption == MaxDepth \in Nat \ {0}

(***************************************************************************)
(* The part of the AST that matters.  A declaration has a type (`ref`, or a*)
(* builtin, enum or bitfield of `size` bytes), a pointer width or 0, an    *)
(* array length and an @ offset.  It is `bad` when resolveType refuses the *)
(* type, or exprToGo the array length; `size` is then estimateTypeSize.    *)
(***************************************************************************)
Decls == [is : {"var"}, ref : Names \cup {None}, size : Nat, ptr : Nat,
          len : Nat \cup {Single, Expr}, at : Nat \cup {Here, Expr}, bad : BOOLEAN]
Pads == [is : {"pad"}, size : Nat]
\* cond: "ok"; "bad" when exprToGo refuses the condition; "badElse" when it
\* refuses that of an else-if.  decls: those of all branches, in order.
Ifs == [is : {"if"}, cond : {"ok", "bad", "badElse"}, decls : Seq(Decls)]
Defs == [union : BOOLEAN, template : BOOLEAN, parent : Names \cup {None, Missing},
         body : Seq(Decls \cup Pads \cup Ifs)]

\* Resolve registers the names of structOrder, no others.
ASSUME ProgramsAssumption ==
  /\ Programs \subseteq [order : Seq(Names), def : [Names -> Defs]]
  /\ \A p \in Programs : ToSet(p.order) = Names

VARIABLES
  prog,       \* the parsed file
  resolved,   \* resolver.resolved: the StructType of each name
  stack,      \* active calls of resolveStructFields, the newest last
  next,       \* position of the main loop in structOrder
  phase,      \* "fields", "sort", "done", "failed", "overflow"
  dfs,        \* active calls of topoSort's visit
  visited,    \* topoSort's visited
  sorted      \* topoSort's result

vars == <<prog, resolved, stack, next, phase, dfs, visited, sorted>>
sorting == <<dfs, visited, sorted>>

Init == /\ prog \in Programs
        /\ resolved = [n \in Names |-> [members |-> << >>, size |-> 0, inline |-> 0]]
        /\ stack = << >> /\ next = 1 /\ phase = "fields"
        /\ dfs = << >> /\ visited = {} /\ sorted = << >>

\* Fields(): the fields of a member list, those inside conditionals included.
FieldsOf(members) ==
  FlattenSeq([k \in DOMAIN members |->
                CASE members[k].is = "field" -> <<members[k]>>
                  [] members[k].is = "cond"  -> members[k].fields
                  [] members[k].is = "pad"   -> << >>])

\* HasDynamicFields()
HasDynamicFields(members) ==
  \/ \E k \in DOMAIN members : members[k].is = "cond"
  \/ \E f \in ToSet(FieldsOf(members)) : f.len = Expr \/ f.remote

(***************************************************************************)
(* Calls and returns.                                                      *)
(***************************************************************************)
Running == phase = "fields" /\ stack # << >>
frame == stack[Len(stack)]
def == prog.def[frame.name]
stmt == def.body[frame.at]
self == resolved[frame.name]

\* at = 0 is the prologue, k the k-th statement; sub is the position inside an
\* `if` and acc its fields; called says that the lazy call of the current
\* declaration (or of the prologue) has been made.
NewFrame(n) == [name |-> n, at |-> 0, sub |-> 1, acc |-> << >>, called |-> FALSE,
                offset |-> 0]

SetFrame(f) == stack' = [stack EXCEPT ![Len(stack)] = f]

CallFrom(n) ==
  IF Len(stack) < MaxDepth
  THEN /\ stack' = Append([stack EXCEPT ![Len(stack)].called = TRUE], NewFrame(n))
       /\ UNCHANGED phase
  ELSE phase' = "overflow" /\ UNCHANGED stack

\* Mutant: a struct stays the next one until it has members.
MutMainLoop ==
  /\ phase = "fields" /\ stack = << >> /\ next <= Len(prog.order)
  /\ stack' = <<NewFrame(prog.order[next])>>
  /\ next' = IF resolved[prog.order[next]].members = << >> THEN next ELSE next + 1
  /\ UNCHANGED <<prog, resolved, phase, sorting>>

MainLoop == /\ phase = "fields" /\ stack = << >> /\ next <= Len(prog.order)
            /\ stack' = <<NewFrame(prog.order[next])>>
            /\ next' = next + 1
            /\ UNCHANGED <<prog, resolved, phase, sorting>>

(***************************************************************************)
(* The prologue: the guard, inheritance, templates.                        *)
(***************************************************************************)
InPrologue == Running /\ frame.at = 0

\* Mutant: no guard.
MutGuarded == FALSE

\* "Guard against double resolution": only an empty member list is filled.
Guarded == Len(self.members) > 0 /\ ~frame.called

AlreadyResolved == /\ InPrologue /\ Guarded
                   /\ stack' = Front(stack)
                   /\ UNCHANGED <<prog, resolved, next, phase, sorting>>

\* The error reaches the callers that were resolving a parent; a caller in
\* resolveType drops it, the main loop gives up.
UnknownParent ==
  /\ InPrologue /\ ~Guarded /\ def.parent = Missing
  /\ LET callers == {k \in 1 .. Len(stack) : \E m \in k .. Len(stack) : stack[m].at # 0}
     IN  IF callers = {} THEN phase' = "failed" /\ stack' = << >>
         ELSE /\ stack' = SubSeq(stack, 1, CHOOSE k \in callers : \A m \in callers : m <= k)
              /\ UNCHANGED phase
  /\ UNCHANGED <<prog, resolved, next, sorting>>

ParentIsEmpty == /\ FieldsOf(resolved[def.parent].members) = << >>
                 /\ prog.def[def.parent].body # << >>

CallParent == /\ InPrologue /\ ~Guarded
              /\ def.parent \in Names /\ ParentIsEmpty /\ ~frame.called
              /\ CallFrom(def.parent)
              /\ UNCHANGED <<prog, resolved, next, sorting>>

\* Copy the parent's members as they are now; a template stops here.
Inherit ==
  /\ InPrologue /\ ~Guarded
  /\ def.parent # Missing
  /\ def.parent \in Names => frame.called \/ ~ParentIsEmpty
  /\ LET parent == IF def.parent = None THEN [members |-> << >>, size |-> 0]
                                        ELSE resolved[def.parent]
         members == self.members \o parent.members
     IN  IF def.template
         THEN /\ resolved' = [resolved EXCEPT ![frame.name].members = members,
                                              ![frame.name].size = -1]
              /\ stack' = Front(stack)
         ELSE /\ resolved' = [resolved EXCEPT ![frame.name].members = members]
              /\ SetFrame([frame EXCEPT !.at = 1, !.called = FALSE,
                             !.offset = IF parent.size > 0 THEN parent.size ELSE 0])
  /\ UNCHANGED <<prog, next, phase, sorting>>

(***************************************************************************)
(* Declarations: resolveVarDecl with resolveType.                          *)
(***************************************************************************)
InBody == Running /\ frame.at \in 1 .. Len(def.body)

InIf == InBody /\ stmt.is = "if" /\ stmt.cond # "bad" /\ frame.sub <= Len(stmt.decls)
AtDecl == (InBody /\ stmt.is = "var") \/ InIf
decl == IF stmt.is = "if" THEN stmt.decls[frame.sub] ELSE stmt

\* Mutant: no lazy call.
MutNeedsCall(d) == FALSE

\* "Ensure referenced struct is resolved first", for values and for pointees.
NeedsCall(d) == /\ d.ref \in Names
                /\ resolved[d.ref].members = << >> /\ prog.def[d.ref].body # << >>

CallType == /\ AtDecl /\ NeedsCall(decl) /\ ~frame.called
            /\ CallFrom(decl.ref)
            /\ UNCHANGED <<prog, resolved, next, sorting>>

\* The size of the type as it is known when the declaration is resolved.
UnitSize(d) == IF d.ptr > 0 THEN d.ptr
               ELSE IF d.ref \in Names THEN resolved[d.ref].size ELSE d.size

TypeSize(d) == CASE d.len = Single -> UnitSize(d)
                 [] d.len = Expr   -> -1
                 [] d.len >= 0     -> d.len * UnitSize(d)

\* Mutant: a pointer is read like the struct it points to.
MutKind(d) == IF d.ref = None THEN "flat" ELSE IF d.len = Single THEN "struct" ELSE "structs"

Kind(d) == IF d.ref = None \/ d.ptr > 0 THEN "flat"
           ELSE IF d.len = Single THEN "struct" ELSE "structs"

FieldOf(d) == [is |-> "field", ref |-> d.ref, kind |-> Kind(d), size |-> TypeSize(d),
               elem |-> UnitSize(d), off |-> -1, len |-> d.len, remote |-> FALSE]

NextStatement(f) == [f EXCEPT !.at = @ + 1, !.sub = 1, !.acc = << >>, !.called = FALSE]

\* The statement adds the members ms and leaves the running offset at o.
Emit(ms, o) ==
  /\ resolved' = [resolved EXCEPT ![frame.name].members = @ \o ms]
  /\ SetFrame(NextStatement([frame EXCEPT !.offset = o]))
  /\ UNCHANGED <<prog, next, phase, sorting>>

Ready == frame.called \/ ~NeedsCall(decl)

\* A literal @ moves the running offset even if the type then is refused.
offset == IF ~def.union /\ decl.at >= 0 THEN decl.at ELSE frame.offset

\* Mutants: an unknown size is added; InlineSize is not used.
MutExtentUnknown(d) == TypeSize(d)
MutExtent(d) == IF TypeSize(d) > 0 THEN TypeSize(d) ELSE 0

\* What a placed field adds to the running offset.  InlineSize stands in for the
\* size of a struct that is dynamic, not for that of an array of such structs.
Extent(d) == IF TypeSize(d) > 0 THEN TypeSize(d)
             ELSE IF Kind(d) = "struct" /\ resolved[d.ref].inline > 0
                  THEN resolved[d.ref].inline ELSE 0

DeclareInUnion ==
  /\ InBody /\ stmt.is = "var" /\ ~stmt.bad /\ Ready /\ def.union
  /\ Emit(<<[FieldOf(stmt) EXCEPT !.off = 0]>>,
          IF TypeSize(stmt) > frame.offset THEN TypeSize(stmt) ELSE frame.offset)

DeclareRemote ==
  /\ InBody /\ stmt.is = "var" /\ ~stmt.bad /\ Ready /\ ~def.union /\ stmt.at = Expr
  /\ Emit(<<[FieldOf(stmt) EXCEPT !.remote = TRUE]>>, offset)

Declare ==
  /\ InBody /\ stmt.is = "var" /\ ~stmt.bad /\ Ready /\ ~def.union /\ stmt.at # Expr
  /\ Emit(<<[FieldOf(stmt) EXCEPT !.off = offset]>>, offset + Extent(stmt))

SkipBadDecl ==
  /\ InBody /\ stmt.is = "var" /\ stmt.bad /\ Ready
  /\ IF ~def.union /\ stmt.size > 0
     THEN Emit(<<[is |-> "pad", size |-> stmt.size]>>, offset + stmt.size)
     ELSE Emit(<< >>, offset)

Pad == /\ InBody /\ stmt.is = "pad"
       /\ Emit(<<[is |-> "pad", size |-> stmt.size]>>,
               IF def.union THEN frame.offset ELSE frame.offset + stmt.size)

\* resolveConditional: one declaration of a branch; its field gets no offset.
ConditionalDecl ==
  /\ InIf /\ Ready
  /\ SetFrame([frame EXCEPT !.sub = @ + 1, !.called = FALSE,
                 !.acc = IF decl.bad THEN @ ELSE Append(@, FieldOf(decl))])
  /\ UNCHANGED <<prog, resolved, next, phase, sorting>>

CloseIf ==
  /\ InBody /\ stmt.is = "if" /\ ~InIf
  /\ Emit(IF stmt.cond = "ok" THEN <<[is |-> "cond", fields |-> frame.acc]>> ELSE << >>,
          frame.offset)

Return ==
  /\ Running /\ frame.at = Len(def.body) + 1
  /\ resolved' = [resolved EXCEPT
       ![frame.name].inline = frame.offset,
       ![frame.name].size = IF HasDynamicFields(self.members) THEN -1 ELSE frame.offset]
  /\ stack' = Front(stack)
  /\ UNCHANGED <<prog, next, phase, sorting>>

(***************************************************************************)
(* topoSort: depth first over the fields held by value.                    *)
(***************************************************************************)
\* Mutant: arrays are no dependencies.
MutByValue(f) == f.kind = "struct"
ByValue(f) == f.kind \in {"struct", "structs"}

StartSort == /\ phase = "fields" /\ stack = << >> /\ next > Len(prog.order)
             /\ phase' = "sort" /\ next' = 1
             /\ UNCHANGED <<prog, resolved, stack, sorting>>

\* visit(n), called from the frames `callers`; it returns at once for a visited
\* struct.
Visit(n, callers) ==
  IF n \in visited
  THEN dfs' = callers /\ UNCHANGED visited
  ELSE /\ visited' = visited \cup {n}
       /\ dfs' = Append(callers, [name |-> n, todo |-> FieldsOf(resolved[n].members)])

VisitRoot == /\ phase = "sort" /\ dfs = << >> /\ next <= Len(prog.order)
             /\ Visit(prog.order[next], << >>)
             /\ next' = next + 1
             /\ UNCHANGED <<prog, resolved, stack, phase, sorted>>

\* The fields a visit has still to look at, one per step.
AtDependency == phase = "sort" /\ dfs # << >> /\ Last(dfs).todo # << >>
rest == [dfs EXCEPT ![Len(dfs)].todo = Tail(@)]

VisitDependency == /\ AtDependency /\ ByValue(Head(Last(dfs).todo))
                   /\ Visit(Head(Last(dfs).todo).ref, rest)
                   /\ UNCHANGED <<prog, resolved, stack, next, phase, sorted>>

SkipField == /\ AtDependency /\ ~ByValue(Head(Last(dfs).todo))
             /\ dfs' = rest
             /\ UNCHANGED <<prog, resolved, stack, next, phase, visited, sorted>>

EmitStruct == /\ phase = "sort" /\ dfs # << >> /\ Last(dfs).todo = << >>
              /\ sorted' = Append(sorted, Last(dfs).name)
              /\ dfs' = Front(dfs)
              /\ UNCHANGED <<prog, resolved, stack, next, phase, visited>>

Done == /\ phase = "sort" /\ dfs = << >> /\ next > Len(prog.order)
        /\ phase' = "done"
        /\ UNCHANGED <<prog, resolved, stack, next, sorting>>

Next == \/ MainLoop \/ AlreadyResolved \/ UnknownParent \/ CallParent \/ Inherit
        \/ CallType \/ DeclareInUnion \/ DeclareRemote \/ Declare \/ SkipBadDecl
        \/ Pad \/ ConditionalDecl \/ CloseIf \/ Return
        \/ StartSort \/ VisitRoot \/ VisitDependency \/ SkipField \/ EmitStruct \/ Done

\* Fairness: Resolve is one call of a sequential program.
Spec == Init /\ [][Next]_vars /\ WF_vars(Next)

-----------------------------------------------------------------------------
Resolved == phase \in {"sort", "done"}

\* The structs a definition mentions: its parent, the types of its declarations,
\* behind a pointer or not.
DeclsOf(n) == UNION {CASE s.is = "var" -> {s}
                       [] s.is = "if"  -> ToSet(s.decls)
                       [] s.is = "pad" -> {} : s \in ToSet(prog.def[n].body)}
Mentions(n) == (({d.ref : d \in DeclsOf(n)} \cup {prog.def[n].parent}) \cap Names)

\* No struct mentions itself, directly or through others.
Acyclic == \E rank \in [Names -> 1 .. Cardinality(Names)] :
             \A n \in Names : \A m \in Mentions(n) : rank[m] < rank[n]

\* A struct without statements whose content comes from elsewhere, from its parent or
\* as a template of unknown size.  resolveType and the check of the parent take the
\* empty body for a struct that has nothing to resolve.
Hollow(n) == /\ prog.def[n].body = << >>
             /\ prog.def[n].parent \in Names \/ prog.def[n].template

\* The programs that the lazy calls put in order.
Orderly == Acyclic /\ \A n \in Names : \A m \in Mentions(n) : ~Hollow(m)

\* Every struct starts with a member that needs no other struct, so that its
\* member list is not empty any more when something can lead back to it.
StartsPlain ==
  \A n \in Names :
    /\ prog.def[n].parent = None
    /\ prog.def[n].body # << >>
    /\ LET s == Head(prog.def[n].body) IN s.is = "pad" \/ (s.is = "var" /\ s.ref = None /\ ~s.bad)

AddsMember(s, n) == CASE s.is = "pad" -> TRUE
                      [] s.is = "if"  -> s.cond = "ok"
                      [] s.is = "var" -> ~s.bad \/ (~prog.def[n].union /\ s.size > 0)

MembersDeclared(n) ==
  Cardinality({k \in DOMAIN prog.def[n].body : AddsMember(prog.def[n].body[k], n)})

\* Each struct of the file has the members its own body and its parent declare,
\* each once.
EachMemberOnce ==
  \A n \in ToSet(prog.order) :
    LET d == prog.def[n]
    IN  Len(resolved[n].members) =
          (IF d.template THEN 0 ELSE MembersDeclared(n)) +
          (IF d.parent = None THEN 0 ELSE Len(resolved[d.parent].members))

\* The size recorded in a field that holds structs is that of the finished
\* struct, and so is the size of an element, which steps through an array.
SizesAreFinal ==
  \A n \in Names : \A f \in ToSet(FieldsOf(resolved[n].members)) :
    /\ ByValue(f) => f.elem = resolved[f.ref].size
    /\ f.kind = "struct" => f.size = resolved[f.ref].size
    /\ f.kind = "structs" /\ f.len >= 0 => f.size = f.len * resolved[f.ref].size

\* Type invariant.  A field that holds structs says which; only an array of run-time
\* length and structs can have no size.
Fields == {f \in [is : {"field"}, ref : Names \cup {None}, kind : {"flat", "struct", "structs"},
                  size : Int, elem : Int, off : Int, len : Nat \cup {Single, Expr},
                  remote : BOOLEAN] :
             /\ ByValue(f) => f.ref \in Names /\ (f.kind = "struct" <=> f.len = Single)
             /\ f.len = Expr => f.size = -1
             /\ f.size < 0 => f.len = Expr \/ ByValue(f)}
Members == Fields \cup Pads \cup [is : {"cond"}, fields : Seq(Fields)]
Frames == [name : Names, at : Nat, sub : Nat \ {0}, acc : Seq(Fields), called : BOOLEAN,
           offset : Nat]

TypeOK ==
  /\ prog \in Programs
  /\ resolved \in [Names -> [members : Seq(Members), size : Nat \cup {-1}, inline : Nat]]
  /\ stack \in Seq(Frames) /\ Len(stack) <= MaxDepth
  /\ next \in Nat \ {0}
  /\ phase \in {"fields", "sort", "done", "failed", "overflow"}
  /\ dfs \in Seq([name : Names, todo : Seq(Fields)])
  /\ visited \subseteq Names /\ sorted \in Seq(Names)

\* The guard does what it is for whenever no struct mentions itself or a hollow one,
\* and also with cycles when every struct starts with a plain member: the lazy calls,
\* the calls for parents and those of the main loop fill each member list once.
ResolvedOnce == Resolved /\ (Orderly \/ StartsPlain) => EachMemberOnce

\* When no struct mentions itself or a hollow one, every struct held by value was
\* finished before its size was used, in whatever order the file declares them.
SizesCaptured == Resolved /\ Orderly => SizesAreFinal

\* The bytes of a placed member, by the finished sizes.
EndOf(f) == IF f.kind = "flat" THEN f.off + f.size
            ELSE f.off + (IF f.len = Single THEN 1 ELSE f.len) * resolved[f.ref].inline

\* In a struct whose fields are placed one after the other, and not in an array of
\* dynamic structs, no two fields share a byte and none reaches past InlineSize.
Sequential(n) == /\ ~prog.def[n].union /\ ~prog.def[n].template
                 /\ prog.def[n].parent = None
                 /\ \A d \in DeclsOf(n) : d.at = Here
                 /\ \A f \in ToSet(FieldsOf(resolved[n].members)) :
                      f.len # Expr /\ ~(f.kind = "structs" /\ resolved[f.ref].size < 0)

FieldsDisjoint ==
  Resolved /\ Orderly =>
    \A n \in Names : Sequential(n) =>
      LET ms == resolved[n].members
          placed == {k \in DOMAIN ms : ms[k].is = "field"}
      IN  \A j \in placed : /\ EndOf(ms[j]) <= resolved[n].inline
                            /\ \A k \in placed : j < k => EndOf(ms[j]) <= ms[k].off

\* The structs whose bytes lie inside those of n: the fields that hold a struct, or
\* an array of them, and do not just point to it.
Contained(n) == {f.ref : f \in {g \in ToSet(FieldsOf(resolved[n].members)) :
                                 g.kind # "flat"}}

ContainsItself ==
  ~\E rank \in [Names -> 1 .. Cardinality(Names)] :
     \A n \in Names : \A m \in Contained(n) : rank[m] < rank[n]

\* topoSort's comment, "dependencies first": when no struct contains itself by
\* value, every struct comes once, after all structs it contains.
DependenciesFirst ==
  phase = "done" /\ ~ContainsItself =>
    /\ ToSet(prog.order) \subseteq ToSet(sorted) /\ IsInjective(sorted)
    /\ \A k \in DOMAIN sorted : \A m \in Contained(sorted[k]) :
         \E j \in 1 .. k - 1 : sorted[j] = m

\* Resolve returns, for every program without a way back to an empty struct.
ResolveReturns == (Acyclic \/ StartsPlain) ~> phase \in {"done", "failed"}

(***************************************************************************)
(* What the comments say and the code does not do.                         *)
(***************************************************************************)
\* resolve.go:249, "Guard against double resolution": no struct is filled twice.
GuardHolds == Resolved => EachMemberOnce
=============================================================================
