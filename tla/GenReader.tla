----------------------------- MODULE GenReader ------------------------------
(***************************************************************************)
(* The ReadFoo functions hexpat/codegen generates, run on a target's memory*)
(* for the structs Resolver has resolved: which address each field is read *)
(* at.  A struct without dynamic fields is read at once and decoded at the *)
(* resolved offsets; otherwise the function tracks a running offset.       *)
(***************************************************************************)
EXTENDS Resolver

CONSTANTS
  Lengths,    \* values a length expression can have at run time
  MaxLen,     \* MaxDynamicArrayLen
  Used,       \* bound: the packages whose generated code the client runs
  Far,        \* an address a pointer leads to, away from all structs
  MaxCalls    \* bound: deeper calls stand for the exhausted goroutine stack

ASSUME LengthsAssumption == Lengths \subseteq Int /\ MaxLen \in Nat
ASSUME FarAssumption == Far \in Nat /\ MaxCalls \in Nat \ {0}

VARIABLES
  calls,      \* active ReadFoo functions, the newest last
  failed,     \* some error was recorded in errs
  outcome     \* "none", "reading", "returned", "overflow", "panicked"

rvars == <<calls, failed, outcome>>
allvars == <<vars, calls, failed, outcome>>

RInit == Init /\ calls = << >> /\ failed = FALSE /\ outcome = "none"

-----------------------------------------------------------------------------
(***************************************************************************)
(* A call has the struct's address, the member it is at, the fields of that*)
(* member still to be read, how many structs the current one holds and     *)
(* which of them is being read, and the running offset.  `from` and `place`*)
(* are history: the address the first byte of the struct really has, and   *)
(* the next one, by the bytes of all members before it.                    *)
(***************************************************************************)
Reading == outcome = "reading" /\ calls # << >>
top == calls[Len(calls)]
members == resolved[top.name].members
field == Head(top.todo)

dynamic(n) == HasDynamicFields(resolved[n].members)
canBulkRead(n) == ~dynamic(n) /\ resolved[n].size > 0

NewCall(n, addr, place) ==
  [name |-> n, addr |-> addr, at |-> 0, todo |-> << >>, elems |-> 0, elem |-> 0,
   offset |-> 0, place |-> place, from |-> place]

SetTop(c) == calls' = [calls EXCEPT ![Len(calls)] = c]

\* Generated code calls ReadFoo of another struct.
Enter(n, addr, place, caller) ==
  IF Len(calls) < MaxCalls
  THEN calls' = Append([calls EXCEPT ![Len(calls)] = caller], NewCall(n, addr, place))
       /\ UNCHANGED outcome
  ELSE outcome' = "overflow" /\ calls' = << >>

(***************************************************************************)
(* The generated package compiles: no struct holds itself other than in a  *)
(* slice, and every struct held by another has a reader, which is written  *)
(* only for structs with fields.  A constant index past the buffer of a    *)
(* bulk read does not compile either; such packages are kept in here, and  *)
(* the read passes the field as any other.                                 *)
(***************************************************************************)
Embedded(n) ==
  {d.ref : d \in {e \in DeclsOf(n) : e.ptr = 0 /\ e.len # Expr}} \cup {prog.def[n].parent}

Compiles ==
  /\ \E rank \in [Names -> 1 .. Cardinality(Names)] :
       \A n \in Names : \A m \in Embedded(n) \cap Names : rank[m] < rank[n]
  /\ \A n \in Names : \A f \in ToSet(FieldsOf(resolved[n].members)) :
       f.kind # "flat" => FieldsOf(resolved[f.ref].members) # << >>

\* The client reads a struct with the generated code.
StartRead(n) ==
  /\ phase = "done" /\ outcome = "none" /\ prog \in Used
  /\ Compiles /\ FieldsOf(resolved[n].members) # << >>
  /\ calls' = <<NewCall(n, 0, 0)>> /\ outcome' = "reading"
  /\ UNCHANGED <<vars, failed>>

\* The address expression of a field.
Address(f) == IF f.remote THEN Far
              ELSE IF dynamic(top.name) THEN top.addr + top.offset
              ELSE top.addr + f.off

\* Mutants: fields placed elsewhere advance the offset; an array of run-time length
\* does not.
MutAdvanceRemote(c, f, count) ==
  IF f.size > 0 THEN [c EXCEPT !.offset = @ + f.size]
  ELSE IF f.len = Expr THEN [c EXCEPT !.offset = @ + count * f.elem] ELSE c
MutAdvance(c, f, count) ==
  IF f.remote \/ f.size <= 0 THEN c ELSE [c EXCEPT !.offset = @ + f.size]

\* writeOffsetAdvance, and none for a field placed elsewhere; count is the length of
\* an array of run-time length.
Advance(c, f, count) ==
  IF f.remote THEN c
  ELSE IF f.size > 0 THEN [c EXCEPT !.offset = @ + f.size]
  ELSE IF f.len = Expr THEN [c EXCEPT !.offset = @ + count * f.elem] ELSE c

Placed(c, f, n) == IF f.remote THEN c ELSE [c EXCEPT !.place = @ + n]
NextField(c) == [c EXCEPT !.todo = Tail(@), !.elems = 0, !.elem = 0]

-----------------------------------------------------------------------------
\* writeBulkReadFunc: the bytes of the whole struct; nothing is decoded on an error.
BulkRead ==
  /\ Reading /\ top.at = 0 /\ canBulkRead(top.name)
  /\ \/ SetTop([top EXCEPT !.at = 1]) /\ UNCHANGED failed
     \/ /\ SetTop([top EXCEPT !.at = Len(members) + 1,
                              !.place = @ + resolved[top.name].size])
        /\ failed' = TRUE
  /\ UNCHANGED <<vars, outcome>>

StartFields == /\ Reading /\ top.at = 0 /\ ~canBulkRead(top.name)
               /\ SetTop([top EXCEPT !.at = 1])
               /\ UNCHANGED <<vars, failed, outcome>>

AtMember == Reading /\ top.at \in 1 .. Len(members) /\ top.todo = << >>

FieldMember == /\ AtMember /\ members[top.at].is = "field"
               /\ SetTop([top EXCEPT !.at = @ + 1, !.todo = <<members[top.at]>>])
               /\ UNCHANGED <<vars, failed, outcome>>

\* Mutant: no padding in a struct with a running offset.
MutPaddingMember == /\ AtMember /\ members[top.at].is = "pad"
                    /\ SetTop([top EXCEPT !.at = @ + 1, !.place = @ + members[top.at].size])
                    /\ UNCHANGED <<vars, failed, outcome>>

PaddingMember ==
  /\ AtMember /\ members[top.at].is = "pad"
  /\ SetTop([top EXCEPT !.at = @ + 1, !.place = @ + members[top.at].size,
               !.offset = IF dynamic(top.name) THEN @ + members[top.at].size ELSE @])
  /\ UNCHANGED <<vars, failed, outcome>>

\* writeConditionalRead: the fields of one branch, which follow each other in the
\* member's fields, or none.
ConditionalMember ==
  /\ AtMember /\ members[top.at].is = "cond"
  /\ LET fs == members[top.at].fields
     IN  \E lo \in 1 .. Len(fs) + 1, hi \in 0 .. Len(fs) :
           /\ lo <= hi + 1
           /\ SetTop([top EXCEPT !.at = @ + 1, !.todo = SubSeq(fs, lo, hi)])
  /\ UNCHANGED <<vars, failed, outcome>>

AtField(kinds) == Reading /\ top.todo # << >> /\ top.elems = 0 /\ field.kind \in kinds

Refused(n) == n < 0 \/ n > MaxLen

\* Mutant: no upper limit.
MutBoundedLen(n) == IF n < 0 THEN 0 ELSE n

\* The length of the slice that is made, 0 for one that was refused.
BoundedLen(n) == IF Refused(n) THEN 0 ELSE n

PassField == SetTop(NextField(Placed(Advance(top, field, 0), field, field.size)))

(***************************************************************************)
(* Fields of a bulk read.  A number or pointer of several bytes, and each  *)
(* number in an array, is decoded from buf[off:], which panics when fewer  *)
(* bytes are left.  Single bytes and byte arrays have constant indexes,    *)
(* and so has the start of a single number: past the buffer these do not   *)
(* compile.  A bitfield is read again and an array of pointers not at all, *)
(* so a field may also overrun the buffer and do no harm; the AST kept     *)
(* here does not tell all of these from numbers.                           *)
(***************************************************************************)
Overruns(f, size) == /\ f.kind = "flat" /\ f.len # 0 /\ f.elem \in {2, 4, 8}
                     /\ f.off + f.size > size
                     /\ IF f.len = Single THEN f.off <= size ELSE f.ref = None

BulkPanic ==
  /\ AtField({"flat"}) /\ canBulkRead(top.name)
  /\ Overruns(field, resolved[top.name].size)
  /\ outcome' = "panicked" /\ calls' = << >>
  /\ UNCHANGED <<vars, failed>>

\* writeBulkFieldDecode: a field of bytes is taken from the bulk read, except that a
\* bitfield is read again and may fail.
BulkField ==
  /\ AtField({"flat"}) /\ canBulkRead(top.name)
  /\ PassField
  /\ failed' \in {failed, TRUE}
  /\ UNCHANGED <<vars, outcome>>

\* A field of bytes that is read on its own; an error leaves it zero and the offset
\* advances all the same.
FlatField ==
  /\ AtField({"flat"}) /\ field.len # Expr /\ ~canBulkRead(top.name)
  /\ PassField
  /\ failed' \in {failed, TRUE}
  /\ UNCHANGED <<vars, outcome>>

\* The same for an array of run-time length; a refused length leaves it nil.
FlatArray ==
  /\ AtField({"flat"}) /\ field.len = Expr
  /\ \E n \in Lengths :
       /\ failed' \in (IF Refused(n) THEN {TRUE} ELSE {failed, TRUE})
       /\ SetTop(NextField(Placed(Advance(top, field, BoundedLen(n)), field,
                                  BoundedLen(n) * field.elem)))
  /\ UNCHANGED <<vars, outcome>>

\* writeCompositeFieldRead
StructField ==
  /\ AtField({"struct"})
  /\ Enter(field.ref, Address(field), IF field.remote THEN Far ELSE top.place,
           [top EXCEPT !.elems = 1])
  /\ UNCHANGED <<vars, failed>>

\* An array of structs: its length, then one call per element.
StructArray ==
  /\ AtField({"structs"})
  /\ \E n \in (IF field.len = Expr THEN Lengths ELSE {field.len}) :
       LET count == IF field.len = Expr THEN BoundedLen(n) ELSE n
       IN  /\ failed' = (failed \/ (field.len = Expr /\ Refused(n)))
           /\ IF count = 0 THEN SetTop(NextField(top)) /\ UNCHANGED outcome
              ELSE Enter(field.ref, Address(field), IF field.remote THEN Far ELSE top.place,
                         [top EXCEPT !.elems = count])
  /\ UNCHANGED vars

\* The function returns to its caller, which goes on with the next element or field.
ReadReturn ==
  /\ Reading /\ top.at = Len(members) + 1 /\ top.todo = << >>
  /\ IF Len(calls) = 1 THEN calls' = << >> /\ outcome' = "returned"
     ELSE LET caller == calls[Len(calls) - 1]
              f == Head(caller.todo)
              done == [caller EXCEPT !.elem = @ + 1,
                         !.place = IF f.remote THEN @ ELSE top.place]
              start == top.addr - caller.elem * f.elem
          IN  IF done.elem < done.elems
              THEN /\ calls' = [calls EXCEPT
                        ![Len(calls) - 1] = done,
                        ![Len(calls)] = NewCall(f.ref, start + done.elem * f.elem, top.place)]
                   /\ UNCHANGED outcome
              ELSE /\ calls' = Append(SubSeq(calls, 1, Len(calls) - 2),
                                      NextField(Advance(done, f, done.elems)))
                   /\ UNCHANGED outcome
  /\ UNCHANGED <<vars, failed>>

ReadNext == BulkRead \/ StartFields \/ FieldMember \/ PaddingMember \/ ConditionalMember
            \/ BulkPanic \/ BulkField \/ FlatField \/ FlatArray \/ StructField \/ StructArray \/ ReadReturn

RNext == \/ Next /\ UNCHANGED rvars
         \/ \E n \in Names : StartRead(n)
         \/ ReadNext

\* Fairness: Resolve and a ReadFoo that was called go on.
RSpec == RInit /\ [][RNext]_allvars /\ WF_allvars(Next /\ UNCHANGED rvars)
               /\ WF_allvars(ReadNext)

-----------------------------------------------------------------------------
\* Type invariant.
Calls == [name : Names, at : Nat, todo : Seq(Fields), elems : Nat, elem : Nat,
          addr : Int, offset : Int, place : Int, from : Int]

RTypeOK ==
  /\ calls \in Seq(Calls) /\ Len(calls) <= MaxCalls
  /\ failed \in BOOLEAN /\ outcome \in {"none", "reading", "returned", "overflow", "panicked"}
  /\ \A k \in DOMAIN calls :
       calls[k].elems > 0 => /\ calls[k].elem < calls[k].elems
                             /\ Head(calls[k].todo).len = Expr => calls[k].elems <= MaxLen

\* The structs that follow the bytes of n.
Inline(n) == {f \in ToSet(FieldsOf(resolved[n].members)) : f.kind # "flat" /\ ~f.remote}

\* Structs that have the same number of bytes whatever they contain, and of which
\* InlineSize tells it: they hold no array of dynamic structs, whose size is never
\* known, and have no dynamic parent, whose bytes InlineSize leaves out.
Uniform(n, S) ==
  LET ms == resolved[n].members
  IN  /\ prog.def[n].parent \in Names => ~dynamic(prog.def[n].parent)
      /\ \A k \in DOMAIN ms : ms[k].is # "cond"
      /\ \A f \in ToSet(FieldsOf(ms)) : f.len = Expr => f.remote
      /\ \A f \in Inline(n) :
           f.ref \in S /\ (f.kind = "structs" => resolved[f.ref].size >= 0)
Rigid == UNION {S \in SUBSET Names : \A n \in S : Uniform(n, S)}

\* Everything is laid out by its position, nothing by a union or a number after @.
Positional == \A n \in Names :
  /\ ~prog.def[n].union /\ ~prog.def[n].template
  /\ \A s \in ToSet(prog.def[n].body) :
       /\ s.is = "var" => s.at \in {Here, Expr}
       /\ s.is = "if" => \A d \in ToSet(s.decls) : d.at = Here

\* The structs in n are rigid, except one that is the last member, and those in
\* arrays, wherever these are, are not dynamic.
EndsWithStruct(n, k) ==
  LET ms == resolved[n].members
  IN  k = Len(ms) /\ ms[k].is = "field" /\ ms[k].kind = "struct"

Predictable(n) ==
  LET ms == resolved[n].members
  IN  \A k \in DOMAIN ms : \A f \in ToSet(FieldsOf(<<ms[k]>>)) :
        /\ f.kind = "struct" => f.remote \/ f.ref \in Rigid \/ EndsWithStruct(n, k)
        /\ f.kind = "structs" => f.ref \in Rigid /\ resolved[f.ref].size >= 0

\* When n tracks a running offset, no struct in it is rigid and of size -1 all the
\* same, for a field placed elsewhere.
Advances(n) ==
  dynamic(n) => \A f \in Inline(n) : resolved[f.ref].size >= 0 \/ f.ref \notin Rigid

InPlace == /\ top.at = 0 => top.addr = top.place
           /\ AtField({"flat", "struct", "structs"}) /\ ~field.remote =>
                Address(field) = top.place

\* Every field is read where it is: its address is that of the first byte after all
\* members before it, whichever branches were taken, however long the arrays are and
\* whatever failed, in structs read at once and in structs with a running offset.
FieldsInPlace ==
  Reading /\ Orderly /\ Positional
    /\ (\A k \in DOMAIN calls : Predictable(calls[k].name) /\ Advances(calls[k].name))
  => InPlace

\* Sizes that the declarations let cover all fields: no number after @ moves the end of a
\* struct back, and none inherits the fields of a template, whose size is unknown.
SizesCover == \A n \in Names :
  /\ \A d \in DeclsOf(n) : d.at \in {Here, Expr}
  /\ prog.def[n].parent \in Names => ~prog.def[prog.def[n].parent].template

\* A ReadFoo returns, and does not panic, when no struct holds itself, in a slice either,
\* and the sizes cover the fields: the Size a bulk read was made with is then at least the
\* end of every number in the struct, however lazily the structs were resolved.  Pointers
\* are not followed, so cycles of pointers do no harm.
Held(n) == {d.ref : d \in {e \in DeclsOf(n) : e.ptr = 0}} \cup {prog.def[n].parent}
HoldsItself == ~\E rank \in [Names -> 1 .. Cardinality(Names)] :
                  \A n \in Names : \A m \in Held(n) \cap Names : rank[m] < rank[n]
ReadReturns ==
  (outcome = "reading" /\ ~HoldsItself /\ (Orderly \/ StartsPlain) /\ SizesCover)
    ~> outcome = "returned"
=============================================================================
