# A verification development of memtools

memtools reads the memory of another process and turns it into Go values. This
directory holds TLA+ modules for the parts of it whose correctness is hard to
see from a test, TLC configurations that check them on small instances, and
TLAPS proofs of what matters most for every instance.

Run a check with `tlc -config <run>.cfg <MC module>.tla` and a proof with
`tlapm <module>.tla`. `PROJECT.json` is the index: components, runs, mutants,
the source lines each definition stands for, findings, hazards, theorems.

## 1. The system

| component | state it keeps | operations | status |
|---|---|---|---|
| `memory.Buffer` (`memory/buffer.go`) | fetch address, data, read index, sticky error, count of system calls | `NewBuffer`, `Reset`, `Next`, `Peek`, `Rewind`, `Discard`, `Refill` | modelled |
| search (`memory/find.go`) | the buffer, position of the current window | `Find`, `FindFirst` | modelled |
| `sparsestruct` (`sparsestruct.go`) | the structs built so far, the `visited` map of the current chase | `Unmarshal`, `PointerGetter.Read`, `StringPointer.Read`, `Size` | pointer chasing modelled |
| resolver (`hexpat/resolve`) | `resolved` (half-built `StructType`s), Go call stack | `Resolve`, `resolveStructFields`, `resolveType`, `topoSort`, enums, bitfields | structs and ordering modelled |
| `process` | pid, seek position | `Read`, `Seek`, `ReadStruct`, `ReadBatch`, `FromName` | reading and batches modelled |
| `hexpat/runtime` | `visited`, queued requests, error list | `ReadAt`, `ReadBatch`, `Visit`, `Collector.Add/Flush`, `BoundedLen`, `At` | all but `Visit`, `At` modelled |
| `hexpat/codegen` | output text | readers, lazy readers, enums, bitfields | eager readers modelled |
| `hexpat/parser` | cursor, saved cursors, items so far | `Parse`, one function per construct, backtracking, recovery | modelled |
| `sparsestruct/ghidra_export.go` | field lists | flattening, layout, export | not modelled |
| `maps` | list of mappings | parse, `Find`, `Contains` | not modelled |
| `hexpat/resolve/funcgen.go`, Ghidra script | output text; visited set | transpile; depth-first walk | not modelled |
| `cmd/hexpatgen`, example, test fixtures | none | file input and output | left out |

How they interact. `process.Process` is the `io.ReadSeeker` that
`sparsestruct.Unmarshal` and the generated readers read through; every read is a
`process_vm_readv` call on a process that goes on running. `memory.Buffer` makes
the same call on its own and `Find` runs on top of it. `parser`, `resolve` and
`codegen` are stages of `hexpatgen`, whose output imports `runtime`.

What is hard here:

* **Live memory.** Each read sees the target at its own moment. A traversal that
  follows pointers mixes moments, and the target may close a cycle meanwhile.
* **Short and failing reads.** `process_vm_readv` stops at an unmapped page and
  fails beyond it; code that has shifted a buffer, registered a struct or filled
  an earlier chunk stays in between.
* **Re-entry.** The resolver and `PointerGetter.Read` call themselves through
  shared, half-built values; a guard that tests for "not built yet" must tell
  that apart from "being built".
* **Index arithmetic.** Windows, overlaps, shifts and zeroed tails, with panics
  instead of errors when they disagree.
* **Backtracking on one cursor.** The parser tries alternatives in turn on a shared
  cursor, goes on after errors in bodies and loops until nothing matches: each function
  must give back what it consumed, and each round must consume something.
* **Two layouts of one struct.** The resolver computes offsets, and a generated
  reader of a struct with conditionals or run-time arrays counts its own.

What makes each part correct, modelled or not yet:

* buffer: bytes come out once, in order, none from past the region, and a failure
  costs none; search: the first match is found and its address is right;
* unmarshalling: the structs built have the shape of the memory, and the recursion
  ends; `Size` covers every field of the struct;
* resolver: members once, sizes final when used, fields disjoint, dependencies first;
* batches: a success is complete, a failure is a prefix, and both paths agree;
* generated readers: fields are read where they are; lazy and eager reading agree;
* enums and bitfields: every bit belongs to one field, values continue as declared;
* parser: every loop consumes a token or stops, a failed alternative restores the
  position, recovery stays inside the item, the tree has what later stages read; format
  functions: the emitted Go means what the pattern says;
* C export: offsets of the exported struct are those of the tags;
* maps: a lookup returns the mapping that contains the address; the Ghidra script
  visits each address once.

There are no goroutines in the modelled code: the only other actor is the target.

## 2. Modules

```
BufferCore          struct and pure operations of memory.Buffer  -- BufferLemmas
  MemBuffer         one buffer and any client                    -- MemBufferProofs
    ByteStream      what a good client may rely on               -- MemBufferProofs
  MemFind           Find and FindFirst over BufferCore           -- FindProofs
ParseForms          the ways parser functions are put together
  PatternGrammar    the functions of parser.go
    PatternParser   the loop of fileParser                       -- ParserProofs
      ParserTrees   what the trees must look like
Resolver            resolveStructFields ... topoSort             -- ResolverProofs
  GenReader         the generated ReadFoo, on what was resolved  -- ReaderProofs
BatchRead           Collector, ReadBatch, Seek and Read          -- BatchProofs
SparseUnmarshal     Unmarshal / Read, explicit call stack        -- SparseProofs
MC*                 the instances TLC checks
```

**BufferCore.** Memory is represented by addresses: the byte read at address `a`
is the value `a` and a byte the buffer zeroed is `Fill`, so every byte tells where
it came from and the properties are about provenance. `Refilled(b)` is the set
of buffers a `Refill` can leave: error kept, end of region, failing read, or `n`
bytes read, where `n` is all that was asked for or stops at one of `Edges` (page
boundaries). The order in the code is kept: shift first, then the test for the
end, then the read. `RefillPanics` is the slice expression `data[i:]` out of range.

**MemBuffer.** One action per method and outcome (`NextFails`, `NextDelivers`,
`NextPanics`, ...). `res` is what the last call returned; `seen` is a history of
the addresses delivered since the last `Reset` or `Rewind`. Three clients:
`Spec` calls anything in any order; `StreamSpec` is the one the type is written
for (stops at the first error, discards only bytes it has, asks for no more than
the buffer holds, calls `Refill` only with nothing to overwrite); `ReaderSpec` is
the loop of `TestMemBuffer`.

**ByteStream.** The abstract specification: a position in the region that
`Next`, `Rewind`, `Discard` move and a stream that fails once. It knows nothing of
buffers. `MemBuffer!ImplementsStream` maps the read index and the fetch address to
the position.

**MemFind.** The search loop, one action per window obtained with `Next(Chunk)`.
Contents matter here, so `mem` gives the target's bytes and the buffer still holds
addresses. A pattern is its compiled program with the wildcard `Any`; what
`compile` and the length test make of other texts is the field `text`.

**Resolver.** The Go call stack of `resolveStructFields` is the variable `stack`, since
the calls communicate through half-built `StructType`s. One action per way a statement is
handled. A declaration keeps what the control depends on: the struct it refers to, pointer
width, array length, `@` offset, and whether its type is refused. Then `topoSort` with its
own stack `dfs`: one step per field a visit looks at (`VisitDependency` for one that holds
a struct, `SkipField` for any other). Calls deeper than `MaxDepth` stand for the exhausted
goroutine stack.

**ParseForms, PatternGrammar, PatternParser, ParserTrees.** The text is a sequence of
atoms (words, numbers, quotes, characters, single punctuation characters, blanks); how a
literal is spelled and where an error message points are left out. A string is what stands
between two quotes, any atoms at all, since an `#include` and a string that is not closed
scan for the next quote. Words do not begin with an underscore, so the wildcard `_` of a
match, one character in the code, is an atom of its own. A function of the parser is a
TLA+ function from the positions of the text to results: a value, an error or no answer,
where it leaves the cursor, and the nodes it built. parser.go puts its functions together
in a few ways, and `ParseForms` has an operator for each: match, one after the other, go
on after a failed call from wherever it left the cursor, `Rollback`, loop. A loop that
comes round without having moved has the result "hang", for the code would go on for ever.
`PatternGrammar` writes every function with these operators. One step of the code is
smaller than an atom: when a statement consumes nothing, as a `be` or `le` that is no
type, `parseBody` drops one character and goes on with `e`. `Clipped` is the statement
that begins with this word, which is an ordinary name. `Grammar(g)` is the whole parser,
given g for the calls it makes; `Parser` is `Grammar` applied `Depth` times to functions
that all hang, so a call that nests deeper than `Depth` hangs too. The machine is the loop
of `fileParser`, one item a step. Properties that walk a tree, for which recursive
operators are needed, are in `ParserTrees`. Put side by side with the repository's 57
parser tests, the functions agree on all but one, which has a carriage return inside a
block comment: blanks are pcom-go's business, outside this repository.

**SparseUnmarshal.** `heap` holds the structs built, `stack` those being decoded,
`visited` the map of the current `readContext`; the fields of the client's own
struct each get a new map, as `asReadContext` makes one. Every read of the target
happens in one action and sees the memory of that state; `Write` is the target.
`under`, `from` and `loaded` are history (the field of the client's struct a struct lies
below, the address it was read at, and whether the read succeeded). The properties
speak of `Reach`, the structs that every set closed under pointers contains: a
definition without recursion, which the proofs can use.

**BatchRead.** `Collector.Add` and `Flush` down to the system call, both ways
`ReadContext.ReadBatch` can go: `Process.ReadBatch` (`chunk`, `transfer` per iovec,
`returned`) and the fallback for a reader that cannot batch (`seek`, `read`). A byte of
a buffer carries the address it came from and the target's `clock` at that moment. One
system call is several steps, since the target is not stopped while the kernel copies.
The kernel reads iovecs in order, stops at the first it cannot read to its end, and
may or may not read the part before an unmapped page.

**GenReader.** It extends `Resolver` and goes on where that ends: a client calls the
`ReadFoo` of some struct. The text templates are read as the program they emit: `calls` is
its Go stack, `offset` its running offset, and each member is an action (`FieldMember`,
`PaddingMember`, `ConditionalMember`), followed by one per field. The target's data appear
only as the choices they make: which branch, how long an array is, whether a read fails.
`place` is history: where the next byte really is, by adding up everything that came
before; `from` is the `place` at which the call began. `Compiles` leaves out packages
whose generated Go does not compile: a struct that holds itself, or one held that has no
reader. A bulk read decodes from a buffer of `Size` bytes; a number that ends behind it
(`Overruns`) makes the reader panic, which is the outcome "panicked". A constant index
behind the buffer does not compile, but such packages are kept and the field is passed as
any other. `SizesCover` names the files in which the declarations let the sizes cover all
fields: no number after `@`, which moves the running offset of the layout back, and no
parent with template parameters, whose size is unknown. In these the sizes are as good as
the lazy resolution makes them, and `ReadReturns` says that they are large enough, when
the lazy calls are in order or every struct starts with a plain member. (Otherwise a
parent in progress is inherited from with size 0, and the reader of the child does panic.)
`MCGenReader` is the instance for both modules: all its programs are resolved, and those
in `Used` are then read.

## 3. Runs

| run | instance | shows |
|---|---|---|
| `MemBuffer_any` | region 1..5, capacity 3, one page edge, lengths 0..4 | `TypeOK`, `InOrder`, `WithinRegion`, `NoRepeat`, `FailureIsClean` for any client |
| `MemBuffer_stream` | region 1..7, capacity 3, full reads | `ImplementsStream` |
| `MemBuffer_reader` | region 1..11, capacity 4, one page edge | `NothingLost`, `ReachesEnd` for the read loop |
| `MemFind_search` | region 2..9, capacity 5, window 4, all contents over two bytes, 7 patterns | `TypeOK`, `FirstFindSound`, `FirstFindComplete`, `SearchEnds` |
| `Parser_all` | 13 programs, each with one atom removed or inserted and a sound struct behind it, each cut off anywhere; all texts of up to 3 of 18 atoms, and 2 more behind each of 13 openings; all expressions of three operators, one of every level | `TypeOK`, `Walkable`, `Composes`, `FailureRestores`, `TreeByPrecedence`, `Ends` |
| `Reader_all` | every pair of 27 definitions in both orders, every triple of 13; 337 more programs of three structs that are also read, any struct first, lengths -1, 2, 3 with a limit of 2 | of resolution: `TypeOK`, `ResolvedOnce`, `SizesCaptured`, `FieldsDisjoint`, `DependenciesFirst`, `ResolveReturns`; of reading: `RTypeOK`, `FieldsInPlace`, `ReadReturns` |
| `BatchRead_all` | 4 addresses, 4 requests, 3 calls of Add, chunks of 2, 1 step of the target | `TypeOK`, `FlushFills`, `FailureIsPrefix`, `FailsForReason`, `BytesKept`, `FlushReturns` |
| `Sparse_all` | 3 addresses, 5 contents each, two struct types, 2 calls, 1 write | `TypeOK`, `NoReentry`, `SharingKept`, `GraphIsMemory`, `NothingSkipped`, `RereadSame`, `UnmarshalReturns` |

Every property of these runs is matched with a mutant, a definition `Mut...` beside
the one it mutates, under which TLC finds the property violated.

Runs that are expected to fail, one comment of the source each:

| run | comment | what the code does |
|---|---|---|
| `MemFind_missed` | find.go:64 "each possible starting position" | the last two starting positions of a window are skipped, and windows overlap by one less than needed to make up for it |
| `Resolver_guard` | resolve.go:249 "Guard against double resolution" | a struct whose first member leads back to it is filled twice |
| `Sparse_loaded` | sparsestruct.go:468 "Already loaded this address" | a struct whose read failed is handed out again, without an error |
| `Parser_progress` | parser.go:86 "Make sure we made progress" | two loops below the guarded one never end: template arguments that are not closed, and `be` or `le` on its own |

The same facts show up as side conditions of the passing properties: `Examined` in
`FirstFindComplete`, `Acyclic \/ StartsPlain` in `ResolveReturns`, `Orderly \/ StartsPlain`
in `ResolvedOnce`, `Trap` in `Ends` (`be` or `le`, or `::`, before anything but a word; a `<`
that stays open). Other side conditions leave out files and clients for which the code does
not keep what the property says, too. A passing run says nothing of these, and the hazards of
`PROJECT.json` that lie there have no property but a note:

* `StreamNext` calls `Refill` only where there is nothing to overwrite: with a read
  index of 0 it overwrites unread bytes.
* `StreamNext` discards only bytes that are in the buffer; `Discard` has no bound, and a
  later `Refill` or `Peek` panics. It stops at the first error: after a `Refill` that failed,
  `Next` would hand out again what was shifted.
* `FirstFindSound` is about a search from the start of the region (a later one counts
  its addresses from there too).
* `Needed` in `FirstFindComplete`: `Refill` reports the end of the region as soon as
  there is nothing left to fetch, also when unread bytes are left in the buffer. A search
  in a buffer longer than a window therefore stops before the last bytes of the
  region, up to a window of them. Some lengths of the region hide this; that of the run
  does not.
* `Orderly` in `ResolvedOnce`, `SizesCaptured` and `FieldsDisjoint`: `Acyclic`, since a
  struct in progress is used with size 0; and no struct is mentioned that is `Hollow`, one
  without a body that has a parent or template parameters. resolve.go:269 and 627 call for
  a struct only when its body is not empty. A hollow one declared later is therefore used
  as it is at that moment, with no members and size 0, and a struct that inherits from it
  or holds it gets too few bytes, although the comments there say "Ensure parent is
  resolved first" and "Ensure referenced struct is resolved first".
* `Predictable`, `Positional` and `Advances` in `FieldsInPlace`. A nested struct of variable
  length counts with its smallest length, so it must be the last member, or `Rigid`: its
  number of bytes does not depend on its contents, and `InlineSize` is that number. A
  struct is not rigid when it holds a conditional, a run-time array, an array of structs
  of size -1, or has a dynamic parent, since `offset` starts at 0 when the parent's `Size`
  is -1 (resolve.go:285) and `InlineSize` then leaves out the parent's bytes. Elements of
  arrays must be rigid and of known size, for the reader steps by `Size`. Unions and
  literal `@` offsets do not go together with a running offset; and a nested struct of
  unknown size advances it by nothing, although resolve_test.go:625 says that the fields
  after one "must use InlineSize".
* `Sequential` in `FieldsDisjoint` leaves out unions, numbers after `@` and arrays of dynamic
  structs, whose size is a negative product.
* `SizesCover` and `StartsPlain` in `ReadReturns`: a literal `@` that moves the end back, a
  template as parent or a parent in progress do make a bulk read panic. `~HoldsItself`: a
  struct with a slice of itself is read for as long as the memory leads on, since no
  generated code calls `Visit`.
* `FieldsInPlace` counts an array whose length was refused as empty, as the reader does.
* `SearchEnds` counts a panic as an end: `Find` asks for a mebibyte, also of a smaller buffer.
* `Composes` needs matching brackets and no directive in the damaged item, and
  `FailureRestores` leaves out directives and the word `const`: these are consumed and
  not given back when what follows is refused.

### Bounds

* Buffer: a capacity of 3 with a region of 5 to 11 gives refills with every number
  of kept bytes, a partial last refill and an edge inside a refill; lengths up to
  one more than the capacity reach the panics. `MaxI` stops `Discard` one past
  the capacity, which is the first index that panics.
* Find: a window of 4 and patterns of 0 to 2 bytes leave at least one examined and
  two unexamined positions; the region takes several windows and ends with bytes left
  in the buffer; the capacity is larger than the window so that `Rewind` does and does
  not cause a refill. Longer patterns than a window are outside: the code then loops
  forever. A buffer as long as a window is covered by the proof.
* Parser: the thirteen programs call every function of the grammar between them. One
  removed or inserted atom, at every place and out of ten, reaches every error path
  of each; cutting off reaches every end of file. The short texts are there for `Ends`: a
  loop that does not move needs few atoms, once it has been entered. Three operators from
  eleven levels show every pair of neighbours in both orders, and associativity. A
  `Depth` of 300 is over five calls for each atom of the longest text, as `Ends` asks.
* Resolver: two structs with rich bodies cover every statement kind against every
  kind of mention; three cover chains, cycles of length three and a parent resolved
  in the middle of another struct. `MaxDepth` is over three calls per struct, which
  only an unbounded recursion exceeds.
* Batches: three requests in chunks of two give a full chunk, a short last one, a
  failure in either and inside a request; a second `Flush` follows a first with what
  is left of the three calls. One step of the target falls between any two
  transfers. Requests overlap, and one is empty.
* Generated readers: three levels reach a struct of variable length below one that is
  placed by a running offset below one that is read at once, and the reverse. Lengths
  below, at and above the limit. `MaxCalls` is over the number of structs, which only a
  struct that holds itself exceeds. Six programs are there for the panics: words and pointers of
  several widths in children, parents and arrays, with sizes below the end of a field.
* Unmarshal: three addresses give a cycle, a shared target and an unreadable one
  below the same pointer; two types give the mismatch; two calls the reuse of a
  filled struct; one write a torn traversal, in every state of it.

### Fairness

Each use is weak fairness of a sequential loop that nothing suspends: the read loop
(`ReaderSpec`), the window loop of a search, `Resolve`, one call of `Unmarshal`, of
`Flush`, and of a generated `ReadFoo`.
No fairness is assumed of clients (they may stop calling) or of the target. The parser
needs none: an item is one step, and a loop inside it that would not end is the status
"looping", so that termination is the invariant `Ends`.

## 4. Proofs

**MemBufferProofs** (any `Start <= End`, `Cap > 0`, `Edges`, any client):
`TypeCorrect`, `InOrderAlways`, `WithinRegionAlways`, `NoRepeatAlways`,
`FailureIsCleanAlways`, and for the read loop `NothingLostAlways`. The
inductive invariant is `IInv`: types, `InOrder`, `WithinRegion`, and, while no
Refill has failed, `Fresh`: no byte at or after the read index, or still to be fetched,
is in `seen`. `NoRepeat` alone is not inductive: that the next
delivery is new depends on what a later refill may bring down, which `InOrder` and
the fetch address bound. For the loop, `LInv` adds that a buffer that was never
filled holds nothing unread: that is what makes it harmless that the first refill,
with a read index of 0, keeps nothing. What a refill does to the cells of a
buffer is stated once, in **BufferLemmas**, for these proofs and for those about the
stream and the search.

`StreamRefinement` needs `Edges = {}`: a short read leaves zeroes in the middle of the
data, so without the assumption the buffer is not a stream. The invariant `SInv` adds that
the fetched window is contiguous; each step of `StreamNext` is then a step of
`ByteStream` or a stutter.

**FindProofs**: `FindTypeCorrect` for every instance; `FirstFindSoundAlways` and
`FirstFindCompleteAlways` under `Fits`: reads are never short and no pattern is longer
than a window. A search is `OnTrack` when the buffer is a contiguous piece of the
region, the position counted by `Find` is the address of the next unread byte, and no
examined address before it matches. Which addresses are examined depends on the
address modulo the stride of the windows; that windows of one search start a stride
apart is the arithmetic part of the proof. The first hit of a window exists because
every set of natural numbers has a least element.

**ResolverProofs** (any names, files and recursion limit): `ResolverTypeCorrect` and
`DependenciesFirstAlways`. Type correctness has to know that the fields of a member
list are fields, and so that `FlattenSeq`, a recursive function, is one on every list:
the induction is on sets of natural numbers, with the least list length for which
it is not. The order is that of a depth-first search, `SortInv`: the visited structs are
those emitted and those on the stack, each once; whatever a struct on the stack
contains has been emitted, is still on its list, or is the next on the stack; and, with
a rank that decreases from every struct to those it contains, ranks decrease along the
stack. So a struct met again is no caller: it has been emitted. Pointers take no part, and
nothing is assumed of the order of the file.

Of the members (any names, files and recursion limit): `ResolvedOnceAlways`,
`SizesCapturedAlways` and `FieldsDisjointAlways`. The code has one flag for "resolved", the
member list being non-empty, and the calls for a struct in progress return at once. The
invariant `RInv` therefore says which structs are finished (`fin`, a set that is not in the
code) and what holds of the others:

* `Core`: a struct outside `fin` and not on the stack is untouched; one on the stack has
  the members of the statements before its position, counted; a finished one has all.
* `Sizes`: a size that was taken over into a field is that of a struct that will not
  change any more. `Places`: the members so far are apart, and below the running offset.
* `Lines`: in a file that lays out everything by position, there is a line of places on
  which each member begins where the bytes of those before it end.

What makes the calls harmless is different in the two cases of `ResolvedOnce`. With a rank
that falls from every struct to those it mentions, ranks fall along the stack, so a call
is never for a struct in progress (`Orderly`). When every struct starts with a plain
member (`StartsPlain`), one in progress that calls has a member, and the guard turns the
call away; sizes are not final then. That no struct is left out at the end needs that
`order` covers all names, which `ProgramsAssumption` states: it is the list of the
declarations. Neither half of `RInv` would be inductive without `Core`: whether a size is
final depends on the callers that are still to come.

**ReaderProofs** (any file, run-time lengths and limits): `ReaderTypeCorrect` and
`FieldsInPlaceAlways`, the agreement of two layouts that are computed in different stages.
`ReadInv` keeps `RInv` and the types, adds `Shape` and `Chained` (what a call is doing, and
that each call reads an element of the one below it) and `InSync`, about the history
variable `place`:

* in every `Rigid` struct, the place is `Measured`: `from` plus the bytes of the members
  before it, along the line that `Lines` provides. This needs no trust in the addresses, and
  gives at the return of a call that it has passed exactly `InlineSize` bytes;
* in a call that is `Predictable` and `Advances`, as all its callers are, the address the
  call was given is `from`, and the running offset is `place - from`; in a struct that is
  read at once, the place is `Measured`. `Beyond` is the exception that `Predictable`
  allows: past a last struct of unknown length the offset means nothing, and nothing is
  read there.

`FieldsInPlace` alone is not inductive, since it is about the newest call and a return
brings back an older one, whose offset was advanced by a size the resolver computed.

**ParserProofs** (every text, any words, any `Depth`): `ParserTypeCorrect`,
`FailureRestoresAlways` and `EndsAlways`. A judgement says something of one function of
the parser, such as `Parses` (the cursor never moves back or out of the text), `Restores`
(it is where it was after an error) or `NeverFails`. For each judgement one lemma says how
the operators of `ParseForms` pass it on, and the functions of `PatternGrammar` have it by
their definitions, given that the functions they call have it. That is an induction over
the depth of the calls; `Rounds`, the loop, needs one over positions, from the end of the
text backwards; both are recursive functions, and that they satisfy their equations is
shown with the least-number argument of ResolverProofs. `Restores` alone is not inductive:
`statement`, `item` and `preprocessor` do not have it (at `const` and at a directive), and
their callers must not rely on it; several functions have it only because what follows a
token they have taken cannot fail (`Guarded`), among them the call of a function and both
readings of `be` and `le`.

`Ends` needs two more judgements. `Consumes`: a function that succeeds has moved the
cursor; where the elements of a loop have it, the loop gets further with every round
(`Moves` is its weaker form for the two loops with a recovery, the bodies of structs and
of bitfields, which move wherever the loop does not stop). `Returns(f, m)`: called from
position m on, the function comes back; `Eats` is both together. What the code cannot
give is what `Trap` excludes: without it, `be` or `le` and `::` are followed by a word, on
which `type` and `Name` do not fail (`Named`), and a `<` has no more of its kind behind it
than there are `>`. The list of template arguments then ends by counting: `Open(p)` is
the number of `<` from p on less that of `>`; a type leaves it no higher (`Balances`), so
that the list, entered below 0, is at a `>` before the text is over. The induction over
the depth has to say when a function comes back. `Rank` orders the functions in five
ranks: each calls only functions of lower ranks before it has moved, and any function
after that; so five nested calls get past an atom, and a function of rank k called at q
comes back if 5 * (atoms from q on) + k + 1 calls may nest (`Answers`, `GrammarEats`).

**SparseProofs** (any memory, layout, contents and any number of writes):
`SparseTypeCorrect`, `NoReentryAlways`, `SharingKeptAlways`, `GraphIsMemoryAlways`,
`NothingSkippedAlways`, `RereadSameAlways`. For the first two, the invariant adds
`ChaseIsRegistered`: the addresses of all structs being decoded below the client's are in
the current context; `Chase` needs an address outside it, so it cannot re-enter one. That
a new context starts with the client's struct does no harm, as the stack then has one
element. The recursion of the Go code is hence bounded by the number of addresses.

The next three are about what can be reached in the finished graph, and the code knows
nothing of reachability. `GInv` says of a first Unmarshal, at every moment and of all
structs made so far, that each was made for a pointer in an earlier one below the same
field of the client's struct (`Parents`); that below one field there is one struct per
address, the one in `visited` (`Distinct`, `Context`); that a pointer leads to the struct of
its address and its type (`Edges`); that an empty one has an error, or a struct of another
type at its address (`Skips`), or has not been come to (`Untouched`); and, while the target
holds still, that the words are those of the memory (`Words`). At the end the set of
structs below a field is closed under pointers, so what is reachable lies in it, and by
`Parents` it is all reachable: the least one that is not would have a reachable parent.

`RereadSameAlways` compares two traversals, of which the second starts with every
context empty and never looks at what it is about to keep. `RereadInv` numbers the first
one: structs are numbered in the order they are made, and a stamp `S[o][k]` is the number
of structs there were when slot `k` of struct `o` was come to.

* `Traced` says of the first `Unmarshal` what a getter holds in terms of its stamp: a
  pointer to an older struct, to the one made there, or, when it is empty without an error,
  a struct of another type at its address that was there already (`Decoded`); the
  next slot's stamp follows from what was made behind this one (`Followed`); the fields of
  the client's struct divide the structs into intervals (`ByField`).
* `Second` says that all this is left as it was (`Settled`), and that the second one's
  stack goes down the same pointers (`Synced`) with a context that holds exactly the
  structs below the current field up to the current stamp (`Remembers`). So each getter
  finds in the context what it found the first time, and gets the pointer it has.
* `Root` is needed for a first `Unmarshal` that could not read the client's struct: memory
  that is unchanged cannot be read the second time either.

**BatchProofs** (any requests, chunk size, target and number of calls):
`BatchTypeCorrect`, `BytesKeptAlways`, `FlushFillsAlways`, `FailureIsPrefixAlways` and
`FailsForReasonAlways`. That no byte is overwritten needs to know
that the step writes to a buffer nobody has written to. `Pending` says so, per position
in the code: the buffers from some position of the queue on are untouched (`Fresh`),
and, inside `Read`, the rest of the current one; the queue holds each buffer once.

The code knows of a batch only how many bytes were read, and
compares that with the sum of the lengths. The proof has to show that the sum is
reached only when each request was read to its end; `Batch` relates the progress of
the kernel to the partial sums, which never decrease. The sum is a recursive function;
that it is one is shown as in ResolverProofs.

The assumptions are the ASSUMEs of the modules: ranges of the constants, finitely many
names for `Resolver`, each of them declared once or more in the file's order, and for
`SparseUnmarshal` that readable contents are long enough for every layout (a short read is
an error in the code and is `Unreadable` here).

Model-checked only:

* liveness (`ReachesEnd`, `SearchEnds`, `ResolveReturns`, `UnmarshalReturns`,
  `FlushReturns`, `ReadReturns`), since the prover does not handle fairness and ENABLED;
* of the parser, `Walkable`, `Composes` and `TreeByPrecedence`: they walk trees, whose
  depth has no bound, with recursive operators.

## 5. Not modelled, and why

* Text: formatting, JSON, generated source, hexadecimal digits, the spelling of
  literals. The properties do not depend on it.
* `sparsestruct`: field offsets, byte orders and numbers, which end no chase (the
  getters alone carry the graph), and `Size`. `process`: `ReadStruct`, a read that is thrown
  away before an `Unmarshal` that is modelled, and the one-word reads.
* Resolver: enums, bitfields, `@` placements and expression transpilation; code
  generation: lazy readers, placements, follow methods, values of bitfields and enums.
  They are folds over a list whose result is text, with no order of steps to get wrong.
* `ghidra_export.go`, `funcgen.go`: one pass from a tree to text. `maps`: parsing of lines
  and a linear search. The Ghidra script runs inside another program, whose types and
  transactions would have to be invented. The generated example is output, the command
  and the test target are input and output.
* A `#pragma` without a value takes the line after it as its value (blanks are skipped
  after the key, the end of the line among them). `Pragma` does the same, but
  no comment or test says otherwise and no property is about it.
* Buffers shared between goroutines: nothing in the repository does that.
* Errors the kernel gives for other reasons than unmapped memory: one failure
  stands for all.

## 6. Plan

Done: the buffer and its stream; searches; the parser; resolution and the order of
structs; generated readers on what was resolved; batches; unmarshalling; proofs of every safety
property but three of the parser. What would come next, most useful first:

1. `Size` against the layout `Unmarshal` reads, and `ReadStruct` on top of both; lazy
   readers and the methods that follow pointers, against eager ones.
2. Values: enum continuation, bitfield packing, byte orders.
3. The layout of the C export against the offsets of the tags; `maps` lookups.
4. `StringPointer` and reused getters, once there is a stated expectation for reading
   into a used struct.
