# simplesql: a verification project in TLA+

simplesql is a code generator and a small run-time library for Go. An interface
whose methods carry SQL in their doc comments becomes a repository: the
generator parses the interface, compiles each SQL template to Go code that
builds a query and its arguments, and prints a method around it. At run time the
generated method asks a `ConnectionManager` for the transaction of its context
or for the pool, runs the statement, and scans the rows.

This directory holds the specifications of those parts, the TLC configurations
that check them on small instances, and the proofs TLAPS checks.

## 1. Inventory

| Component | Source | State | Operations | What is hard |
|---|---|---|---|---|
| Transaction management | `simplesql/connection_manager.go`, `querier.go` | the `*sql.DB`; the transaction hidden in a context | `NewConnectionManager`, `DB`, `StartTransaction` | nesting, panics, `Goexit`, goroutines that outlive the callback, cancellation, the pool's limit, refused and unacknowledged commits |
| Generated methods | `internal/templates.go` | none | one body per return type | which database a statement reaches, what is returned when a call fails half way |
| Row scanning | `simplesql/scan.go` | the rows' cursor, the result slice, the tag index | `ScanRows`, `FieldPointers`, `buildTagIndex` | errors in the middle of a result, the error of `Close`, the goroutine that closes a cancelled cursor; paths through embedded structs, fields of one name |
| Tokenizer | `internal/tokenizer.go` | position in the text | `tokenize`, `classifyAction` | where an action ends; nothing lost |
| Template compiler | `internal/compiler.go`, `helpers.go` | output, nesting of blocks, `needsStrconv` | `CompileBody`, `walk`, `emit*` | nesting, which branch a parameter belongs to, order of the arguments, placeholders per dialect |
| Interface parser | `internal/parser.go`, `types.go` | the lines of a doc comment, the methods read | `ParseInterface`, `extractSQL`, `buildParams`, `buildReturn`, `exprToString`, `usedImports` | where the query begins and ends; types that are printed incompletely or as another type; which import a name belongs to |
| Generator | `internal/generator.go`, `helpers.go` | the output buffer | `Generate`, `extractContext`, `renderMethod`, `buildImportBlock` | whether parser, compiler, method templates and imports agree, so that the printed file builds and is what the interface says |
| Runner and reader | `internal/runner.go`, `reader.go`, `interfaces.go`, `cmd/simplesql/main.go` | the file system | `Run`, `ReadDir` | a failure or a crash in the middle of several writes; the output is read by the next run |
| Configuration | `internal/generator_config.go` | none | `Load`, `UnmarshalYAML` | what is refused before anything is read or written |
| Examples | `examples/*` | | generated code and functional tests | use of all of the above |

How they interact: `main` loads the configuration and calls `Runner.Run`, which
reads each directory with `ReadDir`, which calls `ParseInterface`; for each
output file it calls `Generate`, which calls `CompileBody` for each method,
which calls `tokenize`. The printed methods meet the run-time library when the
user's program runs: they call `ConnectionManager.DB`, `FieldPointers` and
`ScanRows`. Only the run-time library is concurrent, and only the runner
persists anything.

What makes each part correct:

- *Transactions*: a callback's work is durable together or not at all; the
  answer of `StartTransaction` tells which; every transaction is closed, once, by
  the call that began it; nested calls join it; calls return.
- *Templates*: the compiler accepts exactly the well-nested templates; the
  generated code builds the query that the template means for every value of the
  parameters, with as many arguments as placeholders and in their order.
- *Rows*: a result without error is the complete result, every column in the
  field that means it; the rows are closed on every path; an error of `Close` is
  not lost.
- *Parser and generator*: the template is what stands after `@sql`; exactly the
  documented signatures are accepted and printed as declared; a context comes
  through to `cm.DB`; the file imports what it uses and nothing else.
- *Runner*: a run that succeeds leaves every output complete; a run that fails
  before it writes leaves the files alone; what an earlier run left in an output
  directory does not stop the next one.

The hazards are listed at their lines in `PROJECT.json`.

## 2. Modules and how they follow the code

| Module | Models | Instantiated by |
|---|---|---|
| `UnitOfWork` | abstract: units of work that are applied as a whole or undone | refined by `ConnectionManager` |
| `ConnectionManager` | `StartTransaction`, `DB`, `extractContext`, statements of generated methods; `database/sql`'s pool, transactions and cancellation | `MCConnectionManager` |
| `Tokenizer` | `tokenize`, `classifyAction`, `isIdent` | through `DocComment` |
| `DocComment` | `extractSQL` and the query's kind; extends `Tokenizer`, which cuts up what was read | `MCTokenizer` |
| `Template` | abstract: which templates are well formed, and which query one means | |
| `TemplateCompiler` | `CompileBody`, `walk`, `emitIfChain`, `emitText*`, `emitDirect` | through `GeneratedBody` |
| `GeneratedBody` | the Go code the compiler writes, executed by one call | `MCTemplate` |
| `Parser` | `ParseInterface`, `buildInterface`, `buildParams`, `buildReturn`, `exprToString`, `usedImports`, `defaultImportName` | through `Generator` |
| `Generator` | `Generate`: parsing of the entries, the pass that compiles, the pass that prints, `buildImportBlock`, `format.Source` | through `GeneratedFile` |
| `GeneratedFile` | abstract: which Go files build, which signatures are documented, what the interface's methods are | `MCGenerator` |
| `Rows` | `ScanRows`, `selectOneTmpl`, `selectManyTmpl`; `sql.Rows` | through `Scanning` |
| `TagIndex` | `buildTagIndex`, `collectTagIndex`, `fieldPointersFromIndex`; and the fields of a struct on its own | through `Scanning` |
| `Scanning` | `Rows` and `TagIndex` composed: what the elements hold | `MCRows` |
| `Runner` | `Load`'s refusals, `Run`, `ReadDir`, the file system, the user who edits | `MCRunner` |
| `Filter` | `Keep`, the loops that take some of a slice's elements: in `exprToString`, `usedImports` and the runner's grouping | through `Parser` and `Runner` |

Proofs are in `ConnectionManagerProofs`, `ConnectionManagerRefinement`,
`TokenizerProofs`, `TemplateProofs`, `GeneratorProofs`, `RowsProofs` and
`RunnerProofs`, each of which extends the module it is about. What they need of
sequences is proved once, in `SequenceLemmas`.

### ConnectionManager

A goroutine has a stack of callbacks; the frame of a call that began its
transaction owns it (lines 45-61), a nested call's does not (lines 41-43). A
context is what matters of it: the transaction under `txContextKey` and the
request that can cancel it. `pc` says which line of `StartTransaction` is next:
`begin` is 45, `commit` 71, `rollback` 63-69, `repanic` the deferred function at
51-60. User code is nondeterministic: it may call `StartTransaction` or a
generated method with a context it can reach (`Passes`: the callback's own,
`context.Background()`, or one captured from an enclosing function), start a
goroutine, and end in any way of `Outcomes`. `DB` (24-30) looks at the context
only, never at the manager it is called on; so does `CallNested`.

The parts of `database/sql` are marked external and follow from the calls the
code makes: `BeginTx` needs a free connection and an uncancelled context; a
transaction holds its connection until it is closed; a cancelled context makes
`awaitDone` roll it back at some later moment; `Commit` may be refused, and its
acknowledgement may be lost after it took effect; a closed transaction answers
`ErrTxDone`.

### DocComment, Tokenizer, Template, TemplateCompiler, GeneratedBody

`DocComment` reads a comment line by line (parser.go 189-217): prose is passed
over, the first line with `@sql` begins the query, every later line belongs to
it, and the first line alone gives the kind (217-228). Lines are sequences of
symbols; the slashes that make them comments are the first. What is joined goes
to `Tokenize`, so the tokenizer's inputs are what a comment can yield.

`Tokenizer` works on symbols: a brace, a blank, a keyword or a word. An iteration
of the loop (36-56) is one action. A text stays as it is, space for space; only the
words of an action are trimmed. `TemplateCompiler` reads one token after the
other, chosen while it is read, so that a run of it is a template; the two
recursive functions become the stack `frames`, a text is consumed match by match
of `namedParamRe`, and the output is a sequence of statements instead of Go text:
`write` a literal, `mark` and `arg` for `?` and its argument, `bind` for `$n`
with its argument, `subst`, and the lines of an `if`. Adjacent literals are not
joined, which no property tells apart. `GeneratedBody` runs the statements for
every choice of the conditions that hold and the `*string` parameters that are
nil. `Template` says independently what must come out: blocks are found by
counting, a name is bound when an odd number of colons stands before it. A body
that names something undeclared is stopped by `GoAccepts`, which stands for the
Go compiler.

### Parser, Generator, GeneratedFile

A Go type is the sequence of its words, an import path the sequence of its
segments. `FindInterface` is the search over a directory's files (28-67), one
`ReadMethod` step a method of the interface (69-115), in which a method without a
query is passed over and one with a signature that is not understood ends the
run. `exprToString` keeps what the code keeps: nothing of an expression it has no
case for, and a slice for an array. `buildReturn` counts the fields of the result
list, not its names. `usedImports` compares names the way the code does, by alias
or by the last segment of the path without its version.

`Generator` is the life of one output file: its entries are parsed one after the
other, each becomes a request, all methods are compiled (`CompileMethod`), then
the file is printed at once (`PrintFile`) and refused by `format.Source` if a type
is incomplete. Of a template only what the rest of the file depends on is kept, the
set `sql`: whether it binds a `:name`, which on Postgres needs `strconv`, whether it
holds the word RETURNING, which keeps the compiler from appending the clause, and
whether it names something that is no parameter. `Locals` are the names that the
query body and each method template declare.

`GeneratedFile` states the rules of Go on the declarations as the user wrote them
(`Valid`: only sources that compile are considered) and on the printed file
(`GoBuilds`), and the repository's table of signatures (`Documented`), without using
any of the generator's own definitions for them, save that a printed method is
asked which names its template declares. `GoBuilds` accepts nothing that Go
refuses: each name has one meaning in the file and its package (imports, structs,
constructors, what the package declares), what is imported is used and the reverse,
types are in scope, methods of a struct differ, and no parameter is a local of the
method's template or hides what the body means, be it a package, a predeclared
name or the type of the rows. It may refuse what Go happens to accept, where that
depends on parts of a body that are not modelled.

### Rows, TagIndex, Scanning

One call of a generated method that reads rows: `QueryContext`, `Columns`, the
loop `Next`/`Scan`, `Err`, the deferred `Close`, the return. A method for one row
goes through the loop once. Elements are addresses, so that sharing one element
between rows would show. `_err` is the set of the errors that were joined, so that
`errors.Join` keeps the error of `Close` beside any other (`Join`); a panic goes on
as it is. `NextRow`, `NextEnds`, `NextCancelled`, `CloseCursor`,
`RowsErr` and `AwaitDone` are `sql.Rows`: at the end of the rows or after a
driver error `Next` closes the cursor itself, an error of that close comes out of
`Err`, and a goroutine closes the cursor some time after a cancellation.

`TagIndex` is the index of scan.go 92-116, a field being a path of positions
through embedded structs. `Structs` are the struct types of a program, listed after
those they embed, which can be done because no Go struct embeds itself.
`collectTagIndex` is a recursive function on the beginnings of these structs
(`Heads`): what the loop has done after its first fields rests on one field less and
on the struct that is embedded last. A name that is not in the map has the empty
path. `Fields`, and with it `Leaves`, `FieldsOf` and `Before`, say what a struct's
fields are and in which order they are declared, without an index. `Scanning` adds to every step of `Rows` what the
element holds afterwards. A tagged field that is not exported makes the pointers
panic before `Scan` is called, and the deferred `Close` still runs.

### Runner

A process that runs the generator loads the configuration, sorts its keys,
groups them by output file, and for each file parses the interfaces, generates,
opens and writes it, then goes on to the next. `LoadFails` stands for the checks
of `Load`, `BadKey` for `splitKey`; both end the run before anything is read. The
order in which Go iterates over the configuration's map is chosen anew by every
run. The content of a file is what it was generated from, with the version of the
sources at that moment. `os.WriteFile` is two steps, open-and-cut and write,
between which a crash, a full disk or another process may come. `Readable` is
`ReadDir`: every `.go` file of a directory must parse, also those an earlier run
left there, which matters when `place` puts the outputs beside the interfaces.

### The definitions called Wrong...

Each is a mistake one could make in the definition below it: a dropped guard, a
swapped order, a forgotten case. No specification uses them. They are there to be
put in the place of the right definition, to see that the property listed with
them in `PROJECT.json` notices.

## 3. Runs

| Run | Checks | Bounds | Shows |
|---|---|---|---|
| `reentrant` (`CMReentrant.cfg`) | `CallbackIsAtomic`, `OneTransactionPerStack`, `CallsReturn`, `TransactionsClose` | 1 request, 1 goroutine it may start, 2 transactions, 1 statement, depth 2, pool of 1 | with contexts handed on as given, everything below a callback is durable together or not at all, calls return and connections come back |
| `free` (`CMFree.cfg`) | `TypeOK`, `FailedCallbackNeverCommits`, `ReplyTellsTheOutcome`, `OpenTxIsOwned`, `EffectsFollowTheContext`, `IInv`, `UnitRefinement` | the same with a pool of 2, any context, every outcome | what holds whatever user code does, with contexts that outlive their transactions too; the inductive invariant |
| `background_atomicity` | `CallbackIsAtomic` is violated | `Passes` with `background` | finding 1 |
| `goexit` | `OwnerClosesItsTx` is violated | `Outcomes` with `goexit` | finding 2 |
| `tokenizer` (`TKAll.cfg`) | `TypeOK`, `NothingLost`, `TextsAreMaximal`, `TemplateIsTheRest`, `KindIsLeadingKeyword` | all templates of 6 symbols, two actions with stray braces around them, and all comments of 3 out of 10 lines | a comment yields the template after its tag, and the tokens stand for it piece by piece: no text loses a symbol, not even a space |
| `template` (`TCBody.cfg`) | `BodyTypeOK`, `AcceptsWellFormed`, `StrconvIffUsed`, `BodyMeansTemplate`, `DollarsNameTheirArgs` | all templates of 6 tokens with 2 texts or substitutions, 2 conditions, MySQL and Postgres | exactly the well-nested templates compile, a refusal at a token comes only where no continuation is well nested, and the generated code sends what the template means |
| `template_returning` | `OneReturningClause` is violated | 4 tokens | finding 3 |
| `generator` (`GNFiles.cfg`) | `TypeOK`, `SignaturesAreKept`, `TableIsEnforced`, `ContextIsForwarded`, `IdComesBack`, `PlainFilesBuild` | 2 methods out of 40 (17 parameter lists, 15 result lists, 8 with a peculiar name or template), 2 lists of entries, 5 directories, MySQL and Postgres | exactly the documented signatures come out, as declared, and plain sources give a file that builds |
| `generator_signatures` | `MatchesInterface` is violated | arrays and results that share a type | finding 4 |
| `generator_builds` | `GeneratedFileBuilds` is violated | documented signatures only | finding 5 |
| `rows` (`RWShared.cfg`) | `TypeOK`, `CompleteOrError`, `NotFoundIsTrue`, `ConnectionIsReleased`, `CloseErrorsAreTold`, `ColumnsReachTheirFields`, `CallsReturn` | 2 calls, 2 rows, pool of 1, 8 pairs of a struct and columns | no short result, no false "not found", every column in its field, no connection kept, no error of closing lost beside another |
| `runner_faults` (`RNFaults.cfg`) | `TypeOK`, `FailsForAReason`, `ErrorsKeepFiles`, `OverlappingRunsAgree`, `SuccessIsComplete`, `RunsEnd` | 2 processes, 2 runs each, 1 edit, 1 fault, 3 interfaces in 2 files, outputs apart or beside | what is on the disk after each kind of end |

Why the bounds suffice. *Transactions*: the hazards need one owner with one
nested call (`MaxDepth` 2), one further transaction to confuse it with and
one goroutine besides; the properties speak of one statement at a time, and the
proofs cover the other sizes. *Templates*: six tokens hold a chain `if`, `else if`, `else`,
`end` with something in two branches, and a block in a branch; the two texts hold
a parameter, a cast to a type called like a parameter, a cast right before a
parameter and a colon that binds nothing. `IdMethods` is `{TRUE}` because a
method that reports an id differs only on Postgres and only in the clause at the
end. SQLite takes MySQL's branch everywhere. *Comments*: three
lines are one before the tag, the tag and one after it, or the tag and two.
*Files*: two methods, or two interfaces of one method each, are what the imports,
the flags and the order of methods depend on; the bound counts all methods of the
output file. The peculiar methods have a parameter called like a local of the
template, like `nil` or like the type of the rows, the name of the struct's field, a
RETURNING of their own, or a `:name` that is no parameter. The five directories have
an alias that another file of the directory uses otherwise, a dot, a blank and a
misleading import, package `context` under another name, an interface in another
package, which declares a constructor already, and none. *Rows*: two rows tell the first from another one, and
the method for one row from an empty result; the shapes have embedded structs
twice, nested, with fields of one name before and after them, with dropped and
unwanted columns and with a field that cannot be set. *Runner*: two files, one of
them shared by interfaces whose keys are not neighbours; two runs, so that one
repairs what the other left.
`MaxOpen`, `MaxDepth`, `MaxTokens`, `MaxLeaves`, `MaxMethods`, `MaxRows`,
`MaxEdits`, `MaxFaults` and `MaxRuns` are all the bounds there are.
`CHECK_DEADLOCK FALSE` is set in every configuration because every system here may
come to its end: all transactions used, the template run, the file printed, the
calls returned, the runs made.

Fairness. `ConnectionManager`: weak fairness of each goroutine's calls into
`database/sql` (they answer when they can) and of `awaitDone`, a goroutine that
`database/sql` started; strong fairness of a callback's end at each depth, which
is the assumption that user code does not loop for ever. Nobody is obliged to
cancel. `Rows`: weak fairness of each method, nothing of `awaitDone`. `Runner`:
weak fairness of a process that runs. The Go scheduler and the operating system
justify these; nothing stronger is assumed.

## 4. Findings

1. A method without a `context.Context` parameter is generated with
   `cm.DB(context.Background())`. Called in a callback it works outside the
   transaction, where the README promises that the same repository works
   "transparently" inside and outside. With the SQLite examples' pool of one
   connection it even waits for ever for the connection its own transaction holds.
2. A callback that ends its goroutine with `runtime.Goexit`, as `require.NoError`
   does in the tests' callbacks, leaves the transaction open.
3. `RETURNING id` is left out when those letters occur anywhere in the template,
   in a column's name say or in a branch that is not taken.
4. An array is printed as a slice, and results that share a type,
   `(a, b *T, err error)`, count as one: the printed method is not the interface's,
   where the README promises an error at generation time.
5. A file all of whose methods return nothing imports `cockroachdb/errors` without
   using it and does not build, although the README lists that signature.

Seen, and not counted as findings because no document promises otherwise:

- `txContextKey` is the same for every manager: inside a transaction of manager A,
  `B.DB(ctx)` answers A's transaction.
- `{{if <expr>}}` ends at the first `}}`, so a condition that contains one is cut.
- A context under another name of its package, through an alias or a dot import,
  becomes a parameter of the query, since `extractContext` compares the spelling of
  the type. The README speaks of `context.Context` only; `ContextIsForwarded` says
  nothing of it either way.
- The package of a map's values or keys is not found by `usedImports`; a dot
  import is kept whether it is needed or not; a package whose name is not its
  path's last segment needs an alias.
- A parameter called like the receiver, a variable of the body or of the method's
  template (`_err`, `_rows`, `_dest` and so on), a package the body uses, `nil` or
  another predeclared name it uses, or the type of the rows, takes that name's
  place, and the file does not build; nor does it with a `:name` that is no parameter.
- Two entries with one interface or one struct name in a file, entries of
  different packages, and a package that declares a name the file declares too (the
  struct's or `New` and the interface's) give a file that does not build.
- An empty line right after `@sql` hides the kind of the query, so that an INSERT
  with `(int, error)` answers a number of rows; a block comment is read with its
  delimiters.
- In the README's layout, outputs beside the interfaces, a file that a crash left
  cut makes every later run fail until it is deleted.
- A method for one row answers a pointer together with an error when only `Close`
  failed.

## 5. Proofs

`ConnectionManagerProofs` (for any goroutines, managers, transactions,
statements, depth and pool): `Typing`, `Invariance`, `CommitNeedsSuccess`,
`RepliesAreTrue`, `NoOrphans`. The safety properties are not inductive: that a
committed transaction had a successful callback depends on the frame that owns it
reaching line 71 only with that verdict, and that in turn on nobody else owning
it. `IInv` adds exactly this: `BeginInv` (a transaction being begun belongs to
one call), `FrameInv` (an owner's transaction has one owner and no verdict until
the owner closes it) and `OutcomeInv` (records agree with progress). There is one
lemma per action, and lemmas on how pushing, popping and clearing a stack change
who owns what.

`ConnectionManagerRefinement`: `Refinement`, every step of `ConnectionManager` is a
step of `UnitOfWork` or a stutter under `PhaseOf`, with one mapping lemma per kind
of action; and `FollowsTheContext`, that a statement is durable exactly when it
succeeded and the transaction its context carries was committed, however late it
is issued and through whichever manager. `SharedFate` strengthens it: a
transaction holds exactly the statements that succeeded with its context, and who
waits for the pool has a context without one. The run has one manager, so that a
context of another manager's is covered by this theorem only.

`ConnectionManagerProofs` also proves, under the assumption `HandsOnItsOwn`, that user code hands
on the context it was given: `Reentrancy`, that all callbacks of a stack share one
transaction, and `Atomicity`. `StackInv` says that only the outermost callback owns
a transaction and that every other context on the stack carries it; `StmtInv`, that
a statement is pending in the transaction of the call around it and takes effect
only with it. The assumption is needed: `background_atomicity` is what happens
without it.

`SequenceLemmas`: the library's induction theorems take an operator as a parameter,
which no prover here can instantiate. So the module derives induction from the
library's well-founded relation on the numbers: a set of numbers that is not empty
has a least element, hence a set that holds 0 and with each number the next holds
all numbers, and the same of a set of sequences and `Append`. With it follows what
`FlattenSeq` and `Keep` do to a sequence that is appended to, put together or
related to another one element by element, and what a sequence stands for whose
elements each stand for a sequence (`Each`). Every proof below that speaks of
sequences of any length rests on these.

`TokenizerProofs` (any comments, symbols and words): `Typing`, `Lossless`,
`WholeTexts` from the invariant `Inv`, and `RestIsTemplate`, `LeadingKeyword` from
`Told`. What a token may stand for is said by `Stands`: a text for itself, symbol for
symbol, an action for its words in braces with any space around them; `Covers`
lays the tokens end to end over what was read. `Cut`, in `Inv`, adds to the properties that text which is still to be read
follows an action. `Told` says of a comment that is being read that the words
of the lines taken so far, followed by those of the lines that are left, are the
words after the tag; before the tag, that the rest of what is left is the rest of
the whole. `Normal`, the words of a text with one space between them, is what
is compared: a line's break, the space after the slashes and the blanks that
`TrimSpace` cuts off do not count, and the proof is that `Normal` of two texts with
any space between them is `Spaced` of both.

`TemplateProofs` (any template, parameters and conditions): `BodyTyping`,
`StrconvFlag`, `DollarNumbering` from `BInv`, `AcceptsExactly` from `WInv`, and
`BodyMeaning` from `CInv` and `RInv`.
`BInv` says that the flag is raised with the first statement that needs it, that no
`?` is ever written on Postgres, and that the number of a placeholder is beyond all
arguments before it and never beyond those after it. `WInv` says that the stack of
`walk` and `emitIfChain` is what counting finds: as many frames as blocks are open,
and the frame at depth d is `else` exactly if the block that is open at that depth
has had its `else`. From it follows that the compiler accepts the well-formed
templates and no other, where well-formed is said without a stack: what compiles is
well formed, what is refused at its end is not, and what is refused at a token has
no continuation that is (`WellBegun`, and `RejectsForGood`).

`BodyMeaning`, in the same module, is `BodyMeansTemplate` for every template, all
values of the parameters and all three dialects. The meaning of a template is said
by counting blocks and colons and knows neither compiler nor statements, so the
proof goes through both. `CInv` is about the compiler: the statements written are
cut into one piece per token (`Codes`), a piece says what its token means, and the
arguments it gives are those that it asks for, in their order; while a text is
emitted, the statements so far say what its first symbols mean, and `paramNames`
holds the arguments that are still owed (`Emitting`). `RInv` is about the call:
after so many statements so many tokens are done and their meaning is in the query
(`At`), and each if statement around, if those outside it run, is `on` exactly when
its branch is the first whose condition holds and `seek` exactly when none held yet
(`BlocksAre`). At the end the n-th placeholder gets the n-th argument, by counting
where they are `?` (`MarksAsk`) and by `Numbered` where they are `$n`.

`GeneratorProofs` (any interfaces, declarations, imports and entries whose sources
compile): `SignaturesKept`, `TableEnforced`, `ContextForwarded`, `IdsComeBack`,
`PlainFilesAreBuilt` and `GeneratorTypes`. The generator parses interfaces, compiles all their methods, then
prints all of them: three lists that nothing in the code ties together but their
order. `GInv` ties them: what the parser took stands for the declarations with a
query (`Stand`), each request for its interface, the compiled methods and those to
compile for the same declarations of all interfaces in their order. What is left is
about one declaration: that a printed type is the declared one unless it has an
array or something `exprToString` has no case for, that a result list is accepted
exactly if the README has it.

`PlainFilesAreBuilt` is about a whole file. The parser picks imports by the words it
finds before the first dot of a type, the Go compiler by the names before any dot,
and the printer adds words of its own (`*`, `[]`, the generator's packages). `GInv`
also says what imports a request keeps. A type of a plain declaration has no map
with a dot, no array and nothing opaque, so by the grammar of types (`GoType`) it is
pointers and slices before one selected name (`PlainSelects`): there both find the same
package (`PicksMentions`). Hence every package a printed type mentions is imported
(`MentionedImported`) and every import that is kept is mentioned (`KeptUsed`).
`context` and `strings` are used by every method's body or parameters (`MethodsUse`),
`errors` by the bodies that answer something, `strconv` exactly when the flag is up; no two
imports share a name (`ImportsDiffer`), and neither do structs, constructors and
what stands around them (`NoClashes`). No parameter is a local of its template or
hides what the body means, `RowsDeclared` relating the printed type of the rows to
the declared one (`MethodsBuild`). Names stand once in a parameter list because they
do in the declaration (`ParamsDiffer`), and the methods of a struct differ because
those of an interface do: that is `NInv`, an invariant of its own
(`MethodsAreDistinct`), which follows the names from the parser to the compiled
methods.

`ContextForwarded` speaks of parameter lists whose first type is package `context`'s
under that name, and of those whose first type is no context under any name.
`IdsComeBack` counts a RETURNING in the template: the clause is appended only for
the method template that reads it, and what that template reads was appended or
written by the user.

`RowsProofs` (any calls, rows and pool): `Typing`, `NoShortResults`,
`NilMeansNoRow`, `ConnectionsComeBack`, `CloseErrorsReachTheCaller`, which is of the
set of joined errors and of failing calls too, from an invariant on how far elements, driver and cursor have come together at each point
of the method. Its essential clause is that a cursor which closed itself is at
the end of the rows or has an error for `Err` to tell. These proofs are about
`Rows`; by `ScanningIsRows` they hold of `Scanning`, which the run checks.

`ColumnsReach`, in the same module, is `ColumnsReachTheirFields` for structs with any
fields, embedded to any depth, and any columns. By induction on the list of structs
and the length of each (`HeadsGrow`, `HeadInduction`) the two recursive functions,
`collectTagIndex` and `Fields`, exist and satisfy their equations (`CollectIs`,
`FieldsIs`). Then, by the same induction: after the loop has gone through a head, the
path of a name is that of the field declared last among those with that tag,
wherever the head is embedded, and if there is none the path the map had before
(`CollectFiles`). An element is filled from the row at its address when it is
appended (`ScanningInvariance`), the slice of a call that succeeded is the rows in
their order (`Elements`), and of the columns with one target the last one
stays (`FilledIsRight`).

`RunnerProofs` (any processes, keys, layouts and bounds): `FailuresHaveReasons`
and `LoneRunsKeepFiles`, which says that a single process without faults leaves
every file whole however it ended, from `RInv`; `ErrorsCostNothing`,
`OverlapIsHarmless`, `SuccessIsCompleteHolds` and `TypeCorrect` from `Work`. `Shape`
says what a process has in its variables at each line; `LoneInv`, that if no other
process ever ran and nothing crashed, the only damaged file is the one being
written. `Work` follows a run through its configuration: the groups before it are a
part of the configuration's groups (`Progress`), what it has parsed for the present
one is what the first keys of that group say and no older than the run
(`Collected`), what is behind a lone run is up to date (`LoneDone`), a complete file
was made of its own keys (`Files`), and a file that is cut has a writer (`Shared`),
so that the last one to write it completes it.

The proofs assume the named `ASSUME`s of the modules only: sets of different kinds
of names are disjoint, bounds are numbers, texts are sequences of strings, the
lines of a comment begin with slashes, the words of a declaration's types are in an
order Go's grammar allows (`GoType`: a name ends a type or stands by a dot), imports
are paths with an alias, the five packages the generator imports are called what its
templates call them, the keys of a configuration are what they are called, no key
comes twice, there is a process, layouts place every output, structs are listed
after those they embed, what is scanned into is one of them.

Every invariant and action property that a passing run checks, and the refinement,
is stated by a theorem. Only model-checked is liveness (`CallsReturn`,
`TransactionsClose`, `RunsEnd`), which needs fairness and `ENABLED`.

## 6. Not modelled

- *Numbers the driver answers* (`LastInsertId`, `RowsAffected`): passed through by
  `execRows`, `insertID` and `insertIDReturning`.
- *YAML*: decoding, the shorthand for an output and the default dialect. What
  `Load` refuses is in `Runner`.
- *go/parser and go/format*: a declaration is what the source holds; of formatting
  only the refusal of an incomplete type.
- *The order and grouping of imports* (`isStdlib`), which matters to readers only.
- *Identifiers' characters*: `isIdent` and the regular expression for parameters
  are on whole words.
- *SQL itself*: a statement is a name. A `?` or `:name` inside an SQL string
  literal is not recognised by the code either, and no document says it should be.
- *Conversion of a column to a Go type*: a value is its column and row.
- *Logging, file modes, error wording and stack traces.*
- *Examples*: uses of the program. Their generated repositories are outputs of
  what is modelled; their patterns chose the bounds.

## 7. Plan

Done, in this order: `ConnectionManager` with `UnitOfWork`; the tokenizer, the
compiler and the generated body; `Runner`; `Rows`; then `DocComment`, `Parser`,
`Generator` and `GeneratedFile`, `TagIndex` and `Scanning`, liveness in the
`reentrant` run, and the proofs of each.

Left: a run of generated methods inside transactions, composing `Scanning` with
`ConnectionManager`, both of which hold a connection of one pool.
