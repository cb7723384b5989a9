# Verification of increparse

`increparse` is a multi-pass, incremental parser framework. A document is a tree
of regions; passes, one per round, expand regions into smaller ones, accept them
or fail them; a text edit resets what it may have changed, and the next run
re-parses that and reuses the rest. `increparse-lsp` puts documents behind a
language server; `increparse-lua`, `-nom` and `-chumsky` are ways to write
passes.

This directory holds TLA+ models of the core, of the language server, of the ways
to write passes and of the mini language the examples parse, the TLC runs that
check them on small instances, and proofs, checked by TLAPS, of nearly all the runs
check for every value of the constants.

## 1. The system

| Component | State | Operations | Talks to |
|---|---|---|---|
| Spans and edits (`span.rs`, `session.rs` 28-119) | values | `map_pos`, `map_end`, `touches`, `contains` | used by the tree |
| Parse tree (`tree.rs`, `node.rs`) | an arena of nodes: span, context, status, depth, attempts, parent, children, alive | `edit`, `ready_jobs`, `apply` (with reuse and detach), queries | owned by the session, driven by the engine |
| Engine (`engine.rs`), session (`session.rs`) | none between runs; during one: round, batch, report | `Session::edit`, `Session::run` | calls the executor with a batch, merges its results |
| Executors (`executor.rs`, `executor_rayon.rs`) | the batch of one call | `execute` | run passes, read the cancel token |
| Cancel token (`cancel.rs`) | one shared atomic flag | `cancel`, `reset`, `is_cancelled` | set by any thread, read by engine and executor |
| Passes (`pass.rs`, `schedule.rs`) | none: pure by contract | `parse` | called by executors |
| Lua passes (`increparse-lua/src/lib.rs`) | the evaluated configuration | decoding of answers, `deep_eq` of contexts, diagnostic and symbol hooks | passes and hooks that call a script |
| nom and chumsky adapters | none | move a parser's answer from its slice to the text | passes |
| Mini language (six examples) | none | four skeletons for the first round, two shared passes, hooks | passes and hooks of sessions and servers |
| Document (`lsp/document.rs`) | text, version, line index, session | `open`, `apply_changes`, conversions | edits and runs its session |
| Positions (`lsp/line_index.rs`, `encoding.rs`) | table of line starts | `offset`, `position` | used by documents |
| Diagnostics (`lsp/diagnostics.rs`) | none | `diagnostics` | walks the tree of a document |
| Server (`lsp/server.rs`) | the open documents | message loop, `serve` | the client, through the reader and writer threads of `lsp-server` |
| SimpleLanguage (`lsp/simple.rs`) | the hooks it was built with | hover, symbols, diagnostics, capabilities | answers for the server from a document's tree |

What is hard here:

* **One tree, many runs.** A node lives through any number of edits, runs,
  failures, retries and reuses; `depth`, `attempts`, `status`, the two directions
  of the parent/child links and the `alive` flag have to agree after all of them.
* **Concurrency.** The token is set and cleared by other threads at any moment;
  the engine and the executor read it separately; the rayon pool reads it once
  per job on several threads.
* **Partial batches.** An executor may return a prefix. What it left out must be
  found again.
* **Boundaries.** Edits at the ends of spans, empty spans and empty texts,
  regions with equal spans, children that cover their parent.
* **Stale reuse.** What a run keeps was computed from an older text, for a region
  that has moved since. It must still be the answer for the text as it is, at the
  place where it is, and the keeping must not be skipped either.
* **Two notations for one language.** Slices and whole texts, tokens and patterns,
  tables listed in any order: what a skeleton, an adapter or `deep_eq` takes for
  equal decides what is reused.
* **Misbehaving passes.** Children outside the parent, of another revision, not
  smaller under `enforce_shrink`.

What makes each component correct:

* Spans: containment and revision survive every edit; untouched text keeps its
  bytes.
* Tree: the live nodes are one tree; ids are stable; reuse never duplicates,
  revives or re-parses a node.
* Engine: no pending node is passed by; every reset node can be reached again
  from the root; reports tell the truth; runs end.
* Executors: the contract of `executor.rs:14-20`.
* Queries and diagnostics: they see exactly the live tree.
* Document and positions: the document's text is the client's; the session's
  spans follow the text; positions land on character boundaries.
* Passes: what a script or a combinator answers is an outcome the engine can take,
  on the region's revision, whole; contexts match when they are the same data.
* A language over a session: after any edits and runs the tree is the one a parse
  from nothing builds, and the editor is shown just that.
* Server: every request is answered once; the client ends up showing the
  diagnostics of what is open; the server ends when the client does.

## 2. The modules

| Module | Models | Extended by |
|---|---|---|
| `Spans` | `Span`, `Edit`, `map_span`, `touches` | `ParseTree`, `Document` |
| `ParseTree` | the arena as a value: operators for every operation of `tree.rs` | `Engine` |
| `Engine` | session, run loop, token, bounded counters: the state machine | `TreeQueries` |
| `TreeQueries` | `node_at`, `is_settled`, `pending`, `status_counts`, the diagnostics walk, on every tree the engine reaches | `MCEngine` |
| `MCEngine` | passes and contexts for TLC | |
| `ExecutorContract` | what the engine relies on of `execute`: the abstract specification | instance in `Executors` |
| `Executors` | `SerialExecutor` and `RayonExecutor` as processes | `MCExecutors` |
| `MCExecutors` | outcomes for TLC | |
| `Positions` | texts, `LineIndex`, `PositionEncoding` | `Document` |
| `Document` | one document with its client: batches of changes, and the edits they become (with `Spans`) | `MCDocument` |
| `Server` | the message loop, its two I/O threads and a client | `MCServer` |
| `MCDocument`, `MCServer` | texts, insertions and requests for TLC | |
| `Incremental` | a text, its session and a language, composed with `Engine`: passes are functions of the text | `FreshParse` |
| `FreshParse` | the parse of the same text from nothing, which the incremental one is compared with | `EditorFeatures` |
| `EditorFeatures` | `SimpleLanguage`, the hooks of the two example servers and of `LuaLanguage`, over the trees `Incremental` reaches | `MCIncremental` |
| `Listings` | `Iterator::filter_map`, which the queries and hooks that list something share | `LuaPasses`, `EngineProofs` |
| `MiniLang` | the mini language scanned by hand, and the passes all skeletons share | `NomLang`, `ChumskyLang`, `LuaLang` |
| `Adapters` | the nom and chumsky adapters, with their theorem | `NomLang`, `ChumskyLang` |
| `NomLang`, `ChumskyLang`, `LuaLang` | the first round with combinators and with Lua patterns | `MCIncremental` |
| `LuaPasses` | decoding of a script's answers, the hooks' results | `LuaLang`, `LuaLanguage` |
| `LuaValues` | Lua values, `deep_eq`, and the data it is measured by | `LuaLanguage` |
| `LuaLanguage` | a configuration loaded, contexts built field by field, answers item by item | `MCLua` |
| `MCIncremental`, `MCLua` | texts, configurations, values and items for TLC | |
| `SpansProofs`, `ParseTreeProofs`, `EngineProofs`, `ExecutorsProofs`, `IncrementalProofs`, `DocumentProofs`, `ServerProofs`, `LuaProofs` | theorems | |

### How state and actions correspond to the code

`Engine` keeps the tree in `nodes`, a function from ids `0 .. n-1` (the `Vec`
index) to node records with the fields of `Node`. `rev` and `textLen` are the
session's revision and the length of the text the caller passes to `run`; the
bytes themselves do not matter, since what a pass answers for a region is any
element of the constant `Parse(pass, span, ctx)`. Leaving the choice open covers
every text and every pass, impure ones too: re-parsing a region may give another
answer than before, as it does when the text changed.

A run of `Engine::run` is cut where another thread can be seen:

| Action | Code |
|---|---|
| `EditText(e)` | `Session::edit`, with the text changing to match |
| `StartRun` | the call of `Session::run` |
| `SeeCancelled`, `NothingReady`, `CollectJobs` | the top of the loop, `engine.rs:287-303`: the token is read once, then the jobs are collected |
| `ExecuteJob(id)` | the executor reads the token, then runs the next job; `Engine::execute_job` fails a job of a round with no pass |
| `StopBatch` | the executor returns the batch or, if it saw the token, the prefix it ran |
| `MergeJob(id)` | one iteration of the merge loop, `engine.rs:306-319`, with the whole of `ParseTree::apply` |
| `EndRound` | `engine.rs:321-329` |
| `RoundsExhausted` | `engine.rs:331-333` |
| `Cancel`, `ResetToken` | `CancelToken::cancel`, `reset`, by any thread at any moment |

The check at the top of the loop reads the token and collects the jobs in one
step: only the calling thread touches the tree, so a token set in between is the
same as one set after the step. The batch is in id order, as `ready_jobs`
collects it, and so is the merge.

`apply` is one operator per outcome: `Accept`, `Fail` and `Expand`. In `Expand`
the code's loop over slots, each taking the first remaining old child with its
span and context, is stated as a matching: a slot keeps the old child that has
the same rank among the old children of that region as the slot has among the
slots that ask for it (`Keeps`). `Detach` is the least set closed under child
links instead of the recursion.

`TreeQueries` and `Executors` are described in their headers. In `Executors` a
slot is `queued`, `running`, `skipped` or `done`; the serial executor takes
slots in order and stops at the first one it skips, the pool takes them in any
order on `Threads` threads and takes all of them.

In `Positions` a text is a sequence of characters, which differ in their width in
UTF-8, UTF-16 and UTF-32 and in whether they end a line; offsets are bytes.
`Document` splits `apply_changes` at each change of the batch, so that its
invariants hold between changes too, and leaves the run at its end to `Engine`.
Of the tree it keeps the root and one region for every stretch of the first text,
which stand for whatever regions a run made. Its client computes positions
in its own text by the protocol's rules and sends `Overshoot` more than the
column of a line's end, as editors do.

In `Server` the contents of a document are the changes that made it, and its
diagnostics are its contents, which is what `Document` and `Engine` are about.
The client may send anything at any time, a change to a document that is not
open and an exit without shutdown included, and may vanish. Each message passes a
pipe, the reader thread, the main thread, the writer thread and a pipe, each with
its own step; the main thread waits until the writer takes what it sends
(`lsp-server`'s stdio channels hold nothing). The threads, and the wait of
`handle_shutdown`, belong to `lsp-server`, which is not in the repository: they
are modelled from how `serve` and `run_loop` use them and marked external.

| Action of `Server` | Code |
|---|---|
| `Shutdown`, `AwaitExit`, `TimeOut` | `handle_shutdown`, `server.rs:290` |
| `HandleRequest`, `HandleMalformed` | `server.rs:293-361`; `?` on parameters that do not parse |
| `HandleDocument`, `HandleOther` | `server.rs:363-419` |
| `LoopEnds`, `SendFails` | the channels are disconnected |
| `Join` | `io_threads.join()`, `server.rs:462` |

In `Incremental` a text is a sequence of tokens, each one offset wide, so that an
offset falls between tokens and a slice is a `SubSeq`. Every action of it is one
of `Engine`'s on a text:

| Action of `Incremental` | Code |
|---|---|
| `Type(first, last, typed)` | the client splices its text and calls `Session::edit`, as `mini_lang.rs`, `incremental_tests.rs` and `Document::apply_changes` do |
| `StartRun`, `RunStep` | `Session::run` with a token nobody sets |
| `ParseJob(id)` | the serial executor: the pass of the round on the current text |
| `FinishBatch` | the executor returns the whole batch |

The language is an operator constant, `Lang(language, pass, text, span, ctx)`. The
assumption `LocalAssumption` says of it that a pass answers from the text of its
region and its context alone, up to where the region lies. `pass.rs` hands a pass
the whole source and does not ask for this; reuse is sound for such passes only.
TLC evaluates the assumption for the four skeletons on every text of the run.

`Fresh`, in `FreshParse`, is the parse from nothing that the incremental result
is compared with: a recursive function over rounds and regions, with no arena, no
batches and no reuse. `Shown` reads the tree in the same form. `EditorFeatures` asks the
tree what an editor asks it, and compares the answers with what the fresh parse says:
the outline with its functions, the hover with its deepest region at the offset, the
diagnostics with its returns that failed or that no round got to, in text order.
Its `ApartAssumption` says of a language that the children a pass returns do not
overlap, as those of the examples do not; without it `node_at` descends into the first
child at the offset, which need not hold the deepest region there.
`OneRoundAssumption` says of a language that a context expands in one round only,
as those of all skeletons do: a file in the first, a function in the second. The
code does not ask for this either, and without it the comparison fails (the child
of section 5.2 that keeps its round and is never parsed).

`Adapters` moves children from the slice the combinators saw to the text. The nom and
chumsky passes of the examples are those of the first round, whose region is the root,
at offset 0; that they answer rightly at other places is checked by `LocalAssumption`,
on every region of every text, and follows from `AdaptersKeepTheContract`.
`LuaPasses` has what may come back from a script as records `[is, items]`, an error
included; the order of a table's `pairs` is the order in which its entries are
stored, and `LuaLanguage!SetField` lets a new entry land anywhere, as a hash table
does. `LuaValues` has `deep_eq` and, as a measure for it that knows nothing of entries
and their order, `DataOf`: all that can be read in a value along any path of keys.
A number is known by its value, whether it is held as an integer or as a float. The
constant operator `AsFloat` is the cast `as f64` by which `deep_eq` compares one with
the other: `FloatAssumption` says that it leaves floats alone, and nothing says that it
leaves integers alone. A value is `Exact` if it does so to all numbers in it.

## 3. The runs

All cfgs say `CHECK_DEADLOCK FALSE`: the counters of runs, edits,
cancels, changes and messages are bounded and the system stops when they are used
up, or when the server has ended.

| Run | Question | Instance |
|---|---|---|
| `engine_reuse` | Do reuse and dropping keep one tree, stable ids and settled regions, and do the queries see just that tree? | 3 passes, 2 runs, 1 edit, texts up to 2 bytes |
| `engine_edits` | Do spans, home rounds and the path from the root survive edits, and does anything forbidden enter the tree? | 2 passes that may misbehave, 3 rounds, `enforce_shrink`, 2 runs, 2 edits, texts up to 3 bytes |
| `engine_cancel` | Do partial batches and a flickering token lose, repeat or misreport work, and does every run return? | 2 passes, 2 runs, 1 edit, 1 cancel, any reset, executor stopping anywhere, texts up to 2 bytes |
| `executors` | Do both executors keep the contract and return? | 4 jobs, 2 threads, 2 cancels |
| `document` | Do text, spans and positions of a document follow its client? | texts of 0, 2 and 3 characters of 1, 2 and 4 bytes in two lines, UTF-16, 2 changes in 1 or 2 batches, columns 1 past the end |
| `server` | Is every request answered, does the client show what is open, does the server end? | 2 documents, 2 requests, 3 messages besides shutdown and exit, pipes of 1 |
| `incremental` | Is the result of any edits and runs that of a parse from nothing, and is the editor shown it? Do the four skeletons find the same program? | 4 languages, 23 texts of up to 22 tokens, opened with one or two functions, 2 runs, 2 edits |
| `lua` | Do contexts that are the same data match, and those that match mean the same as far as numbers survive rounding? Are answers taken whole? | 8 configurations, contexts of 2 of 3 fields with tables inside, answers of up to 3 of 7 items |
| `engine_resume`, `engine_moved_child`, `engine_empty_round`, `lua_large_numbers` | Counterexamples, section 5 | |

Why these bounds are enough. The interesting trees have three levels (a kept
child with its own child below a reset parent), two siblings, and two equal
siblings: `Divisions` gives the first byte and the rest, the rest twice, and the
rest alone; `Wrapping` re-tags the whole region. Two bytes of text give empty,
partial and whole spans and every kind of edit: insertion before, at, inside and
after a span, deletion and replacement. Two contexts tell a match by span from a
match by span and context. A second run after an edit is what reuse needs; a
second run after a cancelled one is what resuming needs. Four slots and two
threads give a job running, one skipped, one finished behind it and one queued.
The theorems below then cover every size. In `document` two changes let the second
depend on what the first did to lines and widths; each may join lines, split one,
or put a character of two UTF-16 units before the other's column. `RoundTrip` and
`ColumnsStayOnTheirLine` are checked for the three encodings on every text the
run reaches. In `server` three messages open, change and close a document, or two
of them in turn; a pipe of one and the message its reader holds let the
client run two messages ahead of the server, and the server fill the pipe back.

In `incremental` the texts are one function, with each of its tokens taken away and
a name, a brace or a line feed put at each place where it matters, and a second
function before, after and inside it. Two edits and two runs lead between
any two that are one splice apart, with or without a run between, so that functions
are kept, moved, duplicated, dropped, broken and mended. In `lua` two fields with
tables for values are enough for `deep_eq` to meet an entry the other side lacks,
entries in another order and tables inside tables. The values and the names of the
fields include an integer that is rounded when it is compared (2^63-1), the float it is
rounded to (2^63), and among the values are 1 held both ways, not-a-number and a
function. Three items put a wrong one before, between and after right ones.

In `engine_edits` a misbehaving pass lists a good region next to a bad one, so that
what a refused expansion does to the child the good one matches is part of the run.

Fairness. `WF_vars(EngineStep)` says that the thread that called `run` keeps
running and that passes return, which is all the code needs from its caller. No
fairness is assumed of edits, runs or the token. `Executors` assumes the same of
its threads. Under it `RunsReturn` and `CallReturns` hold with the token toggled
for ever. `Server` assumes that its three threads keep running, that the
30-second wait of `handle_shutdown` ends, and that a client which is there reads
what it is sent (`ClientReceive`), without which a full pipe may block any
server. Nothing is assumed of what the client sends.

Every property of a passing run has a mutant, a slip in one definition of the
model (`ResetInPlace`, `KeepsAnyCopy`, `TakeWhile` counting all results, ...)
that violates it under the same cfg. The slips stand next to the definition they
are a variant of.

## 4. What is proved

`tlapm` checks the following for every schedule, round cap, configuration, set of
contexts, pass, text and number of runs, edits, changes and cancels. The assumptions
are the `ASSUME`s of `Engine`, `Executors`, `Document` and `Server`: numbers are naturals, flags
Booleans, `RootCtx` is a context, texts are sequences of characters, the encoding is
one of the three. Theorems about reparsing assume in addition what `Incremental`
and `FreshParse` ask of the language (`LocalAssumption`, `OneRoundAssumption`), the one
about the editor also `ApartAssumption`, and those about Lua what `LuaValues` and
`LuaLanguage` say of values, numbers and items.

* `EngineProofs!Invariance`: `IInv` is inductive. Its parts are `TypeOK`,
  `TreeShape`, `SpansNested`, `HomeRounds`, `BatchStaysReady`,
  `NothingLeftBehind` and two facts about the program counter (`Quiet`: no job is
  in flight between batches; `InRound`: a batch belongs to a round that exists).
  None of the properties is inductive alone. That merging a job leaves the other
  jobs of its batch alone (`BatchStaysReady`) needs that a node's home round
  comes after its parent's (`HomeRounds`): a node of the same round can then not
  lie below. That an edit never underflows `depth - attempts` needs the same.
  That dropping a subtree leaves a tree needs that child lists and parent links
  agree and that no child is listed twice (`TreeShape`). That an edit reopens the
  parent of a node it resets needs that spans nest (`SpansNested`).
* The properties themselves follow: `TypeCorrectness`, `TreeIsATree`,
  `SpansStayNested`, `HomesFollowParents`, `BatchesStayReady`,
  `NothingIsLeftBehind`.
* Action properties from the same invariant: `IdsNeverChange`,
  `SettledNodesRest`, `EditsReopenTheirWay`, `ExpansionsAreChecked`. The last is about
  the whole of a merge (`ExpansionsAreAllOrNothing`, from `ApplyIsAllOrNothing`): an
  expansion is hung below the node in order, or, for one bad region, refused with one
  violation and nothing left below the node.
* A second inductive invariant, relative to the first, gives
  `FirstFixpointIsReal` and `ReportsAreReadable`. The first says that during the
  first run every pending node waits exactly for the current round, so that an
  empty round really is the end. Section 5 shows why "first" cannot be dropped. The
  second says what a report does tell after any run. A fixpoint leaves only nodes queued
  for rounds past those that ran (not that every node settled, as `engine.rs:15` has it:
  section 5.1); neither flag means that all rounds ran and some region was left for the
  round past the last; never both flags.
* `ParseTreeProofs` has the lemmas about the operators: what `EditTree`,
  `Detach`, `Accept`, `Fail` and `Expand` do to each part of the invariant, and
  that the matching of `Expand` is one-to-one. `SpansProofs` has the arithmetic
  of edits, and `UntouchedSpansMoveRigidly`.
* `IncrementalProofs`: `TextInvariance`, for every language that meets
  `LocalAssumption`, every text and every number of edits and runs. The inductive
  invariant is `Engine`'s (`IInv`, because `IncrementalIsAnEngine`: every step is one
  of `Engine`'s, whose invariant then holds), that the session's length and revision
  are the text's (`Tracked`), and `EveryNodeIsCurrent`: what the tree says of a live
  node is what the passes would say today. The last is what makes reuse right. Its
  proof rests on three facts: a region an edit does not touch has the same text
  after it, at the place it was moved to; an answer for the same slice elsewhere is
  the same answer, moved (`LocalAssumption`), with the children's spans moved by the
  same amount; and an edit resets every node it touches, so that a node that was
  not reset was untouched, and so were its children's spans. `NodesStayCurrent`,
  `TextIsTracked` and `TextTreeIsATree` follow. `ReuseIsMaximal` adds that a merge
  keeps as many children of a region as the old and the new list have in common.
* `IncrementalProofs`, second half. `IncrementalIsFresh`: after any edits and runs, `SameAsFresh`. The tree
  and a parse from nothing are compared node by node, from the last round up
  (`TreeAsFresh`): a node whose record is current says of its region what the parse
  says (`NodeAsFresh`), the rounds it was refused in included (`RefusedRoundsPass`),
  and its children have the parse's regions and were made in the round the parse is
  in. Both walks are recursive functions whose definitions only look towards the last
  round (`ViewUnfolds`, `FreshUnfolds`). Being current is not enough: a node that
  waits for ever is current, too. So a second invariant, `SInv`, inductive with
  `TInv`, says that no node is forgotten (`Tight`): whoever waits in a round of the
  schedule has its turn in the current round or the next, or waits for its parent to
  have one. A merge keeps it because an expanded parent and the child it carried over
  are in consecutive rounds (`HomesFit`, with `OneRoundAssumption`); when the run
  returns, the waiting node nearest to the root would have a waiting parent nearer
  still, so that there is none (`RunsFinish`).
* `IncrementalProofs`, last part. `EditorIsFresh`: what the editor is shown when a run has
  returned is what a parse of the text from nothing would have it shown, whatever was
  edited, dropped, moved or kept on the way. Outline, diagnostics and fresh
  parse come in three orders (creation, a walk that skips what is below a failure,
  rounds and regions), so that each is first brought into one form: a list of nodes
  that has each live node once, the children of a node in their order behind it
  (`Deep`, `Above` and `Recursion` again), mapped by one function (`FilterMap`). The
  outline is then a permutation of the fresh one, and the diagnostics are the same
  list, because below a node that failed or was not parsed there is nothing. The hover
  needs that siblings lie apart (`SiblingsLieApart`, from `ApartAssumption` and
  `NodeAsFresh`); then the nodes around an offset are one path, the node `node_at`
  ends at is the last of it, and the fresh parse has no deeper region there.
* `SpansProofs!AdaptersKeepTheContract`: a parser that stays in its slice gives a pass
  whose children lie in the region and carry its revision, wherever it is. `apply` asks
  no more of them unless `enforce_shrink` is on, which by default it is not.
* `DocumentProofs`: `DocumentInvariance`, for every text, insertion, encoding,
  overshoot and number of changes. The invariant `DInv` says that there is a history
  (`IsHistory`): a list of texts from the document's to the client's, each of which the
  next change under way turns into the one after it; and that the index, the root and
  every region are about the document's text, which is the one the next change was
  made in (`Tracks`). `DocumentFollowsClient` alone is not inductive: it says nothing
  while changes are under way. The argument has two halves. A position the client
  counted in a text resolves to its place in that text, in each encoding and with a
  column past the end of a line (`PositionOfPlace`, `OffsetOfPlace`, `RangeResolves`).
  And an edit counted in bytes does to byte offsets what the edit counted in
  characters does to places (`EditsAgree`), so that spans stay between characters.
  `DocumentTypeCorrectness`, `DocumentConverges`, `DocumentSpansFollow`,
  `ChangesCutBetweenCharacters`, `RegionsCutBetweenCharacters`, `PositionsRoundTrip`
  and `ColumnsOnTheirLine` follow: all seven properties of the run `document`.
* `ExecutorsProofs`: both executors implement `ExecutorContract`
  (`ExecutorsKeepTheContract`), keep each outcome at its job's position
  (`TypeCorrectness`) and lose work only behind a skipped job
  (`LostWorkIsBehindAGap`).

* `EngineProofs`, second half: what the walks of `TreeQueries` over the tree answer, on every tree `Engine`
  reaches. `NodeAtFindsTheDeepest`: `node_at` ends at the deepest node around the
  offset when siblings do not overlap. `WalkAndScanAgree`: `is_settled`, which
  descends from the root, and `pending_jobs`, which scans the arena, agree.
  `DiagnosticsAreComplete`: the diagnostics walk offers the failing nodes, as many as
  `status_counts` counts, or the outermost of them, each once. The walks are recursive functions over child links.
  That they are defined at all needs an order that goes down along every child link:
  rounds serve for that (a child waits for a later round than its parent, and no node
  for one past the last: `HomeRounds`), and `Recursion` in `SpansProofs` is the lemma
  that a definition that only looks down has a solution on a bounded rank. Their values are then compared node by node, taking a least node on
  which a claim fails (`LeastRanked`).
* `ServerProofs`: `ServerTypes`, `RequestsAreAnsweredOnce`, `OpenDocumentsAreShown`,
  for every number of messages, size of pipe, set of documents and order of the
  threads. `TypeOK` has the type of every message at every place on its way. The inductive invariant says where everything is that is on its way
  (`NothingIsLost`): what the client knows, brought up to date by what is on its way
  to it, is what the server has answered and stored; and that, brought up to date by
  what is on its way to the server, is what the client asked and said. Every hand-over
  between client, reader, main thread and writer then moves a message along the way
  without changing what the way delivers. That the writer thread ends only when
  nobody needs it (`WriterWasNotNeeded`) is what keeps a hand-over to it from losing
  a message.

* `LuaProofs`, for every set of keys and values, however deep they nest, and answers of
  any length. `ContextsMatchAsData`: two contexts in which the same can be read match,
  whatever their numbers; and in two that match the same can be read, if their numbers
  are `Exact` (section 5.4 shows why). `deep_eq` counts entries and looks those of one
  table up in the other, in one direction only. That this is enough needs that a table
  has one entry for a key (the invariant `LuaInv`, `WithFieldType`): with as many entries
  as keys (`CountKeys`) and each key of one among those of the other, the keys are the
  same. The other direction needs that an entry can be recovered from what is read
  through the table (`ReadEntry`). Both definitions are recursive over the nesting of
  tables, which the code relies on being finite, and the proof takes a least nested value
  for which they disagree (`DeepEqMeansSameData`). The assumptions are `KeysAssumption`
  (fields are named by scalars, not by not-a-number, and of two ways to hold a number
  only one names a field, as Lua has it), `FloatAssumption` and `ValuesAssumption`; the
  end of section 5 shows why tables as keys are excluded. `AnswersStayWhole`: an answer becomes
  one child per item or fails whole.

Why things end. Liveness under fairness is out of the prover's reach, but it has two
halves that are not, and both are proved. One: no step leads away from the end. Two:
until the end somebody has a step to take.

* Runs (`EngineProofs`): `RunsComeToAnEnd`. Each step of the loop lowers the rounds left,
  the phase of the round or the jobs left in the phase, in this order of weight, or
  returns; the token is no part of it. `LoopsGoOn`: if every pass has an answer for
  every region, a batch has a first job that can run and a merge a first outcome.
* Executors (`ExecutorsProofs`): `EveryCallWindsDown` counts the steps a call can still
  take. `SomeJobIsNext`: the pool has a job to take, to finish or to hand over (this
  needs a thread, `ThreadsAssumption`), and the serial executor the first job that is
  not done.
* Sessions (`ServerProofs`): `EverySessionWindsDown`. Once the client said exit or is
  gone, each step of any of the threads, and each message the client takes from the
  pipe, lowers `StepsLeft`: a message weighs the steps it has still to go.
  `NobodyWaitsForEver`: until `serve` returns, one of the main thread, the reader, the
  writer and the client meets the condition of its next step. This is what "unable to
  deadlock" (`server.rs`) comes to, and what is hard in it: the main thread waits for
  the writer, the writer for the pipe, the pipe for the client, and at the end `join`
  for both threads. It needs an invariant of its own (`Farewell`): exit is the client's
  last message, so that the reader never ends with a message behind it that somebody
  waits for, and never waits for input after exit was handled (`ExitIsLast`); and the
  reader ends before the loop, the writer with nothing left to write (`EndsInTurn`).
  The same invariant gives `NothingIsOwed`: when `serve` returns without an error,
  all that it owes a client that is still there is in the pipe.

What is left of `RunsReturn`, `CallReturns` and `ServeReturns` is the step from these to
the liveness property itself, that a number cannot fall for ever under the fairness of
section 3, and that the conditions named are those of the actions' `ENABLED`.

Only model-checked: that step, in `RunsReturn`, `CallReturns` and `ServeReturns`, and
`AnswersArrive`, of which only the safety is proved (`RequestsAreAnsweredOnce`,
`NothingIsOwed`), since liveness under fairness and `ENABLED` are out of the prover's
reach; and `SkeletonsFindTheProgram` of `EditorFeatures`. This one is about the mini language
itself: that functions, returns and their names are the same in each of the four
skeletons, token by token, where a proof for all texts would be an induction over each
scanner. All other properties of the passing runs, 35 of 40, are theorems.

## 5. Where code and documentation disagree

1. **A cancelled run does not resume** (`engine_resume`). `Engine::run` starts at
   round 0 and takes the first round with no ready job for the fixpoint
   (`engine.rs:295`). After a run cancelled in round 1 or later nothing is ready
   in round 0, so the next run returns `reached_fixpoint` at once, with nodes
   pending, and so does each one after it until an edit reopens the root. The
   documentation says that "a later call resumes where this one stopped"
   (`engine.rs:258-260`) and that `reached_fixpoint` means that every node
   settled (`engine.rs:15`).
2. **An edited child may stay unparsed** (`engine_moved_child`). A reused child
   keeps its round (`tree.rs:388`). If its parent expanded in round 1 after a
   failure, and after the edit expands in round 0, the child still waits for
   round 2; round 1 is empty and the run stops. `tree.rs:209-212` promises its
   re-parsing on the next run.
3. **An empty round is counted** (`engine_empty_round`): `rounds_run` includes a
   batch that was cancelled before its first job; `engine.rs:22` says it does
   not.
4. **Large numbers match others** (`lua_large_numbers`). `deep_eq` casts an integer to
   `f64` to compare it with a float (`increparse-lua/src/lib.rs:87`), which rounds
   integers past 2^53. The integer 2^63-1 matches the float 2^63, which Lua's own `==`
   tells apart, as a value and, since keys are compared in the same way, as the name of
   a field. The documentation says that contexts "match only if they are structurally
   identical" (`lib.rs:66`). A region may so be kept under another context than its own;
   nothing that is the same data fails to match (`ReuseMatchesSameData`).

Met while modelling, without a run, because the models take the code's side:

* `is_root_only` (`tree.rs:121`) tests the length of the arena, with the dropped nodes
  in it; `tree.rs:118` says that it "returns `true` if the tree contains only the root".
* `increparse-lua/src/lib.rs:46-48` lets the diagnostic hook return `start` and
  `end`; the code (310-345) reads only the message and the severity, and the range
  is always the node's.
* A script's symbol with `start` after `end` meets the debug assertion of
  `Span::new`; in a release build it is passed on as it is, which is what
  `SymbolsFrom` models.
* `deep_eq` counts the entries of two tables and looks each entry of the first up
  in the second. With tables for keys two entries of the first may find the same one
  of the second, so that tables that are not "structurally identical"
  (`lib.rs:66`) match in one direction. Keys are scalars in `lua`.

## 6. Not modelled, and the plan

Left out for good: `Display` and `Debug`, accessors, the builders of `Passes`,
`Schedule` and `SimpleLanguage`, `text()` slicing (`SpansNested` is what makes it
safe), overflow of `usize` and `u64` counters (a text or a revision count of that
size is out of reach), the Lua, nom and chumsky runtimes, rayon's scheduler beyond
"any order, several threads", JSON, the benches, and the mains of the examples and
of the Lua server, which load a file or print. The message loop of
`manual_server.rs` is a smaller copy of `run_loop`, which `Server` models; its
handlers are in `EditorFeatures`. The hooks `SimpleLanguage` only forwards to
(completion, definition, code actions) give back what the language answers.

Of Lua, tables as keys are left out, and the two floats that are zero, which are equal,
are one. `Accepted` decides whether a configuration is served; no property is about it,
and what a rejected file reports is wording. In `Server` requests carry no document:
whether one is asked about a closed document is not distinguished. The mini language is modelled on tokens: identifiers are made of letters,
without digits and underscores, and a blank is a space or a line feed.

In `Document`, a UTF-8 column inside a character (`offset_of_units` does not round
it, and `replace_range` would panic) and a line past the last one (clamped to the
last line) are not sent: no client that counts in its own text sends them.
Carriage returns are left out: the code takes `\n` alone for a line end, so that in
a text with `\r\n` the carriage return is the last character of its line.
In `Server`, the `initialize` handshake is over in the initial state, and what a
handler answers is left out. `PositionEncoding::negotiate` is called by nothing but its
own tests, and is left out.

What would come next: an abstract server (each message handled and answered in one
step) that `Server` implements.
