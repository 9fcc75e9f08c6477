# Essence toolchain: a verification project

TLA+ models of the Essence toolchain (`src/packages/*`): what runs concurrently,
what is cached, what is shared in place, what is decided in some order, and what has
to come out right whatever the order of events. Every definition that models code is
translated from the source; `map` in `PROJECT.json` names the lines it stands for. The
models are checked with TLC on small instances and, where the tools reach, proved with
TLAPS for every value of the constants.

## 1. Inventory

Essence is a compiler for a small functional language, with a command line, a
language server, a debug adapter, bundler plugins and a runtime. Each runs on an
event loop; what is hard there is not the loop but what may happen between two of its
turns: threads die, files are saved, other processes write the same directory,
requests overlap at their awaits. The compiler itself is synchronous; what is hard
there is what is resolved by retrying or by trying: the hoist, and inference.

### Modelled

| Component (source) | State | Operations | How it interacts | Hard behaviours | Correct when |
|---|---|---|---|---|---|
| Worker pool (`cli/src/pool.ts`, `worker.ts`, `compile.ts`) | slots, queue, jobs in flight, the slot of each file, worker handles and their ref counts | `begin`, `compile`, message and error handlers, `pump`, `dispose` | two FIFO ports to each worker thread; promises to `runCompilation` | threads run at once and die at any moment; rebuilds reuse warm workers; `dispose` races late results | every job is answered, once, in the session of its run; a crash stays local; slots are neither doubled nor idle; busy handles keep the process alive and idle ones do not |
| Watch session (`cli/src/watch.ts`, `startProgram` of `execute.ts`) | signatures, dependents, pending entries, debounce timer, `building`, directory watchers, the program running | watcher callbacks, stat continuations, `schedule`, `rebuild`, keys, `shutdown` | the file system on one side, the compile dispatcher on the other | a save races the build that reads it, the stat that fingerprints it and the watcher that reports it; checks overlap; quitting races a build | a save the session was told of is rebuilt; one build at a time; the session comes to rest |
| Module graph (`compiler/src/modules/graph.ts`, `resolve.ts`) | none: a function of what the host answers | `resolveDependencies`, `resolveAll`, `loadModuleGraph`, `groupModules` | called by the compile session, the language server and the watch session | cycles beside cross edges, missing files | groups are the strongly connected components, dependency-first |
| Compile session (`cli/src/session.ts`, `linkGraph`, `compileFile` and `attributeDiagnostics` of `pipeline.ts`) | texts read, groups, connected pieces, what was linked and simplified | `read`, `modules`, `linked`, `simplify`, `reachableModules` | shared by all the compiles of a run, which interleave at their awaits | files saved meanwhile; graphs that overlap in any shape; work that must be done once | each outcome is what its entry reaches; one read, link and simplification per file; every file reported by one outcome |
| Module linker and hoisting (`compiler/src/modules/link.ts`, `compiler/src/enricher/index.ts`) | one Scope per Module of a group, its import bindings, what has hoisted, predicates and clauses still waiting | `linkGroup`, `seedImports`, `refuseUnboundImports`, `surfaceOf`, `hoistDeclarations`, `fillPendingPredicates`, `enrichImplementation` | imports are offered between the rounds in which declarations are resolved; each waits for the other | cycles of Modules; what is registered before it is finished; retries that must end with all that can be reached | the rounds end at the least fixpoint, whatever the order; nothing half read leaves the hoist |
| Type matching and inference (`compiler/src/helpers/index.ts`, parts of `enricher/enrichers.ts`) | the bindings of one call while it is matched | `matchTypes`, `buildUnion`, `pairArguments`, `deferredArgumentOrder`, the choice of an Overload | called for every Invocation and annotation | bindings left behind by what failed; orders that should not decide; empty Lists that fit everything | what is accepted holds no value it should not; Arguments arrive where their labels say; orders do not decide |
| Match Expressions (`enricher/enrichers.ts`, `validator/index.ts`, `optimiser/residual.ts` and four passes, `rewriter/index.ts`, `runtime/src/type.ts`) | the Handlers typed so far, who answers for each member, the chain of tests | `enrichMatch`, `validateMatch`, the passes, `handlerTest`, `isValueOfType` | four parts of the compiler that each decide what a Matcher claims | Guards, literals, payloads and erasure count differently in each; passes build on one another | every value comes to a Case that names it, with the passes or without |
| Bundle cache (`cli/src/cache.ts`, `writeAtomic` of `compiler/src/cache/index.ts`) | a directory shared with other processes | `readBundle`, `writeBundle`, `writeScratchBundle`, `prune` | file system calls; its bundles are spawned by `run` | processes race and die between any two calls; the store is at its limit | nothing half written is read; a bundle has its map; the bound holds and age decides |
| Language server: documents (`language-server/src/server.ts`) | open documents, deadlines, one timer, who published what | content, close, watched-file and folder notifications, the timer's callback, requests | the client on one side, its workspace on the other | files nobody has open belong to every open importer; one timer for all | at rest each file shows what is true of it; no document waits for another |
| Language server: workspace (`workspace.ts`, `analyse.ts`) | cached parses and analyses, recorded import edges, stale marks | discovery, invalidation along recorded edges, analysis of a component | called by every handler of the server | edges are as old as the last analysis; the disk changes before the watcher says so | a cached analysis is what a fresh one would be |
| Debug adapter (`debug-adapter/src/session.ts`, `cdp.ts`, `launcher.ts`) | debuggee, last pause, pending step, breakpoint ledger, handlers underway | launch and its continuations, steps, `setBreakPointsRequest`, pauses, teardown, exit | a WebSocket to the inspector, the child process, the client | handlers interleave at their awaits; the program stops, ends or dies at any moment | the ledger is what the engine holds; the client sees the program as it is; nobody hangs; nothing is left behind |
| Plugin compiler (`client/src/plugin-core.ts`, `vite-plugin.ts`, `esbuild-plugin.ts`) | memoised compiles, emitted Modules, declarations on disk, what the watcher was given | `load` through two doors, `compile`, `invalidate`, declarations, `buildStart` | the host's loads, its watcher and its Module graph | a report falls between a load's steps; writing declarations is itself a change | what is held is current; every door opens; declarations are not written for ever |
| List representation (`runtime/src/List.ts`, `NonEmptyList.ts`) | boxes viewing shared, growing Arrays | every native that makes or edits a List, and walks | callbacks of a walk run other natives on the List that is walked | edits in place behind an immutable interface, reentrancy | Lists behave as immutable sequences |

### Not modelled

| Part | Why |
|---|---|
| Lexer, parser, simplifier, formatter, and what validator, optimiser and rewriter do beside Matches | functions of one tree or text whose state space is the language itself; golden tests and fixtures compare them with what is wanted |
| The enrichment of bodies, of Patterns outside Matches, and Method dispatch | the same, and too much of the language at once: a model of the size TLC can check would be of another language. Hoisting, linking and inference, which retry and backtrack, are modelled |
| Protocol conformances and bounds in inference | a second matching over Methods; `Linking` models when they are woven, not what they decide |
| Diagnostics collector, the parser's savepoints | a list, a mark and a truncation, used on one stack with nothing in between |
| Editor features, adapter presentation (stack traces, scopes, variables) | pure functions of a typed Program or of the last pause |
| The client's conversions and declaration texts, embedding texts, bundler output | one value or text at a time, without state |
| Runtime values other than Lists, the standard library | immutable values; Essence source |
| `ariadne`, reports, arguments, spinner, `escodegen`, VS Code manifest, website, fixtures, publishing scripts | layout, vendored code, data |

`components` in `PROJECT.json` lists each with its note, and `hazards` lists what is hard to
test in the code, at its line, with the properties that watch over it.

## 2. Modules and the code

```
CompileService  <--refines--  WorkerPool      <-- WorkerPool_proofs,     MCWorkerPool
                              WatchSession    <-- WatchSession_proofs,   MCWatchSession
ModuleGraph     <--extends--  CompileSession  <-- Compile_proofs,        MCCompileSession
                              Linking         <-- Linking_proofs,        MCLinking
Types           <--extends--  Inference, TypeTests
                              MatchExpressions  (extends both)   <-- MCInference
                              BundleCache     <-- Compile_proofs,        MCBundleCache
Workspace       <--extends--  LanguageServer  <-- LanguageServer_proofs, MCLanguageServer
                              DebugAdapter    <-- DebugAdapter_proofs,   MCDebugAdapter
                              PluginCompiler  <-- PluginCompiler_proofs, MCPluginCompiler
ImmutableLists  <--refines--  ListRuns        <-- ListRuns_proofs,       MCListRuns
```

**WorkerPool.** One action per callback of the main thread: `BeginRun` is a run's
`begin` with its `compile` calls (`runCompilation` makes them in one turn),
`OnResult` and `OnError` the two handlers of `spawn`, `Dispose` and `DisposeDone` the
halves of `dispose` around its await. `Pump` is the operator all of them end in, as
`pump` is in the code. A worker thread (`WorkerBegins`, `WorkerCompiles`,
`WorkerFinishes`) works through its inbox concurrently, and `ThreadDies` ends it
anywhere. `Assignments` is the greedy placement; how files are grouped is any
partition, since `groupEntries` guesses from the sources. **CompileService** is what
any dispatcher promises: a run's jobs are requested together once the last run is
answered, each is answered once, and an answer never changes.

**WatchSession.** Every callback and every continuation is an action, and a stat is
two: its evaluation and its continuation. A build reads its files one by one.
The contents of a file are its version; its signature tells versions apart.
`audience` is history: whom the session could tell of a file's last save, recorded when
it happens. What cannot happen in the model and can in the code: a directory that
refuses to be watched, and two versions of one size within one timestamp.

**ModuleGraph** has the algorithms (the work list of `resolveAll`, Tarjan's in
`groupModules`, from any number of roots), and next to them `Reachable` and `CycleOf`,
definitions without an algorithm that the properties compare with. A loop over a sequence is
`Folded`, and `visit` is a function of how deep it may still go, which is never deeper than there are
files: recursive functions, of which the proofs can say that they exist.
**CompileSession** runs the compiles of a plan side by side: `Read`, `Parse`, `Enrich`,
then `Skip` or `Bundle`, then `Attribute`. `Load` is one step because each file is read at
one moment, so an `Edit` during a load is one before or after it. Type errors, `check`
runs and cached bundles all end a compile without emitting, which is `Skip`.

**Linking** links one group. A declaration is what resolving it needs: the names it
uses, the Namespace its predicate asks, the Protocols of its clauses. The loops of
`seedRound`, `fillPendingPredicates` and the hoist are an agenda, one entry a step:
`Offer` and `Refuse` for an import, `Read` for a predicate, `Resolve` and `Enrich` for a
declaration, and an action where a loop begins. Nothing interleaves: what varies is
the program, and every order its parts can be written in. A Type in Scope is the
place it was declared at, so that what `fillPendingPredicates` writes into a refinement
is seen by everybody who holds it, as in the code. Of the Types that spell one name only the first
can be recursive (`FirstTypes`). `Attainable` is the least fixpoint of what
resolving needs, without rounds or orders, which the rounds are compared with.

**Types** has Types as records and the rules of `helpers/index.ts` on them: `Match` with its
bindings, marks and rollbacks, `BuildUnion`, `Pairings` of Arguments with Parameters,
`MatchingOrder`. **Inference** asks them the Enricher's questions, a step per Parameter
matched and per candidate probed. Types are finite trees, so the guard against re-entering
a pair of Cases and the identity shortcut decide nothing and are left out; so are bounds and
conformances, Type Parameters with defaults, prefixed Case constructions, and overloaded
Methods as values. A Type Parameter of the call at hand is a GenericUse marked `own`, for
the fresh name `createFreshenedInference` gives it. `Holds`, the values of a Type, is
written from the meaning of Types, and not from the rules.

**TypeTests** has what is left of Types at run time: `IsValueOfType`, the Validator's two
questions about it without a value (`AcceptsAllAtRuntime`, `OverlapsAtRuntime`), and the
Optimiser's (`CheckIsImplied`, `MatcherResidual`, `PlanRecordTests`). **MatchExpressions** takes
one Match from source to a run: a step per Handler that is typed and per Handler that is
validated, and a step per pass, each of which may be left out. `Reached` is what the emitted chain does
with a value: the Handlers that may run it. Of a Guard nothing is known, so it may always decline.
`@` is of the strongest refinement that a Handler's own literal and the literals above it prove
(`SelfType`); the code narrows to one that is declared. Bodies, fused chains and hoisted tags are left out.

**BundleCache** takes a step per file system call: `Exists`, `Create`, `Fill`, `Rename` are
`writeAtomic`, with `RenameFails` and `Lost` for a rename that is refused, whose caller goes on
where the file is there and fails where it is not, or was to be replaced; `ReadDirectory`, `Stat`, `Evict`, `EvictMap` are `prune`. A file is whole or
half written and carries the time of its write. The stats of one prune are one
step, and no two files have the same time. `CutShort` stops a compile anywhere.
`alone` is history: the compile, if any, that has had the directory to itself.

**Workspace** is functions from cache to cache, since the code's never awaits:
discovery, what an edit invalidates along recorded edges, the analysis of a component.
What an analysis comes to is its judgement: the text of every file it reaches, missing ones too.
Two analyses agree exactly when their judgements do. **LanguageServer** has the events:
`ChangeContent`, `Close`, `WatchedFile` (the disk changes first, in `Store`), folders,
requests, `TimerFires` and the analyses of its batch. Handlers run to completion. A document
has one URI, and what a request answers is left out.

**DebugAdapter** has three actors: the client's requests, the adapter whose handlers wait at
their awaits (`tasks`), and the program under its inspector. `sent` and `wire` are the two
directions of the WebSocket; an answer and what its handler does until its next await are
one step, since promise reactions run before the next message. A rejection nobody catches
ends the adapter (`up`): that of an evaluation is one (`OnRejection`), and V8 refuses to evaluate
once a smart step has gone on from the landing that was shown last. A connection is refused only when the child is gone.

**PluginCompiler** has loads through the two doors of a file, compiles that are remembered as
promises, and a watcher whose reports come when they please. A compile reads its graph
where it starts and then awaits promises only, so the host's callbacks wait for
`TurnIsOver`, and the other loads of the same turn do not; reading and writing declarations
is the only real input and output, and there everything interleaves. The hosts are Vite
serving, Vite building and esbuild, each external, as `src/` uses them.

**ListRuns** models the Arrays (`heap`), the boxes that view them, and one walk whose
callbacks may run any native. `Pushed` is the tip-or-copy rule; `StampClosed` is the
rule that a box writes its counts down before another shares its Arrays; reading
may replace a representation (`Trimmed`, `Materialised`). **ImmutableLists** is the
promise: Lists are sequences, every edit answers with one of the sequences its method
promises (a sort with its items moved about into ascending order), and a walk visits what
its List held when it began.

## 3. Runs

| Run | Question | Bounds | Distinct states |
|---|---|---|---|
| `pool` | Does every compilation see the session of its run, does a crash fail only its own job, are slots neither doubled nor idle nor unfairly loaded, is every job answered, is the pool a `CompileService`? | 2 slots, 3 files, 2 runs, 1 crash, 3 boots per slot, disposal | 199 173 |
| `watch` | Is a known save ever lost while graphs change, can builds overlap, does the session come to rest? | 2 entries, of which one comes to import the other's library; each file saved once, one deletion, `r` once, 2 checks at once, a program and quitting | 291 300 |
| `session` | Are outcomes what entries reach, in order; is each file read, linked, simplified and reported once? | all import graphs of 3 files with any order of imports and any file missing; 2 entries with a save at any moment, or 3 without | 109 346 |
| `linking` | Do the rounds end with all that can be reached, is nothing left unread, are bounds woven? | 1 129 programs of 1 to 3 Modules, up to 5 names, in every order of Modules and declarations | 44 937 |
| `linking_silence` | *violated*: is what is given up always reported? | the same programs | |
| `types` | Is what is accepted contained, do Unions say what their members say, are calls read as written, do orders not decide, does every value of a Match come to a Case that names it? | some 160 Types against each other, lists of 2 and 3 of 13 Types, some 2 000 calls, some 2 500 Matches under every selection of 4 passes | 64 254 |
| `match_erasure` | *violated*: is `@` what the Matcher established? | Matches on Function-typed members and Type Parameters | |
| `cache` | Is nothing half read, has a bundle its map, is the pair mended, does the bound hold, does age decide? | 3 compiles, 4 keys, a store of 2 that is full, one compile cut short | 500 303 |
| `server` | Is a held analysis fresh, does nobody wait for another, is what is shown true? | 3 files with 2 texts each, 3 edits, 1 save, a request or a change of folders | 223 968 |
| `adapter` | Is the ledger the engine's, does the client see the program, is nothing left, does nobody hang? | 1 source, 2 lines, 2 handlers at once, a step budget of 1 | 391 694 |
| `plugin` | Is what is held current, does every door open, do declarations settle? | 2 files, of which one imports the other and one breaks; 3 hosts, 2 loads, 2 edits | 1 499 739 |
| `lists` | Is every answer the promised one, does no List change, does a walk visit what it should? | 4 Lists in chains of any edits at positions -2 .. 3, 3 under a walk | 20 380 |

**Why the bounds are enough.** Two slots and three files make two files share a slot
while another slot runs; a crash falls at boot, idle, compiling or after the
answer. Two runs distinguish a warm worker from a fresh one. A second version per file is enough for a save to fall
between any two of read, stat, recording and watching; two checks are enough for
their answers to cross. Three files hold every shape the session's merging tells apart: a
cycle with a cross edge, two graphs that meet in a third file, a graph inside another.
Two Modules are a cycle, three a ring through which a name is forwarded; the families
of `MCLinking` give each kind of declaration something to wait for on either side of it,
its own Module included. The Types of `MCInference` nest every constructor in every other once
and use each Type Parameter twice, which is when a binding meets a second use.
A Match has up to two Handlers before its `case _`, since what one claims decides only what those
below it are given; the matched Unions differ in kinds, in Cases, in members of members, in items and in what erases.
A store of two that starts full is at its limit with the first write; three
compiles are two that race and one that mends. Three files in a chain that may close into a cycle are an
importer, what it imports and what it came to import instead, of which any is open;
three edits open two documents and change one. Two handlers are one that waits and one that
crosses it; a budget of 1 (50 in the code) is spent by the first landing and ended by the second.
Four Lists are three links of sharing, each box a receiver or a witness of the next edit.

**Constraints.** `Usual` (in `pool`): the first run asks for a prefix of the files, a later one
rebuilds one or two. `LongOrBusy` (in `watch`): two of the saves, deletions and keys come under two checks at once, a third
while none is underway (the three safety properties are proved without it); `EditsUnderTwo`
(in `session`) saves files only under two entries; `MaxWalked` (in `lists`) keeps walks to three
Lists. `Small` and `KeepsDocuments` (in `server`): all files are there at first, requests and folder
changes come one at a time, and all that open documents reach lies in the new folders, on disk: the
hypothesis of the theorem about `ShownIsTrue`. The run's folders hold every file; the theorem is about any.
`OneByOne` and `Patient` (in `adapter`) say what the client keeps to: one `setBreakpoints` per source at
a time, one request to run on per stop, no disconnect before the launch is answered. Without them the
properties fail, and why is in section 3's last part; they are the hypotheses of the adapter's
theorems. `Mortal`, that a program dies of itself only before a breakpoint is planted, keeps
the run small, and no theorem needs it.
Runs end by design (bounds are reached, sessions quit), so deadlock is not checked:
what must not stop is stated as liveness where it can be.

### What the code does otherwise than it says

Two disagreements are kept as runs that TLC violates, and `findings` quotes the lines.
`match_erasure`: a Case on a Function-typed member takes the values of every other Signature, and the
Validator only objects where a later Case is left with nothing at all, so that with one more member
below it the Match compiles and `@` is of another Type than it is read with.
`linking_silence`: two Types that name each other from two Modules hoist in neither, are
recursive in neither one's own search, and both imports are refused without a word, so
that the program is accepted with Errors for members.

Others were met while modelling. Each is outside what the properties claim, and the property or
its hazard says so:

* a save between a build's read of a file and the first signature taken of it becomes the
  baseline and is never rebuilt (`watch.ts:227`); a build that missed a file forgets who
  imports it (`watch.ts:66`); `shutdown` leaves timer, checks and builds running, and a build
  that ends after `q` starts the program again (`watch.ts:195`);
* a result that arrives during `dispose` may boot a worker that `dispose` forgets (`pool.ts:385`), whose
  death may then be taken for that of its slot's next worker;
* the entry of an outcome is taken to be its last Module, which two entries of one cycle
  cannot both be (`pipeline.ts:253`);
* a bundle evicted between its check and its spawn costs a failed run (`cli/src/cache.ts`), and a
  loser of a write race replaces the winner's file with the same bytes and a later date (`cache/index.ts:141`);
* an import that is a Type and a Namespace at once binds with the half that is ready, across a
  cycle (`link.ts:887`); a circle of forwarded names is told by Modules, so a name that
  passes one twice is reported missing (`link.ts:705`); a clause naming a Protocol
  imported across a cycle does not wait for it (`enricher/index.ts:920`); and a
  predicate whose Namespace takes a refinement declared earlier throws out of the hoist (`enricher/index.ts:375`);
* "This Case can never match" (`validator/index.ts:1076`) is said of what is declared: a Record that carries
  more members than its Type names may run such a Case;
* an omitted Parameter, or an empty List, counts as naming a Type Parameter when the order of
  matching is made, so a callback may pin it (`helpers/index.ts:2823`), and an empty List that is met first binds a Type
  Parameter to a List of unknown items, so that one order of two Arguments is refused and the other is not (2342);
* a change of folders forgets the edges of files that left and schedules nobody who imports them (`workspace.ts:278`);
* a disconnect under a launch is answered and forgotten (`debug-adapter/src/session.ts:1178`); overlapping
  `setBreakpoints` of one source leave a breakpoint nobody owns (492); a program that ends before its first pause leaves
  the launch waiting (283); an evaluation that is rejected, by the end of the connection or because the program has gone on, ends the adapter (982);
* a compile that throws names no files, so a build's watch does not watch what broke it
  (`plugin-core.ts:271`), and a change reported while declarations are written is missed for the
  files named afterwards (`vite-plugin.ts:200`).

## 4. Fairness

Only liveness assumes any.

* `pool`: the event loop delivers what a port holds and a thread works through its inbox
  (weak fairness per worker, and of the end of `dispose`); nobody has to start a run,
  crash or dispose.
* `watch`: weak fairness of the session's own callbacks together, which is what an event
  loop gives; nobody has to save, press a key or quit.
* `adapter`: the adapter's event loop goes on, the engine takes what it is sent, the compiler
  answers, a step lands somewhere and a signal ends a process. No program has to end by
  itself, and no client has to ask for anything.
* `linking`: one synchronous call that nothing interrupts, hence weak fairness of its steps.
* `plugin`: none. That declarations settle says that writes stop, not that anything happens.

These are the guarantees of Node's event loop, of threads that are scheduled and of
an operating system that delivers signals, with compilations that end.

## 5. Proofs

TLAPS proves, for all values of the constants under their named assumptions (a finite
set of files, a positive number of slots, contents of Lists that are integers, ...):

| Theorem | Statement | Argument |
|---|---|---|
| `WorkerPool_proofs!TypeCorrect` | types | one lemma per handler over `PumpType`: what `Pump` leaves is typed if what it is given is |
| `WorkerPool_proofs!PoolImplementsService` | `Spec => ImplementsService` | `ServiceInv`: queue and flight are disjoint, hold only unanswered jobs, and no job of a later run exists; without it an answer could answer twice, or a run begin early. Each step of the pool is then a step of the service or a stutter |
| `WorkerPool_proofs!SessionsAreFresh` | `[]FreshSession` | `SessionInv`: a job in an inbox stands behind a `begin` that covers it or its thread is in force already (`InForce`, `Fresh`), and a handle marked with the run has been told of it (`HeldIsTold`) |
| `WorkerPool_proofs!CrashesTakeOnlyTheirOwn`, `SlotsAtWork` | `[]CrashTakesOnlyItsOwn`, `[]SlotsDoTheirWork` | `SlotInv`: a busy slot's job is in one place, waiting, underway or delivered, and an idle slot has nothing queued; what a dead thread posted last is its error (`LastWords`). The placement: a least loaded slot exists (`LeastNatural`), and empty active slots are taken first, so that none stays empty (pigeonhole) |
| `WatchSession_proofs!TypeCorrect` | types | one lemma per group of callbacks |
| `WatchSession_proofs!BuildsNeverOverlap` | `[]OneBuildAtATime` | `building` is not set during the first build, so that nothing asks for another then has to be part of the invariant (`FirstIsAlone`: no watcher, check or timer exists yet); afterwards the flag is right (`FlagIsRight`) |
| `WatchSession_proofs!SavesAreRebuilt` | `[]KnownSavesAreRebuilt` | `SaveInv`: every save the session was told of is being noticed, is noticed, is due to be built, or is settled. A build may overwrite a signature only where a check has seen the change, or its own read has it (`CaptureIsCovered`) |
| `Compile_proofs!TypeCorrect`, `WholeReads` | types, `[]ReadsAreWhole` | `FinalIsWhole`: a file under a final name is whole, because what is renamed is a process's own filled temporary (`FilledIsWhole`) |
| `Compile_proofs!MapBesideBundle` | `[]BundlePromisesMap` | who writes a bundle has seen its map (`MapWritten`), and a map only goes after its bundle's key counts as evicted (`CurrentIsEvicted`) |
| `Compile_proofs!HalfPairsAreMended` | `[]PairIsMended` | a compile that is alone has its map on disk when it goes for its bundle, and its prune spares the pair (`Mends`) |
| `Compile_proofs!StoreIsBounded` | `[]PruneKeepsTheNewest` | no two files are finished at one moment, so those with fewer than n newer ones are no more than n (`NewestAreFew`); what is doomed is dated as on disk and older than all that is spared (`TimeInv`, `Bounds`) |
| `Compile_proofs!GroupsOfRoots` | the groups of `GroupModules` are the classes of mutual reach, each once, whole and dependency-first, and together what the roots reach | Tarjan's algorithm, over any texts and any roots that could be read. Between two steps (`WalkInv`): what is closed is well grouped; whatever is stacked reaches a file underway, indices rise along the stack, and a file that is done has all its edges visited. A visit of f, told by induction over how deep it may go, has met only what f reaches (`Grown`), and gives f the index of a stacked file it reaches (`LowIsSeen`), as low as any edge from what it has met (`EdgeLowers`): f closes a group exactly where nothing it reaches leads below it, and the group is its cycle |
| `Compile_proofs!EverythingOnce`, `HeldInOrder`, `ReportsAreWhole` | `[]WorkIsDoneOnce`, `[]GroupsInOrder`, `[]OutcomesAreWhole` | `SessionInv`, whose parts follow. `SessionHolds`: once loaded, the Session holds the groups of all that its entries reach, well grouped, and its pieces are disjoint, closed and cover it (`MergeIsWell`: a group of the next graph is held whole or not at all; `UniteIsWell`: a load unites every piece it meets). `CompilesAre`: a compile past its parse has what its entry reaches, picked in the Session's order (`PickedInOrder`). `LinkedOnce`: a file has a Program exactly where its piece is linked, and a piece is linked once. `Attributed`: outcomes are attributed once every compile is done, and nothing changes afterwards. An edit between two reads changes nothing that was answered, and a load only asks for what has not been (`LoadGraphIs`, `SameGroups`) |
| `LanguageServer_proofs!HeldAnalysesAreFresh` | `[]CachedIsFresh` | `Sound`: a file whose analysis is held has its edges recorded as its text writes them, and so has everything below it, so that whatever can change the judgement is reached by the invalidation; `Fits` and `Clear` say which parses and marks may be held while the watcher has yet to speak |
| `LanguageServer_proofs!NobodyWaitsForAnother` | `[]NobodyIsHeldBack` | `Clock`: the timer is the first deadline, or earlier |
| `LanguageServer_proofs!WhatIsShownIsTrue` | `[][KeepsDocuments]_vars => []ShownIsTrue` | `Told`: an open document that waits for nothing, and reaches nothing that waits, has told the truth about all it reports. `Tracks`: whatever such a document sees before it meets one that waits has its edges recorded, or is known to need that (`Tracked`), so that `dependentsOf` finds every document a change concerns. `Owned`: only open documents wait and claim, and what is shown is claimed by somebody, so nothing stays that nobody reports |
| `Linking_proofs!PredicatesAreRead` | `[]NothingStaysUnread` | `ReadInv`: while hoisting lasts, whatever is held unread, by a scope or as hoisted, is pending (`UnreadIsPending`), and the last reading still has to come to all that is (`PendingIsToRead`). What is walked is typed by `FlattenType`, and forwarded names lead somewhere or nowhere (`HomeOfType`): both are recursions, whose existence is proved from a least counterexample |
| `Linking_proofs!NamespacesAreBound` | `[]BoundsAreWoven` | `BoundInv`: a clause is woven, or no Protocol of its name has hoisted or waits beside it (`WovenOrNever`), and a round only ever shrinks what waits (`RoundIsWaiting`) |
| `DebugAdapter_proofs!AnswersFindTheirHandlers` | types, `[]Channels` | a handler has at most one command underway, whose answer comes back to it at the await it fits, and what is sent on nobody's behalf is a move, whose answer nobody awaits; every other theorem about the adapter rests on it |
| `DebugAdapter_proofs!LedgerIsTheEngine` | `[]OneByOne => []LedgerIsEngine` | `Books`: for each file, what the engine holds is what the ledger says, less what the handler underway has removed, with what it has planted, and with the one command that is midway between them (`Account`, `Midway`) |
| `DebugAdapter_proofs!NothingStaysBehind` | `[][Patient]_vars => []NothingIsLeft` | `Stages`: how far the launch is says where its child may be, and that a connection has a debuggee for a disconnect to find; `Tidy`: a launch that failed, or was done and disconnected, has killed what was alive and removed the scratch directory |
| `DebugAdapter_proofs!TheClientSees` | `[]OneByOne => []ClientSeesTheProgram` | `Progress`, while the adapter is up (`NoneComesBack`): at any moment one thing alone decides where the program goes next (`Course`: an answer, a command, a pause on its way), the answer to a request to run on arrives before the pause it leads to (`Telling`), and a connection closes only once its program is over (`Closed`) |
| `PluginCompiler_proofs!TypeCorrect`, `DoorsOpen` | types, `[]EveryDoorOpens` | a remembered compile that went through has left its Module, and a report forgets both together |
| `PluginCompiler_proofs!HeldIsCurrent` | `[]WhatIsHeldIsCurrent` | everything remembered is `Recent`: made from the disk as it is, or from a file whose change is still to be reported. A report forgets what is remembered, marks the loads underway and drops what is held; descriptions come from one text wherever two graphs both reach it (`SameWhereBothReach`) |
| `ListRuns_proofs!TypeCorrect`, `SharedRunsCounted` | types, `[]SharedRunsAreCounted` | `Sound`: every box fits the Arrays it views, and one that leaves its count unsaid shares its back run with nobody |
| `ListRuns_proofs!Immutable` | `ListsAreImmutable` | by `Sound`, an Array grows only behind what every box views, so each native keeps what every box shows (`Kept`); one lemma per native |
| `ListRuns_proofs!ListsAreImplemented` | `ImplementsLists`: `ListRuns` implements `ImmutableLists` | `LInv`: the stamping discipline, and a walk that counts no more of a run than is there (`WalkFits`). Per native, `Gives` says which items its answer shows, in parts of what its receiver shows (`Part`); `Promised` says these are the answers a List promises. An Array only grows behind what a walk counts, so what it has still to visit is what it was when it began (`WalkExtended`) |

`Compile_proofs` speaks of two specifications, `Spec` of the store and `SessionSpec` of a run; nothing
in the one is used of the other. `GroupsOfRoots` supposes what the session's theorems then show of every
load: texts that name files, and roots that could be read.

Not proved, and why. Liveness (`EveryJobAnswered`, `Settles`, `NobodyHangs`, `HoistingReachesAll`,
`DeclarationsSettle`) is out of the prover's reach and stays with TLC. So do the five properties of
`Inference` and `MatchExpressions` (`AssignableMeansContained`, `UnionsSayWhatTheirMembersDo`,
`CallsReadAsWritten`, `OrderDoesNotDecide`, `MatchesRunAsRead`): they say what recursive definitions over
Types compute for every Type, which is an induction over data, and `Types` writes them as recursive
operators, which the prover cannot load.

## 6. What is left

1. Protocol conformances and bounds in `Inference`, and Method dispatch over the Namespaces of a
   Scope, whose memo (`invalidateNamespacesInScope`) is a cache the hoist writes behind.
2. Larger instances: two sources in `adapter`, a third file in `plugin`, three slots in `pool`.
