# TLA+ models of js-x-ray-rs

js-x-ray-rs analyses JavaScript and TypeScript sources statically: it parses a
source, walks its syntax tree, lets a list of *probes* look at every node, and
reports warnings and dependencies. A second analyser walks from entry files over
their local imports and builds a dependency graph. The program is sequential and
keeps nothing on disk. What is hard about it is not concurrency inside the
process but recursion over mutable state: a graph extended while it is walked, a
walk re-entered in the middle of another one, flags and indexes set at one node
and read at a later one, state taken out of a shared object and handed back on
some of the exits, and a file system that other processes change between two reads.

Paths below are relative to `src/crates/js-x-ray/src/`.

## Inventory

| Component | State it keeps | Operations | Interacts with | What is hard | What makes it correct |
|---|---|---|---|---|---|
| `EntryFilesAnalyser` (`entry_files_analyser.rs`) | graph, statistics, unique imports; per call the resolution cache and the reports | `analyse`, recursive `analyse_file`, `get_internal_dep_path` | file system, `AstAnalyser`, `DiGraph` | cyclic imports, errors out of the recursion, files that change, several spellings of an entry, reuse after a failure | the result is the reachable import graph; nothing forgotten or walked twice; errors only for a cause |
| `DiGraph` (same file) | vertices, ordered adjacency lists | `add_vertex`, `add_edge`, `find_cycles`, `get_deep_children` | used by the crawl and its callers | cycles read off a flattened depth-first order | cycles are cycles, every cyclic edge is found |
| `AstAnalyser` (`ast_analyser.rs`) | collectable registry, kept over runs | `analyse`, `analyse_file`, `walk_ast` | parser, pipelines, walker, probes, `SourceFile` | eval bodies walked inside the walk, two error exits, registry taken out during a run | complete dependencies, nothing collected is lost |
| `ProbeRunner` (`probe.rs`) | probes, `break_groups` | `walk`, `dispatch_events`, `finalize` | probes, `SourceFile` | early exits, groups, teardown order | exactly the right probes run |
| `SourceFile` (`source_file.rs`) | dependencies, encoded literals (by index), warnings, flags, `in_try_statement`, `dependency_auto_warning` | `add_dependency`, `add_encoded_literal`, `walk_bookkeeping`, `get_result` | probes write it | flags and indexes set at one node and read at another | report and registry agree, indexes stay valid |
| `CollectableSet`, `CollectableSetRegistry` (`collectable_set.rs`) | entries by value | `add`, `to_json`, `from_json` | `AstAnalyser`, `SourceFile` | shared over runs, empty while one runs | only grows; survives a JSON round trip |
| `VariableTracer` (`variable_tracer.rs`) | traced names, aliases, literal and object identifiers, imported modules, queued events | `trace`, `walk`, `get_data_from_identifier`, `drain_events` | probes trace and look up, events go back to probes | aliases share records, names are overwritten, no scopes, events dispatched late | an alias resolves to what it was bound to; no event is lost or duplicated |
| Stateful probes (`log_usage.rs`, `unsafe_vm_context.rs`, `data_exfiltration.rs`, `is_sync_io.rs`, `is_serialize_env.rs`) | names learnt from events, places of matches | `initialize`, `on_tracer_event`, `main`, `finalize` | tracer | trace more names while events are dispatched | every logger derived from a traced one is found |
| Crypto probes of digests (`probes/crypto/`) | variables that hold a digest, ambiguous names | `initialize`, `on_tracer_event`, `main` | tracer | names remembered without scopes | what is reported is a digest, and every digest is reported |
| Walker (`walker/mod.rs`) | context of the running handler | `walk`, `skip`, `remove`, `replace` | everybody who walks | removal while iterating, nested handlers | each remaining node is visited once |
| Pipelines and `Inlined` (`pipelines/`, `inlined.rs`) | none | `reduce`, `split` | before and during the walk | rewriting while walking, duplicates | a pipeline runs once; a rewritten require is seen |
| `Deobfuscator` (`deobfuscator.rs`, `node_counter.rs`, `obfuscators/`) | counters, identifiers, literal scores | `walk`, `analyze_string`, `assert_obfuscation` | `SourceFile` | decision list over counters of the walk | counters agree with the tree |
| `ShadyLink` (`shady_link.rs`), `safe_regex` (`utils/`) | none | decisions over one URL, one expression | single probes | order of the decisions | - |
| Probes of single nodes, crypto probes of numbers | none | `validate_node`, `main` | `ProbeRunner` | patterns | covered by the test corpus |
| Parser, ESTree helpers, string utilities, warnings, WebAssembly binding | none | conversions | oxc, callers | - | - |

The hazards, each with its line and the properties that cover it, are in
`PROJECT.json`.

## Modules

`DependencyCrawl` is `EntryFilesAnalyser` with the recursion of `analyse_file`
as an explicit stack of frames. A step is what happens between two looks at the
file system, so the disk can change between `file_exists` and the read, or between
the resolution of an import and its walk. `SkipEntry`, `EntryFails`, `CallEntry`
and `Finish` are the loop of `analyse`; `SkipDts`, `ReadFails`, `ParseFails` and
`AnalyseFile` the part of `analyse_file` before its loop; `SkipPackage`,
`ImportFails`, `ImportUnresolved`, `ImportKnown` and `ImportNew` one turn of the
loop over a report's dependencies; `ReturnToCaller` the end of a call with the
`add_edge` that the caller makes after it. `Fail` is the `?` operator: all frames
go, and so do the reports. A file's content is abstracted to the list of names
its report would have; the normalisation of entry spellings and of joined paths,
and the list of candidate files for a path, are constants (`Normal`, `Join`,
`Candidates`), and the theorems hold for all of them. Vertices are named by the
relative file in the code and by the file in the model.

`ImportGraph` is the abstract specification: files are visited and imports
followed in any order, and a call completes only with a closed graph (every
import of every report answered and linked, every vertex reported or exempt,
every entry there). `DependencyReach` adds the definition of the result by
reachability, for a disk that stands still.

`DiGraph` has the graph with its ordered adjacency lists, on which the traversals
depend. `AddVertex` and `AddEdge` come in any order, and between two of them the
graph may be asked for deep children or cycles any number of times. The calls of
`find_deep_dependencies` are a stack; `SkipVisited`, `VisitLeaf` and `VisitInner`
are one turn of its loop. `NextRoot` and `NextPair` are the loops of `find_cycles`,
`DropDeadEnd` and `Filter` one turn of the two loops of
`backtrack_vertices_involved_in_cycle`, `KeepCycle` is `keep_unique_vertices_paths`
told of one path. The code makes the same path once more for each vertex found
after the root and drops the copies; the model makes it once. The answers are
compared with `Reachable`, `Within` and `IsSimpleCycle`. `DependencyCrawl` uses the
same operations on unordered sets.

`ProbeRunner` is one node after another through `ProbeRunner::walk`. What a
probe answers is any of the four signals, what it leaves in the `SourceFile` is a
mark its teardown removes. The loop is split where the code does something
between the answer of a probe and what the answer leads to.

`SourceWalk` is an `AstAnalyser` over several calls of `analyse`. A syntax tree
is its nodes in the order of the walk, each with the position of the last node
below it, so that a skip is a jump; `frames` are the nested calls of `walk_ast`.
The nodes are those that change the `SourceFile`; the strings of dependencies
and literals are members of small sets, with `Cleaned` for the trailing slash
and blank names. In `Probed`, the lists of probes behind a node are already
composed: for `eval("require")("name")`, `isRequire` matches first and stops its
group only, then `isUnsafeCallee` warns and skips. `Begin` takes the registry out
of the analyser, as `std::mem::take` does, and `EndRun` hands it back over what is
there. `CallAgain` is a hook, a custom probe or a pipeline that calls `analyse` on
the analyser it runs in; `outer` are the runs that wait. `Panic` unwinds all of
them. `Tree` is a constant: the trees that may be given and the eval bodies in
them. `SourceReach` says what a walk should come to: the trees to walk are the least
set that holds the source and the bodies of the evals met in it, the nodes to enter
those of these trees that are not below a skipped one; two of the properties are
stated over them. A body met twice is walked twice, so for `EncodedSummary`, which
counts, it is not nodes but the ways to them that matter: a way is the eval of the
source it enters by, the eval of that one's body, and so on to an encoded literal.

`Nodes` says what the walker reads of a tree: a node is a record with the fields of
its ESTree type, some of which hold nodes or lists of them. `Estree` has the
helpers of `estree/functions.rs`. A dotted name is a *path*, the sequence of its
segments, so that `split('.')` and `join(".")` are sequence operations; the
atoms in it are never taken apart.

`VariableTracer` is the tracer as a record and its methods as operators from a
tracer to a tracer. In the code the map `traced` holds `Rc<RefCell<..>>` records
and an alias shares the record of its origin. In the model two keys share a record
exactly when `expr` and `age` agree: tracing a name again makes a fresh record
and leaves the aliases with the old one.

`LogUsage`, `CallProbes` (`isSyncIO`, `unsafeVmContext`, `isSerializeEnv`,
`dataExfiltration`) and `CryptoProbes` (`isWeakAlgorithm`, `isUnsafePrehash`,
`isPasswordShucking`) are the probes that trace, listen and look up; each has an
`Initialize...`, a `...Hears` for its reaction to an event, and a `...Probes` for
its `validate_node` and `main`.

`TracedWalk` composes them the way `walk_ast` does: `Enter` a node (a chain over
`require` is split first), `Track` it with the tracer and drain the events,
`Tell` one event after the other to every probe, `Probe` the node, `Finish` with
`finalize`. A program is read statement by statement from a pool of statements
per line, so that TLC shares the common beginnings of programs.

`ProgramMeaning` says what the programs of `TracedWalk` do, by an evaluation with
environments and scopes, and states its properties against that.

`Inlined` has the three ways in which `inlined.rs` splits an expression around a
call or a `new`, and what the `Inline` pipeline does with a node.

`Walker` is `walker/mod.rs` with the recursion of `visit` as frames, each owning
the node it visits until that is put back into its parent. `walkers` are the walks
that run, since a handler may start one. `run_handler` is `Enter` and `Return`:
what the handler asked for waits in the context in between. A handler is a constant:
`Asks(h, node)` is what handler `h` requests on the way in and on the way out, and
what it walks meanwhile. `WalkerSpec` is any number of passes of such handlers.
`WalkMeaning` says by recursion over the tree what a pass comes to, the nodes that
are kept (`Kept`) and the nodes that are met (`Visits`).

`Deobfuscator` has the counters of the walk with the identifiers they
extract (`Counted`), the texts (`StringsAnalysed`), the prefix groups of
`utils/patterns.rs` and the decisions of `assert_obfuscation` (`Verdict`). A
name is spelled by `Spelling` (code points, since the prefixes need them); of a
text, `Texture` has the suspicion score and the two pattern tests. `Observe` is what
a node adds (`walk_bookkeeping` and the probes that hand texts on), `Judge` is
`get_result`; `DeobfuscatorSpec` is any nodes observed and then judged.
`VerdictMeaning` says what groups and verdicts rest on without counters, of the nodes
in `seen`: the variable of `History`, which the walk of `Walker` and the
deobfuscator share.

`AnalysedTree` is one `analyse` as its trees see it: the pipelines one after
another, then the walk that feeds the deobfuscator, then the verdict. Every pass
is a walk of `Walker`, whose actions its own are made of; `Asked` stands for `Asks`,
and pipelines of the caller ask for whatever `wishes` say. Only the handler of
Inline keeps something between the nodes (the virtual names), so it is not among
`Handler` and enters nodes by an action of its own. `TreeMeaning` states what
comes out of the passes without frames, contexts and counters.

The `MC...` modules give the constants their values. Operators marked `(faulty)`
in a module are plausible mistakes in the operator after them; they are not part
of the specifications, each one makes TLC find the property listed with it in
`PROJECT.json` violated.

## Runs

| Run | Question | Bounds and why they are enough |
|---|---|---|
| `crawl_volatile` | Do types, recursion, closure of the graph, statistics, resolution and refinement survive a file that changes at any moment? | Four files (an ambiguous path `b` for `b.js` and `b.ts`, a declaration file), lists of up to three names with cycles and self imports, three initial states of `b.ts`, `b.js` in every state at any time, entry lists with a shared import and two spellings; any number of calls in a row |
| `crawl_static` | Is the result exactly the reachable graph, and does a call fail exactly for what it meets? | 845 projects: nine import lists and all error states over the same files, no changes, `ignore_enoent` off |
| `crawl_dts_names` | Is only a declaration file skipped? (No.) | As above with `b.ts` named so that its path contains `d.ts` |
| `digraph_queries` | Are cycles and deep children right? | All graphs over four vertices, up to the order in which vertices are added (`FixedOrder`), with at most `Degree` = 2 vertices adjacent to each (`FewEdges`), edges added in every order, either question asked at each stage; limits below, at and above 1 and as large as the graph. Three vertices already let backtracking drop a dead end, four let it drop one from a longer cycle and let two cycles share an edge. The theorems have no such bounds |
| `digraph_depth` | Does a limit cut at true depth? (No.) | The same graphs, limit 2 |
| `probe_runner` | Do exactly the right probes run? | Six probes: two groups, stops without a group, a catch-all, every answer |
| `source_analyses` | Is a finished report complete, does an analysis fail only when it should, and do report, registry and indexes stay consistent over runs, runs within runs, refusals, failures and panics? | First calls: all trees of three nodes over ten kinds, and try statements with and without handler around five kinds. Of seven sources (`Again`) up to `MaxRuns` = 3 calls, after or inside one another, which is the least with a run inside a run inside a run and a call after a nested one; a panic at any moment. `MaxEncoded` is 1 instead of 10 |
| `source_nested_try` | Is `in_try` right for nested try statements? (No.) | One tree |
| `source_by_eval` | Is only the text of evals parsed? (No.) | One tree |
| `tracer` | Is exactly that reported which the program does? | All choices of one statement per line from five pools of four or five lines (loggers of pino and winston, vm and fs, crypto and bcrypt, environments and the system's user), both sensitivities. Each pool has the ways in which a function is handed on: default and named imports, `require` directly, destructured and by way of `Function.prototype.call.call`, aliases, members, a condition, loggers from loggers, functions with a parameter of that name, and functions and log levels that only have the name of a synchronous one; a name is handed on up to three times, while the tracer looks up one level at a time |
| `tracer_scopes` | Is a digest found only where it is? (No.) | Two functions |
| `analysed_tree` | Do walks obey their handlers' requests and end, does Inline keep the program and the order of what it moves to the front, are the prefix groups and the verdicts right? | All wishes of two names (skip, remove, replace on the way in or out, a walk of two statements meanwhile) that stand in a list, twice in the same list next to a hole, and in a field; all pairs of ten chains of calls under three choices of pipelines; all choices of up to four of nine groups of statements, which reach every verdict and the boundaries of their thresholds |

`MaxRuns` is the only bound in a guard, apart from the length of a program in
`TracedWalk`; `MCDiGraph` bounds the graphs by the two constraints named above; the
other models are finite by their constants.
`CHECK_DEADLOCK FALSE` stands in the configurations of `SourceWalk` (after `MaxRuns`
calls), `TracedWalk` and `AnalysedTree` (one analysis, which ends). `crawl_volatile`, `probe_runner` and
`analysed_tree` check `Termination`, `NodeEnds` and `Terminates` under weak
fairness of the program's own steps: `analyse` and `walk` are synchronous calls
that keep executing once entered. Nothing is assumed of other processes that
change files; the walk ends even if they never stop.

`Sound`, `Complete` and `AliasesAreTrue` have conditions, since the tracer is an
approximation by design. `Sound` and `AliasesAreTrue` hold for programs that bind no
name twice (`Unique`); without it the names of the tracer, which have no scopes,
mean several things, and `tracer_scopes` shows what follows. `Sound` takes the
free name of a module for the module, as the tracer does, and it makes one exception:
a call of bcrypt or of a logger that `isSyncIO` takes for synchronous by its name
alone (`MistakenSync`). In an evaluation all conditions hold. `Complete` further asks
that no property is named like a variable with a literal or an alias
(`Unhidden`), that a declaration declares one variable whose value Inline has not
made a block of (`Simple`) and that nothing goes on from a variable that holds a
digest (`Kept`); the section below says what the code misses otherwise. The pools
hold programs on both sides of each condition.

### What the runs found

- `entry_files_analyser.rs:226` tests for the text `d.ts` anywhere in the path.
  `build.ts` contains it: it enters the graph and is never analysed. The comment
  speaks of declaration files.
- `entry_files_analyser.rs:466`: `get_deep_children` with a limit of 2 or more
  loses vertices within that depth when the depth-first order first meets an
  intermediate vertex at the limit; the module's documentation promises true
  depth. No caller in the repository uses such a limit.
- `source_file.rs:312`: the catch clause of an inner try switches off the flag
  for the rest of the outer block.
- `probes/crypto/is_unsafe_prehash.rs:63`: a variable that holds a digest is
  remembered by its name for the whole program, so `bcrypt.hash(name)` in another
  function is reported for a variable that only shares the name. A test's title
  says it should not be.
- `ast_analyser.rs:481`: the argument of `eval("require")("./x")` is parsed as
  JavaScript and fails the analysis of the whole source.

One more disagreement of code and documentation is in the models as an exception of
`Sound`, which fails without it: `probes/is_sync_io.rs:93` reports, once `fs`, `crypto`,
`child_process` or `zlib` is imported, any traced function whose name ends in
`Sync`, whichever probe had it traced, such as `bcryptjs.hashSync` or a log level of
that name. Lines 3 and 4 speak of functions of the four modules.

`EntriesCovered` is stated for `ignore_enoent` off, so it is checked in
`crawl_static` only; with it on, a missing entry is skipped by design.

The comment above `deobfuscator.rs:339` thinks the number that the share of
prefixed identifiers is divided by may be negative: it never is
(`NamesCoverProperties`, proved below). It may be 0, and the share infinite.

Imprecisions of the code the models have as they are, none of them against a
sentence of the repository:

- The events of a declaration are told after all its declarators, so in
  `const log = pino(), child = log.child()` the child is not traced; nor is
  `const child = pino().child()`, whose value Inline has turned into a block.
- `const r = require; r("crypto")` and a digest that is copied are not followed;
  `import { x as y }` declares `x`, and `import a, { b }` ignores `b`.
- A property is looked up among the literals although it is not computed, and any
  segment of a path that is named like an alias is replaced.
- Any call of a method `digest` in bcrypt's argument counts as a digest, also of
  something that is no hash; a literal inside an object initialiser is recorded
  for the variable.
- `isSerializeEnv` takes any traced identifier for the environment.
- Deobfuscate's join leaves out empty strings and identifiers. Virtual
  declarators of Inline count for the verdicts.
- After a panic that the caller catches the analyser has no sets and collects
  nothing any more; nor does an analysis inside another one on the same analyser.

## Proofs

`DependencyCrawl_proofs` proves type correctness and the invariants for every
set of files, names and paths, every resolution and normalisation, every change
of files. `NoReentry` and `NoLostImport` are not inductive: a callee that returns
adds an edge for its caller, and why that edge is the missing one is known only
if frames are tied to the reports. `IInv` adds that a frame's names are those of
its file's report (`FrameReported`), that all names before its position are
settled (`FrameSettled`), that every frame but the innermost waits at the import
its callee was called for (`CallersWait`), and that walked files are vertices, so
that `has_vertex` keeps a file from being entered twice. There is one lemma per
group of actions; lemmas on the stack say what replacing the top, advancing and
popping return. `EntriesAreCovered` adds that a completed call has passed its
last entry.

The same module proves `Spec => KeepsPromise`: with the mapping in
`DependencyCrawl`, `AnalyseFile` and `ParseFails` are visits, the turns of the
loop and the return to a caller follow imports, `Finish` completes with a closed
graph (from `NoLostImport`, `NoSilentVertex` and `EntriesCovered`), an error
aborts, all else stutters.

It proves further what a finished call has come to. `StatisticsAgree`
needs `CountInv`: at any moment a file is counted as an import exactly if an edge
leads to it, it imports itself, or a call for it has not returned yet.
`ReportsAreNotRepeated` is an inequality that every step has to keep (`ReportsOwed`):
the reports of a file and the call about to report it are no more than the spellings
of it that the loop over the entries has taken, and one more once it is a vertex.
`GraphIsExact` and `FailuresHaveCauses` assume `Volatile = {}`, a disk that stands
still during a call, as `crawl_static` does; with changing files there is no
import relation the graph could be compared with. `TrueToDisk` says that every
answer of the cache, report, edge, vertex and waiting frame is what the disk says and
is reached from an entry; that nothing reachable is missing then follows from
`NoLostImport` and from every entry having been answered.

`DiGraph_proofs` proves every property of the graph that `digraph_queries` checks,
for any vertices, edges and limits, in three invariants:

- `SearchInv` is the depth-first search. The calls are a path of the graph whose
  vertices are in `found`; a vertex that is found and not on the stack has all its
  neighbours found (`ExpandedIs`), those of a vertex on the stack are found or still
  to be looked at (`PendingIs`), and each found vertex has a parent found before it,
  at most `Depth` steps from the root. Where the depth could run out before the
  graph does, nothing is claimed of expansion. For a limit as large as the graph the
  calls cannot be that deep, because their vertices differ (pigeonhole), so only the
  root is a leaf and the search is complete.
- `CutInv` is the backtracking. The path begins and ends at the root and repeats
  nothing else (`Ring`); before the position each vertex has a parent earlier on the
  path, after it each is adjacent to the one before. So dropping a vertex that is not
  the parent never cuts the way back to the root, and the second vertex, the end of
  the edge in question, is never dropped.
- `AnswerInv` is the answer as it grows: cycles that differ, one for each cyclic edge
  that the loops have passed.

`ProbeRunner_proofs` proves that for every list of probes and every answer the
loop runs exactly the probes it should. The inductive invariant says of the probes
before the loop's position what `HeardExactly` says of all, that no answer heard
ended the loop, and that `groups` is what the answers heard make it.

`Deobfuscator_proofs` proves three things of `DeobfuscatorSpec`, for any nodes
observed in any order, any names and any texts. In `AnalysedTree`, where the run checks
them, the last pass starts with nothing seen, its `EnterNode` adds a node to `seen` and
to the counters as `Observe` does, `Conclude` is `Judge`, and no other step touches
the counters; that last pass is what the theorems are about. `KeptInv` is the invariant: the
counters *hold* what was observed (`Holds`: the identifiers are the names of the nodes
one after another, each count is the number of nodes that count there, the morse texts
and the scores are those of the texts met), and a verdict, once there, is that of the
counters.

- `PropertiesAreNamed`: a node counted as a Property adds the name of its key in the
  same step, and nothing takes names away.
- `GroupsAreFound`: the names are taken in sorted order, but the argument does not
  need it. When some of the names have been taken, the groups are, for each first
  character, one group with the number of names that begin so and the longest
  beginning they share (`GroupedRight`, one name at a time `JoinsRight`): two words
  share a beginning exactly if their first characters agree, so a name finds the one
  group of its own character, and the longest beginning of the set with one name more
  is what the prefix and the name share (`LongestIs`, `JoinedIs`). Sorting is a
  bijection of the positions (`SortedShuffles`), which leaves the groups as they are
  (`GroupsAreRight`).
- `VerdictsAreGrounded`: each verifier's thresholds are read through `Holds` as sizes
  of sets of nodes and names. For obfuscator.io and freejsobfuscator the groups
  are those of the previous theorem; a sum of lengths or scores is at least, and at
  most, the number of its members times a bound of theirs (`TotalAtLeast`,
  `TotalAtMost`), so an average above a threshold has a member above it.

`SourceWalk_proofs` proves, for all trees, any calls of `analyse` after and inside
one another and a panic at any moment, that report and registry agree, that the
places of encoded literals are right and that nothing collected is lost but by a
panic. One predicate, `Sound`, says of a `SourceFile` that it is typed, its places
hold and its report agrees with its own set; there is a lemma for each operation
on a `SourceFile` (`Warn`, `AddDependency`, `AddEncodedLiteral`, `Bookkept`,
`Probed`) that it keeps `Sound` and leaves the set or appends to it (`Grown`).
`SourceInv` adds what the properties do not say: waiting runs are sound too, the
analyser is empty while a run walks, of the runs that wait only the outermost may
have the sets (`OutermostHolds`; without it the set a returning run puts into the
analyser could be another than the one its caller goes on with), and every call
of `walk_ast` but the innermost is at the eval it walks into (`Stack`).

`FlagIsRightUnlessNested`, in the same module, is about `in_try_statement`. The flag is
set at a Try and cleared at any Catch, so it is right only as long as at most one Try
is waiting for its Catch. `FlagInv` says for every walk that has not entered a Try in
the block of another that the flag is set exactly if some Try's handler is still
to come in some tree of the stack (`Pending`), that this is the same as being inside
its block, and that no second block is open around a pending one (`Apart` in a tree,
`EvalsApart` between trees). Without `Apart` a Catch that clears the flag might
leave a Try pending.

`SourceReach_proofs` proves that reports are complete and that failures have a
body that does not parse. `ReachInv` says of each call of `walk_ast` that the nodes it
has passed are reported and the bodies among them *settled*: all nodes to enter in
all trees reached from the body are reported and none has a body that does not
parse. A call that waits has reported the eval it is at, and the call above it walks
that eval's body. When a call returns, its tree is settled because the trees
reached from it are itself and those reached from the bodies met in it
(`WalkedUnfolds`).

`EncodedLiteralsAreCounted`, in the same module, is `EncodedSummary` for all trees. The
set of all ways to encoded literals is given at the start, and a walk passes
through it in order: `WaysMet` are the ways behind the running frames, a set that
changes by at most the way to the node just entered (`EnterMeets`). `CountInv` says
that the source remembers only values met so far, with one warning each, and, as long
as there are no more of them than `MaxEncoded`, all of them, each with as many places
as ways behind the frames lead to it (`Tally`). `Shallow` says that the frames lie no
deeper than bodies can (`Nesting`), so that the frames at an encoded literal are one
of the ways. What `get_result` leaves when it drops the warnings of encoded literals
is an induction over the list of warnings (`RetainedUnfolds`).

`SequenceLemmas` has what several of these proofs need. Induction is stated for sets
of numbers (`SetInduction`) and proved from the fact that a finite set has no
injection into a smaller one; from it follow the existence of functions that are
recursive over a sequence (`FoldExists`) and the equations of `FlattenSeq`.

`Walker_proofs` proves `RequestsAreObeyed` for `WalkerSpec`: for every tree, every
handler that depends on the node only, and walks that handlers start, nested to any
depth. It carries over to the passes of Deobfuscate, of the caller's pipelines and
of the last walk, whose steps in `AnalysedTree` are `Begin`, `EnterAsked`, `Move`,
`Return`, `LeaveAsked`, `EndNested` and `End` with more variables beside them, but
not to Inline. The invariant has to say what a walk that is halfway, has
changed part of the tree and waits in any number of handlers will come to:

- *What will be left.* `Finished(frame)` is what becomes of a frame's node if
  the children behind its position are replaced by what is kept of them and those
  before it stay as they are. A frame is at the child that the frame above it
  visits, and what the upper one will come to is what is to be kept of that child
  (`FramesRight`). So the root's `Finished` is, at every step, the tree the pass
  should leave, whose list is already shorter where elements were removed and
  whose position did not move for them.
- *What will be met.* The nodes seen so far and, appended to them, those that all
  frames of all walks have still to meet (`AllLeft`, the innermost walk first) are
  at every step the sequence the pass should meet.
- *Why it survives nested walks.* Each walk that waits has in its context what its
  handler asked for on the node it is at (`WalksRight`), whatever walks run
  above it.

`FlattenSeq` and the recursions of `WalkMeaning` are unfolded one element and one
node at a time: an induction over indices shows how a concatenation changes when an
element is put back as none, one or more (`SetInduction` in `SequenceLemmas`), and
`RecursionAssumption` says that `Kept` and `Visits` satisfy their recursive
equations. That is the one thing assumed of them. A handler that puts in the place
of every node a new one to be walked would have no such functions, and the code would
not return from it either.

Assumptions are those named in the modules: `CrawlAssumption`,
`TroubleAssumption`, `EntryAssumption` (entries are already unique spellings),
`GraphAssumption` (limits are natural numbers), `ProbesAssumption`,
`DeobfuscatorAssumption` (a node names finitely many names, no name is empty, a text
is read to the end), `SourceAssumption` (a node ends after it begins and within
its tree, the name of a dependency is cleaned to something, the lack of a set is not
a set) and `TreeAssumption` (ESTree: nodes nest, the handler of a Try is a Catch
below it that follows its block, every Catch is the handler of some Try, only calls
of eval have a body that is parsed) and `NestingAssumption` (a body lies less deep
than the tree it is the body of, since it is a text inside that tree's text), and `HandlerAssumption` (the fields
that hold nodes hold nodes, null or lists of them, and what handlers walk or put in a
node's place to be walked consists of such nodes) with `RecursionAssumption`; TLC evaluates them in the runs. `Volatile = {}`
is a hypothesis of the two theorems named above.

Only model-checked:

- `Termination`, `NodeEnds` and `Terminates`, which are liveness;
- `Sound`, `Complete` and `AliasesAreTrue` of the tracer, whose operators and whose
  reference, an evaluation of programs, are recursive;
- `Restored`, which compares the program with a recursive restoration of it, and
  what walks of Inline's handler, which has a state, come to.

## Not modelled

Parsing, string processing (decoding of names, URLs, scores of strings), the
single-node patterns of the probes, the thresholds of the crypto probes of
numbers, floating-point averages, the JSON form of the collectable sets, timing.
What is left out of a modelled part `PROJECT.json` says for each component:
`trojan_source` and the kinds of declarations in the deobfuscator, the locations
in virtual names, literals put together from constants in the helpers (they are
the literal of their value). A panic is modelled as unwinding every run that is
under way; a hook that catches a panic of a run it started itself would go on,
with the registry empty as it is for any run inside a run.

## Plan

Modelled so far, in this order: the crawl with its abstract specification and its
refinement, the graph, the probe loop, the walk over a source with runs within
runs, the tracer with the probes that listen to it, the walker, the pipelines and
the deobfuscator. To come:

1. A composition of `ProbeRunner` and `SourceWalk` in which the probes' answers
   come from the node instead of being arbitrary.
2. The JSON round trip of the collectable sets, several sets of one type.
3. `safe_regex`, the decision list of `ShadyLink`, constant folding of the crypto
   probes.

Theorems to come: walks of handlers that keep a state, such as Inline's; that tracing
never forgets a name in `VariableTracer`.
