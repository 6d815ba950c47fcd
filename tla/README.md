# Ontoly in TLA+

Ontoly compiles a repository into a software graph, stores it, watches the
sources, and answers queries over the graph. This directory holds TLA+ models of
the parts of it that are concurrent, failure-prone or algorithmically hard, the
TLC configurations that check them on small instances, and TLAPS proofs of the
properties that matter most.

`PROJECT.json` lists the components, the runs, the hazards in the code with the
properties that would catch them, and for every definition the source lines it
models.

    tlc -workers 2 -config MCSnapshotCache.cfg MCSnapshotCache
    tlapm SnapshotCacheProofs.tla

## 1. The system and its parts

Paths are below `src/packages/` unless they start with `src/`.

| Part | State it keeps | Operations | What is hard | What makes it correct |
|---|---|---|---|---|
| **Snapshot cache** `compiler/src/cache`, `compiler/src/pipeline`, `cache/src` | three files in `.ontoly/cache/compiler`: graph, products, manifest | lookup, invalidation, commit | no lock; commits and lookups of several builds and processes interleave, writes fail, processes die, the user edits meanwhile | a hit is one whole commit, made for these sources and this configuration; warm equals clean; the cache recovers |
| **Watch session** `compiler/src/index.ts`, `compiler/src/context` | a watcher, a timer, `closed`, builds under way, the imported config module | notice, debounce, build, report, close | builds are not serialized; a build writes below the watched root; the config is imported once | no edit is lost; it settles unless it watches its own output; nothing after close; results in order unless builds overlap |
| **Query engine** `query/src/index.ts` | indexes, an answer cache | walk, shortestPath, detectCycles, topologicalSort, connectedComponents, stats, find | queues re-sorted by id; cache keys made of some of the options | each answer is what its name says, computed or cached |
| **Compiler pipeline** `compiler/src/passes`, `compiler/src/pipeline` | the ordered passes; per build the pipeline state and the diagnostics | validate and order passes, run stage by stage, skip, merge, commit | dependencies across stages; what a hit skips must be restored; passes and writes fail | the order honours what is declared; a warm build ends as a clean one does; only validated graphs are committed |
| **Task execution** `compiler/src/execution` | an index and a list of results shared by workers | run tasks on n workers | tasks end in any order; the first rejection leaves the other workers running | all results in order, or one error, once |
| **In-memory builds** `compiler/src/memory` | a scratch directory | serve sources from memory, or write them out, build, remove | files are written all at once; the first failure starts the removal while the others still write | both strategies build the same; what was written is removed |
| **Graph construction and validation** `compiler/src/graph`, `compiler/src/validation`, `core/src/index.ts` | none | merge, deduplicate, validate, hash | identities and order | the graph does not depend on the order of its inputs |
| **Artifact store** `cache/src/index.ts`, `cli/src/cli.ts` | two output directories of six files each, an alias, a semantic index | persistGraph, createOntolyOutputBundle, loadGraph, loadOrCreateSemanticIndex, loadCurrentSemanticIndex, findGraphArtifactDirectory | files written in place and in parallel, read one by one, from whichever directory is newer | answers come from the last build, or from one under way; a graph meets only its own index; a build repairs what was left |
| **Enhancer runtime** `enhancer/src/index.ts` | registry of artifacts, results per enhancer, cache in memory and in a file | plan, run level by level, restore, remember | enhancers of one level run in parallel and may rewrite an artifact that others read; a throw rejects the call while the rest runs on | inputs are settled first; entries are what their key says; parallel, sequential, cached and clean calls deliver the same |
| **Enhancers** `enhancers/history`, `enhancers/semantics` | artifacts | run | read and write through the runtime | as above |
| **MCP server** `mcp/src` | a loaded graph and engine | list, call | reload while a request runs | answers come from one graph |
| **CLI** `cli/src` | none of its own | commands | a watch command, an enhancer file cache, installed skills | exit codes and output agree with results |
| **Frontends and semantic passes** `typescript`, `python`, `go`, `parser-*`, `semantic*` | an incremental program per process (TypeScript) | scan, parse, resolve | mostly text in, facts out | |
| **Capabilities** `capabilities/src/index.ts` | none between calls | impact analysis, implementation plan, feature touchpoints, evidence packs, traces | walks are cut by budgets of nodes, edges, depth and time, the walks of one call share a clock, and what they found is cut again | a report that is not partial is complete; budgets hold |
| **Analyzers, intelligence, diff, diagnostics** | none | pure functions of a graph | | |
| **Plugins** `src/plugins` | none | render | | |

How they interact: the CLI and the MCP server call
`buildSoftwareGraphWithArtifacts`; its stages run the passes (which call the
frontends), consult and commit the snapshot cache, and hand the graph to the
artifact store. `watchSoftwareGraph` calls the same function from a timer.
`loadOrBuildGraph` reads the artifact store or builds. Queries, capabilities,
analyzers and enhancers work on the graph that comes out. The only shared mutable
state is on disk (cache directory, output directory) and, inside one process, the
imported config module, the TypeScript program and the caches of engines.

## 2. Modules

    SnapshotRegister          what the cache promises: one register of whole snapshots
    SnapshotCache             builds, files and faults, one action per read, write, rename
      SnapshotCacheProperties   claims, and the inductive strengthening
        SnapshotCacheProofs       types, one commit per hit, refinement, valid hits, warm equals clean
        MCSnapshotCache           instances
    WatchSession              watcher, timer, overlapping builds, callbacks, close
      WatchSessionProperties, WatchSessionProofs, MCWatchSession
    PassOrder                 createPassManager: validation and ordering of the passes
      CompilerPipeline          builds: the stages, their passes, hits, validation, commit
        CompilerPipelineProperties, CompilerPipelineProofs, MCCompilerPipeline
    QueryGraph                edges, neighbours, the query under way
      GraphWalk                 performWalk
      GraphSearch               performShortestPath, performConnectedComponents
      GraphOrder                performTopologicalSort, performDetectCycles
      GraphChains               longestCallChain
        QueryEngine               the engine: queries and the cache of answers
          QueryEngineProperties, QueryEngineProofs
      CapabilityWalks           walkBoundary and the capabilities made of it
        CapabilityEngine          queries and capabilities of one process
          CapabilityProperties, CapabilityProofs, MCQueryEngine
    EnhancerPlan              createEnhancerExecutionPlan: selection, dependencies, levels
      EnhancerPipeline          calls: levels, runOne cut at its awaits, registry, cache
        EnhancerProperties, EnhancerProofs, MCEnhancers
    ArtifactStore             two directories, builds and readers, one action per open,
                              close or read of a file
      ArtifactProperties, ArtifactProofs, MCArtifactStore
    TaskBatch                 what runDeterministicTasks promises: all outputs, or one error
    TaskPool                  runDeterministicTasks: workers, cut at their awaits
      MemoryBuild               a build from memory: scratch directory, inventory, removal
        MemoryBuildProperties     claims, and the pool as a TaskBatch
          MemoryBuildProofs, MCMemoryBuild

Some definitions are marked *Variant*. They are not part of any specification:
each is a form of the definition after it with a plausible mistake (a check
dropped, a timer left running, a key that lacks an option). Putting one in the
place of the definition shows that a property is able to fail.

### SnapshotCache

A *build* is one call of `buildSoftwareGraphWithArtifacts`. `pc[b]` is the stage it
is in; `inventory`, `manifest`, `graph`, `products`, `reason` and `parsed` are its
local variables; `graphFile`, `productsFile` and `manifestFile` are the files of the
cache directory (`SoftwareGraph.json`, `products.json`, `cache.json`), and `tree` is
the working tree.

| Actions | Code |
|---|---|
| `Begin`, `DigestFile`, `FileGone`, `InventoryDone` | `discoverFiles`, `createSourceInventory` |
| `Disabled`, `RejectManifest`, `Consult` | `loadCompilerBuildCache` up to the manifest and its checks |
| `ReadGraph`, `ReadProducts`, `GraphMissing`, `RejectSnapshot`, `UseSnapshot`, `LookupFails` | the two parallel reads and what follows |
| `ParseFile`, `ParseDone`, `Construct` | the frontends, which read the files a second time, and graph construction |
| `Validate`, `BeginCommit` | graph-validation, which is fatal on errors, and the condition of artifact-commit |
| `RenameGraph`, `RenameProducts`, `RenamesDone`, `Publish`, `WriteFails` | `persistCompilerSnapshot`, `writeJsonAtomic` |
| `Edit`, `Crash`, `Remove` | the user and the operating system |

What is abstracted: a graph and its products are both the record of the tree and the
configuration they were made from (`Output`), for both are functions of these; hashes
are constant operators. A configuration stands for everything the fingerprint of
configuration and passes is made of. Temporary files are not modelled beyond the fact
that a rename happens or does not.

### WatchSession

The sources are a counter of edits; a build reads it in one step, for what happens
inside that step is the matter of `SnapshotCache`. `notices` is a set: the watcher
delivers in any order and merges what is equal. `Fire` is the timer's callback;
`LoadConfig` is `import()` of the config, which returns what the process imported
first; `WriteOutput` is `persistGraph` (which raises a notice of its own), `OnBuild`
and `OnError` are the callbacks. `Fails` is a build that resolves without a commit, or
rejects, perhaps leaving no readable graph in the output directory. `outputDir` is chosen
for the session, from any names: `IgnoredNames` are those in the fixed list of
`shouldIgnorePath`, so that a session may watch its own output. `ahead` and `sinceBegin` are
histories the properties refer to. Notices without a file name, which the callback drops, and
config files that change `outputDir` during a session are left out. `Close` takes the
notices with it, as a closed watcher calls nobody back.

### PassOrder and CompilerPipeline

`passes` is the array a build is given. One turn of the loop of `topologicalSort` is
`TakeFirst`; `incoming`, `ready` and `sorted` are its variables. Ids are numbers, as in the
query engine, and `ready` is a set of which the first by `comparePassIds` is taken.

`CompilerPipeline` runs builds one after the other over one snapshot. `at` is the place of
`executeCompilerPipeline` in the nineteen stages, `todo` and `records` are the loop of
`runStage` (`IsNext` says whose turn it is), `state` is the `CompilerPipelineState`.

| Actions | Code |
|---|---|
| `OrderPasses` | `createPassManager`; later builds of the same passes come to the same order |
| `StartBuild`, `EndBuild` | `buildSoftwareGraphWithArtifacts` |
| `SkipStage`, `EnterStage` | the head of the loop over the stages |
| `RunPass`, `PassFails` | `runStage`; a pass that rejects ends the build |
| `HitCache`, `MissCache`, `ConstructGraph`, `ValidateGraph`, `CommitArtifacts`, `CommitFails`, `EndPlainStage` | the cases of `createDefaultStage` after `runStage`, with `mergeStageResult` |

Every pass has one product and one diagnostic, named by the pass, and the constants `NodesOf`
and `EdgesOf` say which nodes and edges it makes; two passes may make the same node, each its
own version of it. `BuiltGraph` is `addPassProducts` and the builder: of a node, the version of
the pass that ran last (`NodesFrom`), and every edge. `Dangling` is the core validation of
endpoints: such a graph is rejected whatever else is asked (`Accepts`). The hooks a
caller adds are free in their verdict, and so is the lookup in whether it hits (`SnapshotCache` is about
that). The branches for a missing graph in graph-validation and artifact-commit are left
out: with the nineteen default stages there always is one.

### QueryEngine

One query runs at a time (the engine is synchronous), step by step: one iteration of a
loop is one action. Node ids are numbers, because the algorithms order nodes by id, and they
do so in two ways: walks, cycles and components use `localeCompare`, which is the order of the
numbers; `sort()` of a queue and `<` of joined ids go by code units, and the constant
`CodeUnits` has the place of each id in that order, any other one (ids of mixed case differ in
the two). Edge ids end in a hash, so wherever the code goes by the order of edges the model takes
any order. `Hit`, `Remember` and `Clear` are the cache; `Key` is `stableWalkKey` and the
literal keys of the other queries.

Of the statistics only the longest call chain is modelled; `visits` is the recursion of `visit`, a
frame per node that is active, and `chains` its memo. The chain of a node is chosen by code units
(`Better`, `query/src/index.ts:1143`); which of the longest chains is reported is decided by
`localeCompare` of joined ids (`:1154`), which does not follow from the order of the ids, so
that `EndChain` takes any of them and `ChainIsLongest` orders only chains with the same first
node.

Two reductions are used, each argued where it is made: the queue of a walk is kept per
node (it is sorted by node id after every iteration, and the sort is stable), and a node
that several edges lead to is pushed once (the further items would be equal to it).

### EnhancerPlan and EnhancerPipeline

`chosen` is the selection with what it pulls in, `levels` the array of levels;
`PlanStep` adds a level, `Refuse` is the `throw`, `Run` the end of planning. A call is
`runEnhancerPipeline`; calls follow each other, in one process or, after `Kill`, in the next
one with what the cache's file holds.

| Actions | Code |
|---|---|
| `StartCall` | `runEnhancerPipeline` up to the plan: artifacts of the caller, the cache |
| `StartLevel`, `StartOne` | the loops over levels, parallel or one by one |
| `Restore`, `Compute`, `Throw` | `runOne`: a hit, a run with validation of its inputs, a throw |
| `Store`, `Remember`, `EndWrite` | `registry.put`, `cache.set`, and the file rewritten from the whole map |
| `EndLevel`, `Deliver` | the `Promise.all` of a level, the result |
| `Kill`, `Commit` | the operating system, and a commit in the repository |

Enhancers that do not await (all that this repository has) run inside one turn of the event
loop, so in a level started at once they go in lock step: what is restored is put first,
then the others run, then their artifacts are put. `Prompt` names them. The module
admits enhancers that do await, as a library caller may add, except ones that read an
artifact which another of their level rewrites (`RewriteAssumption`): for these the
result would depend on timing. What an enhancer computes is a function of the graph,
the artifacts it reads and, for `Impure` ones, the Git history.

### ArtifactStore

`disk[d][f]` is a file of directory `d`: its text, the writers that have it open, and
whether two of them may have mixed their bytes. `work[b]` is a build with the legs it
still has to write (`ontoly build` writes a bundle, a build of `watch` persists, `ontoly build
--output .ontoly --bundle` does one after the other),
`ask[r]` a command that reads. `newest` is the directory with the newest modification
time, `linked` the directories whose `graph.json` is a hard link of `SoftwareGraph.json`.

| Actions | Code |
|---|---|
| `StartBuild`, `Begin`, `EndLeg` | the commands, `resolveOntolyOutputDirectory`, the end of a bundle or of `persistGraph` |
| `OpenFile`, `CloseFile` | `fs.writeFile`, which truncates and then writes; `Before` is the order in which the code awaits them |
| `RemoveAlias`, `PlaceAlias` | `writeGraphAlias`: rm, then link or copy |
| `StartAsk`, `Find`, `ReadMetadata`, `ReadIndex`, `TakeCurrent`, `LoadGraph`, `LoadOrCreate` | `search`, `query` and `mcp`: `loadCurrentSemanticIndex`, `loadOrBuildGraph`, `loadOrCreateSemanticIndex` |
| `OpenIndex`, `CloseIndex` | the reader that writes `index.json` |
| `Edit`, `KillBuild`, `KillReader` | the user and the operating system |

A text is a graph, nothing, or torn. A mixture of two texts is taken not to parse; copying the
alias, where linking fails, is one step; a write that fails is a build killed at that write;
`generatedAt` and the files nothing reads back are left out.

### TaskPool and MemoryBuild

`running[w]` is the place worker `w` is at, `nextIndex` and `results` are what the workers
share. What a worker does between two awaits is one step.

| Actions | Code |
|---|---|
| `Start`, `TaskResolves`, `TaskRejects`, `Deliver` | `runDeterministicTasks`: the call, the two ends of a task, `Promise.all` |
| `ServeFromMemory` | `buildSoftwareGraphFromMemory` with the zero-disk strategy |
| `MakeScratch` | `mkdtemp`, then the provider, which refuses keys outside of the repository |
| `MakeDirectory`, `WriteFile`, `TaskFails` | `materializeSources`: a `mkdir` and a `writeFile` per file, all files at once |
| `DiscoveryFails` | `discoverRepository` throws: `package.json` is not JSON or a directory, or something cannot be read |
| `TakeInventory`, `ReadFile`, `DeliverInventory` | discovery, and `createSourceInventory` through the pool |
| `EndBuild` | the rest of the build, kept or rejected, and the `finally` |
| `RemoveList`, `RemoveFile`, `RemoveDirectory` | Node's recursive `rm`, which lists a directory, removes what it listed, then the directory |

`scratch` is what is at each place of the scratch directory, `tasks` how far each file is.
`NameOf` is what a manifest's contents say of the name: a name, none (`Nameless`), or that they
are not JSON. Without a name both strategies fall back on the base name of their root,
`ScratchName` (random) and `MemoryName`.
Left out: files the build itself writes below its root, a Git repository or a manifest
above the temporary directory. One call at a time, because each has a directory of
its own.

### Capabilities

`ask` is the call under way, `walk` the bounded walk under way, `walks` those before it, `report`
the result. A capability works on a query engine of its own, so that it shares nothing with
queries but the graph; `CapabilityEngine` puts both in one process.

| Actions | Code |
|---|---|
| `Ask`, `Deliver` | a capability's function, its return |
| `StartBoundary`, `TakeNode`, `CrossEdge`, `EndNode`, `EndBoundary` | `walkBoundary` up to its loop, an iteration over the queue, one over the edges of a node, their ends |
| `Report` | what `impactAnalysis`, `implementationPlan` and `featureTouchpoints` make of the walks: union, limits, `partial` and its reason |

`createExecutionBudget` and `sliceBudget` are the budgets, `WalkOf` the options of each walk.
The order of the edges of a node and the ranking of nodes in a plan are any; the clock may
pass the limit at any look. Statistics such as the depth reached are left out. The node
at the end of an edge is always found, for the graph is validated; of an ambiguous target the
candidates in the answer are left out, as no walk is made for it.

## 3. Runs

| Run | Instance | What it shows |
|---|---|---|
| `snapshot_cache` | 2 builds, 1 file of 2 contents (one gives an invalid graph), the 2 modes that commit, 2 edits, 1 fault; 2.5 million states | hits are whole, validated commits (`HitIsOneCommit`, `HitPassesValidation`), equal to a clean build unless the committing build was disturbed (`QuietHitIsClean`); the cache refines `SnapshotRegister` (`ImplementsRegister`) |
| `snapshot_converges` | 2 builds, 1 edit, 1 removal | `CacheConverges`: mixed or missing files are repaired, and from some point on every lookup hits |
| `snapshot_stale` | 2 contents, 2 edits | refutes `WarmEqualsClean`, see below |
| `watch_session` | 2 overlapping builds, 1 edit, 2 states of the config file, 1 failure, close at any time, the graph in an ignored directory or in another; 459 thousand states | `CloseStopsBuilds`; `EveryEditIsBuilt`; `Settles`: the session comes to rest if the graph goes to a directory of an ignored name, and otherwise never does; `SerialBuildsConverge`: builds that do not overlap end with the graph of the last edit; `ResultsInOrder`: however builds overlap, none goes back behind what was out when it began |
| `watch_config` | 2 versions of the config | refutes `ConfigHonoured` |
| `compiler_pipeline` | 3 passes, 9 assignments of 5 stages, 2 dependencies among 6 declared in each of 3 ways, also twice; nodes that two or three passes make, an edge to a node only one makes; invalid declarations; 2 builds with every option; 168 thousand states | `EveryEdgeIsHonoured`, `RejectedPassesAreCyclic` about the order; `RequirementsRanFirst`, `WarmGraphIsCleanGraph`, `EveryProductIsReturned`, `EveryDiagnosticIsReported`, `CommittedGraphsAreValidated` about the builds |
| `query_engine` | all graphs of 3 nodes; of 4 nodes all with at most 2 edges and all whose edges lead upwards, with or without one that leads back from the last to the first; some with a second relationship, two of 5 nodes; walks, paths, sorts, cycles, components, statistics; 14 calls of capabilities on 71 of the graphs; 436 thousand states | `WalkIsReachability`, `WalkIsConsistent`, `PathIsReal`, `SortIsLegal`, `CyclesAreReal`, `ComponentsPartition`, `ChainIsLongest`, `QueriesEnd` of the query engine; `ReportsAreHonest` of capabilities |
| `query_shortest` | graphs of 5 nodes whose edges lead upwards | refutes `PathIsShortest` |
| `enhancers` | 9 enhancers: the six the CLI registers and three that a library caller might add (one that awaits, one that throws, one that rewrites); 6 selections, parallel or not, with or without cache and preloaded index; 2 graphs, 2 calls, 1 commit, kills; 251 thousand states | `PlansAreSound`, `InputsAreSettled`, `EntriesAreReproducible`, `DeliveryIsReproducible`, `CallsEnd` |
| `artifact_store` | 2 directories, 2 builders, 2 readers, 2 graphs; budgets below; 3.06 million states | `AnswersAreCurrent`, `IndexIsOfItsGraph`, `SettledDirectoryAgrees`, `IndexIsRepaired` |
| `memory_build` | 11 source maps over 8 paths: none, one, several files, two keys of one path, an ignored directory, a path that is a file and a directory, a key outside, a `package.json` with a name, without one, that is not JSON, that is a directory; up to 3 workers; 9 thousand states | `PlainInputsAgree`, `OnlyFailuresLeaveFiles`, `CallsEnd`; the pool refines `TaskBatch` (`ImplementsBatch`) |
| `memory_scratch` | the same | refutes `ScratchIsRemoved` |

**Bounds.** Two builds are enough for the cache: every claim is about what one build sees
while another commits, and a third commit looks to a reader like a second; the proofs
drop the bound. One file suffices for the races, because they are about a file read twice, not about two
files; two contents and two edits let a file change and change back, which is what the
stale snapshot needs. One fault is a failed read, a failed write on either side of a
rename, or a crash; two failures in one commit leave the same files as one. In a watch
session two builds can overlap, and a third adds only a longer queue of the same two
kinds. Graphs of three nodes have every cycle, self-loop, diamond-free shape and disconnected
part; those of four have diamonds, where a node is reached over two ways of different
length; the two of five have a node at distances two and three, where a bounded walk that took
the longer way first would stop short of its depth. The limits of capabilities, 20 to 250 in
the code, are 1 to 14 here, so that each of them is met and cut by some call on some
graph. `MaxExecuted = 1` lets one computed answer meet all later queries, which is what
the cache can get wrong; entries of different keys do not meet.

Three passes give every chain, cycle and pair of
dependencies; the five stages are one of each kind (before the lookup, skipped before and
after graph construction, run again, last). Of two builds the first commits or not, fails
or not, and the second hits or misses; a third would find one of the same two snapshots.

Nine enhancers give levels of one, two and three, a chain, a diamond and a level in which one
rewrites what others read. Of two calls the first fills the cache and the second meets it; a
third would meet one of the same caches. One commit changes the history once between
the call that keeps an entry and the one that uses it.

The artifact store is explored under four budgets of (builds, questions, edits, kills, builds
that may run together): (2,1,1,0,1), (1,2,0,0,1), (2,1,0,1,1) and (2,0,0,1,2).
Each leaves out what it is not about: two readers race with one build, two builds with one reader
and either an edit or a kill, and two builds with each other and a kill alone. Two
builds suffice, for a third finds the directories as two left them; the starts are an
empty directory, one that a build of old left, and one or both complete.

An in-memory build of four files has a worker that takes a second file while the others are at
their first, and one that finds none left; three files and a conflict of one of them with the
directory of the other two let a failure meet a file not yet begun, one half written and one
done. The manifests are one of each kind discovery tells apart. Requests of 0 and of 9 workers are below and above the range.

**Fairness.** A call of the enhancer pipeline is fair as a whole (`WF(Pipeline)`): its
steps are callbacks of one event loop, and no enhancer waits for anything outside it. The
artifact store has no liveness property. In an in-memory build every system call answers: the
steps of the call, of `rm`, of each file's task and of each worker are weakly fair, each on its
own. That a capability ends is not checked: its loops run over a finite queue. A build's steps are weakly fair: they are callbacks of an event loop that
runs whatever is ready. The same holds of notices, the timer and the builds of a watch
session, and of the steps of a query, which is one synchronous call. Edits, failures,
crashes, removals and `close()` have no fairness. `CacheConverges` further assumes
somebody keeps building, and states in its premise that in the end all builds are
incremental and share a configuration.

**Deadlock** is checked for the snapshot cache. A watch session rests when nobody
edits or it is closed, enhancer calls, builds and questions are bounded in number, passes may be rejected, an in-memory build is one call, and the pipeline and query runs end with
their bounds of builds and queries, so there it is not.

A type invariant is proved where a proof needs it; no run checks one.

## 4. Where code and documentation disagree

* `WarmEqualsClean` (rfcs/0002: "Warm builds MUST produce the same graph as a clean
  build."). The sources are digested in one stage and read again by the frontends. An edit
  in between commits the new graph under the old digests; once the file is back to its old
  content, incremental builds use that graph. `QuietHitIsClean` shows that this is the only
  way: without an edit inside the committing build, warm equals clean.
* `ConfigHonoured` (rfcs/0002: "Watch builds MUST treat configuration changes as
  potentially invalidating all stages."). The config is imported once per process.
* `PathIsShortest` (rfcs/0003: "Breadth-first shortest path by edge count."). The queue is
  sorted by node id, by code units, after every expansion. `PathIsReal` shows what remains true: a path is
  found exactly if there is one, and it is one.
* `ScratchIsRemoved` (docs/in-memory-processing.md:41: "Writes the sources to a private scratch
  directory, runs the standard on-disk pipeline, then removes the directory."). The first write
  that fails starts the removal, and the other writes go on: a late `mkdir` makes the
  removed directory again, or `rm` finds a directory filled anew and gives up
  (`compiler/src/memory/index.ts:156`, `:161`). `OnlyFailuresLeaveFiles` shows that a call whose writes
  succeed leaves nothing.

The following came up while modelling and have no run of their own. Many of them bound what
the properties of the runs claim.

* rfcs/0002, failure modes of the compiler passes: "Pass dependency unavailable." A pass may require
  one of a later stage: the order has it after its requirement, but it is run by stage, before
  it, and nothing fails. `RequirementsRanFirst` shows that every other requirement has run, or
  been restored.
* rfcs/0003: "Cache keys MUST include: ... Query options." An empty list of relationships and none
  given share a key. The callers in this repository never pass an empty list, so the run
  `query_engine` does not either, and the proof of `WalksFindTheReachable` assumes it.
* A source map with a key outside of the repository is refused after `mkdtemp`
  (`compiler/src/memory/index.ts:144`) and before the `try`, so that an empty scratch directory
  stays; the test (`memory.test.ts:110`) looks at the error only. `OnlyFailuresLeaveFiles` allows it.
* rfcs/0002: "A watch build runs repeatedly in response to source or configuration changes." `outputDir`
  may be any path below the root (`compiler/src/context/index.ts:68`) and the list of ignored
  names is fixed (`compiler/src/index.ts:227`). Written to a directory `graph`, each build's
  output starts the next build, without end. `Settles` says so: with a name in the list, such as
  the default `.ontoly`, the session comes to rest, with any other never, unless it is closed or a build fails.
* cli/src/cli.ts:5534: "Watch a repository and rebuild its graph when files change." Builds overlap and
  nothing orders their writes: a build that read the sources before an edit may write after one that read
  them later, and its graph stays. `SerialBuildsConverge` shows that without
  failures overlap is the only way, and `ResultsInOrder` that results go back only between builds that run at the same time.
* rfcs/0002:146: "A failed build MUST NOT partially overwrite the last valid canonical graph
  artifact." `writeJsonFile` empties the file it is about to write (`cache/src/index.ts:269`); if
  the write fails, half a graph is left. The action `Fails` does so (`output' = 0`), and
  `ResultsInOrder` claims nothing of what a build leaves that throws while it writes.
* docs/in-memory-processing.md:52: "The two strategies produce identical graph node
  identity for the same input." A manifest without a name, such as `{}`, or none, leaves the
  repository named after its root (`compiler/src/repository/index.ts:61`, `:124`), which for a
  build on disk is a random directory; the name is in the id of the workspace node
  (`compiler/src/repository-intelligence/index.ts:191`). `PlainInputsAgree` says so: the names are
  the same just if the manifest gives one, or the build is served from memory. Two more
  differences: discovery on disk leaves out ignored directories and the provider serves them, which the property
  leaves aside, and a `package.json` that is not JSON, or is a directory, rejects a build on disk
  (`:294`, the action `DiscoveryFails`) while one from memory ignores it (`:147`).
* rfcs/0003:438: "Limits MUST produce deterministic truncation", and docs/capability-registry.md:28 asks
  for determinism per graph and input. A walk that exceeds its budget of time ends wherever it is.
* rfcs/0003:439: "Truncation SHOULD be reported". Feature touchpoints drop what their walk says of
  being cut.
* A node with more edges than are looked at per node, or more seeds than the budget has nodes,
  marks a walk as cut before it crosses an edge, and a marked walk ends after that edge
  (`capabilities/src/index.ts:1660`, `:1697`). What is returned is then far below the budgets, and says so.
* An impact analysis may call itself partial for the reason `COMPLETE` (`capabilities/src/index.ts:1780`), and
  return more nodes than the caller's `maxNodes`, for the union of its walks is cut to the limit of
  the mode (`:519`). `ReportsAreHonest` claims the limit of the mode.
* docs/enhancers.md:31 has the same graph and configuration give the same output. With a
  preloaded SemanticIndex, the enhancer that rewrites it shares a level with those that read it
  (`enhancer/src/index.ts:703` drops the dependency on it), so a parallel call and one with
  `--no-parallel` give artifacts of different hashes. `DeliveryIsReproducible` therefore compares
  a call with one of the same mode. The file cache excludes the two artifacts concerned
  (`cli/src/cli.ts:201`), which is load-bearing: otherwise an index restored in a parallel level
  would be put before those that read the preloaded one have run. `RewriteAssumption` states it.
* The cache key of the history enhancer has no Git HEAD (`enhancers/history/src/index.ts:383`),
  so a call after a commit restores the old history. `EntriesAreReproducible` allows an
  earlier moment of the history, and `DeliveryIsReproducible` leaves it aside. An enhancer that read
  the history's artifact would be no more reproducible; there is none, and `HistoryAssumption` says so.
* docs/query-engine.md:67 lists the "longest call chain". On the calls 1-2, 2-1, 1-3, 3-4 the chain
  reported is 1, 2, 1, for what is remembered of 2 was found below 1; 2, 1, 3, 4 is longer.
  `ChainIsLongest` claims the longest chain of acyclic calls only.
* The comment at `cache/src/index.ts:127` says that an index is loaded "else a rebuilt
  one, which is persisted". A torn `index.json` is not rebuilt: the read throws, the CLI catches that and
  goes on without an index, and the file stays torn until the next build. `IndexIsRepaired` makes
  that exception.
* The comment at `cache/src/index.ts:107` lets metadata speak for the graph beside it. After a
  killed build or two that crossed, metadata and index may agree on a graph which
  `SoftwareGraph.json` no longer holds, so `search` and `query` answer from
  different graphs until the next build. And as soon as a build opens `SoftwareGraph.json` of the
  older directory, that directory is the newest, and `search` answers from its old metadata and
  index; if the build is killed there, until the next one. `AnswersAreCurrent` claims
  nothing after a kill, and allows a build that is writing what it overwrites.

## 5. Proofs

All theorems hold for any number of builds, files, contents and any bounds, from the
assumptions named in the properties modules; those about queries for any set of finite graphs.

| Theorem | Statement | Argument |
|---|---|---|
| `SnapshotCacheProofs!TypeCorrect` | `Spec => []TypeOK` | `BaseInv`: types together with what a build holds in each phase (`PhaseFacts`); needed because `Construct` makes an output only of a tree read completely, and a commit writes only what was constructed |
| `SnapshotCacheProofs!HitServesOneCommit` | `Spec => []HitIsOneCommit` | `LookupInv` adds that the manifest on disk describes the last commit and that a lookup compares with the manifest of the commit it consulted; a hit's hashes then equal those of that commit, and `HashAssumption` gives the values |
| `SnapshotCacheProofs!CacheImplementsRegister` | `Spec => ImplementsRegister` | step by step under `LookupInv`: `Publish` is the register's commit, `Consult` its ask, `UseSnapshot` its reply |
| `SnapshotCacheProofs!HitIsValid` | `Spec => []HitPassesValidation` | `ValidInv`: what is committed, consulted or about to be committed has passed validation |
| `SnapshotCacheProofs!WarmIsClean` | `Spec => []QuietHitIsClean` | `QuietInv` adds that what an undisturbed build has read of the tree is the tree (`QuietBuilds`), so that what it publishes holds the graph of the sources it lists (`QuietSnapshots`) |
| `WatchSessionProofs!TypeCorrect` | `Spec => []TypeOK` | `SessionInv` |
| `WatchSessionProofs!NoBuildAfterClose` | `Spec => CloseStopsBuilds` | a closed session has no timer (`ClosedIsDisarmed`) |
| `WatchSessionProofs!ResultsAreInOrder` | `Spec => ResultsInOrder` | what was out when a build began comes from sources no newer than those it has read (`ReadIsFresh`) |
| `CompilerPipelineProofs!OrderIsLegal` | `Spec => []EveryEdgeIsHonoured` | `OrderInv`: a count is the number of passes still missing and what misses nothing is ready (`Counts`), so what is sorted had everything it waits for before it (`Closed`); a sorted sequence as long as there are ids has them all |
| `CompilerPipelineProofs!RejectedAreCyclic` | `Spec => []RejectedPassesAreCyclic` | by the same invariant, when nothing is ready and passes are left, each of them misses another of them |
| `CompilerPipelineProofs!NeverBack` | `Spec => []StagesNeverGoBack` | `Chosen`: a pass taken while one of an earlier stage was left was taken because that one still waited for another; of those taken too late, the first waited for one taken too late before it |
| `CompilerPipelineProofs!OnlyValidatedIsCommitted` | `Spec => CommittedGraphsAreValidated` | `ValidatedInv`: graph-validation is never skipped, and a build that is past it and goes on has passed it, so that no edge dangles |
| `CompilerPipelineProofs!WarmIsClean` | `Spec => []WarmGraphIsCleanGraph` | `BuildInv`: what has run is what was due at this stage, in order (`LoopInv`), and what is gathered, restored and stored follows from that (`GatheredInv`); the graph built of passes run in order is the clean one (`BuiltIsClean`), and a snapshot holds a clean one |
| `CompilerPipelineProofs!ProductsAreReturned` | `Spec => []EveryProductIsReturned` | by the same invariant: what a build has not run was before the last stage, and a snapshot has all those products |
| `CompilerPipelineProofs!DiagnosticsAreReported` | `Spec => []EveryDiagnosticIsReported` | likewise, with the diagnostics of the clean graph |
| `CompilerPipelineProofs!RequiredRanFirst` | `Spec => []RequirementsRanFirst` | an edge is a place before (`EdgesAreKept`); a requirement of this stage is not among those still to run, for the first of them has its turn, and one of an earlier stage was due or is in the snapshot |
| `CompilerPipelineProofs!TypesHold` | `Spec => []TypeOK` | from the same three invariants |
| `QueryEngineProofs!WalksFindTheReachable` | `NoEmptyLists` implies `Spec => []WalkIsReachability` | `WalkInv`: what is visited or waits contains the start and the neighbours of what is visited (nothing is missed, `WalkProgress`), and lies in every closed set (nothing is too much); when nothing waits, what is visited is the smallest closed set. A cached answer is one to the same query, because keys tell cacheable queries apart (`KeyTellsApart`), for which the premise `NoEmptyLists` is needed: without it two queries share a key |
| `QueryEngineProofs!WalksAreConsistent` | `NoEmptyLists` implies `Spec => []WalkIsConsistent` | `TrailInv`: what is visited is in the order once, each but the start next to an earlier one; what waits at a depth is within that many steps of the start and next to something visited; an edge is kept exactly if a visited node has it. The nodes within `n` steps are a function recursive in `n`: what holds of all of them is shown by the least `n` at which it would fail (`LeastNumber`) |
| `QueryEngineProofs!ComponentsArePartition` | `Spec => []ComponentsPartition` | `PartsInv`: finished components are closed under neighbours, so what is newly seen is in none of them; the one being gathered lies in the component of the node it began with and has its further neighbours in the frontier. That components do not overlap rests on neighbours being mutual (`LinkedIsSymmetric`, `PartOfMember`) |
| `QueryEngineProofs!PathsAreReal` | `NoEmptyLists` implies `Spec => []PathIsReal` | `SearchFound`: what is seen is closed under neighbours except at the frontier, lies in every closed set, and does not have the target behind it; each seen node but the start has a previous node that was seen earlier, so the trail back is a path of distinct nodes |
| `QueryEngineProofs!SortsAreLegal` | `Spec => []SortIsLegal` | `SortInv`: what is sorted had what leads to it before it, each count is the number of edges left (`Left`), and what has none left is ready; when nothing is ready, what is not sorted is a set in which each node has an edge from another, so the graph has a cycle, and otherwise all is sorted (a finite count) |
| `QueryEngineProofs!CyclesAreFound` | `Spec => []CyclesAreReal` | `CycleInv`: the stack is a path of distinct nodes that are not done (`StackIsPath`), so what is cut from it is a cycle; until the first is found, what is done leads only to what is done and has no cycle (`NoneMissed`). That none is reported twice rests on rotations being mutual (`RotationsAreMutual`) |
| `QueryEngineProofs!ChainsAreLongest` | `Spec => []ChainIsLongest` | `ChainInv`: the stack of visits is a path of distinct nodes that are not remembered (`VisitsArePath`); what is remembered is a chain over remembered nodes and, if calls have no cycle, unbeaten (`RememberedChains`); the best of a visit is unbeaten over the calls it has followed (`BestAt`). A call back to the stack closes a cycle (`NoCallBack`), so without cycles no call is passed over; chains of one length are totally ordered by the code units of the first node they differ in (`OnePrecedes`); whichever of the longest is reported, it is unbeaten from its own first node |
| `CapabilityProofs!BudgetsHold` | `EngineSpec => []BudgetsAreKept` | `BudgetInv`: the walk under way has finite sets within its budgets (`BudgetLeft`), its options are numbers whatever the caller gave (`OptionsAreFit`), and it is over only if it is cut |
| `CapabilityProofs!CapabilitiesAreHonest` | `EngineSpec => []ReportsAreHonest` | `LayerInv`: each found node of a walk has a layer; what waits does so in the order of layers, no more than one apart; a node before the last layer waits, is under way with the edges looked at followed, or has all its edges followed. `ReachInv` adds that a node is no farther from the seeds than its layer says, so that nothing is found beyond the depth, and by induction on the distance (again by the least failure) that what is settled has all within it; `ReportInv` follows the walks into the report: what is not cut there is all of them, and edges are kept only if they touch a node kept |
| `EnhancerProofs!SoundPlan` | `Spec => []PlansAreSound` | `PlanInv`: while levels are added they are disjoint, lie in the selection, and what a placed one waits for is in an earlier level; a plan is refused for a cycle only if everything left waits for something left |
| `EnhancerProofs!SettledBeforeUse` | `Spec => []InputsAreSettled` | `RunInv` says how far an enhancer may be, given its level and `turn`: earlier levels are over, later ones wait; with `PlanInv` what one waits for is earlier |
| `EnhancerProofs!ReproducibleEntries` | `Spec => []EntriesAreReproducible` | `CacheInv`: the key of an enhancer under way names what it read, its result is the output of just that, and the registry keeps those inputs until then; level-mates can change only the index, and `RewriteAssumption` says who reads it |
| `EnhancerProofs!DeliveriesAreReproducible` | `Spec => []DeliveryIsReproducible` | `DeliveryInv`: some function `F` has the registry after each level that is over (`Follows`), and the registry is what the enhancers of this level that have put make of the last of these (`LevelRuns`): each of it at once, or one after the other. Registries are compared up to what is made from the history (`Twins`), which no enhancer reads (`HistoryAssumption`). What is put comes from the cache or a run, and is what its key says (`CacheInv`); the key names the inputs the level began with (`KeysNameInputs`), and no two of a plan produce the same artifact (`OverwritesNone`). That the recursive functions of the property exist, and agree with `F`, is shown by the least level and the smallest set at which they would not (`RunsAreTwins`, `PassesAreTwins`) |
| `ArtifactProofs!TypesHold` | `Spec => []TypeOK` | with what holds at each step of a question, for a graph that is taken has been parsed |
| `ArtifactProofs!GraphAndIndexBelong` | `Spec => []IndexIsOfItsGraph` | the hash in an index is compared with the graph in hand, or the index is rebuilt from it, so nothing that happens on disk matters |
| `ArtifactProofs!SettledDirectoriesAgree` | `Spec => []SettledDirectoryAgrees` | `DirectoryInv`: each file is opened and closed by its writers (`Attended`), a build that has crossed none owns the directory it writes (`Solitary`, `Uncrossed`), the files it has done hold its graph, and the newest directory after it is the one it linked (`NewestHolds`, `Agreed`) |
| `ArtifactProofs!AnswersStayCurrent` | `Spec => []AnswersAreCurrent` | by the same invariant: what a directory holds when a question begins, or is written while it lasts, is among what it may answer (`AllTold`), and a graph or an index is taken only from there or made of the sources |
| `ArtifactProofs!IndexesAreRepaired` | `Spec => IndexIsRepaired` | by the same invariant: who runs alone has the directory found at the start to the end, so that the index written or read there stays what it is |
| `MemoryBuildProofs!OnlyFailuresLeave` | `Spec => []OnlyFailuresLeaveFiles` | `DiskInv`: what is somewhere is in a directory (`InDirectories`); if nothing fails the writes are over when the removal begins, each place is found by it or lies in a directory still to be listed (`Removed`), so no directory is met with something in it; and when the root is gone, so is all that lay in it (`NothingBelow`, where every path has the root above it) |
| `MemoryBuildProofs!PlainAgree` | `Spec => []PlainInputsAgree` | by the same invariant: before the removal there are just the files whose write is done, with what was given last for their path (`Written`), and the inventory begins when all are done; `package.json` is then on disk what the provider holds (`FoundIsGiven`). That a nameless manifest gives different names assumes that the base names of the two roots differ |
| `MemoryBuildProofs!PoolIsBatch` | `Spec => Batch!Init /\ [][Batch!Next]_(Batch!batchVars)` | the safety part of `ImplementsBatch`. `PoolInv`: while there is no outcome, each place taken has its output or a worker that is at it, and a worker ends only when all places are taken (`Taken`); files are read before they are removed, so that outputs are what was given |

`HashAssumption` says that the hashes do not collide on the values of the instance. For
SHA-256 that is a fair idealisation; `stableHash` is 32-bit FNV-1a, and with a collision
the claims about hits fail. This is listed as a hazard.

`NeverBack`, the types and `BudgetsHold` are proved of properties no run checks, because the runs say more
about the same state.

Liveness (`CacheConverges`, `EveryEditIsBuilt`, `Settles`, `SerialBuildsConverge`,
`QueriesEnd`, both `CallsEnd`) is only model-checked, for it is beyond the prover, and with it that the task pool answers
in the end, which is the fairness of `ImplementsBatch`. Every invariant that a passing run checks is proved.

## 6. Not modelled

* Parsing, symbol resolution, rendering, formatting, command-line handling, the frontends and the
  semantic passes: text and data in and out, no state that steps could break. They are most of
  the lines of the repository. What matters of them here is that their output is a function of their
  input, which the models take as given.
* Of graph construction and validation: the sorting, the indexes and the hash of a graph
  (`core/src/index.ts`), and the codes of `validateCoreGraph` that look at one node or edge on
  its own. The diff of graphs (`diff`) is a pure function of two of them. `SnapshotCache` and
  `ArtifactStore` compare graphs by identity.
* In the query engine: `find` and `resolve` (text matching), `dependencyTree`, the counts and the
  average path length of the statistics, exporters, and the walk options `visitor` and
  `allowRevisit`, which no caller uses.
* In the snapshot cache: diagnostics, and hooks beyond their being part of a configuration.
* In the pipeline: progress callbacks, profiles, and the outputs stages report about
  themselves. The diagnostics of optimization passes are in no snapshot, so a hit does not
  report them: `EveryDiagnosticIsReported` makes that one exception.
* In the enhancer runtime: manifests and their discovery, diagnostics and statistics, rendering;
  two processes that share a cache file at once.
* Of capabilities: how a target or the touchpoints are found (text search in the semantic index), ranking,
  grouping and summaries, what an evidence pack contains beyond its limits, the request trace and the other
  capabilities, which put answers of the query engine into shape.
* The MCP server after it has loaded its graph: its requests are synchronous and only read.

## 7. Plan

Snapshot cache, watch session, pipeline, query engine, enhancer runtime, artifact store, worker pool,
in-memory builds and bounded capability walks are done. What a continuation would take up, in this
order: `dependencyTree` and the average path length in the query engine; the hash and the diff of graphs as
operators, with independence of input order; the incremental program of the TypeScript
frontend; the evidence pack and the request trace of capabilities.
