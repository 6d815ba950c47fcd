--------------------------- MODULE CompilerPipeline ---------------------------
(***************************************************************************)
(* buildSoftwareGraphWithArtifacts: builds of one repository, one after    *)
(* the other, each of which runs the passes of every stage, stage by       *)
(* stage, and merges what the stage returns into the pipeline state.  A    *)
(* build that hits the snapshot of an earlier one skips the cacheable      *)
(* stages.  A pass or a write may fail, which rejects the build.           *)
(*                                                                         *)
(* Every pass has one product and one diagnostic, each named by the pass,  *)
(* and nodes and edges for the graph; of a node it makes its own version.  *)
(* Which of its checks make a snapshot miss is the subject of              *)
(* SnapshotCache: here a snapshot may be hit or missed.                    *)
(***************************************************************************)
EXTENDS PassOrder

CONSTANTS
  MaxBuilds,    \* bound on the builds
  Nodes,        \* the ids of nodes
  NodesOf,      \* by pass, the nodes it makes
  EdgesOf,      \* by pass, the edges it makes: pairs of ids
  Invocations,  \* the options builds are called with
  Issue,        \* the diagnostic of a validation issue
  None          \* undefined

ASSUME PipelineAssumption ==
  /\ MaxBuilds \in Nat
  /\ Invocations \subseteq [write : BOOLEAN, cacheEnabled : BOOLEAN]
  /\ NodesOf \in [PassIds -> SUBSET Nodes]
  /\ EdgesOf \in [PassIds -> SUBSET (Nodes \X Nodes)]
  /\ None \notin PassIds /\ Issue \notin PassIds /\ Issue # None

VARIABLES
  invocation,   \* context.invocation
  step,         \* where executeCompilerPipeline is
  at,           \* the stage, by its place in the list
  todo,         \* the passes of this stage that have still to run
  records,      \* passRecords: the passes of this stage that have run
  state,        \* CompilerPipelineState
  diagnostics,  \* context.diagnostics
  snapshot,     \* the compiler snapshot on disk
  builds        \* how many builds have begun

buildVars == <<invocation, step, at, todo, records, state, diagnostics>>
vars == <<orderVars, buildVars, snapshot, builds>>

-----------------------------------------------------------------------------
RangeOf(s) == {s[i] : i \in 1..Len(s)}

\* Variants: a hit validates nothing; a hit builds the graph again.
CacheableWithValidation ==
  {COMPILER_STAGE_IDS[i] : i \in 8..16}
CacheableWithoutConstruction ==
  {COMPILER_STAGE_IDS[i] : i \in (8..13) \cup {15}}

CACHEABLE_STAGE_IDS ==
  {"frontend-planning", "frontend-parsing", "fact-normalization",
   "symbol-and-reference-resolution", "core-compiler-passes",
   "diagnostics-pipeline", "graph-construction", "optimization-passes"}

passesForStage(stage) == {id \in RangeOf(sorted) : PassOf(id).stage = stage}

Before(f, t) == \E j \in 1..Len(sorted) : \E i \in 1..j - 1 : sorted[i] = f /\ sorted[j] = t

\* Variant: the passes of a stage are taken as they were declared.
IsNextAsDeclared(id) ==
  \A other \in todo \ {id} :
    \E j \in 1..Len(passes) : \E i \in 1..j - 1 : passes[i].id = id /\ passes[j].id = other

\* The passes of a stage keep the order of all passes.
IsNext(id) == \A other \in todo \ {id} : Before(id, other)

\* addPassProducts on the passes that have run: the builder's maps are set by
\* id, and a node keeps the version of the last pass to make it.
NodesFrom(run) ==
  [n \in UNION {NodesOf[id] : id \in RangeOf(run)} |->
     LET writers == {i \in 1..Len(run) : n \in NodesOf[run[i]]}
     IN run[CHOOSE i \in writers : \A j \in writers : j <= i]]

\* builder.build: an edge is its endpoints, for its id is made of them.
BuiltGraph(run) ==
  [nodes |-> NodesFrom(run),
   edges |-> UNION {EdgesOf[id] : id \in RangeOf(run)},
   diagnostics |-> diagnostics]

\* validateCoreGraph: MISSING_EDGE_SOURCE and MISSING_EDGE_TARGET.
Dangling(g) == {e \in g.edges : ~ ({e[1], e[2]} \subseteq DOMAIN g.nodes)}

\* validateGraph: one error of one hook is enough.  The hooks of a caller see
\* the graph and anything else they like: their verdict is free.
Accepts(ok, issues) == (Dangling(state.graph) # {} => ~ok) /\ (~ok => issues)

InitialPipelineState ==
  [hit |-> FALSE, results |-> <<>>, products |-> {}, graph |-> None,
   validation |-> None, artifacts |-> None, fatal |-> FALSE]

\* mergeStageResult: the stage's own result is `changed`, over `state`.
Merged(changed) ==
  [changed EXCEPT !.results = state.results \o records,
                  !.products = @ \cup RangeOf(records)]

Stage == COMPILER_STAGE_IDS[at]
Skipped == state.hit /\ Stage \in CACHEABLE_STAGE_IDS

\* The end of stage.run, and the next turn of the loop over the stages.
EndStage(changed) ==
  /\ step' = "next"
  /\ at' = at + 1
  /\ state' = Merged(changed)
  /\ records' = <<>>
  /\ UNCHANGED <<invocation, todo, orderVars, builds>>

AtEndOf(stage) == step = "passes" /\ todo = {} /\ Stage = stage

-----------------------------------------------------------------------------
Init ==
  /\ OrderInit
  /\ invocation \in Invocations
  /\ step = "idle"
  /\ at = 1 /\ todo = {} /\ records = <<>>
  /\ state = InitialPipelineState
  /\ diagnostics = {}
  /\ snapshot = None
  /\ builds = 0

\* orderPasses comes to the same order in every build: later builds keep it.
OrderPasses == OrderNext /\ UNCHANGED <<buildVars, snapshot, builds>>

\* A new invocation, context and pipeline state.
StartBuild ==
  /\ phase = "ordered" /\ step \in {"idle", "done", "failed"}
  /\ builds < MaxBuilds
  /\ invocation' \in Invocations
  /\ step' = "next"
  /\ at' = 1 /\ todo' = {} /\ records' = <<>>
  /\ state' = InitialPipelineState
  /\ diagnostics' = {}
  /\ builds' = builds + 1
  /\ UNCHANGED <<orderVars, snapshot>>

SkipStage ==
  /\ step = "next" /\ ~state.fatal /\ at <= StageCount /\ Skipped
  /\ at' = at + 1
  /\ UNCHANGED <<orderVars, invocation, step, todo, records, state, diagnostics, snapshot,
                 builds>>

EnterStage ==
  /\ step = "next" /\ ~state.fatal /\ at <= StageCount /\ ~Skipped
  /\ step' = "passes"
  /\ todo' = passesForStage(Stage)
  /\ UNCHANGED <<orderVars, invocation, at, records, state, diagnostics, snapshot, builds>>

RunPass ==
  /\ step = "passes"
  /\ \E id \in todo :
       /\ IsNext(id)
       /\ todo' = todo \ {id}
       /\ records' = Append(records, id)
       /\ diagnostics' = diagnostics \cup {id}
  /\ UNCHANGED <<orderVars, invocation, step, at, state, snapshot, builds>>

\* pass.run rejects: so does the build, with nothing merged or committed.
PassFails ==
  /\ step = "passes" /\ todo # {}
  /\ step' = "failed"
  /\ UNCHANGED <<orderVars, invocation, at, todo, records, state, diagnostics, snapshot,
                 builds>>

\* Variants: the cached products, or the cached diagnostics, are left out.
HitCacheWithoutProducts ==
  /\ AtEndOf("cache-loading-and-compatibility")
  /\ invocation.cacheEnabled /\ snapshot # None
  /\ EndStage([state EXCEPT !.hit = TRUE, !.graph = snapshot.graph])
  /\ diagnostics' = diagnostics \cup snapshot.graph.diagnostics
  /\ UNCHANGED snapshot
HitCacheWithoutDiagnostics ==
  /\ AtEndOf("cache-loading-and-compatibility")
  /\ invocation.cacheEnabled /\ snapshot # None
  /\ EndStage([state EXCEPT !.hit = TRUE, !.graph = snapshot.graph,
                            !.products = @ \cup snapshot.products])
  /\ UNCHANGED <<snapshot, diagnostics>>

HitCache ==
  /\ AtEndOf("cache-loading-and-compatibility")
  /\ invocation.cacheEnabled /\ snapshot # None
  /\ EndStage([state EXCEPT !.hit = TRUE, !.graph = snapshot.graph,
                            !.products = @ \cup snapshot.products])
  /\ diagnostics' = diagnostics \cup snapshot.graph.diagnostics
  /\ UNCHANGED snapshot

MissCache ==
  /\ AtEndOf("cache-loading-and-compatibility")
  /\ EndStage(state)
  /\ UNCHANGED <<diagnostics, snapshot>>

ConstructGraph ==
  /\ AtEndOf("graph-construction")
  /\ EndStage([state EXCEPT !.graph = BuiltGraph(state.results \o records)])
  /\ UNCHANGED <<diagnostics, snapshot>>

ValidateGraph ==
  /\ AtEndOf("graph-validation")
  /\ \E ok, issues \in BOOLEAN :
       /\ Accepts(ok, issues)
       /\ EndStage([state EXCEPT !.validation = IF ok THEN "ok" ELSE "rejected", !.fatal = ~ok])
       /\ diagnostics' = diagnostics \cup {i \in {Issue} : issues}
  /\ UNCHANGED snapshot

\* What a build that stores a snapshot stores.
Snapshot == [graph |-> state.graph, products |-> state.products]
Stores == invocation.cacheEnabled /\ ~state.hit

\* There is a graph here, and it is not rejected: the build would have ended.
CommitArtifacts ==
  /\ AtEndOf("artifact-commit")
  /\ state.graph # None /\ state.validation # "rejected"
  /\ EndStage([state EXCEPT !.artifacts = IF invocation.write THEN state.graph ELSE None])
  /\ snapshot' = IF Stores THEN Snapshot ELSE snapshot
  /\ UNCHANGED diagnostics

\* persistGraph or persistCompilerSnapshot rejects.  The snapshot's files may
\* be as they were, may all be written, or may not agree, which is a miss.
CommitFails ==
  /\ AtEndOf("artifact-commit")
  /\ state.graph # None /\ state.validation # "rejected"
  /\ invocation.write \/ Stores
  /\ step' = "failed"
  /\ snapshot' \in {snapshot} \cup (IF Stores THEN {Snapshot, None} ELSE {})
  /\ UNCHANGED <<orderVars, invocation, at, todo, records, state, diagnostics, builds>>

\* The stages that only run their passes.
EndPlainStage ==
  /\ step = "passes" /\ todo = {}
  /\ Stage \notin {"cache-loading-and-compatibility", "graph-construction",
                   "graph-validation", "artifact-commit"}
  /\ EndStage(state)
  /\ UNCHANGED <<diagnostics, snapshot>>

EndBuild ==
  /\ step = "next" /\ (state.fatal \/ at > StageCount)
  /\ step' = "done"
  /\ UNCHANGED <<orderVars, invocation, at, todo, records, state, diagnostics, snapshot,
                 builds>>

Next ==
  \/ OrderPasses \/ StartBuild
  \/ SkipStage \/ EnterStage \/ RunPass \/ PassFails
  \/ HitCache \/ MissCache \/ ConstructGraph \/ ValidateGraph
  \/ CommitArtifacts \/ CommitFails \/ EndPlainStage \/ EndBuild

Spec == Init /\ [][Next]_vars
=============================================================================
