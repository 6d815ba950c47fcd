---------------------- MODULE CompilerPipelineProperties ----------------------
(* What createPassManager and executeCompilerPipeline promise. *)
EXTENDS CompilerPipeline

OrderTypeOK ==
  /\ passes \in Seq(CompilerPass)
  /\ phase \in {"validating", "invalid", "sorting", "ordered", "cyclic"}
  /\ phase \in {"sorting", "ordered", "cyclic"} =>
       /\ incoming \in [Ids -> Nat]
       /\ ready \subseteq Ids \ RangeOf(sorted)
       /\ sorted \in Seq(Ids)

GraphOf(ids) == [nodes : UNION {[ns -> ids] : ns \in SUBSET Nodes},
                 edges : SUBSET (Nodes \X Nodes),
                 diagnostics : SUBSET (ids \cup {Issue})]

\* The types of the state.  No pass is ready that is sorted already, no
\* incomingCount is negative, and what has still to run is of this stage.
TypeOK ==
  /\ OrderTypeOK
  /\ invocation \in Invocations
  /\ step \in {"idle", "next", "passes", "done", "failed"}
  /\ at \in 1..StageCount + 1
  /\ todo \subseteq Ids
  /\ \A id \in todo : at <= StageCount /\ PassOf(id).stage = Stage
  /\ records \in Seq(Ids)
  /\ state.hit \in BOOLEAN /\ state.fatal \in BOOLEAN
  /\ state.results \in Seq(Ids) /\ state.products \subseteq Ids
  /\ state.graph \in {None} \cup GraphOf(Ids)
  /\ state.validation \in {None, "ok", "rejected"}
  /\ state.artifacts \in {None} \cup GraphOf(Ids)
  /\ diagnostics \subseteq Ids \cup {Issue}
  /\ snapshot \in {None} \cup [graph : GraphOf(Ids), products : SUBSET Ids]
  /\ builds \in 0..MaxBuilds

-----------------------------------------------------------------------------
(* The order of the passes. *)

Sorted(id) == id \in RangeOf(sorted)

\* A pass manager that is made has every declared pass once, each after the
\* passes it requires or declares itself after, and before those it declares
\* itself before (orderPasses; pass-manager.test.ts tries one chain).
EveryEdgeIsHonoured ==
  phase = "ordered" =>
    \A p \in RangeOf(passes) :
      /\ Sorted(p.id)
      /\ \A q \in p.requires \cup p.after : Before(q, p.id)
      /\ \A q \in p.before : Before(p.id, q)

\* "dependency cycle" is thrown only where some passes each wait for another
\* of them, so that no order could honour what they declare: a dependency
\* that is declared twice, or from both of its ends, is not a cycle.
RejectedPassesAreCyclic ==
  phase = "cyclic" =>
    \E ids \in SUBSET Ids :
      /\ ids # {}
      /\ \A t \in ids : \E f \in ids : Edge(f, t)

\* Where no pass waits for one of a later stage, the order never goes back a
\* stage: what runs, stage by stage, is the order as it was computed.
StagesNeverGoBack ==
  phase = "ordered" /\ (\A f, t \in Ids : Edge(f, t) => Rank(f) <= Rank(t)) =>
    \A i, j \in 1..Len(sorted) : i < j => Rank(sorted[i]) <= Rank(sorted[j])

(* What makes the claims above inductive. *)

KnownIn(ids) == \A p \in RangeOf(passes) : p.requires \cup p.after \cup p.before \subseteq ids
Unique == \A i, j \in 1..Len(passes) : passes[i].id = passes[j].id => i = j
NoRepeat == \A j \in 1..Len(sorted) : \A i \in 1..j - 1 : sorted[i] # sorted[j]
StagesKnown == \A p \in RangeOf(passes) : p.stage \in StageIds

\* The passes `t` still waits for.
Missing(t) == {f \in Ids \ RangeOf(sorted) : Edge(f, t)}

\* What is sorted had everything before it that it waits for.
Closed == \A j \in 1..Len(sorted) : \A f \in Ids :
  Edge(f, sorted[j]) => \E i \in 1..j - 1 : sorted[i] = f

\* What was taken while a pass of an earlier stage was left was taken because
\* that pass still waited for another.
Chosen ==
  \A i \in 1..Len(sorted) : \A t \in Ids :
    Rank(t) < Rank(sorted[i]) /\ (\A k \in 1..i : sorted[k] # t) =>
      \E f \in Ids : Edge(f, t) /\ \A k \in 1..i - 1 : sorted[k] # f

\* incomingCount counts what is missing, and what misses nothing is ready.
Counts ==
  /\ incoming = [t \in Ids |-> Cardinality(Missing(t))]
  /\ ready = {t \in Ids \ RangeOf(sorted) : Missing(t) = {}}

OrderInv ==
  /\ passes \in Seq(CompilerPass)
  /\ phase \in {"validating", "invalid", "sorting", "ordered", "cyclic"}
  /\ phase = "validating" => sorted = <<>>
  /\ phase \in {"sorting", "ordered", "cyclic"} =>
       /\ Unique /\ KnownIn(Ids) /\ StagesKnown
       /\ sorted \in Seq(Ids) /\ Len(sorted) = Cardinality(RangeOf(sorted))
       /\ NoRepeat /\ Closed /\ Counts
  /\ phase = "ordered" => Len(sorted) = Cardinality(Ids)
  /\ phase = "cyclic" => ready = {} /\ Len(sorted) # Cardinality(Ids)

-----------------------------------------------------------------------------
(* The builds. *)

HasRun(id) == id \in RangeOf(state.results) \cup RangeOf(records)

\* When a pass runs, a pass it requires of its own stage or an earlier one
\* has run in this build, or was skipped and left its product in the
\* snapshot this build hit.
RequirementsRanFirst ==
  step = "passes" =>
    \A id \in todo : IsNext(id) =>
      \A q \in PassOf(id).requires :
        Rank(q) <= Rank(id) => HasRun(q) \/ (state.hit /\ q \in state.products)

\* The passes whose nodes can reach the graph.
Contributors ==
  {id \in Ids : \E i \in 1..14 : PassOf(id).stage = COMPILER_STAGE_IDS[i]}

RunsBefore(f, t) == Rank(f) < Rank(t) \/ (Rank(f) = Rank(t) /\ Before(f, t))

\* The graph of a build that has no snapshot and runs every pass.
IsClean(g) ==
  /\ DOMAIN g.nodes = UNION {NodesOf[id] : id \in Contributors}
  /\ \A n \in DOMAIN g.nodes :
       /\ g.nodes[n] \in {id \in Contributors : n \in NodesOf[id]}
       /\ \A other \in Contributors \ {g.nodes[n]} :
            n \in NodesOf[other] => RunsBefore(other, g.nodes[n])
  /\ g.edges = UNION {EdgesOf[id] : id \in Contributors}
  /\ g.diagnostics = Contributors

\* A build that reuses the snapshot of an earlier one has the graph a clean
\* build has: every node and edge of every pass up to the construction of the
\* graph, the nodes several passes make as the last of them made it, and their
\* diagnostics, whichever builds failed, missed or were rejected before
\* ("Warm builds MUST produce the same graph as a clean build").
WarmGraphIsCleanGraph == state.graph # None => IsClean(state.graph)

\* No graph is written, and no snapshot taken, but of the graph this build
\* has validated, and all of whose edges lead from node to node; a graph from
\* the snapshot is validated again, with the hooks of this build (a rejected
\* graph "MUST NOT be committed as canonical output").
Validated == state.validation = "ok" /\ Dangling(state.graph) = {}
CommitsValidated ==
  /\ state'.artifacts \notin {None, state.artifacts} =>
       Validated /\ state'.artifacts = state.graph
  /\ snapshot' \notin {None, snapshot} =>
       Validated /\ snapshot'.graph = state.graph
CommittedGraphsAreValidated == [][CommitsValidated]_vars

\* What makes it inductive: past graph-validation, the 16th stage, a build
\* that goes on has validated its graph.
ValidatedInv ==
  /\ DOMAIN state = DOMAIN InitialPipelineState /\ state.fatal \in BOOLEAN
  /\ at \in 1..StageCount + 1
  /\ step = "passes" => at <= StageCount /\ ~state.fatal
  /\ step \in {"next", "passes"} /\ at > 16 /\ ~state.fatal => Validated

\* A build that is not rejected hands its caller the product of every pass,
\* the skipped ones too (the CLI takes its semantic model from there).
EveryProductIsReturned == step = "done" /\ ~state.fatal => state.products = Ids

\* A build that is not rejected reports the diagnostic of every pass, whether
\* the pass ran or not; only the optimization passes, which run after the
\* graph is constructed and are skipped, are silent after a hit.
EveryDiagnosticIsReported ==
  step = "done" /\ ~state.fatal =>
    \A id \in Ids :
      id \in diagnostics \/ (state.hit /\ PassOf(id).stage = "optimization-passes")

(* What makes the claims about warm builds inductive. *)

OfStage(a) == {id \in Ids : Rank(id) = a}

\* The passes of the stages before `a` that this build has to run itself, and
\* those it found in the snapshot, the product of each being stored by then.
Due(a)   == {id \in Ids : Rank(id) < a /\ ~ (state.hit /\ Rank(id) \in 8..15)}
Archived == {id \in Ids : Rank(id) < StageCount}

Ran == state.results \o records
InOrder(run) == \A i \in 1..Len(run) : \A j \in 1..i - 1 : RunsBefore(run[j], run[i])

\* The loops over the stages and over the passes of one.
LoopInv ==
  /\ state.results \in Seq(Ids) /\ records \in Seq(Ids)
  /\ RangeOf(state.results) = Due(at)
  /\ IF step \in {"passes", "failed"}
       THEN todo = OfStage(at) \ RangeOf(records) /\ RangeOf(records) \subseteq OfStage(at)
       ELSE todo = {} /\ records = <<>>
  /\ InOrder(Ran)
  /\ \A id \in todo, r \in RangeOf(records) : Before(r, id)

CleanGraphs == {g \in GraphOf(Ids) : IsClean(g)}

\* What those loops have gathered, restored and stored.
GatheredInv ==
  /\ state.hit \in BOOLEAN /\ (state.hit => at > 6)
  /\ state.products = RangeOf(state.results) \cup {id \in Archived : state.hit}
  /\ diagnostics \ {Issue} = RangeOf(Ran) \cup {id \in Contributors : state.hit}
  /\ at <= 16 => Issue \notin diagnostics
  /\ state.graph \in {None} \cup CleanGraphs
  /\ state.validation \in {None, "ok", "rejected"}
  /\ state.artifacts # None => state.artifacts = state.graph /\ at > StageCount
  /\ snapshot \in {None} \cup [graph : CleanGraphs, products : {Archived}]

BuildInv ==
  /\ invocation \in Invocations /\ builds \in 0..MaxBuilds
  /\ step \in {"idle", "next", "passes", "done", "failed"}
  /\ step = "done" /\ ~state.fatal => at = StageCount + 1
  /\ step \in {"passes", "failed"} => at \in 1..StageCount /\ ~ (state.hit /\ at \in 8..15)
  /\ IF step = "idle"
       THEN /\ at = 1 /\ todo = {} /\ records = <<>> /\ state = InitialPipelineState
            /\ diagnostics = {} /\ snapshot = None
       ELSE phase = "ordered" /\ LoopInv /\ GatheredInv
=============================================================================
