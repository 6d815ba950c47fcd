------------------------ MODULE CapabilityProperties ------------------------
(***************************************************************************)
(* What is claimed of capabilities, beside the properties of queries.      *)
(***************************************************************************)
EXTENDS QueryEngineProperties, CapabilityEngine

ASSUME AskAssumption ==
  /\ None \notin Asks /\ Undefined \notin Nat \cup BOOLEAN
  /\ Asks \subseteq
       [op : {"impact", "plan", "touchpoints"}, seeds : Seq(Nodes),
        mode : DOMAIN Settings \cup {Undefined},
        depth : Nat \cup {Undefined}, maxDepth : Nat \cup {Undefined},
        maxNodes : Nat \cup {Undefined}, maxEdges : Nat \cup {Undefined},
        maxEvidence : Nat \cup {Undefined}]
  /\ \A a \in Asks : a.op = "impact" => a.mode \in DOMAIN Settings

Budgets == [maxNodes : Nat, maxEdges : Nat, maxDepth : Nat, maxEvidence : Nat,
            perNodeEdges : Nat]

ASSUME LimitAssumption ==
  /\ \A m \in DOMAIN Settings : Settings[m] \in [depth : Nat, nodeLimit : Nat, edgeLimit : Nat]
  /\ Defaults \in [{"impact", "plan", "touchpoints"} -> Budgets]
  /\ Most \in [maxNodes : Nat, maxEdges : Nat, maxDepth : Nat, maxEvidence : Nat]
  /\ {ReadDepthLimit, OutboundDepth, FeatureSeeds, PackNodes, PackEdges} \subseteq Nat

-----------------------------------------------------------------------------
\* What a walk with these options is about: the nodes within its depth of the
\* seeds, and the edges of those it may go on from.
From(o, n) == [direction |-> o.direction, relationships |-> o.relationships,
               nodeTypes |-> Undefined, predicate |-> Undefined, start |-> n]
Around(o, k) == UNION {Ball(From(o, n), k) : n \in ToSet(o.seeds)}
NodesAround(o) == Around(o, o.depth)
EdgesAround(o) ==
  IF o.depth = 0 THEN {} ELSE UNION {AdjacentEdges(o, n) : n \in Around(o, o.depth - 1)}

\* A bounded walk returns no more than its budgets allow, and says so if it was
\* cut.
WithinBudgets(w) ==
  /\ Cardinality(w.nodes) <= w.options.budget.maxNodes
  /\ Cardinality(w.edges) <= w.options.budget.maxEdges
  /\ w.cut <=> w.reason # "COMPLETE"

\* It returns nothing that is farther than asked for, and, unless it was cut,
\* everything within its depth.
ReachesItsDepth(w) ==
  /\ w.nodes \subseteq NodesAround(w.options) /\ w.edges \subseteq EdgesAround(w.options)
  /\ ~w.cut => w.nodes = NodesAround(w.options) /\ w.edges = EdgesAround(w.options)

\* The walks of a capability keep their budgets and reach their depth, and a
\* report that does not call itself partial has everything they were about; at
\* most the limit of nodes is reported, and an edge touches one of them.
ReportsAreHonest ==
  /\ \A i \in DOMAIN walks : WithinBudgets(walks[i]) /\ ReachesItsDepth(walks[i])
  /\ report # None =>
       /\ report.partial = FALSE => \A i \in DOMAIN walks :
            /\ NodesAround(walks[i].options) \subseteq report.nodes
            /\ EdgesAround(walks[i].options) \subseteq report.edges
       /\ Touching(report.edges, report.nodes) = report.edges
       /\ ask.op = "impact" => Cardinality(report.nodes) <= Settings[ask.mode].nodeLimit
       /\ ask.op = "plan" =>
            /\ Cardinality(report.nodes) <= createExecutionBudget(ask).maxNodes
            /\ report.partial <=> report.reason # "COMPLETE"

-----------------------------------------------------------------------------
(***************************************************************************)
(* That a walk which is not cut misses nothing, said without counting      *)
(* steps: its nodes lie in layers, the seeds in the first, and a node that *)
(* is not in the last has its edges in the answer and its neighbours no    *)
(* more than a layer further.                                              *)
(***************************************************************************)
Layers(o, nodes) == [nodes -> 0..o.depth]

SeedsFirst(o, nodes, layer) ==
  \A i \in DOMAIN o.seeds : o.seeds[i] \in nodes /\ layer[o.seeds[i]] = 0

Followed(o, nodes, kept, layer, n, e) ==
  /\ e \in kept
  /\ \A m \in NextNodes(o, e, n) : m \in nodes /\ layer[m] <= layer[n] + 1

Settled(o, nodes, kept, layer, n) ==
  \A e \in AdjacentEdges(o, n) : Followed(o, nodes, kept, layer, n, e)

InLayers(w) ==
  \E layer \in Layers(w.options, w.nodes) :
    /\ SeedsFirst(w.options, w.nodes, layer)
    /\ \A n \in w.nodes : layer[n] < w.options.depth =>
         Settled(w.options, w.nodes, w.edges, layer, n)

\* Every walk of a capability is within its budgets of nodes and edges.
BudgetsAreKept == \A i \in DOMAIN walks : WithinBudgets(walks[i])
=============================================================================
