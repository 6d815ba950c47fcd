-------------------------- MODULE CapabilityWalks --------------------------
(***************************************************************************)
(* walkBoundary, and the capabilities made of it: impact analysis, the     *)
(* implementation plan and feature touchpoints.  Each asks for one or      *)
(* three walks under budgets of nodes, edges, depth and time, puts         *)
(* together what they found, cuts it to size, and says whether something   *)
(* was cut.  The order of edges, and the ranking of nodes in a plan, are   *)
(* taken as any.  The clock may pass the time budget at any look at it;    *)
(* the walks of one call share the time.                                   *)
(***************************************************************************)
EXTENDS QueryGraph, SequencesExt

CONSTANTS
  Asks,       \* calls: [op, seeds, mode, depth, maxDepth, maxNodes, maxEdges, maxEvidence]
  Settings,   \* IMPACT_MODE_SETTINGS: per mode, [depth, nodeLimit, edgeLimit]
  Defaults,   \* per op, the budget when the caller gives none
  Most,       \* the largest budget a caller may give
  ReadDepthLimit, OutboundDepth, FeatureSeeds, PackNodes, PackEdges,
  DependencyTypes, ExpansionTypes, OwnerTypes

VARIABLES
  ask,      \* the call under way, or None
  walk,     \* the walk under way, or None
  walks,    \* what the walks before it returned, with their options
  late,     \* the time budget is exceeded
  report    \* the result of the call, or None

capabilityVars == <<ask, walk, walks, late, report>>

Least(m, n) == IF m <= n THEN m ELSE n
Greatest(m, n) == IF m >= n THEN m ELSE n
Half(n) == (n + 1) \div 2
Cut(s, n) == SubSeq(s, 1, Least(n, Len(s)))
Sorted(S) == [i \in 1..Cardinality(S) |->
                CHOOSE n \in S : Cardinality({m \in S : m < n}) = i - 1]

-----------------------------------------------------------------------------
readNumberLimit(value, fallback, minimum, maximum) ==
  IF value = Undefined THEN fallback ELSE Greatest(minimum, Least(maximum, value))

readDepth(a, fallback) ==
  IF a.depth = Undefined THEN fallback ELSE Least(a.depth, ReadDepthLimit)

\* What an impact analysis takes from its mode, others from their defaults.
DefaultBudget(a) ==
  IF a.op # "impact" THEN Defaults[a.op]
  ELSE [Defaults[a.op] EXCEPT !.maxNodes = Settings[a.mode].nodeLimit,
                              !.maxEdges = Settings[a.mode].edgeLimit,
                              !.maxDepth = readDepth(a, Settings[a.mode].depth)]

createExecutionBudget(a) ==
  LET default == DefaultBudget(a)
      depth == IF a.maxDepth = Undefined THEN a.depth ELSE a.maxDepth
  IN [maxNodes |-> readNumberLimit(a.maxNodes, default.maxNodes, 1, Most.maxNodes),
      maxEdges |-> readNumberLimit(a.maxEdges, default.maxEdges, 1, Most.maxEdges),
      maxDepth |-> readNumberLimit(depth, default.maxDepth, 0, Most.maxDepth),
      maxEvidence |-> readNumberLimit(a.maxEvidence, default.maxEvidence, 1, Most.maxEvidence),
      perNodeEdges |-> default.perNodeEdges]

sliceBudget(budget, maxNodes, maxEdges) ==
  [budget EXCEPT !.maxNodes = Greatest(1, Least(@, maxNodes)),
                 !.maxEdges = Greatest(0, Least(@, maxEdges))]

-----------------------------------------------------------------------------
Walking(seeds, direction, depth, types, budget) ==
  [seeds |-> seeds, direction |-> direction, depth |-> Least(depth, budget.maxDepth),
   relationships |-> types, budget |-> budget]

\* Dependents, dependencies, and everything around the target.
ImpactWalks(a) ==
  LET budget == createExecutionBudget(a)
      setting == Settings[a.mode]
      half == sliceBudget(budget, Half(setting.nodeLimit), Half(setting.edgeLimit))
      depth == readDepth(a, setting.depth)
  IN <<Walking(a.seeds, "inbound", depth, DependencyTypes, half),
       Walking(a.seeds, "outbound", Least(depth, OutboundDepth), DependencyTypes, half),
       Walking(a.seeds, "both", depth, ExpansionTypes, budget)>>

\* The touchpoints a plan starts from.
Matches(a) ==
  LET budget == createExecutionBudget(a)
  IN Cut(a.seeds, Least(budget.maxEvidence, budget.maxNodes))

\* What a plan takes for the owners' boundary: matches, and what was in scope.
Scope(a) == Matches(a) \o Sorted(walks[2].nodes \ ToSet(Matches(a)))

\* The nodes around the touchpoints; those within the depth asked for, for what
\* the first walk found is behind the touchpoints and cut off; and what owns
\* the first of these.
PlanWalk(a, k) ==
  LET budget == createExecutionBudget(a)
      inspection == sliceBudget(budget, Least(budget.maxNodes, budget.maxEvidence),
                                        Least(budget.maxEdges, 2 * budget.maxEvidence))
      ownership == sliceBudget(budget, budget.maxEvidence, 2 * budget.maxEvidence)
  IN CASE k = 1 -> Walking(Matches(a), "both", 1, ExpansionTypes, inspection)
       [] k = 2 -> Walking(Matches(a), "both", budget.maxDepth, ExpansionTypes, budget)
       [] k = 3 -> Walking(Cut(Scope(a), budget.maxEvidence), "inbound", 1, OwnerTypes, ownership)

FeatureWalk(a) ==
  Walking(Cut(a.seeds, FeatureSeeds), "both", readDepth(a, Defaults[a.op].maxDepth),
          ExpansionTypes, createExecutionBudget(a))

\* A target that is not found ends an impact analysis before its walks.
WalkCount(a) ==
  CASE a.op = "impact" -> IF a.seeds = <<>> THEN 0 ELSE 3
    [] a.op = "plan" -> 3
    [] a.op = "touchpoints" -> 1

WalkOf(a, k) ==
  CASE a.op = "impact" -> ImpactWalks(a)[k]
    [] a.op = "plan" -> PlanWalk(a, k)
    [] a.op = "touchpoints" -> FeatureWalk(a)

-----------------------------------------------------------------------------
NoCapability == /\ ask = None /\ walk = None /\ walks = <<>>
                /\ late = FALSE /\ report = None

Ask(a) == /\ ask = None
          /\ ask' = a
          /\ UNCHANGED <<walk, walks, late, report>>

\* Seeds beyond the node budget are dropped.
StartBoundary ==
  /\ ask # None /\ walk = None /\ Len(walks) < WalkCount(ask)
  /\ LET options == WalkOf(ask, Len(walks) + 1)
         seeds == Cut(options.seeds, options.budget.maxNodes)
         dropped == seeds # options.seeds
     IN walk' = [options |-> options, found |-> ToSet(seeds), kept |-> {},
                 queue |-> [i \in DOMAIN seeds |-> [node |-> seeds[i], depth |-> 0]],
                 at |-> None, inside |-> FALSE, left |-> {}, cut |-> dropped, over |-> FALSE,
                 reason |-> IF dropped THEN "NODE_BUDGET_EXCEEDED" ELSE "COMPLETE"]
  /\ UNCHANGED <<ask, walks, late, report>>

timeExceeded == late' \in {late, TRUE}

Stopped(w, why) == [w EXCEPT !.cut = TRUE, !.reason = why, !.over = TRUE]

Shift(queue) == [node |-> Head(queue), rest |-> Tail(queue)]

\* The first node of the queue; of its edges only so many are looked at.
TakeNode ==
  /\ walk # None /\ ~walk.over /\ ~walk.inside /\ walk.queue # <<>>
  /\ timeExceeded
  /\ LET current == Shift(walk.queue).node
         taken == [walk EXCEPT !.queue = Shift(walk.queue).rest]
         all == AdjacentEdges(walk.options, current.node)
     IN \/ late' /\ walk' = Stopped(walk, "TIME_BUDGET_EXCEEDED")
        \/ ~late' /\ current.depth >= walk.options.depth /\ walk' = taken
        \/ /\ ~late' /\ current.depth < walk.options.depth
           /\ \E some \in kSubset(Least(walk.options.budget.perNodeEdges, Cardinality(all)), all) :
                walk' = [taken EXCEPT !.at = current, !.inside = TRUE, !.left = some,
                           !.cut = @ \/ some # all,
                           !.reason = IF some # all /\ @ = "COMPLETE"
                                      THEN "EDGE_BUDGET_EXCEEDED" ELSE @]
  /\ UNCHANGED <<ask, walks, report>>

\* An edge leads to one node at most.
Items(S, depth) ==
  IF S = {} THEN <<>> ELSE <<[node |-> CHOOSE n \in S : TRUE, depth |-> depth]>>

\* An edge is kept, and the node beyond it found, while the budgets last.  Once
\* anything was cut, be it before this edge, the walk is over.
CrossEdge(e) ==
  /\ walk # None /\ ~walk.over /\ walk.inside /\ e \in walk.left
  /\ timeExceeded
  /\ LET budget == walk.options.budget
         kept == [walk EXCEPT !.kept = @ \cup {e}, !.left = @ \ {e}]
         beyond == NextNodes(walk.options, e, walk.at.node) \ {walk.at.node}
         new == beyond \ walk.found
     IN walk' =
          CASE late' -> Stopped(walk, "TIME_BUDGET_EXCEEDED")
            [] ~late' /\ e \notin walk.kept /\ Cardinality(walk.kept) >= budget.maxEdges ->
                 Stopped(walk, "EDGE_BUDGET_EXCEEDED")
            [] OTHER ->
                 IF new # {} /\ Cardinality(walk.found) >= budget.maxNodes
                 THEN Stopped(kept, "NODE_BUDGET_EXCEEDED")
                 ELSE [kept EXCEPT !.found = @ \cup new, !.over = walk.cut,
                         !.queue = @ \o Items(new, walk.at.depth + 1)]
  /\ UNCHANGED <<ask, walks, report>>

EndNode ==
  /\ walk # None /\ ~walk.over /\ walk.inside /\ walk.left = {}
  /\ walk' = [walk EXCEPT !.at = None, !.inside = FALSE, !.over = walk.cut]
  /\ UNCHANGED <<ask, walks, late, report>>

EndBoundary ==
  /\ walk # None /\ (walk.over \/ (~walk.inside /\ walk.queue = <<>>))
  /\ walk' = None
  /\ walks' = Append(walks, [options |-> walk.options, nodes |-> walk.found,
                             edges |-> walk.kept, cut |-> walk.cut, reason |-> walk.reason])
  /\ UNCHANGED <<ask, late, report>>

-----------------------------------------------------------------------------
AllNodes(ws) == UNION {ws[i].nodes : i \in DOMAIN ws}
AllEdges(ws) == UNION {ws[i].edges : i \in DOMAIN ws}

\* Variant: the third walk is not asked whether it was cut.
EarlyCutWalks == {i \in DOMAIN walks : i <= 2 /\ walks[i].cut}

CutWalks == {i \in DOMAIN walks : walks[i].cut}
FirstReason == walks[First(CutWalks)].reason
Touching(E, N) == {e \in E : e.from \in N \/ e.to \in N}
Limited(E, limit) == kSubset(Least(limit, Cardinality(E)), E)

\* The target and the nodes whose ids come first, with edges that touch them.
ImpactReports ==
  LET setting == Settings[ask.mode]
      all == AllNodes(walks)
      nodes == ToSet(Cut(ask.seeds \o Sorted(all \ ToSet(ask.seeds)), setting.nodeLimit))
  IN {LET partial == CutWalks # {} \/ nodes # all \/ E # AllEdges(walks)
      IN [nodes |-> nodes, edges |-> E, partial |-> partial,
          reason |-> IF CutWalks # {} THEN FirstReason ELSE "COMPLETE"] :
        E \in Limited(Touching(AllEdges(walks), nodes), setting.edgeLimit)}

\* The touchpoints and the best ranked of the other nodes; the evidence pack in
\* the plan has limits of its own, and holds everything if they are not met.
PlanReports ==
  LET budget == createExecutionBudget(ask)
      matches == ToSet(Matches(ask))
      all == matches \cup AllNodes(<<walks[1], walks[2]>>)
                     \cup (walks[3].nodes \ ToSet(Scope(ask)))
      packCut == \/ Cardinality(all) > Least(PackNodes, budget.maxEvidence)
                 \/ Cardinality(AllEdges(walks)) > Least(PackEdges, budget.maxEdges)
      others == Least(budget.maxNodes, Cardinality(all)) - Cardinality(matches)
      Reason(E) == CASE CutWalks # {} -> FirstReason
                     [] CutWalks = {} /\ ~packCut /\ E # AllEdges(walks) -> "EDGE_BUDGET_EXCEEDED"
                     [] OTHER -> "NODE_BUDGET_EXCEEDED"
      Partial(N, E) == CutWalks # {} \/ packCut \/ N # all \/ E # AllEdges(walks)
  IN UNION {{[nodes |-> N, edges |-> E, partial |-> Partial(N, E),
              reason |-> IF Partial(N, E) THEN Reason(E) ELSE "COMPLETE"] :
                E \in Limited(Touching(AllEdges(walks), N), budget.maxEdges)} :
              N \in {matches \cup S : S \in kSubset(others, all \ matches)}}

\* Nothing is said of what was cut.
FeatureReports ==
  {[nodes |-> ToSet(ask.seeds) \cup walks[1].nodes, edges |-> walks[1].edges,
    partial |-> Undefined, reason |-> Undefined]}

NoTarget == {[nodes |-> {}, edges |-> {}, partial |-> Undefined, reason |-> Undefined]}

Report ==
  /\ ask # None /\ walk = None /\ report = None /\ Len(walks) = WalkCount(ask)
  /\ report' \in CASE ask.op = "impact" -> IF ask.seeds = <<>> THEN NoTarget ELSE ImpactReports
                   [] ask.op = "plan" -> PlanReports
                   [] ask.op = "touchpoints" -> FeatureReports
  /\ UNCHANGED <<ask, walk, walks, late>>

Deliver ==
  /\ report # None
  /\ ask' = None /\ walks' = <<>> /\ late' = FALSE /\ report' = None
  /\ UNCHANGED walk

CapabilityStep ==
  \/ StartBoundary \/ TakeNode \/ EndNode \/ EndBoundary \/ Report \/ Deliver
  \/ walk # None /\ \E e \in walk.left : CrossEdge(e)
=============================================================================
