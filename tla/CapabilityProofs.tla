-------------------------- MODULE CapabilityProofs --------------------------
(***************************************************************************)
(* Proofs about the bounded walks of capabilities: they keep their         *)
(* budgets, if they are not cut they miss nothing, and what they report as *)
(* missing is missing.                                                     *)
(***************************************************************************)
EXTENDS CapabilityProperties, QueryEngineProofs

\* Every step of the callers together is one of the query engine, or leaves it
\* alone: what is proved of Spec is also proved of what the runs check.
LEMMA CallersAreQueries == EngineSpec => Spec
<1>1. EngineInit => Init
  BY DEF EngineInit
<1>2. [EngineNext]_allVars => [Next]_vars
  BY DEF EngineNext, AskCapability, allVars
<1> QED
  BY <1>1, <1>2, PTL DEF EngineSpec, Spec

-----------------------------------------------------------------------------
(***************************************************************************)
(* Budgets.                                                                *)
(***************************************************************************)
IsWalk(w) ==
  w = [options |-> w.options, found |-> w.found, kept |-> w.kept, queue |-> w.queue,
       at |-> w.at, inside |-> w.inside, left |-> w.left, cut |-> w.cut,
       over |-> w.over, reason |-> w.reason]

IsSequence(s) == s \in Seq({s[i] : i \in DOMAIN s})

OptionsFit(o) == o.depth \in Nat /\ o.budget \in Budgets /\ IsSequence(o.seeds)

\* A walk under way.
BudgetLeft(w) ==
  /\ IsWalk(w) /\ OptionsFit(w.options)
  /\ w.cut \in BOOLEAN /\ w.over \in BOOLEAN /\ w.inside \in BOOLEAN
  /\ w.cut <=> w.reason # "COMPLETE"
  /\ w.over => w.cut
  /\ IsFiniteSet(w.found) /\ Cardinality(w.found) <= w.options.budget.maxNodes
  /\ IsFiniteSet(w.kept) /\ Cardinality(w.kept) <= w.options.budget.maxEdges
  /\ w.inside => \A e \in w.left : w.at.node \in {e.from, e.to}

BudgetInv ==
  /\ ask \in Asks \cup {None}
  /\ ask = None => walk = None /\ walks = <<>> /\ report = None
  /\ report # None => walk = None /\ Len(walks) = WalkCount(ask)
  /\ IsSequence(walks)
  /\ walk # None => BudgetLeft(walk)
  /\ \A i \in DOMAIN walks : IsFiniteSet(walks[i].nodes)
  /\ BudgetsAreKept

-----------------------------------------------------------------------------
\* What a caller gives comes to a budget of numbers.
LEMMA BudgetsAreNumbers ==
  ASSUME NEW a \in Asks PROVE createExecutionBudget(a) \in Budgets
<1>1. DefaultBudget(a) \in Budgets
  BY AskAssumption, LimitAssumption DEF DefaultBudget, Budgets, readDepth, Least
<1>2. \A v \in Nat \cup {Undefined} : \A k, l, m \in Nat : readNumberLimit(v, k, l, m) \in Nat
  BY DEF readNumberLimit, Greatest, Least
<1> QED
  BY <1>1, <1>2, AskAssumption, LimitAssumption DEF createExecutionBudget, Budgets

LEMMA SlicesAreNumbers ==
  ASSUME NEW b \in Budgets, NEW m \in Nat, NEW n \in Nat
  PROVE  sliceBudget(b, m, n) \in Budgets
  BY DEF sliceBudget, Budgets, Greatest, Least

\* A cut sequence is one, and no longer than that.
LEMMA CutIsShort ==
  ASSUME NEW s, IsSequence(s), NEW n \in Nat
  PROVE  IsSequence(Cut(s, n)) /\ Len(Cut(s, n)) \in 0..n
<1> DEFINE S == {s[i] : i \in DOMAIN s}
           k == Least(n, Len(s))
<1>1. s \in Seq(S) /\ k \in 0..Len(s) /\ k <= n
  BY DEF IsSequence, Least
<1>2. Cut(s, n) = [i \in 1..k |-> s[i]]
  BY <1>1 DEF Cut
<1>3. Cut(s, n) \in Seq({Cut(s, n)[i] : i \in DOMAIN Cut(s, n)}) /\ Len(Cut(s, n)) = k
  BY <1>1, <1>2
<1> QED
  BY <1>1, <1>3 DEF IsSequence

LEMMA TypedIsSequence ==
  ASSUME NEW S, NEW s \in Seq(S) PROVE IsSequence(s)
  BY DEF IsSequence

LEMMA ListIsSequence ==
  ASSUME NEW n \in Nat, NEW f, f = [i \in 1..n |-> f[i]] PROVE IsSequence(f)
<1>1. DOMAIN f = 1..n
  OBVIOUS
<1>2. f \in [1..n -> {f[i] : i \in DOMAIN f}]
  BY <1>1
<1> QED
  BY <1>2 DEF IsSequence

LEMMA SortedIsSequence ==
  ASSUME NEW S, IsFiniteSet(S) PROVE IsSequence(Sorted(S))
<1> DEFINE F(i) == CHOOSE n \in S : Cardinality({m \in S : m < n}) = i - 1
<1>1. Cardinality(S) \in Nat
  BY FS_CardinalityType
<1>2. Sorted(S) = [i \in 1..Cardinality(S) |-> F(i)]
  BY DEF Sorted
<1> HIDE DEF F
<1>3. Sorted(S) = [i \in 1..Cardinality(S) |-> Sorted(S)[i]]
  BY <1>2
<1> QED
  BY <1>1, <1>3, ListIsSequence

LEMMA JoinedIsSequence ==
  ASSUME NEW s, IsSequence(s), NEW t, IsSequence(t) PROVE IsSequence(s \o t)
<1> DEFINE S == {s[i] : i \in DOMAIN s} \cup {t[i] : i \in DOMAIN t}
<1>1. s \in Seq(S) /\ t \in Seq(S)
  BY DEF IsSequence
<1>2. s \o t \in Seq(S)
  BY <1>1
<1> QED
  BY <1>2, TypedIsSequence

LEMMA OptionsAreFit ==
  ASSUME BudgetInv, ask # None, Len(walks) < WalkCount(ask)
  PROVE  OptionsFit(WalkOf(ask, Len(walks) + 1))
<1> DEFINE budget == createExecutionBudget(ask)
<1>1. ask \in Asks /\ budget \in Budgets
  BY BudgetsAreNumbers DEF BudgetInv
<1>2. IsSequence(ask.seeds)
  BY <1>1, AskAssumption, TypedIsSequence
<1>3. \A f \in Nat : readDepth(ask, f) \in Nat
  BY <1>1, AskAssumption, LimitAssumption DEF readDepth, Least
<1>4. ASSUME NEW seeds, IsSequence(seeds), NEW b \in Budgets, NEW direction, NEW types,
             NEW depth \in Nat
      PROVE  OptionsFit(Walking(seeds, direction, depth, types, b))
  BY <1>4 DEF OptionsFit, Walking, Budgets, Least
<1>5. CASE ask.op = "impact"
  <2> DEFINE setting == Settings[ask.mode]
             half == sliceBudget(budget, Half(setting.nodeLimit), Half(setting.edgeLimit))
             depth == readDepth(ask, setting.depth)
  <2>1. setting \in [depth : Nat, nodeLimit : Nat, edgeLimit : Nat]
    BY <1>1, <1>5, AskAssumption, LimitAssumption
  <2>2. Half(setting.nodeLimit) \in Nat /\ Half(setting.edgeLimit) \in Nat
    BY <2>1 DEF Half
  <2>3. half \in Budgets
    BY <1>1, <2>2, SlicesAreNumbers
  <2>4. depth \in Nat /\ Least(depth, OutboundDepth) \in Nat
    BY <1>3, <2>1, LimitAssumption DEF Least
  <2>5. /\ OptionsFit(Walking(ask.seeds, "inbound", depth, DependencyTypes, half))
        /\ OptionsFit(Walking(ask.seeds, "outbound", Least(depth, OutboundDepth), DependencyTypes, half))
        /\ OptionsFit(Walking(ask.seeds, "both", depth, ExpansionTypes, budget))
    BY <1>1, <1>2, <1>4, <2>3, <2>4
  <2>6. Len(walks) + 1 \in 1..3
    BY <1>5 DEF BudgetInv, IsSequence, WalkCount
  <2>7. WalkOf(ask, Len(walks) + 1) = ImpactWalks(ask)[Len(walks) + 1]
    BY <1>5 DEF WalkOf
  <2> QED
    BY <2>5, <2>6, <2>7 DEF ImpactWalks
<1>6. CASE ask.op = "plan"
  <2>1. Len(walks) + 1 \in 1..3
    BY <1>6 DEF BudgetInv, IsSequence, WalkCount
  <2>2. IsSequence(Matches(ask))
    <3>1. Least(budget.maxEvidence, budget.maxNodes) \in Nat
      BY <1>1 DEF Budgets, Least
    <3> QED
      BY <1>2, <3>1, CutIsShort DEF Matches
  <2>3. CASE Len(walks) + 1 = 1
    <3>1. Least(budget.maxNodes, budget.maxEvidence) \in Nat
          /\ Least(budget.maxEdges, 2 * budget.maxEvidence) \in Nat
      BY <1>1 DEF Budgets, Least
    <3>2. sliceBudget(budget, Least(budget.maxNodes, budget.maxEvidence),
                      Least(budget.maxEdges, 2 * budget.maxEvidence)) \in Budgets
      BY <1>1, <3>1, SlicesAreNumbers
    <3>3. WalkOf(ask, 1) = Walking(Matches(ask), "both", 1, ExpansionTypes,
            sliceBudget(budget, Least(budget.maxNodes, budget.maxEvidence),
                        Least(budget.maxEdges, 2 * budget.maxEvidence)))
      BY <1>6 DEF WalkOf, PlanWalk
    <3> QED
      BY <1>4, <2>2, <2>3, <3>2, <3>3
  <2>4. CASE Len(walks) + 1 = 2
    <3>1. WalkOf(ask, 2) = Walking(Matches(ask), "both", budget.maxDepth, ExpansionTypes, budget)
      BY <1>6 DEF WalkOf, PlanWalk
    <3>2. budget.maxDepth \in Nat
      BY <1>1 DEF Budgets
    <3> QED
      BY <1>1, <1>4, <2>2, <2>4, <3>1, <3>2
  <2>5. CASE Len(walks) + 1 = 3
    <3>1. IsFiniteSet(walks[2].nodes)
      BY <2>5 DEF BudgetInv, IsSequence
    <3>2. IsFiniteSet(walks[2].nodes \ ToSet(Matches(ask)))
      BY <3>1, FS_Subset
    <3>3. IsSequence(Scope(ask))
      BY <2>2, <3>2, SortedIsSequence, JoinedIsSequence DEF Scope
    <3>4. budget.maxEvidence \in Nat /\ 2 * budget.maxEvidence \in Nat
      BY <1>1 DEF Budgets
    <3>5. IsSequence(Cut(Scope(ask), budget.maxEvidence))
      BY <3>3, <3>4, CutIsShort
    <3>6. sliceBudget(budget, budget.maxEvidence, 2 * budget.maxEvidence) \in Budgets
      BY <1>1, <3>4, SlicesAreNumbers
    <3>7. WalkOf(ask, 3) = Walking(Cut(Scope(ask), budget.maxEvidence), "inbound", 1, OwnerTypes,
                             sliceBudget(budget, budget.maxEvidence, 2 * budget.maxEvidence))
      BY <1>6 DEF WalkOf, PlanWalk
    <3> QED
      BY <1>4, <2>5, <3>5, <3>6, <3>7
  <2> QED
    BY <2>1, <2>3, <2>4, <2>5
<1>7. CASE ask.op = "touchpoints"
  <2>1. IsSequence(Cut(ask.seeds, FeatureSeeds))
    BY <1>2, CutIsShort, LimitAssumption
  <2>2. Defaults[ask.op].maxDepth \in Nat
    BY <1>7, LimitAssumption DEF Budgets
  <2>3. readDepth(ask, Defaults[ask.op].maxDepth) \in Nat
    BY <1>3, <2>2
  <2>4. WalkOf(ask, Len(walks) + 1) = FeatureWalk(ask)
    BY <1>7 DEF WalkOf
  <2> QED
    BY <1>1, <1>4, <2>1, <2>3, <2>4 DEF FeatureWalk
<1> QED
  BY <1>1, <1>5, <1>6, <1>7, AskAssumption

\* The seeds of a walk are no more than its sequence is long.
LEMMA SeedsAreFew ==
  ASSUME NEW s, IsSequence(s)
  PROVE  IsFiniteSet(ToSet(s)) /\ Cardinality(ToSet(s)) <= Len(s)
<1>1. s \in Seq({s[i] : i \in DOMAIN s}) /\ Len(s) \in Nat /\ DOMAIN s = 1..Len(s)
  BY DEF IsSequence
<1>2. IsFiniteSet(1..Len(s)) /\ Cardinality(1..Len(s)) = Len(s)
  BY <1>1, FS_Interval
<1>3. s \in Surjection(1..Len(s), ToSet(s))
  BY <1>1 DEF Surjection, ToSet
<1> QED
  BY <1>2, <1>3, FS_Surjection

\* Beyond an edge of a node there is at most one other.
LEMMA OneBeyond ==
  ASSUME NEW o, NEW e, NEW n, n \in {e.from, e.to}, NEW m \in NextNodes(o, e, n) \ {n}
  PROVE  NextNodes(o, e, n) \ {n} = {m}
  BY DEF NextNodes

LEMMA BudgetStarts ==
  ASSUME BudgetInv, StartBoundary PROVE BudgetInv'
<1> DEFINE options == WalkOf(ask, Len(walks) + 1)
           seeds == Cut(options.seeds, options.budget.maxNodes)
<1>1. /\ ask # None /\ walk = None /\ Len(walks) < WalkCount(ask)
      /\ walk' = [options |-> options, found |-> ToSet(seeds), kept |-> {},
                  queue |-> [i \in DOMAIN seeds |-> [node |-> seeds[i], depth |-> 0]],
                  at |-> None, inside |-> FALSE, left |-> {},
                  cut |-> seeds # options.seeds, over |-> FALSE,
                  reason |-> IF seeds # options.seeds THEN "NODE_BUDGET_EXCEEDED" ELSE "COMPLETE"]
      /\ UNCHANGED <<ask, walks, late, report>>
  BY Zenon DEF StartBoundary
<1>2. OptionsFit(options)
  BY <1>1, OptionsAreFit
<1>3. options.budget.maxNodes \in Nat /\ options.budget.maxEdges \in Nat
  BY <1>2 DEF OptionsFit, Budgets
<1>4. IsSequence(seeds) /\ Len(seeds) <= options.budget.maxNodes
  BY <1>2, <1>3, CutIsShort DEF OptionsFit
<1>5. IsFiniteSet(ToSet(seeds)) /\ Cardinality(ToSet(seeds)) <= options.budget.maxNodes
  <2>1. Cardinality(ToSet(seeds)) \in Nat /\ Len(seeds) \in Nat
    BY <1>4, SeedsAreFew, FS_CardinalityType DEF IsSequence
  <2> QED
    BY <1>3, <1>4, <2>1, SeedsAreFew
<1>6. IsFiniteSet({}) /\ Cardinality({}) = 0
  BY FS_EmptySet
<1> DEFINE dropped == seeds # options.seeds
<1>7. BudgetLeft(walk')
  <2> HIDE DEF options, seeds
  <2>1. dropped \in BOOLEAN
    OBVIOUS
  <2> HIDE DEF dropped
  <2>2. /\ IsWalk(walk') /\ walk'.options = options /\ walk'.found = ToSet(seeds)
        /\ walk'.kept = {} /\ walk'.inside = FALSE /\ walk'.cut = dropped /\ walk'.over = FALSE
        /\ walk'.reason = IF dropped THEN "NODE_BUDGET_EXCEEDED" ELSE "COMPLETE"
    BY <1>1 DEF IsWalk, dropped
  <2>3. walk'.cut <=> walk'.reason # "COMPLETE"
    BY <2>1, <2>2
  <2>4. walk'.cut \in BOOLEAN /\ walk'.over \in BOOLEAN /\ walk'.inside \in BOOLEAN
        /\ (walk'.over => walk'.cut)
    BY <2>1, <2>2
  <2>5. /\ IsFiniteSet(walk'.found) /\ Cardinality(walk'.found) <= walk'.options.budget.maxNodes
        /\ IsFiniteSet(walk'.kept) /\ Cardinality(walk'.kept) <= walk'.options.budget.maxEdges
    BY <1>3, <1>5, <1>6, <2>2
  <2>6. OptionsFit(walk'.options) /\ ~walk'.inside
    BY <1>2, <2>2
  <2> QED
    BY <2>2, <2>3, <2>4, <2>5, <2>6 DEF BudgetLeft
<1>8. report = None
  <2>1. Len(walks) \in Nat
    BY DEF BudgetInv, IsSequence
  <2>2. Len(walks) # WalkCount(ask)
    BY <1>1, <2>1
  <2> QED
    BY <1>1, <2>2 DEF BudgetInv
<1>9. walks' = walks /\ ask' = ask /\ report' = report /\ (walk' # None => BudgetLeft(walk'))
  BY <1>1, <1>7
<1> QED
  BY <1>1, <1>8, <1>9 DEF BudgetInv, BudgetsAreKept

LEMMA BudgetTakes ==
  ASSUME BudgetInv, TakeNode PROVE BudgetInv'
<1> DEFINE current == Shift(walk.queue).node
           taken == [walk EXCEPT !.queue = Shift(walk.queue).rest]
           all == AdjacentEdges(walk.options, current.node)
<1>1. /\ walk # None /\ ~walk.over /\ ~walk.inside
      /\ UNCHANGED <<ask, walks, report>>
      /\ \/ walk' = Stopped(walk, "TIME_BUDGET_EXCEEDED")
         \/ walk' = taken
         \/ \E some \in kSubset(Least(walk.options.budget.perNodeEdges, Cardinality(all)), all) :
                walk' = [taken EXCEPT !.at = current, !.inside = TRUE, !.left = some,
                           !.cut = @ \/ some # all,
                           !.reason = IF some # all /\ @ = "COMPLETE"
                                      THEN "EDGE_BUDGET_EXCEEDED" ELSE @]
  BY Zenon DEF TakeNode
<1>2. BudgetLeft(walk)
  BY <1>1 DEF BudgetInv
<1>3. \A e \in all : current.node \in {e.from, e.to}
  BY DEF AdjacentEdges
<1> HIDE DEF current, all
<1>4. BudgetLeft(walk')
  <2>1. CASE walk' = Stopped(walk, "TIME_BUDGET_EXCEEDED")
    BY <1>1, <1>2, <2>1 DEF BudgetLeft, IsWalk, Stopped
  <2>2. CASE walk' = taken
    BY <1>1, <1>2, <2>2 DEF BudgetLeft, IsWalk
  <2>3. ASSUME NEW some \in kSubset(Least(walk.options.budget.perNodeEdges, Cardinality(all)), all),
               walk' = [taken EXCEPT !.at = current, !.inside = TRUE, !.left = some,
                           !.cut = @ \/ some # all,
                           !.reason = IF some # all /\ @ = "COMPLETE"
                                      THEN "EDGE_BUDGET_EXCEEDED" ELSE @]
        PROVE  BudgetLeft(walk')
    <3>1. some \subseteq all
      BY DEF kSubset
    <3>2. walk' = [walk EXCEPT !.queue = Shift(walk.queue).rest, !.at = current, !.inside = TRUE, !.left = some,
                     !.cut = walk.cut \/ some # all,
                     !.reason = IF some # all /\ walk.reason = "COMPLETE"
                                THEN "EDGE_BUDGET_EXCEEDED" ELSE walk.reason]
      BY <1>2, <2>3 DEF BudgetLeft, IsWalk
    <3> QED
      BY <1>1, <1>2, <1>3, <3>1, <3>2 DEF BudgetLeft, IsWalk
  <2> QED
    BY <1>1, <2>1, <2>2, <2>3
<1>5. report = None /\ ask # None
  BY <1>1 DEF BudgetInv
<1> QED
  BY <1>1, <1>4, <1>5 DEF BudgetInv, BudgetsAreKept

LEMMA BudgetCrosses ==
  ASSUME BudgetInv, NEW e, CrossEdge(e) PROVE BudgetInv'
<1> DEFINE budget == walk.options.budget
           kept == [walk EXCEPT !.kept = @ \cup {e}, !.left = @ \ {e}]
           beyond == NextNodes(walk.options, e, walk.at.node) \ {walk.at.node}
           new == beyond \ walk.found
<1>1. /\ walk # None /\ ~walk.over /\ walk.inside /\ e \in walk.left
      /\ UNCHANGED <<ask, walks, report>>
      /\ \/ walk' = Stopped(walk, "TIME_BUDGET_EXCEEDED")
         \/ walk' = Stopped(walk, "EDGE_BUDGET_EXCEEDED")
         \/ /\ e \in walk.kept \/ ~(Cardinality(walk.kept) >= budget.maxEdges)
            /\ \/ walk' = Stopped(kept, "NODE_BUDGET_EXCEEDED")
               \/ /\ new = {} \/ ~(Cardinality(walk.found) >= budget.maxNodes)
                  /\ walk' = [kept EXCEPT !.found = @ \cup new, !.over = walk.cut,
                                !.queue = @ \o Items(new, walk.at.depth + 1)]
  BY Zenon DEF CrossEdge
<1>2. BudgetLeft(walk)
  BY <1>1 DEF BudgetInv
<1>3. /\ budget.maxNodes \in Nat /\ budget.maxEdges \in Nat
      /\ Cardinality(walk.kept) \in Nat /\ Cardinality(walk.found) \in Nat
  BY <1>2, FS_CardinalityType DEF BudgetLeft, OptionsFit, Budgets
<1>4. CASE walk' = Stopped(walk, "TIME_BUDGET_EXCEEDED") \/ walk' = Stopped(walk, "EDGE_BUDGET_EXCEEDED")
  <2>1. BudgetLeft(walk')
    BY <1>1, <1>2, <1>4 DEF BudgetLeft, IsWalk, Stopped
  <2> QED
    BY <1>1, <2>1 DEF BudgetInv, BudgetsAreKept
<1>5. CASE e \in walk.kept \/ ~(Cardinality(walk.kept) >= budget.maxEdges)
  <2>1. IsFiniteSet(walk.kept \cup {e}) /\ Cardinality(walk.kept \cup {e}) <= budget.maxEdges
    <3>1. IsFiniteSet(walk.kept) /\ Cardinality(walk.kept) <= budget.maxEdges
      BY <1>2 DEF BudgetLeft
    <3>2. CASE e \in walk.kept
      <4>1. walk.kept \cup {e} = walk.kept
        BY <3>2
      <4> QED
        BY <3>1, <4>1
    <3>3. CASE e \notin walk.kept
      <4>1. IsFiniteSet(walk.kept \cup {e}) /\ Cardinality(walk.kept \cup {e}) = Cardinality(walk.kept) + 1
        BY <3>1, <3>3, FS_AddElement
      <4> QED
        BY <1>3, <1>5, <3>3, <4>1
    <3> QED
      BY <3>2, <3>3
  <2>2. BudgetLeft(kept)
    <3>1. kept = [options |-> walk.options, found |-> walk.found, kept |-> walk.kept \cup {e},
                  queue |-> walk.queue, at |-> walk.at, inside |-> walk.inside, left |-> walk.left \ {e},
                  cut |-> walk.cut, over |-> walk.over, reason |-> walk.reason]
      <4>1. IsWalk(walk)
        BY <1>2 DEF BudgetLeft
      <4> DEFINE more == walk.kept \cup {e}
                 fewer == walk.left \ {e}
      <4>2. kept = [walk EXCEPT !.kept = more, !.left = fewer]
        BY Zenon
      <4> HIDE DEF more, fewer, kept
      <4>3. kept = [options |-> walk.options, found |-> walk.found, kept |-> more,
                    queue |-> walk.queue, at |-> walk.at, inside |-> walk.inside, left |-> fewer,
                    cut |-> walk.cut, over |-> walk.over, reason |-> walk.reason]
        BY <4>1, <4>2 DEF IsWalk
      <4> QED
        BY <4>3 DEF more, fewer
    <3> HIDE DEF kept
    <3> QED
      BY <1>2, <2>1, <3>1 DEF BudgetLeft, IsWalk
  <2>3. CASE walk' = Stopped(kept, "NODE_BUDGET_EXCEEDED")
    BY <1>1, <2>2, <2>3 DEF BudgetLeft, IsWalk, Stopped, BudgetInv, BudgetsAreKept
  <2>4. CASE /\ new = {} \/ ~(Cardinality(walk.found) >= budget.maxNodes)
             /\ walk' = [kept EXCEPT !.found = @ \cup new, !.over = walk.cut,
                           !.queue = @ \o Items(new, walk.at.depth + 1)]
    <3>1. IsFiniteSet(walk.found) /\ Cardinality(walk.found) <= budget.maxNodes
      BY <1>2 DEF BudgetLeft
    <3>2. IsFiniteSet(walk.found \cup new) /\ Cardinality(walk.found \cup new) <= budget.maxNodes
      <4>1. CASE new = {}
        <5>1. walk.found \cup new = walk.found
          BY <4>1
        <5> QED
          BY <3>1, <5>1
      <4>2. ASSUME NEW m \in new
            PROVE  /\ IsFiniteSet(walk.found \cup new)
                   /\ Cardinality(walk.found \cup new) <= budget.maxNodes
        <5>1. walk.at.node \in {e.from, e.to}
          BY <1>1, <1>2 DEF BudgetLeft
        <5>2. beyond = {m}
          BY <5>1, OneBeyond
        <5>3. new = {m} /\ m \notin walk.found
          BY <5>2
        <5>4. IsFiniteSet(walk.found \cup {m}) /\ Cardinality(walk.found \cup {m}) = Cardinality(walk.found) + 1
          BY <3>1, <5>3, FS_AddElement
        <5> QED
          BY <1>3, <2>4, <5>3, <5>4
      <4> QED
        BY <4>1, <4>2
    <3> HIDE DEF new, beyond
    <3>3. walk' = [walk EXCEPT !.kept = walk.kept \cup {e}, !.left = walk.left \ {e},
                     !.found = walk.found \cup new, !.over = walk.cut,
                     !.queue = walk.queue \o Items(new, walk.at.depth + 1)]
      BY <1>2, <2>4 DEF BudgetLeft, IsWalk
    <3>4. BudgetLeft(walk')
      BY <1>2, <2>1, <3>2, <3>3 DEF BudgetLeft, IsWalk
    <3> QED
      BY <1>1, <3>4 DEF BudgetInv, BudgetsAreKept
  <2> QED
    BY <1>1, <1>4, <2>3, <2>4
<1> QED
  BY <1>1, <1>4, <1>5

LEMMA BudgetEndsNode ==
  ASSUME BudgetInv, EndNode PROVE BudgetInv'
<1>1. /\ walk # None /\ walk' = [walk EXCEPT !.at = None, !.inside = FALSE, !.over = walk.cut]
      /\ UNCHANGED <<ask, walks, late, report>>
  BY Zenon DEF EndNode
<1>2. BudgetLeft(walk)
  BY <1>1 DEF BudgetInv
<1>3. BudgetLeft(walk')
  BY <1>1, <1>2 DEF BudgetLeft, IsWalk
<1> QED
  BY <1>1, <1>3 DEF BudgetInv, BudgetsAreKept

\* What a walk returns has its budgets.
LEMMA BudgetEndsBoundary ==
  ASSUME BudgetInv, EndBoundary PROVE BudgetInv'
<1> DEFINE w == [options |-> walk.options, nodes |-> walk.found, edges |-> walk.kept,
                 cut |-> walk.cut, reason |-> walk.reason]
<1>1. /\ walk # None /\ walk' = None /\ walks' = Append(walks, w)
      /\ UNCHANGED <<ask, late, report>>
  BY DEF EndBoundary
<1>2. BudgetLeft(walk)
  BY <1>1 DEF BudgetInv
<1>3. WithinBudgets(w) /\ IsFiniteSet(w.nodes)
  BY <1>2 DEF BudgetLeft, WithinBudgets
<1> HIDE DEF w
<1>4. IsSequence(walks)
  BY DEF BudgetInv
<1>5. /\ IsSequence(walks') /\ DOMAIN walks' = (DOMAIN walks) \cup {Len(walks) + 1}
      /\ \A i \in DOMAIN walks' : walks'[i] = IF i \in DOMAIN walks THEN walks[i] ELSE w
  <2> DEFINE S == {walks[i] : i \in DOMAIN walks} \cup {w}
  <2>1. walks \in Seq(S) /\ w \in S
    BY <1>4 DEF IsSequence
  <2>2. walks' \in Seq(S)
    BY <1>1, <2>1
  <2>3. IsSequence(walks')
    BY <2>2, TypedIsSequence
  <2> QED
    BY <1>1, <2>1, <2>3
<1>6. ask # None /\ report = None
  BY <1>1 DEF BudgetInv
<1>7. \A i \in DOMAIN walks' : WithinBudgets(walks'[i]) /\ IsFiniteSet(walks'[i].nodes)
  <2>1. \A i \in DOMAIN walks : WithinBudgets(walks[i]) /\ IsFiniteSet(walks[i].nodes)
    BY DEF BudgetInv, BudgetsAreKept
  <2> QED
    BY <1>3, <1>5, <2>1
<1> QED
  BY <1>1, <1>5, <1>6, <1>7 DEF BudgetInv, BudgetsAreKept

LEMMA BudgetInvKept ==
  ASSUME BudgetInv, [EngineNext]_allVars PROVE BudgetInv'
<1>1. CASE UNCHANGED capabilityVars
  BY <1>1 DEF BudgetInv, BudgetsAreKept, capabilityVars
<1>2. CASE AskCapability
  <2>1. PICK a \in Asks : Ask(a)
    BY <1>2 DEF AskCapability
  <2>2. ask = None /\ ask' = a /\ UNCHANGED <<walk, walks, late, report>>
    BY <2>1 DEF Ask
  <2>3. walk = None /\ walks = <<>> /\ report = None
    BY <2>2 DEF BudgetInv
  <2> QED
    BY <2>2, <2>3 DEF BudgetInv, BudgetsAreKept
<1>3. CASE Report
  <2>1. /\ ask # None /\ walk = None /\ Len(walks) = WalkCount(ask)
        /\ UNCHANGED <<ask, walk, walks, late>>
    BY <1>3 DEF Report
  <2>2. WalkCount(ask)' = WalkCount(ask)
    BY <2>1 DEF WalkCount
  <2> QED
    BY <2>1, <2>2 DEF BudgetInv, BudgetsAreKept
<1>4. CASE Deliver
  <2>1. walk = None /\ walk' = None /\ ask' = None /\ walks' = <<>> /\ report' = None
    BY <1>4 DEF Deliver, BudgetInv
  <2> QED
    BY <2>1 DEF BudgetInv, BudgetsAreKept, IsSequence
<1>5. CASE walk # None /\ \E e \in walk.left : CrossEdge(e)
  BY <1>5, BudgetCrosses
<1> QED
  BY <1>1, <1>2, <1>3, <1>4, <1>5, BudgetStarts, BudgetTakes, BudgetEndsNode, BudgetEndsBoundary
  DEF EngineNext, CapabilityStep, allVars

LEMMA BudgetInvAlways == EngineSpec => []BudgetInv
<1>1. EngineInit => BudgetInv
  BY DEF EngineInit, NoCapability, BudgetInv, BudgetsAreKept, IsSequence
<1> QED
  BY <1>1, BudgetInvKept, PTL DEF EngineSpec

\* What a bounded walk returns is within the budgets it was given, whatever a
\* caller asks for, and it says so if it was cut.
THEOREM BudgetsHold == EngineSpec => []BudgetsAreKept
<1>1. BudgetInv => BudgetsAreKept
  BY DEF BudgetInv
<1> QED
  BY <1>1, BudgetInvAlways, PTL

-----------------------------------------------------------------------------
(***************************************************************************)
(* Layers.  The edges are an argument, so that what is said of a walk holds*)
(* after a step that leaves them alone.                                    *)
(***************************************************************************)
Adjacent(E, o, n) ==
  {e \in E : /\ e.type \in Considered(o)
             /\ \/ o.direction # "inbound" /\ e.from = n
                \/ o.direction # "outbound" /\ e.to = n}

SettledIn(E, o, nodes, kept, layer, n) ==
  \A e \in Adjacent(E, o, n) : Followed(o, nodes, kept, layer, n, e)

\* What waits has its layer, in order, and nothing found is beyond the next.
QueueLayered(w, layer) ==
  /\ IsSequence(w.queue)
  /\ \A i \in DOMAIN w.queue :
       /\ w.queue[i].node \in w.found
       /\ layer[w.queue[i].node] = w.queue[i].depth
       /\ \A n \in w.found : layer[n] <= w.queue[i].depth + 1
       /\ \A j \in DOMAIN w.queue : i <= j => w.queue[i].depth <= w.queue[j].depth

\* So has the node whose edges are looked at, and those done are followed.
NodeLayered(E, w, layer) ==
  /\ w.at.node \in w.found
  /\ layer[w.at.node] = w.at.depth
  /\ w.at.depth < w.options.depth
  /\ \A i \in DOMAIN w.queue : w.at.depth <= w.queue[i].depth
  /\ \A n \in w.found : layer[n] <= w.at.depth + 1
  /\ w.left \subseteq Adjacent(E, w.options, w.at.node)
  /\ \A e \in Adjacent(E, w.options, w.at.node) \ w.left :
       Followed(w.options, w.found, w.kept, layer, w.at.node, e)

Awaited(w, n) ==
  \/ \E i \in DOMAIN w.queue : w.queue[i].node = n
  \/ w.inside /\ w.at.node = n

Layered(E, w, layer) ==
  /\ layer \in Layers(w.options, w.found)
  /\ SeedsFirst(w.options, w.found, layer)
  /\ QueueLayered(w, layer)
  /\ w.inside => NodeLayered(E, w, layer)
  /\ \A n \in w.found : layer[n] < w.options.depth =>
       Awaited(w, n) \/ SettledIn(E, w.options, w.found, w.kept, layer, n)

InLayersOf(E, w) ==
  \E layer \in Layers(w.options, w.nodes) :
    /\ SeedsFirst(w.options, w.nodes, layer)
    /\ \A n \in w.nodes : layer[n] < w.options.depth =>
         SettledIn(E, w.options, w.nodes, w.edges, layer, n)

LayerInv ==
  /\ BudgetInv
  /\ \A i \in DOMAIN walks : ~walks[i].cut => InLayersOf(edges, walks[i])
  /\ walk # None /\ ~walk.cut =>
       \E layer \in Layers(walk.options, walk.found) : Layered(edges, walk, layer)

LEMMA InLayersAlike == \A w : InLayers(w) <=> InLayersOf(edges, w)
  BY DEF InLayers, InLayersOf, Settled, SettledIn, Adjacent, AdjacentEdges

\* A node stays followed and settled while nodes are found and edges kept.
LEMMA SettledStays ==
  ASSUME NEW E, NEW o, NEW nodes, NEW kept, NEW layer,
         NEW nodes2, NEW kept2, NEW layer2,
         nodes \subseteq nodes2, kept \subseteq kept2, \A n \in nodes : layer2[n] = layer[n],
         NEW n \in nodes
  PROVE  /\ \A e : Followed(o, nodes, kept, layer, n, e) => Followed(o, nodes2, kept2, layer2, n, e)
         /\ SettledIn(E, o, nodes, kept, layer, n) => SettledIn(E, o, nodes2, kept2, layer2, n)
  BY DEF SettledIn, Followed

LEMMA LayersStart ==
  ASSUME NEW E, NEW w, BudgetLeft(w), ~w.inside, w.found = ToSet(w.options.seeds),
         w.queue = [i \in DOMAIN w.options.seeds |-> [node |-> w.options.seeds[i], depth |-> 0]]
  PROVE  \E layer \in Layers(w.options, w.found) : Layered(E, w, layer)
<1> DEFINE layer == [n \in w.found |-> 0]
           seeds == w.options.seeds
<1>1. w.options.depth \in Nat /\ IsSequence(seeds)
  BY DEF BudgetLeft, OptionsFit
<1>2. layer \in Layers(w.options, w.found)
  BY <1>1 DEF Layers
<1>3. DOMAIN seeds = 1..Len(seeds) /\ Len(seeds) \in Nat
  BY <1>1 DEF IsSequence
<1>4. IsSequence(w.queue)
  BY <1>3, ListIsSequence
<1>5. \A i \in DOMAIN seeds : seeds[i] \in w.found
  BY DEF ToSet
<1>6. SeedsFirst(w.options, w.found, layer)
  BY <1>5 DEF SeedsFirst
<1>7. QueueLayered(w, layer)
  BY <1>4, <1>5 DEF QueueLayered
<1>8. \A n \in w.found : Awaited(w, n)
  BY DEF Awaited, ToSet
<1> QED
  BY <1>2, <1>6, <1>7, <1>8 DEF Layered

LEMMA TailOf ==
  ASSUME NEW s, IsSequence(s), s # <<>>
  PROVE  /\ Len(s) \in Nat \ {0} /\ DOMAIN s = 1..Len(s) /\ Head(s) = s[1]
         /\ IsSequence(Tail(s)) /\ DOMAIN Tail(s) = 1..(Len(s) - 1)
         /\ \A i \in 1..(Len(s) - 1) : Tail(s)[i] = s[i + 1]
<1> DEFINE S == {s[i] : i \in DOMAIN s}
<1>1. s \in Seq(S)
  BY DEF IsSequence
<1>2. Len(s) \in Nat \ {0} /\ DOMAIN s = 1..Len(s) /\ Head(s) = s[1]
  BY <1>1
<1>3. Tail(s) \in Seq(S) /\ Len(Tail(s)) = Len(s) - 1
  BY <1>1, <1>2
<1>4. \A i \in 1..(Len(s) - 1) : Tail(s)[i] = s[i + 1]
  BY <1>1, <1>2
<1>5. IsSequence(Tail(s))
  BY <1>3, TypedIsSequence
<1>6. DOMAIN Tail(s) = 1..(Len(s) - 1)
  BY <1>3
<1> QED
  BY <1>2, <1>4, <1>5, <1>6

\* The node that is taken is one of the nearest that wait.
LEMMA LayersTake ==
  ASSUME NEW E, NEW w, NEW w2, NEW layer, BudgetLeft(w), Layered(E, w, layer),
         ~w.inside, w.queue # <<>>,
         w2.options = w.options, w2.found = w.found, w2.kept = w.kept, w2.queue = Tail(w.queue),
         \/ ~w2.inside /\ Head(w.queue).depth >= w.options.depth
         \/ /\ w2.inside /\ w2.at = Head(w.queue)
            /\ Head(w.queue).depth < w.options.depth
            /\ w2.left = Adjacent(E, w.options, Head(w.queue).node)
  PROVE  Layered(E, w2, layer)
<1> DEFINE s == w.queue
           current == s[1]
<1>1. /\ Len(s) \in Nat \ {0} /\ DOMAIN s = 1..Len(s) /\ Head(s) = current
      /\ IsSequence(Tail(s)) /\ DOMAIN Tail(s) = 1..(Len(s) - 1)
      /\ \A i \in 1..(Len(s) - 1) : Tail(s)[i] = s[i + 1]
  <2>1. IsSequence(s)
    BY DEF Layered, QueueLayered
  <2> QED
    BY <2>1, TailOf
<1>2. QueueLayered(w, layer) /\ w.options.depth \in Nat /\ layer \in [w.found -> 0..w.options.depth]
  BY DEF Layered, BudgetLeft, OptionsFit, Layers
<1>3. QueueLayered(w2, layer)
  <2>1. \A i \in 1..(Len(s) - 1) : i + 1 \in DOMAIN s
    BY <1>1
  <2>2. \A i, j \in 1..(Len(s) - 1) : i <= j => i + 1 <= j + 1
    BY <1>1
  <2> QED
    BY <1>1, <1>2, <2>1, <2>2 DEF QueueLayered
<1>4. /\ current.node \in w.found /\ layer[current.node] = current.depth
      /\ \A n \in w.found : layer[n] <= current.depth + 1
      /\ \A i \in 1..(Len(s) - 1) : current.depth <= s[i + 1].depth
  <2>1. 1 \in DOMAIN s /\ \A i \in 1..(Len(s) - 1) : i + 1 \in DOMAIN s /\ 1 <= i + 1
    BY <1>1
  <2> QED
    BY <1>2, <2>1 DEF QueueLayered
<1>5. w2.inside => NodeLayered(E, w2, layer)
  BY <1>1, <1>4 DEF NodeLayered
<1>6. ASSUME NEW n \in w.found, layer[n] < w.options.depth
      PROVE  Awaited(w2, n) \/ SettledIn(E, w.options, w.found, w.kept, layer, n)
  <2>1. Awaited(w, n) \/ SettledIn(E, w.options, w.found, w.kept, layer, n)
    BY <1>6 DEF Layered
  <2>2. ASSUME NEW i \in DOMAIN s, s[i].node = n PROVE Awaited(w2, n)
    <3>1. CASE i = 1
      <4>1. w2.inside /\ w2.at.node = n
        BY <1>1, <1>2, <1>4, <1>6, <2>2, <3>1
      <4> QED
        BY <4>1 DEF Awaited
    <3>2. CASE i # 1
      <4>1. i - 1 \in DOMAIN w2.queue /\ w2.queue[i - 1] = s[i]
        BY <1>1, <3>2
      <4> QED
        BY <2>2, <4>1 DEF Awaited
    <3> QED
      BY <3>1, <3>2
  <2> QED
    BY <2>1, <2>2 DEF Awaited
<1> QED
  BY <1>3, <1>5, <1>6 DEF Layered

\* When its edges are done, it is settled.
LEMMA LayersEndNode ==
  ASSUME NEW E, NEW w, NEW w2, NEW layer, Layered(E, w, layer), w.inside, w.left = {},
         w2.options = w.options, w2.found = w.found, w2.kept = w.kept, w2.queue = w.queue,
         ~w2.inside
  PROVE  Layered(E, w2, layer)
<1>1. NodeLayered(E, w, layer)
  BY DEF Layered
<1>2. SettledIn(E, w.options, w.found, w.kept, layer, w.at.node)
  BY <1>1 DEF NodeLayered, SettledIn
<1>3. QueueLayered(w2, layer)
  BY DEF Layered, QueueLayered
<1> QED
  BY <1>2, <1>3 DEF Layered, Awaited

\* The node found, if one is, waits behind the others.
Behind(q, S, depth) == q \o Items(S, depth)

AtMostOne(S) == S = {} \/ \E m \in S : S = {m}

WaitsBehind(q, S, depth, r) ==
  /\ IsSequence(r) /\ DOMAIN r \subseteq Nat
  /\ \A i \in DOMAIN q : i \in DOMAIN r /\ r[i] = q[i]
  /\ \A i \in (DOMAIN r) \ DOMAIN q : i > Len(q) /\ r[i].node \in S /\ r[i].depth = depth
  /\ \A n \in S : \E i \in DOMAIN r : r[i].node = n

LEMMA ItemsWait ==
  ASSUME NEW q, IsSequence(q), NEW S, AtMostOne(S), NEW depth
  PROVE  WaitsBehind(q, S, depth, Behind(q, S, depth))
<1> DEFINE Q == {q[i] : i \in DOMAIN q}
           r == Behind(q, S, depth)
<1>1. q \in Seq(Q) /\ Len(q) \in Nat /\ DOMAIN q = 1..Len(q)
  BY DEF IsSequence
<1>2. CASE S = {}
  <2>1. Items(S, depth) = <<>>
    BY <1>2 DEF Items
  <2>2. r = q
    BY <1>1, <2>1 DEF Behind
  <2>3. WaitsBehind(q, S, depth, q)
    BY <1>1, <1>2 DEF WaitsBehind
  <2> HIDE DEF r
  <2>4. WaitsBehind(q, S, depth, r)
    BY <2>2, <2>3, Zenon
  <2> QED
    BY <2>4 DEF r
<1>3. ASSUME NEW m, S = {m}
      PROVE  WaitsBehind(q, S, depth, r)
  <2> DEFINE x == [node |-> m, depth |-> depth]
  <2>1. Items(S, depth) = <<x>>
    BY <1>3 DEF Items
  <2>2. x.node = m /\ x.depth = depth
    OBVIOUS
  <2> HIDE DEF x
  <2>3. q \in Seq(Q \cup {x}) /\ r = Append(q, x)
    BY <1>1, <2>1 DEF Behind
  <2> HIDE DEF r
  <2>4. r \in Seq(Q \cup {x}) /\ Len(r) = Len(q) + 1
    BY <1>1, <2>3
  <2>5. DOMAIN r = 1..(Len(q) + 1) /\ r[Len(q) + 1] = x /\ \A i \in 1..Len(q) : r[i] = q[i]
    BY <1>1, <2>3, <2>4
  <2>6. IsSequence(r)
    BY <2>4, TypedIsSequence
  <2>7. DOMAIN r \subseteq Nat /\ \A i \in (DOMAIN r) \ DOMAIN q : i = Len(q) + 1
    BY <1>1, <2>5
  <2>8. Len(q) + 1 \in DOMAIN r /\ Len(q) + 1 > Len(q)
    BY <1>1, <2>5
  <2>9. \A i \in DOMAIN q : i \in DOMAIN r /\ r[i] = q[i]
    BY <1>1, <2>5
  <2> QED
    BY <1>3, <2>2, <2>5, <2>6, <2>7, <2>8, <2>9 DEF WaitsBehind
<1> QED
  BY <1>2, <1>3 DEF AtMostOne

\* What is found beyond an edge is in the next layer.
LEMMA LayersCross ==
  ASSUME NEW E, NEW w, NEW w2, NEW layer, NEW e, NEW new,
         BudgetLeft(w), Layered(E, w, layer), w.inside, e \in w.left,
         \A n \in new : n \notin w.found,
         new = {} \/ \E m \in new : new = {m},
         NextNodes(w.options, e, w.at.node) \subseteq w.found \cup new,
         w2.options = w.options, w2.found = w.found \cup new, w2.kept = w.kept \cup {e},
         w2.left = w.left \ {e}, w2.queue = w.queue \o Items(new, w.at.depth + 1),
         w2.inside, w2.at = w.at
  PROVE  \E layer2 \in Layers(w2.options, w2.found) : Layered(E, w2, layer2)
<1> DEFINE o == w.options
           next == w.at.depth + 1
           layer2 == [n \in w2.found |-> IF n \in w.found THEN layer[n] ELSE next]
<1>1. /\ o.depth \in Nat /\ layer \in [w.found -> 0..o.depth]
      /\ QueueLayered(w, layer) /\ NodeLayered(E, w, layer) /\ SeedsFirst(o, w.found, layer)
  BY DEF Layered, Layers, BudgetLeft, OptionsFit
<1>2. /\ w.at.node \in w.found /\ layer[w.at.node] = w.at.depth
      /\ w.at.depth \in Nat /\ next \in 0..o.depth
  BY <1>1 DEF NodeLayered
<1>3. layer2 \in Layers(o, w2.found)
  BY <1>1, <1>2 DEF Layers
<1>4. \A n \in w.found : n \in w2.found /\ layer2[n] = layer[n]
  OBVIOUS
<1>5. \A n \in new : n \in w2.found /\ n \notin w.found /\ layer2[n] = next
  OBVIOUS
<1>6. \A n \in w2.found : n \in w.found \/ n \in new
  OBVIOUS
<1>8. /\ IsSequence(w2.queue) /\ Len(w.queue) \in Nat /\ DOMAIN w.queue = 1..Len(w.queue)
      /\ DOMAIN w2.queue \subseteq Nat
      /\ \A i \in DOMAIN w.queue : i \in DOMAIN w2.queue /\ w2.queue[i] = w.queue[i]
      /\ \A i \in (DOMAIN w2.queue) \ DOMAIN w.queue :
           i > Len(w.queue) /\ w2.queue[i].node \in new /\ w2.queue[i].depth = next
      /\ \A n \in new : \E i \in DOMAIN w2.queue : w2.queue[i].node = n
  <2>1. IsSequence(w.queue)
    BY <1>1 DEF QueueLayered
  <2>2. Len(w.queue) \in Nat /\ DOMAIN w.queue = 1..Len(w.queue)
    BY <2>1 DEF IsSequence
  <2> HIDE DEF layer2
  <2>3. w2.queue = Behind(w.queue, new, next)
    BY DEF Behind
  <2> HIDE DEF next
  <2>4. AtMostOne(new)
    BY DEF AtMostOne
  <2>5. WaitsBehind(w.queue, new, next, w2.queue)
    <3>1. WaitsBehind(w.queue, new, next, Behind(w.queue, new, next))
      BY <2>1, <2>4, ItemsWait
    <3> QED
      BY <2>3, <3>1, Zenon
  <2> QED
    BY <2>2, <2>5 DEF WaitsBehind
<1> HIDE DEF layer2, next
<1>9. \A n \in w2.found : layer2[n] \in Nat /\ layer2[n] <= next
  <2>1. \A n \in w.found : layer[n] \in Nat /\ layer[n] <= next
    BY <1>1 DEF NodeLayered, next
  <2> QED
    BY <1>2, <1>4, <1>5, <1>6, <2>1
<1>10. ASSUME NEW i \in DOMAIN w2.queue
       PROVE  /\ w2.queue[i].node \in w2.found /\ layer2[w2.queue[i].node] = w2.queue[i].depth
              /\ w.at.depth <= w2.queue[i].depth /\ w2.queue[i].depth \in Nat
              /\ w2.queue[i].depth <= next
  <2>1. CASE i \in DOMAIN w.queue
    <3>1. /\ w2.queue[i] = w.queue[i] /\ w.queue[i].node \in w.found
          /\ layer[w.queue[i].node] = w.queue[i].depth /\ w.at.depth <= w.queue[i].depth
      BY <1>1, <1>8, <2>1 DEF QueueLayered, NodeLayered
    <3> QED
      BY <1>4, <1>9, <3>1
  <2>2. CASE i \notin DOMAIN w.queue
    <3>1. w2.queue[i].node \in new /\ w2.queue[i].depth = next
      BY <1>8, <2>2
    <3> QED
      BY <1>2, <1>5, <3>1 DEF next
  <2> QED
    BY <2>1, <2>2
<1>11. QueueLayered(w2, layer2)
  <2>1. ASSUME NEW i \in DOMAIN w2.queue, NEW n \in w2.found
        PROVE  layer2[n] <= w2.queue[i].depth + 1
    <3>1. layer2[n] \in Nat /\ layer2[n] <= w.at.depth + 1
      BY <1>9 DEF next
    <3>2. w2.queue[i].depth \in Nat /\ w.at.depth <= w2.queue[i].depth
      BY <1>10
    <3> QED
      BY <1>2, <3>1, <3>2
  <2>2. ASSUME NEW i \in DOMAIN w2.queue, NEW j \in DOMAIN w2.queue, i <= j
        PROVE  w2.queue[i].depth <= w2.queue[j].depth
    <3>1. CASE j \in DOMAIN w.queue
      <4>1. i \in DOMAIN w.queue
        BY <1>8, <2>2, <3>1
      <4> QED
        BY <1>1, <1>8, <2>2, <3>1, <4>1 DEF QueueLayered
    <3>2. CASE j \notin DOMAIN w.queue
      <4>1. w2.queue[j].depth = next
        BY <1>8, <3>2
      <4> QED
        BY <1>10, <4>1
    <3> QED
      BY <3>1, <3>2
  <2> QED
    BY <1>8, <1>10, <2>1, <2>2 DEF QueueLayered
<1>12. w.found \subseteq w2.found /\ w.kept \subseteq w2.kept
  OBVIOUS
<1>13. ASSUME NEW n \in w.found
       PROVE  /\ \A d : Followed(o, w.found, w.kept, layer, n, d)
                          => Followed(o, w2.found, w2.kept, layer2, n, d)
              /\ SettledIn(E, o, w.found, w.kept, layer, n)
                   => SettledIn(E, o, w2.found, w2.kept, layer2, n)
  <2>1. \A m \in w.found : layer2[m] = layer[m]
    BY <1>4
  <2> QED
    BY <1>12, <2>1 DEF SettledIn, Followed
<1>14. NodeLayered(E, w2, layer2)
  <2>1. ASSUME NEW d \in Adjacent(E, o, w.at.node) \ w2.left
        PROVE  Followed(o, w2.found, w2.kept, layer2, w.at.node, d)
    <3>1. CASE d = e
      <4>1. ASSUME NEW m \in NextNodes(o, e, w.at.node)
            PROVE  m \in w2.found /\ layer2[m] <= layer2[w.at.node] + 1
        <5>1. m \in w2.found
          BY <1>2
        <5>2. layer2[w.at.node] + 1 = next
          BY <1>2, <1>4 DEF next
        <5> QED
          BY <1>9, <5>1, <5>2
      <4> QED
        BY <3>1, <4>1 DEF Followed
    <3>2. CASE d # e
      <4>1. Followed(o, w.found, w.kept, layer, w.at.node, d)
        BY <1>1, <3>2 DEF NodeLayered
      <4>2. w.at.node \in w.found
        BY <1>2
      <4> QED
        BY <1>13, <4>1, <4>2
    <3> QED
      BY <3>1, <3>2
  <2>2. layer2[w.at.node] = w.at.depth /\ \A n \in w2.found : layer2[n] <= w.at.depth + 1
    BY <1>2, <1>4, <1>9 DEF next
  <2>3. w2.left \subseteq Adjacent(E, o, w.at.node)
    BY <1>1 DEF NodeLayered
  <2>4. w.at.depth < o.depth
    BY <1>1 DEF NodeLayered
  <2> QED
    BY <1>2, <1>10, <2>1, <2>2, <2>3, <2>4 DEF NodeLayered
<1>15. SeedsFirst(o, w2.found, layer2)
  BY <1>1, <1>4 DEF SeedsFirst
<1>16. ASSUME NEW n \in w2.found, layer2[n] < o.depth
       PROVE  Awaited(w2, n) \/ SettledIn(E, o, w2.found, w2.kept, layer2, n)
  <2>1. CASE n \in new
    BY <1>8, <2>1 DEF Awaited
  <2>2. CASE n \in w.found
    <3>1. layer[n] < o.depth
      BY <1>4, <1>16, <2>2
    <3>2. CASE Awaited(w, n)
      BY <1>8, <3>2 DEF Awaited
    <3>3. CASE SettledIn(E, o, w.found, w.kept, layer, n)
      BY <1>13, <2>2, <3>3
    <3> QED
      BY <2>2, <3>1, <3>2, <3>3 DEF Layered
  <2> QED
    BY <1>6, <2>1, <2>2
<1>17. Layered(E, w2, layer2)
  BY <1>3, <1>11, <1>14, <1>15, <1>16 DEF Layered
<1> QED
  BY <1>3, <1>17

-----------------------------------------------------------------------------
LEMMA LayerStarts ==
  ASSUME LayerInv, StartBoundary, UNCHANGED edges, BudgetInv' PROVE LayerInv'
<1> DEFINE options == WalkOf(ask, Len(walks) + 1)
           seeds == Cut(options.seeds, options.budget.maxNodes)
<1>1. /\ walk' = [options |-> options, found |-> ToSet(seeds), kept |-> {},
                  queue |-> [i \in DOMAIN seeds |-> [node |-> seeds[i], depth |-> 0]],
                  at |-> None, inside |-> FALSE, left |-> {},
                  cut |-> seeds # options.seeds, over |-> FALSE,
                  reason |-> IF seeds # options.seeds THEN "NODE_BUDGET_EXCEEDED" ELSE "COMPLETE"]
      /\ walks' = walks
  BY Zenon DEF StartBoundary
<1> HIDE DEF options, seeds
<1>2. ASSUME walk' # None, ~walk'.cut
      PROVE  \E layer \in Layers(walk'.options, walk'.found) : Layered(edges, walk', layer)
  <2>1. BudgetLeft(walk')
    BY <1>2 DEF BudgetInv
  <2>2. walk'.options = options /\ ~walk'.inside /\ seeds = options.seeds
    BY <1>1, <1>2
  <2>3. walk'.found = ToSet(options.seeds)
    BY <1>1, <2>2
  <2>4. walk'.queue = [i \in DOMAIN options.seeds |-> [node |-> options.seeds[i], depth |-> 0]]
    BY <1>1, <2>2
  <2> QED
    BY <2>1, <2>2, <2>3, <2>4, LayersStart
<1> QED
  BY <1>1, <1>2 DEF LayerInv

LEMMA LayerTakes ==
  ASSUME LayerInv, TakeNode, UNCHANGED edges, BudgetInv' PROVE LayerInv'
<1> DEFINE current == Shift(walk.queue).node
           taken == [walk EXCEPT !.queue = Shift(walk.queue).rest]
           all == AdjacentEdges(walk.options, current.node)
<1>1. /\ walk # None /\ ~walk.over /\ ~walk.inside /\ walk.queue # <<>>
      /\ walks' = walks
      /\ \/ walk' = Stopped(walk, "TIME_BUDGET_EXCEEDED")
         \/ current.depth >= walk.options.depth /\ walk' = taken
         \/ /\ current.depth < walk.options.depth
            /\ \E some \in kSubset(Least(walk.options.budget.perNodeEdges, Cardinality(all)), all) :
                  walk' = [taken EXCEPT !.at = current, !.inside = TRUE, !.left = some,
                             !.cut = @ \/ some # all,
                             !.reason = IF some # all /\ @ = "COMPLETE"
                                        THEN "EDGE_BUDGET_EXCEEDED" ELSE @]
  BY Zenon DEF TakeNode
<1>2. BudgetLeft(walk)
  BY <1>1 DEF LayerInv, BudgetInv
<1>3. current = Head(walk.queue) /\ Shift(walk.queue).rest = Tail(walk.queue)
  BY DEF Shift
<1>4. all = Adjacent(edges, walk.options, current.node)
  BY DEF AdjacentEdges, Adjacent
<1> HIDE DEF current, all
<1>5. ASSUME ~walk'.cut
      PROVE  \E layer \in Layers(walk'.options, walk'.found) : Layered(edges, walk', layer)
  <2>1. /\ ~walk.cut
        /\ walk'.options = walk.options /\ walk'.found = walk.found /\ walk'.kept = walk.kept
        /\ walk'.queue = Tail(walk.queue)
        /\ \/ ~walk'.inside /\ current.depth >= walk.options.depth
           \/ /\ walk'.inside /\ walk'.at = current /\ current.depth < walk.options.depth
              /\ walk'.left = all
    <3>1. CASE walk' = Stopped(walk, "TIME_BUDGET_EXCEEDED")
      BY <1>2, <1>5, <3>1 DEF BudgetLeft, IsWalk, Stopped
    <3>2. CASE current.depth >= walk.options.depth /\ walk' = taken
      BY <1>1, <1>2, <1>3, <1>5, <3>2 DEF BudgetLeft, IsWalk
    <3>3. ASSUME current.depth < walk.options.depth, NEW some,
                 walk' = [taken EXCEPT !.at = current, !.inside = TRUE, !.left = some,
                            !.cut = @ \/ some # all,
                            !.reason = IF some # all /\ @ = "COMPLETE"
                                       THEN "EDGE_BUDGET_EXCEEDED" ELSE @]
          PROVE  /\ ~walk.cut
                 /\ walk'.options = walk.options /\ walk'.found = walk.found
                 /\ walk'.kept = walk.kept /\ walk'.queue = Tail(walk.queue)
                 /\ walk'.inside /\ walk'.at = current /\ walk'.left = all
      <4>1. walk' = [walk EXCEPT !.queue = Tail(walk.queue), !.at = current, !.inside = TRUE,
                       !.left = some, !.cut = walk.cut \/ some # all,
                       !.reason = IF some # all /\ walk.reason = "COMPLETE"
                                  THEN "EDGE_BUDGET_EXCEEDED" ELSE walk.reason]
        BY <1>2, <1>3, <3>3 DEF BudgetLeft, IsWalk
      <4> QED
        BY <1>2, <1>5, <4>1 DEF BudgetLeft, IsWalk
    <3> QED
      BY <1>1, <3>1, <3>2, <3>3
  <2>2. PICK layer \in Layers(walk.options, walk.found) : Layered(edges, walk, layer)
    BY <1>1, <2>1 DEF LayerInv
  <2>3. Layered(edges, walk', layer)
    BY <1>1, <1>2, <1>3, <1>4, <2>1, <2>2, LayersTake
  <2> QED
    BY <2>1, <2>2, <2>3
<1> QED
  BY <1>1, <1>5 DEF LayerInv

LEMMA LayerCrosses ==
  ASSUME LayerInv, NEW e, CrossEdge(e), UNCHANGED edges, BudgetInv' PROVE LayerInv'
<1> DEFINE kept == [walk EXCEPT !.kept = @ \cup {e}, !.left = @ \ {e}]
           beyond == NextNodes(walk.options, e, walk.at.node) \ {walk.at.node}
           new == beyond \ walk.found
<1>1. /\ walk # None /\ ~walk.over /\ walk.inside /\ e \in walk.left
      /\ walks' = walks
      /\ \/ walk' = Stopped(walk, "TIME_BUDGET_EXCEEDED")
         \/ walk' = Stopped(walk, "EDGE_BUDGET_EXCEEDED")
         \/ walk' = Stopped(kept, "NODE_BUDGET_EXCEEDED")
         \/ walk' = [kept EXCEPT !.found = @ \cup new, !.over = walk.cut,
                       !.queue = @ \o Items(new, walk.at.depth + 1)]
  BY Zenon DEF CrossEdge
<1>2. BudgetLeft(walk)
  BY <1>1 DEF LayerInv, BudgetInv
<1>3. walk.at.node \in {e.from, e.to}
  BY <1>1, <1>2 DEF BudgetLeft
<1>4. new = {} \/ \E m \in new : new = {m}
  <2>1. \A m \in new : beyond = {m}
    BY <1>3, OneBeyond
  <2> QED
    BY <2>1
<1>5. \A n \in new : n \notin walk.found
  OBVIOUS
<1>6. NextNodes(walk.options, e, walk.at.node) \subseteq walk.found \cup new \cup {walk.at.node}
  OBVIOUS
<1> HIDE DEF new, beyond
<1>7. ASSUME ~walk'.cut
      PROVE  \E layer \in Layers(walk'.options, walk'.found) : Layered(edges, walk', layer)
  <2>1. kept = [options |-> walk.options, found |-> walk.found, kept |-> walk.kept \cup {e},
                queue |-> walk.queue, at |-> walk.at, inside |-> walk.inside,
                left |-> walk.left \ {e},
                cut |-> walk.cut, over |-> walk.over, reason |-> walk.reason]
    <3> DEFINE more == walk.kept \cup {e}
               fewer == walk.left \ {e}
    <3>1. kept = [walk EXCEPT !.kept = more, !.left = fewer]
      BY Zenon
    <3>2. IsWalk(walk)
      BY <1>2 DEF BudgetLeft
    <3> HIDE DEF more, fewer, kept
    <3>3. kept = [options |-> walk.options, found |-> walk.found, kept |-> more,
                  queue |-> walk.queue, at |-> walk.at, inside |-> walk.inside, left |-> fewer,
                  cut |-> walk.cut, over |-> walk.over, reason |-> walk.reason]
      BY <3>1, <3>2 DEF IsWalk
    <3> QED
      BY <3>3 DEF more, fewer
  <2> HIDE DEF kept
  <2>2. walk' = [kept EXCEPT !.found = @ \cup new, !.over = walk.cut,
                   !.queue = @ \o Items(new, walk.at.depth + 1)]
    BY <1>1, <1>2, <1>7, <2>1 DEF BudgetLeft, IsWalk, Stopped
  <2>3. /\ walk'.options = walk.options /\ walk'.found = walk.found \cup new
        /\ walk'.kept = walk.kept \cup {e} /\ walk'.left = walk.left \ {e}
        /\ walk'.queue = walk.queue \o Items(new, walk.at.depth + 1)
        /\ walk'.inside = walk.inside /\ walk'.at = walk.at /\ walk'.cut = walk.cut
    BY <2>1, <2>2
  <2>4. ~walk.cut /\ walk'.inside
    BY <1>1, <1>7, <2>3
  <2>5. PICK layer \in Layers(walk.options, walk.found) : Layered(edges, walk, layer)
    BY <1>1, <2>4 DEF LayerInv
  <2>6. walk.at.node \in walk.found
    BY <1>1, <2>5 DEF Layered, NodeLayered
  <2>7. NextNodes(walk.options, e, walk.at.node) \subseteq walk.found \cup new
    BY <1>6, <2>6
  <2> QED
    BY <1>1, <1>2, <1>4, <1>5, <2>3, <2>4, <2>5, <2>7, LayersCross
<1> QED
  BY <1>1, <1>7 DEF LayerInv

LEMMA LayerEndsNode ==
  ASSUME LayerInv, EndNode, UNCHANGED edges, BudgetInv' PROVE LayerInv'
<1>1. /\ walk # None /\ walk.inside /\ walk.left = {} /\ walks' = walks
      /\ walk' = [walk EXCEPT !.at = None, !.inside = FALSE, !.over = walk.cut]
  BY Zenon DEF EndNode
<1>2. BudgetLeft(walk)
  BY <1>1 DEF LayerInv, BudgetInv
<1>3. /\ walk'.options = walk.options /\ walk'.found = walk.found /\ walk'.kept = walk.kept
      /\ walk'.queue = walk.queue /\ ~walk'.inside /\ walk'.cut = walk.cut
  BY <1>1, <1>2 DEF BudgetLeft, IsWalk
<1>4. ASSUME ~walk'.cut
      PROVE  \E layer \in Layers(walk'.options, walk'.found) : Layered(edges, walk', layer)
  <2>1. PICK layer \in Layers(walk.options, walk.found) : Layered(edges, walk, layer)
    BY <1>1, <1>3, <1>4 DEF LayerInv
  <2>2. Layered(edges, walk', layer)
    BY <1>1, <1>3, <2>1, LayersEndNode
  <2> QED
    BY <1>3, <2>1, <2>2
<1> QED
  BY <1>1, <1>4 DEF LayerInv

LEMMA LayerEndsBoundary ==
  ASSUME LayerInv, EndBoundary, UNCHANGED edges, BudgetInv' PROVE LayerInv'
<1> DEFINE w == [options |-> walk.options, nodes |-> walk.found, edges |-> walk.kept,
                 cut |-> walk.cut, reason |-> walk.reason]
<1>1. /\ walk # None /\ walk' = None /\ walks' = Append(walks, w)
      /\ walk.over \/ (~walk.inside /\ walk.queue = <<>>)
  BY DEF EndBoundary
<1>2. BudgetLeft(walk)
  BY <1>1 DEF LayerInv, BudgetInv
<1>3. ASSUME ~walk.cut PROVE InLayersOf(edges, w)
  <2>1. ~walk.inside /\ walk.queue = <<>>
    BY <1>1, <1>2, <1>3 DEF BudgetLeft
  <2>2. PICK layer \in Layers(walk.options, walk.found) : Layered(edges, walk, layer)
    BY <1>1, <1>3 DEF LayerInv
  <2>3. \A n \in walk.found : ~Awaited(walk, n)
    BY <2>1 DEF Awaited
  <2>4. /\ SeedsFirst(walk.options, walk.found, layer)
        /\ \A n \in walk.found : layer[n] < walk.options.depth =>
             SettledIn(edges, walk.options, walk.found, walk.kept, layer, n)
    BY <2>2, <2>3 DEF Layered
  <2> QED
    BY <2>2, <2>4 DEF InLayersOf
<1>4. w.cut = walk.cut
  OBVIOUS
<1> HIDE DEF w
<1>5. /\ DOMAIN walks' = (DOMAIN walks) \cup {Len(walks) + 1}
      /\ \A i \in DOMAIN walks' : walks'[i] = IF i \in DOMAIN walks THEN walks[i] ELSE w
  <2> DEFINE S == {walks[i] : i \in DOMAIN walks} \cup {w}
  <2>1. walks \in Seq(S) /\ w \in S
    BY DEF LayerInv, BudgetInv, IsSequence
  <2> QED
    BY <1>1, <2>1
<1>6. \A i \in DOMAIN walks' : ~walks'[i].cut => InLayersOf(edges, walks'[i])
  BY <1>3, <1>4, <1>5 DEF LayerInv
<1> QED
  BY <1>1, <1>6 DEF LayerInv

LEMMA LayerInvKept ==
  ASSUME LayerInv, [EngineNext]_allVars PROVE LayerInv'
<1>1. BudgetInv'
  BY BudgetInvKept DEF LayerInv
<1>2. CASE ask = None /\ UNCHANGED capabilityVars
  <2>1. walk' = None /\ walks' = <<>>
    BY <1>2 DEF LayerInv, BudgetInv, capabilityVars
  <2> QED
    BY <1>1, <2>1 DEF LayerInv
<1>3. CASE UNCHANGED edges /\ UNCHANGED <<walk, walks>>
  BY <1>1, <1>3 DEF LayerInv
<1>4. CASE AskCapability
  <2>1. UNCHANGED edges /\ UNCHANGED <<walk, walks>>
    BY <1>4 DEF AskCapability, Ask, vars
  <2> QED
    BY <1>3, <2>1
<1>5. CASE CapabilityStep /\ UNCHANGED vars
  <2>1. UNCHANGED edges
    BY <1>5 DEF vars
  <2>2. CASE Report
    BY <1>3, <2>1, <2>2 DEF Report
  <2>3. CASE Deliver
    <3>1. walk' = None /\ walks' = <<>>
      BY <2>3 DEF Deliver, LayerInv, BudgetInv
    <3> QED
      BY <1>1, <3>1 DEF LayerInv
  <2> QED
    BY <1>1, <1>5, <2>1, <2>2, <2>3,
       LayerStarts, LayerTakes, LayerCrosses, LayerEndsNode, LayerEndsBoundary
    DEF CapabilityStep
<1>6. CASE UNCHANGED allVars
  BY <1>3, <1>6 DEF allVars, vars, capabilityVars
<1> QED
  BY <1>2, <1>4, <1>5, <1>6 DEF EngineNext

-----------------------------------------------------------------------------
\* A sequence of elements of S.
Among(s, S) == IsSequence(s) /\ \A i \in DOMAIN s : s[i] \in S

\* A walk under way found nothing that is not around its seeds: what waits is within
\* the steps it carries, and the edges kept touch what was found.
WithinReach(w) ==
  LET o == w.options IN
  /\ Among(o.seeds, Nodes) /\ w.found \subseteq NodesAround(o)
  /\ w.kept \subseteq Touching(EdgesAround(o), w.found)
  /\ IsSequence(w.queue)
  /\ \A i \in DOMAIN w.queue :
       /\ w.queue[i].node \in w.found /\ w.queue[i].depth \in 0..o.depth
       /\ w.queue[i].node \in Around(o, w.queue[i].depth)
  /\ w.inside =>
       /\ w.at.node \in w.found /\ w.at.depth \in Nat /\ w.at.depth < o.depth
       /\ w.at.node \in Around(o, w.at.depth)
       /\ w.left \subseteq AdjacentEdges(o, w.at.node)

\* So is what it returned.
ReturnedWithinReach(w) ==
  /\ Among(w.options.seeds, Nodes) /\ OptionsFit(w.options)
  /\ w.nodes \subseteq NodesAround(w.options)
  /\ w.edges \subseteq Touching(EdgesAround(w.options), w.nodes)

ReachInv ==
  /\ edges \subseteq Edges
  /\ walk # None => WithinReach(walk)
  /\ \A i \in DOMAIN walks : ReturnedWithinReach(walks[i])

-----------------------------------------------------------------------------
(***************************************************************************)
(* What a walk is about.                                                   *)
(***************************************************************************)
\* What is around the seeds of a walk, in terms of balls.
LEMMA FromIsAlike ==
  ASSUME NEW o, NEW s
  PROVE  /\ \A n : AdjacentEdges(From(o, s), n) = AdjacentEdges(o, n)
         /\ \A e, n : NextNodes(From(o, s), e, n) = NextNodes(o, e, n)
         /\ \A n : Neighbours(From(o, s), n) = Neighbours(o, n)
         /\ \A n : Admits(From(o, s), n) <=> n \in Nodes
         /\ From(o, s).start = s
<1>1. /\ From(o, s).direction = o.direction /\ From(o, s).relationships = o.relationships
      /\ From(o, s).nodeTypes = Undefined /\ From(o, s).predicate = Undefined
      /\ From(o, s).start = s
  BY DEF From
<1>2. \A n : AdjacentEdges(From(o, s), n) = AdjacentEdges(o, n)
  BY <1>1 DEF AdjacentEdges, Considered
<1>3. \A e, n : NextNodes(From(o, s), e, n) = NextNodes(o, e, n)
  BY <1>1 DEF NextNodes
<1>4. \A n : Neighbours(From(o, s), n) = Neighbours(o, n)
  BY <1>2, <1>3 DEF Neighbours
<1>5. \A n : Admits(From(o, s), n) <=> n \in Nodes
  BY <1>1 DEF Admits, Allowed
<1> QED BY <1>1, <1>2, <1>3, <1>4, <1>5

\* A graph does not change, and what is around its nodes neither.
LEMMA AroundFixed ==
  ASSUME UNCHANGED edges
  PROVE  \A o : /\ \A k : Around(o, k)' = Around(o, k)
                /\ \A n : AdjacentEdges(o, n)' = AdjacentEdges(o, n)
                /\ NodesAround(o)' = NodesAround(o) /\ EdgesAround(o)' = EdgesAround(o)
<1> SUFFICES ASSUME NEW o
             PROVE  /\ \A k : Around(o, k)' = Around(o, k)
                    /\ \A n : AdjacentEdges(o, n)' = AdjacentEdges(o, n)
                    /\ NodesAround(o)' = NodesAround(o) /\ EdgesAround(o)' = EdgesAround(o)
  OBVIOUS
<1>1. \A q, k : Ball(q, k)' = Ball(q, k)
  BY BallFixed
<1>2. \A k : Around(o, k)' = Around(o, k)
  BY <1>1 DEF Around, From
<1>3. \A n : AdjacentEdges(o, n)' = AdjacentEdges(o, n)
  BY DEF AdjacentEdges, Considered
<1>4. NodesAround(o)' = NodesAround(o)
  BY <1>2 DEF NodesAround
<1>5. EdgesAround(o)' = EdgesAround(o)
  <2>1. PICK k : k = o.depth - 1
    OBVIOUS
  <2>2. Around(o, k)' = Around(o, k)
    BY <1>2
  <2> QED BY <1>3, <2>1, <2>2 DEF EdgesAround
<1> QED BY <1>2, <1>3, <1>4, <1>5

\* All of a ball are nodes.
LEMMA BallsAreNodes ==
  ASSUME NEW o, NEW s, NEW k \in Nat
  PROVE  Ball(From(o, s), k) \subseteq Nodes
<1> DEFINE q == From(o, s)
           Bad == {i \in Nat : ~(Ball(q, i) \subseteq Nodes)}
<1>1. SUFFICES ASSUME Bad # {} PROVE FALSE
  OBVIOUS
<1>2. PICK i \in Bad : \A m \in Nat : m < i => m \notin Bad
  <2>1. Bad \in SUBSET Nat
    OBVIOUS
  <2> HIDE DEF Bad
  <2> QED BY <1>1, <2>1, LeastNumber
<1> HIDE DEF q
<1>3. Ball(q, 0) \subseteq Nodes
  BY BallGrows DEF Seed
<1>4. i \in Nat /\ i # 0
  BY <1>3
<1>5. i - 1 \in Nat /\ i - 1 < i /\ (i - 1) + 1 = i
  BY <1>4
<1>6. Ball(q, i - 1) \subseteq Nodes
  BY <1>2, <1>5
<1>7. Ball(q, i) = Grown(q, Ball(q, i - 1))
  BY <1>5, BallGrows
<1>8. \A m : Admits(q, m) => m \in Nodes
  BY FromIsAlike DEF q
<1> QED BY <1>2, <1>6, <1>7, <1>8 DEF Grown

\* The seeds are around themselves, and what is around has its neighbours a step
\* further around.
LEMMA AroundGrows ==
  ASSUME edges \subseteq Edges, NEW o, Among(o.seeds, Nodes)
  PROVE  /\ ToSet(o.seeds) \subseteq Around(o, 0)
         /\ \A k \in Nat : Around(o, k) \subseteq Nodes
         /\ \A k, l \in Nat : k <= l => Around(o, k) \subseteq Around(o, l)
         /\ \A k \in Nat : \A n \in Around(o, k) : \A e \in AdjacentEdges(o, n) :
              NextNodes(o, e, n) \subseteq Around(o, k + 1)
<1>1. ASSUME NEW s \in ToSet(o.seeds) PROVE s \in Around(o, 0)
  <2>1. s \in Nodes
    BY DEF Among, ToSet
  <2>2. s \in Ball(From(o, s), 0)
    BY <2>1, BallGrows, FromIsAlike DEF Seed
  <2> QED BY <2>2 DEF Around
<1>2. ASSUME NEW k \in Nat PROVE Around(o, k) \subseteq Nodes
  BY BallsAreNodes DEF Around
<1>3. ASSUME NEW k \in Nat, NEW l \in Nat, k <= l PROVE Around(o, k) \subseteq Around(o, l)
  <2>1. \A s : Ball(From(o, s), k) \subseteq Ball(From(o, s), l)
    BY <1>3, BallsAreNested
  <2> QED BY <2>1 DEF Around
<1>4. ASSUME NEW k \in Nat, NEW n \in Around(o, k), NEW e \in AdjacentEdges(o, n),
             NEW m \in NextNodes(o, e, n)
      PROVE  m \in Around(o, k + 1)
  <2>1. PICK s \in ToSet(o.seeds) : n \in Ball(From(o, s), k)
    BY DEF Around
  <2>2. m \in Nodes
    BY <1>4 DEF AdjacentEdges, NextNodes, Edges
  <2>3. m \in Neighbours(From(o, s), n) /\ Admits(From(o, s), m)
    BY <1>4, <2>2, FromIsAlike DEF Neighbours
  <2>4. m \in Grown(From(o, s), Ball(From(o, s), k))
    BY <2>1, <2>3 DEF Grown
  <2>5. m \in Ball(From(o, s), k + 1)
    BY <2>4, BallGrows
  <2> QED BY <2>5 DEF Around
<1> QED BY <1>1, <1>2, <1>3, <1>4

\* Whose nodes lie in layers has everything around.
LEMMA LayersHoldAll ==
  ASSUME NEW w, OptionsFit(w.options), InLayers(w)
  PROVE  NodesAround(w.options) \subseteq w.nodes /\ EdgesAround(w.options) \subseteq w.edges
<1> DEFINE o == w.options
<1>1. o.depth \in Nat
  BY DEF OptionsFit
<1>2. PICK layer \in [w.nodes -> 0..o.depth] :
         /\ SeedsFirst(o, w.nodes, layer)
         /\ \A n \in w.nodes : layer[n] < o.depth => Settled(o, w.nodes, w.edges, layer, n)
  BY DEF InLayers, Layers
<1> DEFINE Deep(k) == {n \in w.nodes : layer[n] <= k}
<1>3. ASSUME NEW s \in ToSet(o.seeds)
      PROVE  \A k \in 0..o.depth : Ball(From(o, s), k) \subseteq Deep(k)
  <2> DEFINE q == From(o, s)
             Bad == {k \in Nat : k <= o.depth /\ ~(Ball(q, k) \subseteq Deep(k))}
  <2>1. SUFFICES ASSUME Bad # {} PROVE FALSE
    BY <1>1
  <2>2. PICK k \in Bad : \A m \in Nat : m < k => m \notin Bad
    <3>1. Bad \in SUBSET Nat
      OBVIOUS
    <3> HIDE DEF Bad
    <3> QED BY <2>1, <3>1, LeastNumber
  <2>3. Ball(q, 0) \subseteq Deep(0)
    <3>1. \A n \in Ball(q, 0) : n = s
      BY BallGrows, FromIsAlike DEF Seed
    <3>2. s \in w.nodes /\ layer[s] = 0
      BY <1>2, <1>3 DEF SeedsFirst, ToSet
    <3> QED BY <3>1, <3>2
  <2>4. k \in Nat /\ k # 0 /\ k <= o.depth
    BY <2>3
  <2>5. k - 1 \in Nat /\ k - 1 < k /\ k - 1 <= o.depth /\ (k - 1) + 1 = k /\ k - 1 < o.depth
    BY <1>1, <2>4
  <2>6. Ball(q, k - 1) \subseteq Deep(k - 1)
    BY <2>2, <2>5
  <2>7. Ball(q, k) = Grown(q, Ball(q, k - 1))
    BY <2>5, BallGrows
  <2>8. ASSUME NEW m \in Ball(q, k) PROVE m \in Deep(k)
    <3>1. CASE m \in Ball(q, k - 1)
      <4>1. m \in w.nodes /\ layer[m] <= k - 1 /\ layer[m] \in Nat
        BY <1>1, <1>2, <2>6, <3>1
      <4> QED BY <2>4, <4>1
    <3>2. CASE m \notin Ball(q, k - 1)
      <4>1. PICK n \in Ball(q, k - 1) : m \in Neighbours(o, n)
        BY <2>7, <2>8, <3>2, FromIsAlike DEF Grown
      <4>2. n \in w.nodes /\ layer[n] <= k - 1 /\ layer[n] \in Nat
        BY <1>1, <1>2, <2>6
      <4>3. layer[n] < o.depth
        BY <1>1, <2>5, <4>2
      <4>4. Settled(o, w.nodes, w.edges, layer, n)
        BY <1>2, <4>2, <4>3
      <4>5. m \in w.nodes /\ layer[m] <= layer[n] + 1
        BY <4>1, <4>4 DEF Settled, Followed, Neighbours
      <4>6. layer[m] \in Nat
        BY <1>1, <1>2, <4>5
      <4> QED BY <2>4, <4>2, <4>5, <4>6
    <3> QED BY <3>1, <3>2
  <2> QED BY <2>2, <2>8
<1>4. NodesAround(o) \subseteq w.nodes
  BY <1>1, <1>3 DEF NodesAround, Around
<1>5. EdgesAround(o) \subseteq w.edges
  <2>1. CASE o.depth = 0
    BY <2>1 DEF EdgesAround
  <2>2. CASE o.depth # 0
    <3>1. o.depth - 1 \in 0..o.depth
      BY <1>1, <2>2
    <3>2. ASSUME NEW n \in Around(o, o.depth - 1), NEW e \in AdjacentEdges(o, n)
          PROVE  e \in w.edges
      <4>1. n \in w.nodes /\ layer[n] <= o.depth - 1
        BY <1>3, <3>1 DEF Around
      <4>2. layer[n] < o.depth
        <5>1. layer[n] \in 0..o.depth
          BY <1>2, <4>1
        <5> QED BY <1>1, <4>1, <5>1
      <4> QED BY <1>2, <4>1, <4>2 DEF Settled, Followed
    <3> QED BY <2>2, <3>2 DEF EdgesAround
  <2> QED BY <2>1, <2>2
<1> QED BY <1>4, <1>5

-----------------------------------------------------------------------------
\* Of finitely many numbers, there is one of each rank.
LEMMA EachRankIsTaken ==
  ASSUME NEW S \in SUBSET Nat, IsFiniteSet(S), NEW r \in 0..Cardinality(S) - 1
  PROVE  \E n \in S : Cardinality({m \in S : m < n}) = r
<1> DEFINE below(n) == {m \in S : m < n}
           c == [n \in S |-> Cardinality(below(n))]
           T == 0..Cardinality(S) - 1
<1>1. Cardinality(S) \in Nat
  BY FS_CardinalityType
<1>2. ASSUME NEW n \in S PROVE c[n] \in T /\ IsFiniteSet(below(n))
  <2>1. below(n) \in SUBSET S /\ below(n) # S
    OBVIOUS
  <2> HIDE DEF below
  <2>2. IsFiniteSet(below(n)) /\ Cardinality(below(n)) <= Cardinality(S)
        /\ Cardinality(below(n)) # Cardinality(S)
    BY <2>1, FS_Subset
  <2>3. Cardinality(below(n)) \in Nat
    BY <2>2, FS_CardinalityType
  <2> QED BY <1>1, <2>2, <2>3
<1>3. ASSUME NEW m \in S, NEW n \in S, m < n PROVE c[m] # c[n]
  <2>1. below(m) \in SUBSET below(n) /\ m \in below(n) /\ m \notin below(m)
    <3>1. m \in Nat /\ n \in Nat /\ \A k \in S : k \in Nat
      OBVIOUS
    <3>2. ~(m < m) /\ \A k \in S : k < m => k < n
      BY <1>3, <3>1
    <3> QED BY <1>3, <3>2
  <2>2. IsFiniteSet(below(n))
    BY <1>2
  <2> HIDE DEF below
  <2>3. Cardinality(below(n)) # Cardinality(below(m))
    BY <2>1, <2>2, FS_Subset
  <2> QED BY <2>3
<1>4. c \in Injection(S, T)
  <2>1. c \in [S -> T]
    BY <1>2
  <2>2. ASSUME NEW m \in S, NEW n \in S, c[m] = c[n] PROVE m = n
    <3>1. m \in Nat /\ n \in Nat /\ ~(m < n) /\ ~(n < m)
      BY <1>3, <2>2
    <3> QED BY <3>1
  <2> HIDE DEF c, T
  <2> QED BY <2>1, <2>2 DEF Injection, IsInjective
<1>5. IsFiniteSet(T) /\ Cardinality(T) = Cardinality(S)
  <2> DEFINE k == Cardinality(S)
  <2>1. 0 \in Int /\ k - 1 \in Int /\ (0 > k - 1 => k = 0) /\ (~(0 > k - 1) => (k - 1) - 0 + 1 = k)
    BY <1>1
  <2> HIDE DEF k
  <2>2. IsFiniteSet(0..k - 1) /\ Cardinality(0..k - 1) = k
    BY <2>1, FS_Interval
  <2> QED BY <2>2 DEF k
<1> HIDE DEF c, T
<1>6. c \in Surjection(S, T)
  BY <1>4, <1>5, FS_Injection
<1>7. PICK n \in S : c[n] = r
  BY <1>6 DEF Surjection, T
<1> QED BY <1>7 DEF c

LEMMA SortedAmong ==
  ASSUME NEW S \in SUBSET Nat, IsFiniteSet(S) PROVE Among(Sorted(S), S)
<1>1. IsSequence(Sorted(S)) /\ Cardinality(S) \in Nat
  BY SortedIsSequence, FS_CardinalityType
<1>2. ASSUME NEW i \in 1..Cardinality(S) PROVE Sorted(S)[i] \in S
  <2>1. i - 1 \in 0..Cardinality(S) - 1
    BY <1>1
  <2>2. \E n \in S : Cardinality({m \in S : m < n}) = i - 1
    BY <2>1, EachRankIsTaken
  <2>3. Sorted(S)[i] = CHOOSE n \in S : Cardinality({m \in S : m < n}) = i - 1
    BY DEF Sorted
  <2> QED BY <2>2, <2>3
<1>3. DOMAIN Sorted(S) = 1..Cardinality(S)
  BY DEF Sorted
<1> QED BY <1>1, <1>2, <1>3 DEF Among

LEMMA CutAmong ==
  ASSUME NEW S, NEW s, Among(s, S), NEW n \in Nat PROVE Among(Cut(s, n), S)
<1> DEFINE k == Least(n, Len(s))
<1>1. IsSequence(s) /\ s \in Seq({s[i] : i \in DOMAIN s}) /\ k \in 0..Len(s)
  BY DEF Among, IsSequence, Least
<1>2. Cut(s, n) = [i \in 1..k |-> s[i]]
  BY <1>1 DEF Cut
<1>3. \A i \in 1..k : i \in DOMAIN s
  BY <1>1
<1>4. IsSequence(Cut(s, n))
  BY <1>1, CutIsShort
<1> QED BY <1>2, <1>3, <1>4 DEF Among

LEMMA JoinedAmong ==
  ASSUME NEW S, NEW s, Among(s, S), NEW t, Among(t, S) PROVE Among(s \o t, S)
<1>1. s \in Seq(S) /\ t \in Seq(S)
  BY DEF Among, IsSequence
<1>2. s \o t \in Seq(S)
  BY <1>1
<1>3. IsSequence(s \o t)
  BY <1>2, TypedIsSequence
<1>4. \A i \in DOMAIN (s \o t) : (s \o t)[i] \in S
  BY <1>2
<1> QED BY <1>3, <1>4 DEF Among

\* What a plan takes for the owners' boundary are its touchpoints and what the walk
\* before found.
LEMMA ScopeAmong ==
  ASSUME BudgetInv, ReachInv, ask # None, 2 \in DOMAIN walks
  PROVE  Among(Scope(ask), (ToSet(Matches(ask)) \cup walks[2].nodes) \cap Nodes)
<1> DEFINE T == (ToSet(Matches(ask)) \cup walks[2].nodes) \cap Nodes
           S == walks[2].nodes \ ToSet(Matches(ask))
           budget == createExecutionBudget(ask)
<1>1. ask \in Asks /\ budget \in Budgets
  BY BudgetsAreNumbers DEF BudgetInv
<1>2. Among(ask.seeds, Nodes)
  BY <1>1, AskAssumption, TypedIsSequence DEF Among
<1>3. Among(Matches(ask), Nodes)
  <2>1. Least(budget.maxEvidence, budget.maxNodes) \in Nat
    BY <1>1 DEF Budgets, Least
  <2> QED BY <1>2, <2>1, CutAmong DEF Matches
<1>4. Among(Matches(ask), T)
  BY <1>3 DEF Among, ToSet
<1>5. S \subseteq Nodes /\ IsFiniteSet(S)
  <2>1. IsFiniteSet(walks[2].nodes)
    BY DEF BudgetInv
  <2>2. ReturnedWithinReach(walks[2]) /\ edges \subseteq Edges
    BY DEF ReachInv
  <2>3. walks[2].nodes \subseteq Nodes
    <3> DEFINE o == walks[2].options
    <3>1. Among(o.seeds, Nodes) /\ o.depth \in Nat /\ walks[2].nodes \subseteq Around(o, o.depth)
      BY <2>2 DEF ReturnedWithinReach, OptionsFit, NodesAround
    <3> HIDE DEF o
    <3>2. Around(o, o.depth) \subseteq Nodes
      BY <2>2, <3>1, AroundGrows
    <3> QED BY <3>1, <3>2
  <2> QED BY <2>1, <2>3, FS_Subset
<1>6. Among(Sorted(S), S)
  BY <1>5, NodeAssumption, SortedAmong
<1>7. Among(Sorted(S), T)
  BY <1>5, <1>6 DEF Among
<1> QED BY <1>4, <1>7, JoinedAmong DEF Scope

\* The seeds of the next walk are nodes.
LEMMA SeedsAreNodes ==
  ASSUME BudgetInv, ReachInv, ask # None, Len(walks) < WalkCount(ask)
  PROVE  Among(WalkOf(ask, Len(walks) + 1).seeds, Nodes)
<1> DEFINE budget == createExecutionBudget(ask)
<1>1. ask \in Asks /\ budget \in Budgets
  BY BudgetsAreNumbers DEF BudgetInv
<1>2. Among(ask.seeds, Nodes)
  BY <1>1, AskAssumption, TypedIsSequence DEF Among
<1>3. Among(Matches(ask), Nodes)
  <2>1. Least(budget.maxEvidence, budget.maxNodes) \in Nat
    BY <1>1 DEF Budgets, Least
  <2> QED BY <1>2, <2>1, CutAmong DEF Matches
<1>4. Len(walks) \in Nat /\ DOMAIN walks = 1..Len(walks)
  BY DEF BudgetInv, IsSequence
<1>5. CASE ask.op = "impact"
  <2>1. Len(walks) + 1 \in 1..3
    BY <1>4, <1>5 DEF WalkCount
  <2>2. WalkOf(ask, Len(walks) + 1) = ImpactWalks(ask)[Len(walks) + 1]
    BY <1>5 DEF WalkOf
  <2>3. ImpactWalks(ask)[Len(walks) + 1].seeds = ask.seeds
    BY <2>1 DEF ImpactWalks, Walking
  <2> QED BY <1>2, <2>2, <2>3
<1>6. CASE ask.op = "plan"
  <2>1. Len(walks) + 1 \in 1..3
    BY <1>4, <1>6 DEF WalkCount
  <2>2. WalkOf(ask, Len(walks) + 1) = PlanWalk(ask, Len(walks) + 1)
    BY <1>6 DEF WalkOf
  <2>3. CASE Len(walks) + 1 \in 1..2
    <3>1. PlanWalk(ask, Len(walks) + 1).seeds = Matches(ask)
      BY <2>3 DEF PlanWalk, Walking
    <3> QED BY <1>3, <2>2, <3>1
  <2>4. CASE Len(walks) + 1 = 3
    <3>1. PlanWalk(ask, 3).seeds = Cut(Scope(ask), budget.maxEvidence)
      BY DEF PlanWalk, Walking
    <3>2. 2 \in DOMAIN walks /\ budget.maxEvidence \in Nat
      BY <1>1, <1>4, <2>4 DEF Budgets
    <3>3. Among(Scope(ask), Nodes)
      BY <3>2, ScopeAmong DEF Among
    <3>4. Among(Cut(Scope(ask), budget.maxEvidence), Nodes)
      BY <3>2, <3>3, CutAmong
    <3> QED BY <2>2, <2>4, <3>1, <3>4
  <2> QED BY <2>1, <2>3, <2>4
<1>7. CASE ask.op = "touchpoints"
  <2>1. WalkOf(ask, Len(walks) + 1).seeds = Cut(ask.seeds, FeatureSeeds)
    BY <1>7 DEF WalkOf, FeatureWalk, Walking
  <2> QED BY <1>2, <2>1, CutAmong, LimitAssumption
<1> QED BY <1>1, <1>5, <1>6, <1>7, AskAssumption

-----------------------------------------------------------------------------
\* A graph does not change, and what was said of a walk still holds.
LEMMA ReachFixed ==
  ASSUME UNCHANGED edges
  PROVE  \A w : /\ WithinReach(w)' <=> WithinReach(w)
                /\ ReturnedWithinReach(w)' <=> ReturnedWithinReach(w)
<1>1. \A o : /\ \A k : Around(o, k)' = Around(o, k)
             /\ \A n : AdjacentEdges(o, n)' = AdjacentEdges(o, n)
             /\ NodesAround(o)' = NodesAround(o) /\ EdgesAround(o)' = EdgesAround(o)
  BY AroundFixed
<1>2. ASSUME NEW w PROVE WithinReach(w)' <=> WithinReach(w)
  BY <1>1 DEF WithinReach, Among, IsSequence, Touching
<1>3. ASSUME NEW w PROVE ReturnedWithinReach(w)' <=> ReturnedWithinReach(w)
  BY <1>1 DEF ReturnedWithinReach, Among, IsSequence, OptionsFit, Touching
<1> QED BY <1>2, <1>3

\* For a step that leaves the walks before alone, it is enough to look at the one
\* under way.
LEMMA ReachOfWalk ==
  ASSUME ReachInv, UNCHANGED <<edges, walks>>,
         NEW w, w = walk', w # None => WithinReach(w)
  PROVE  ReachInv'
<1>1. walk' # None => WithinReach(walk)'
  BY ReachFixed
<1>2. \A i \in DOMAIN walks' : ReturnedWithinReach(walks[i])'
  <2>1. ASSUME NEW i \in DOMAIN walks' PROVE ReturnedWithinReach(walks[i])'
    <3>1. PICK v : v = walks'[i] /\ v = walks[i]
      OBVIOUS
    <3>2. ReturnedWithinReach(v)'
      BY <2>1, <3>1, ReachFixed DEF ReachInv
    <3> QED BY <3>1, <3>2
  <2> QED BY <2>1
<1> QED BY <1>1, <1>2 DEF ReachInv

LEMMA ReachStarts ==
  ASSUME BudgetInv, ReachInv, StartBoundary, UNCHANGED edges PROVE ReachInv'
<1> DEFINE o == WalkOf(ask, Len(walks) + 1)
           seeds == Cut(o.seeds, o.budget.maxNodes)
<1>1. /\ ask # None /\ Len(walks) < WalkCount(ask) /\ UNCHANGED walks
      /\ walk' = [options |-> o, found |-> ToSet(seeds), kept |-> {},
                  queue |-> [i \in DOMAIN seeds |-> [node |-> seeds[i], depth |-> 0]],
                  at |-> None, inside |-> FALSE, left |-> {},
                  cut |-> seeds # o.seeds, over |-> FALSE,
                  reason |-> IF seeds # o.seeds THEN "NODE_BUDGET_EXCEEDED" ELSE "COMPLETE"]
  BY Zenon DEF StartBoundary
<1>2. OptionsFit(o) /\ Among(o.seeds, Nodes)
  BY <1>1, OptionsAreFit, SeedsAreNodes
<1> HIDE DEF o
<1>3. o.depth \in Nat /\ o.budget.maxNodes \in Nat /\ 0 <= o.depth
  BY <1>2 DEF OptionsFit, Budgets
<1>4. Among(seeds, ToSet(o.seeds))
  <2>1. Among(o.seeds, ToSet(o.seeds))
    BY <1>2 DEF Among, ToSet
  <2> QED BY <1>3, <2>1, CutAmong
<1>5. ToSet(seeds) \subseteq Around(o, 0) /\ Around(o, 0) \subseteq Around(o, o.depth)
  <2>1. ToSet(seeds) \subseteq ToSet(o.seeds)
    BY <1>4 DEF Among, ToSet
  <2>2. ToSet(o.seeds) \subseteq Around(o, 0) /\ Around(o, 0) \subseteq Around(o, o.depth)
    BY <1>2, <1>3, AroundGrows DEF ReachInv
  <2> QED BY <2>1, <2>2
<1> HIDE DEF seeds
<1>6. PICK w : w = walk'
  OBVIOUS
<1>7. /\ w.options = o /\ w.found = ToSet(seeds) /\ w.kept = {} /\ ~w.inside
      /\ w.queue = [i \in DOMAIN seeds |-> [node |-> seeds[i], depth |-> 0]]
  BY <1>1, <1>6
<1>8. /\ IsSequence(w.queue)
      /\ \A i \in DOMAIN w.queue :
           /\ w.queue[i].node \in w.found /\ w.queue[i].depth = 0
           /\ w.queue[i].node \in Around(o, 0)
  <2>1. DOMAIN seeds = 1..Len(seeds) /\ Len(seeds) \in Nat
    BY <1>4 DEF Among, IsSequence
  <2>2. IsSequence(w.queue)
    BY <1>7, <2>1, ListIsSequence
  <2> QED BY <1>5, <1>7, <2>2 DEF ToSet
<1>9. WithinReach(w)
  BY <1>2, <1>3, <1>5, <1>7, <1>8 DEF WithinReach, NodesAround
<1> QED BY <1>1, <1>6, <1>9, ReachOfWalk

LEMMA ReachTakes ==
  ASSUME BudgetInv, ReachInv, TakeNode, UNCHANGED edges PROVE ReachInv'
<1> DEFINE current == Shift(walk.queue).node
           taken == [walk EXCEPT !.queue = Shift(walk.queue).rest]
           all == AdjacentEdges(walk.options, current.node)
<1>1. /\ walk # None /\ ~walk.inside /\ walk.queue # <<>> /\ UNCHANGED walks
      /\ \/ walk' = Stopped(walk, "TIME_BUDGET_EXCEEDED")
         \/ walk' = taken
         \/ /\ current.depth < walk.options.depth
            /\ \E some \in kSubset(Least(walk.options.budget.perNodeEdges, Cardinality(all)), all) :
                  walk' = [taken EXCEPT !.at = current, !.inside = TRUE, !.left = some,
                             !.cut = @ \/ some # all,
                             !.reason = IF some # all /\ @ = "COMPLETE"
                                        THEN "EDGE_BUDGET_EXCEEDED" ELSE @]
  BY Zenon DEF TakeNode
<1>2. IsWalk(walk) /\ WithinReach(walk)
  BY <1>1 DEF BudgetInv, BudgetLeft, ReachInv
<1>3. current = Head(walk.queue) /\ Shift(walk.queue).rest = Tail(walk.queue)
  BY DEF Shift
<1>4. PICK w : w = walk'
  OBVIOUS
<1> HIDE DEF current, all
<1>5. /\ w.options = walk.options /\ w.found = walk.found /\ w.kept = walk.kept
      /\ w.queue \in {walk.queue, Tail(walk.queue)}
      /\ \/ ~w.inside
         \/ w.inside /\ w.at = current /\ current.depth < walk.options.depth /\ w.left \subseteq all
  <2>1. CASE walk' = Stopped(walk, "TIME_BUDGET_EXCEEDED")
    BY <1>1, <1>2, <1>4, <2>1 DEF IsWalk, Stopped
  <2>2. CASE walk' = taken
    BY <1>1, <1>2, <1>3, <1>4, <2>2 DEF IsWalk
  <2>3. ASSUME current.depth < walk.options.depth,
               NEW some \in kSubset(Least(walk.options.budget.perNodeEdges, Cardinality(all)), all),
               walk' = [taken EXCEPT !.at = current, !.inside = TRUE, !.left = some,
                          !.cut = @ \/ some # all,
                          !.reason = IF some # all /\ @ = "COMPLETE"
                                     THEN "EDGE_BUDGET_EXCEEDED" ELSE @]
        PROVE  /\ w.options = walk.options /\ w.found = walk.found /\ w.kept = walk.kept
               /\ w.queue = Tail(walk.queue)
               /\ w.inside /\ w.at = current /\ w.left \subseteq all
    <3>1. some \subseteq all
      BY DEF kSubset
    <3>2. walk' = [walk EXCEPT !.queue = Tail(walk.queue), !.at = current, !.inside = TRUE,
                     !.left = some, !.cut = walk.cut \/ some # all,
                     !.reason = IF some # all /\ walk.reason = "COMPLETE"
                                THEN "EDGE_BUDGET_EXCEEDED" ELSE walk.reason]
      BY <1>2, <1>3, <2>3 DEF IsWalk
    <3> QED BY <1>2, <1>4, <3>1, <3>2 DEF IsWalk
  <2> QED BY <1>1, <2>1, <2>2, <2>3
<1>6. /\ Len(walk.queue) \in Nat \ {0} /\ DOMAIN walk.queue = 1..Len(walk.queue)
      /\ current = walk.queue[1] /\ IsSequence(Tail(walk.queue))
      /\ DOMAIN Tail(walk.queue) = 1..(Len(walk.queue) - 1)
      /\ \A i \in 1..(Len(walk.queue) - 1) : Tail(walk.queue)[i] = walk.queue[i + 1]
  BY <1>1, <1>2, <1>3, TailOf DEF WithinReach
<1>7. /\ 1 \in DOMAIN walk.queue
      /\ \A i \in DOMAIN Tail(walk.queue) :
           i + 1 \in DOMAIN walk.queue /\ Tail(walk.queue)[i] = walk.queue[i + 1]
  BY <1>6
<1>8. /\ current.node \in walk.found /\ current.depth \in 0..walk.options.depth
      /\ current.node \in Around(walk.options, current.depth)
  BY <1>2, <1>6, <1>7 DEF WithinReach
<1>9. IsSequence(w.queue) /\ \A i \in DOMAIN w.queue : \E j \in DOMAIN walk.queue :
                                w.queue[i] = walk.queue[j]
  <2>1. CASE w.queue = walk.queue
    BY <1>2, <2>1 DEF WithinReach
  <2>2. CASE w.queue = Tail(walk.queue)
    BY <1>6, <1>7, <2>2
  <2> QED BY <1>5, <2>1, <2>2
<1>10. WithinReach(w)
  BY <1>2, <1>5, <1>8, <1>9 DEF WithinReach, all
<1> QED BY <1>1, <1>4, <1>10, ReachOfWalk

\* What is beyond an edge of a node within some steps is a step further.
LEMMA ReachCrosses ==
  ASSUME BudgetInv, ReachInv, NEW e, CrossEdge(e), UNCHANGED edges PROVE ReachInv'
<1> DEFINE kept == [walk EXCEPT !.kept = @ \cup {e}, !.left = @ \ {e}]
           beyond == NextNodes(walk.options, e, walk.at.node) \ {walk.at.node}
           new == beyond \ walk.found
           o == walk.options
           next == walk.at.depth + 1
<1>1. /\ walk # None /\ walk.inside /\ e \in walk.left /\ UNCHANGED walks
      /\ \/ walk' = Stopped(walk, "TIME_BUDGET_EXCEEDED")
         \/ walk' = Stopped(walk, "EDGE_BUDGET_EXCEEDED")
         \/ walk' = Stopped(kept, "NODE_BUDGET_EXCEEDED")
         \/ walk' = [kept EXCEPT !.found = @ \cup new, !.over = walk.cut,
                       !.queue = @ \o Items(new, walk.at.depth + 1)]
  BY Zenon DEF CrossEdge
<1>2. IsWalk(walk) /\ WithinReach(walk) /\ walk.at.node \in {e.from, e.to} /\ o.depth \in Nat
  BY <1>1 DEF BudgetInv, BudgetLeft, OptionsFit, ReachInv
<1>3. AtMostOne(new)
  <2>1. \A m \in new : beyond = {m}
    BY <1>2, OneBeyond
  <2> QED BY <2>1 DEF AtMostOne
<1>4. /\ Among(o.seeds, Nodes) /\ walk.found \subseteq Around(o, o.depth)
      /\ walk.at.node \in walk.found /\ walk.at.depth \in Nat /\ walk.at.depth < o.depth
      /\ walk.at.node \in Around(o, walk.at.depth)
      /\ walk.left \subseteq AdjacentEdges(o, walk.at.node)
  BY <1>1, <1>2 DEF WithinReach, NodesAround
<1>5. new \subseteq Around(o, next) /\ next \in 0..o.depth
      /\ Around(o, next) \subseteq Around(o, o.depth)
  <2>1. next \in Nat /\ next <= o.depth
    BY <1>2, <1>4
  <2>2. NextNodes(o, e, walk.at.node) \subseteq Around(o, next)
    BY <1>1, <1>4, AroundGrows DEF ReachInv
  <2>3. Around(o, next) \subseteq Around(o, o.depth)
    BY <1>2, <1>4, <2>1, AroundGrows DEF ReachInv
  <2> QED BY <1>2, <2>1, <2>2, <2>3
<1>6. e \in EdgesAround(o)
  <2>1. o.depth - 1 \in Nat /\ walk.at.depth <= o.depth - 1 /\ o.depth # 0
    BY <1>2, <1>4
  <2>2. walk.at.node \in Around(o, o.depth - 1)
    <3>1. Around(o, walk.at.depth) \subseteq Around(o, o.depth - 1)
      BY <1>4, <2>1, AroundGrows DEF ReachInv
    <3> QED BY <1>4, <3>1
  <2> QED BY <1>1, <1>4, <2>1, <2>2 DEF EdgesAround
<1>7. PICK w : w = walk'
  OBVIOUS
<1> HIDE DEF new, beyond
<1>8. kept = [options |-> walk.options, found |-> walk.found, kept |-> walk.kept \cup {e},
              queue |-> walk.queue, at |-> walk.at, inside |-> walk.inside,
              left |-> walk.left \ {e},
              cut |-> walk.cut, over |-> walk.over, reason |-> walk.reason]
  <2> DEFINE more == walk.kept \cup {e}
             fewer == walk.left \ {e}
  <2>1. kept = [walk EXCEPT !.kept = more, !.left = fewer]
    BY Zenon
  <2> HIDE DEF more, fewer, kept
  <2>2. kept = [options |-> walk.options, found |-> walk.found, kept |-> more,
                queue |-> walk.queue, at |-> walk.at, inside |-> walk.inside, left |-> fewer,
                cut |-> walk.cut, over |-> walk.over, reason |-> walk.reason]
    BY <1>2, <2>1 DEF IsWalk
  <2> QED BY <2>2 DEF more, fewer
<1> HIDE DEF kept
<1>9. /\ w.options = o /\ w.inside = walk.inside /\ w.at = walk.at
      /\ w.left \subseteq walk.left /\ w.kept \subseteq walk.kept \cup {e}
      /\ \/ w.found = walk.found /\ w.queue = walk.queue
         \/ w.found = walk.found \cup new /\ w.queue = walk.queue \o Items(new, walk.at.depth + 1)
  <2>1. CASE walk' \in {Stopped(walk, "TIME_BUDGET_EXCEEDED"), Stopped(walk, "EDGE_BUDGET_EXCEEDED")}
    BY <1>2, <1>7, <2>1 DEF IsWalk, Stopped
  <2>2. CASE walk' = Stopped(kept, "NODE_BUDGET_EXCEEDED")
    BY <1>7, <1>8, <2>2 DEF Stopped
  <2>3. CASE walk' = [kept EXCEPT !.found = @ \cup new, !.over = walk.cut,
                        !.queue = @ \o Items(new, walk.at.depth + 1)]
    BY <1>7, <1>8, <2>3
  <2> QED BY <1>1, <2>1, <2>2, <2>3
<1> HIDE DEF next
<1>10. /\ IsSequence(w.queue)
       /\ \A i \in DOMAIN w.queue :
            /\ w.queue[i].node \in w.found /\ w.queue[i].depth \in 0..o.depth
            /\ w.queue[i].node \in Around(o, w.queue[i].depth)
  <2>1. /\ IsSequence(walk.queue)
        /\ \A i \in DOMAIN walk.queue :
             /\ walk.queue[i].node \in walk.found /\ walk.queue[i].depth \in 0..o.depth
             /\ walk.queue[i].node \in Around(o, walk.queue[i].depth)
    BY <1>2 DEF WithinReach
  <2>2. CASE w.found = walk.found /\ w.queue = walk.queue
    BY <2>1, <2>2
  <2>3. CASE w.found = walk.found \cup new /\ w.queue = walk.queue \o Items(new, walk.at.depth + 1)
    <3>1. w.queue = Behind(walk.queue, new, next)
      BY <2>3 DEF Behind, next
    <3>2. WaitsBehind(walk.queue, new, next, Behind(walk.queue, new, next))
      BY <1>3, <2>1, ItemsWait
    <3>3. WaitsBehind(walk.queue, new, next, w.queue)
      BY <3>1, <3>2, Zenon
    <3>4. /\ IsSequence(w.queue)
          /\ \A i \in DOMAIN walk.queue : w.queue[i] = walk.queue[i]
          /\ \A i \in (DOMAIN w.queue) \ DOMAIN walk.queue :
               w.queue[i].node \in new /\ w.queue[i].depth = next
      BY <3>3 DEF WaitsBehind
    <3>5. ASSUME NEW i \in DOMAIN w.queue
          PROVE  /\ w.queue[i].node \in w.found /\ w.queue[i].depth \in 0..o.depth
                 /\ w.queue[i].node \in Around(o, w.queue[i].depth)
      <4>1. CASE i \in DOMAIN walk.queue
        BY <2>1, <2>3, <3>4, <4>1
      <4>2. CASE i \notin DOMAIN walk.queue
        BY <1>5, <2>3, <3>4, <3>5, <4>2
      <4> QED BY <4>1, <4>2
    <3> QED BY <3>4, <3>5
  <2> QED BY <1>9, <2>2, <2>3
<1>11. walk.found \subseteq w.found /\ w.found \subseteq Around(o, o.depth)
  BY <1>4, <1>5, <1>9
<1>12. w.kept \subseteq Touching(EdgesAround(o), w.found)
  <2>1. e.from \in w.found \/ e.to \in w.found
    BY <1>2, <1>4, <1>11
  <2> QED BY <1>2, <1>6, <1>9, <1>11, <2>1 DEF WithinReach, Touching
<1>13. WithinReach(w)
  BY <1>1, <1>4, <1>9, <1>10, <1>11, <1>12 DEF WithinReach, NodesAround
<1> QED BY <1>1, <1>7, <1>13, ReachOfWalk

LEMMA ReachEndsNode ==
  ASSUME BudgetInv, ReachInv, EndNode, UNCHANGED edges PROVE ReachInv'
<1>1. /\ walk # None /\ UNCHANGED walks
      /\ walk' = [walk EXCEPT !.at = None, !.inside = FALSE, !.over = walk.cut]
  BY Zenon DEF EndNode
<1>2. IsWalk(walk) /\ WithinReach(walk)
  BY <1>1 DEF BudgetInv, BudgetLeft, ReachInv
<1>3. PICK w : w = walk'
  OBVIOUS
<1>4. /\ w.options = walk.options /\ w.found = walk.found /\ w.kept = walk.kept
      /\ w.queue = walk.queue /\ ~w.inside
  BY <1>1, <1>2, <1>3 DEF IsWalk
<1>5. WithinReach(w)
  BY <1>2, <1>4 DEF WithinReach
<1> QED BY <1>1, <1>3, <1>5, ReachOfWalk

LEMMA ReachEndsBoundary ==
  ASSUME BudgetInv, ReachInv, EndBoundary, UNCHANGED edges PROVE ReachInv'
<1> DEFINE w == [options |-> walk.options, nodes |-> walk.found, edges |-> walk.kept,
                 cut |-> walk.cut, reason |-> walk.reason]
<1>1. walk # None /\ walk' = None /\ walks' = Append(walks, w)
  BY DEF EndBoundary
<1>2. WithinReach(walk) /\ OptionsFit(walk.options)
  BY <1>1 DEF ReachInv, BudgetInv, BudgetLeft
<1>3. ReturnedWithinReach(w)
  BY <1>2 DEF ReturnedWithinReach, WithinReach
<1> HIDE DEF w
<1>4. /\ DOMAIN walks' = (DOMAIN walks) \cup {Len(walks) + 1}
      /\ \A i \in DOMAIN walks' : walks'[i] = IF i \in DOMAIN walks THEN walks[i] ELSE w
  <2> DEFINE S == {walks[i] : i \in DOMAIN walks} \cup {w}
  <2>1. walks \in Seq(S) /\ w \in S
    BY DEF BudgetInv, IsSequence
  <2> QED BY <1>1, <2>1
<1>5. ASSUME NEW i \in DOMAIN walks' PROVE ReturnedWithinReach(walks[i])'
  <2>1. PICK v : v = walks'[i]
    OBVIOUS
  <2>2. ReturnedWithinReach(v)
    BY <1>3, <1>4, <2>1 DEF ReachInv
  <2>3. ReturnedWithinReach(v)'
    BY <2>2, ReachFixed
  <2> QED BY <2>1, <2>3
<1> QED BY <1>1, <1>5 DEF ReachInv

LEMMA ReachInvKept ==
  ASSUME BudgetInv, ReachInv, [EngineNext]_allVars PROVE ReachInv'
<1>1. UNCHANGED edges
  <2>1. CASE Next
    BY <2>1 DEF Next, Hit, Execute, Step, Remember, Return, Clear
  <2>2. CASE UNCHANGED vars
    BY <2>2 DEF vars
  <2>3. CASE AskCapability
    BY <2>3 DEF AskCapability, vars
  <2> QED BY <2>1, <2>2, <2>3 DEF EngineNext, allVars
<1>2. CASE ask = None /\ UNCHANGED capabilityVars
  <2>1. walk' = None /\ walks' = <<>>
    BY <1>2 DEF BudgetInv, capabilityVars
  <2> QED BY <1>1, <2>1 DEF ReachInv
<1>3. CASE UNCHANGED <<walk, walks>>
  <2>1. PICK w : w = walk'
    OBVIOUS
  <2>2. w # None => WithinReach(w)
    BY <1>3, <2>1 DEF ReachInv
  <2> QED BY <1>1, <1>3, <2>1, <2>2, ReachOfWalk
<1>4. CASE CapabilityStep
  <2>1. CASE Report
    BY <1>3, <2>1 DEF Report
  <2>2. CASE Deliver
    <3>1. walk' = None /\ walks' = <<>>
      BY <2>2 DEF Deliver, BudgetInv
    <3> QED BY <1>1, <3>1 DEF ReachInv
  <2> QED
    BY <1>1, <1>4, <2>1, <2>2,
       ReachStarts, ReachTakes, ReachCrosses, ReachEndsNode, ReachEndsBoundary
    DEF CapabilityStep
<1>5. CASE AskCapability
  BY <1>3, <1>5 DEF AskCapability, Ask
<1> QED BY <1>2, <1>3, <1>4, <1>5 DEF EngineNext, allVars, capabilityVars

-----------------------------------------------------------------------------
(***************************************************************************)
(* Reports.                                                                *)
(***************************************************************************)
ReportHonest(r) ==
  /\ r.partial = FALSE => \A i \in DOMAIN walks :
       /\ NodesAround(walks[i].options) \subseteq r.nodes
       /\ EdgesAround(walks[i].options) \subseteq r.edges
  /\ Touching(r.edges, r.nodes) = r.edges
  /\ ask.op = "impact" => Cardinality(r.nodes) <= Settings[ask.mode].nodeLimit
  /\ ask.op = "plan" =>
       /\ Cardinality(r.nodes) <= createExecutionBudget(ask).maxNodes
       /\ r.partial <=> r.reason # "COMPLETE"

\* What a walk returned is around its seeds, and all of it unless it was cut.
LEMMA WalksReachTheirDepth ==
  ASSUME LayerInv, ReachInv, NEW i \in DOMAIN walks
  PROVE  ReachesItsDepth(walks[i])
<1>1. ReturnedWithinReach(walks[i])
  BY DEF ReachInv
<1>2. ~walks[i].cut => InLayers(walks[i])
  BY InLayersAlike DEF LayerInv
<1>3. ~walks[i].cut => /\ NodesAround(walks[i].options) \subseteq walks[i].nodes
                       /\ EdgesAround(walks[i].options) \subseteq walks[i].edges
  BY <1>1, <1>2, LayersHoldAll DEF ReturnedWithinReach
<1> QED BY <1>1, <1>3 DEF ReachesItsDepth, ReturnedWithinReach, Touching

\* If a walk was cut, the first that was says why.
LEMMA FirstReasonIsOne ==
  ASSUME BudgetInv, CutWalks # {} PROVE FirstReason # "COMPLETE"
<1>1. DOMAIN walks = 1..Len(walks) /\ Len(walks) \in Nat
  BY DEF BudgetInv, IsSequence
<1>2. CutWalks \in SUBSET Nat
  BY <1>1 DEF CutWalks
<1>3. PICK i \in CutWalks : \A j \in Nat : j < i => j \notin CutWalks
  BY <1>2, LeastNumber
<1>4. IsFirst(i, CutWalks)
  <2>1. \A j \in CutWalks : i \in Nat /\ j \in Nat /\ ~(j < i)
    BY <1>2, <1>3
  <2>2. \A j \in CutWalks : i <= j
    BY <2>1
  <2> QED BY <2>2 DEF IsFirst
<1>5. First(CutWalks) \in CutWalks
  BY <1>4 DEF First
<1> QED BY <1>5 DEF CutWalks, FirstReason, BudgetInv, BudgetsAreKept, WithinBudgets

\* Nothing is missing where no walk was cut and all they found is there.
LEMMA AllIsThere ==
  ASSUME LayerInv, ReachInv, CutWalks = {}, NEW N, NEW E,
         \A i \in DOMAIN walks : walks[i].nodes \subseteq N /\ walks[i].edges \subseteq E
  PROVE  \A i \in DOMAIN walks : /\ NodesAround(walks[i].options) \subseteq N
                                 /\ EdgesAround(walks[i].options) \subseteq E
<1>1. \A i \in DOMAIN walks : ~walks[i].cut
  BY DEF CutWalks
<1>2. \A i \in DOMAIN walks : ReachesItsDepth(walks[i])
  BY WalksReachTheirDepth
<1> QED BY <1>1, <1>2 DEF ReachesItsDepth

LEMMA LimitedTouch ==
  ASSUME NEW A, NEW N, NEW limit, NEW E \in Limited(Touching(A, N), limit)
  PROVE  Touching(E, N) = E
  BY DEF Limited, kSubset, Touching

LEMMA ImpactIsHonest ==
  ASSUME LayerInv, ReachInv, ask # None, ask.op = "impact", NEW r \in ImpactReports
  PROVE  ReportHonest(r)
<1> DEFINE limit == Settings[ask.mode].nodeLimit
           all == AllNodes(walks)
           s == ask.seeds \o Sorted(all \ ToSet(ask.seeds))
           nodes == ToSet(Cut(s, limit))
           partial(E) == CutWalks # {} \/ nodes # all \/ E # AllEdges(walks)
<1>1. PICK E \in Limited(Touching(AllEdges(walks), nodes), Settings[ask.mode].edgeLimit) :
         r = [nodes |-> nodes, edges |-> E, partial |-> partial(E),
              reason |-> IF CutWalks # {} THEN FirstReason ELSE "COMPLETE"]
  BY DEF ImpactReports
<1>2. ask \in Asks /\ limit \in Nat
  BY AskAssumption, LimitAssumption DEF LayerInv, BudgetInv
<1>3. Touching(E, nodes) = E
  <2> HIDE DEF nodes
  <2> QED BY <1>1, LimitedTouch
<1>4. Cardinality(nodes) <= limit
  <2>1. IsFiniteSet(all)
    <3>1. IsFiniteSet({walks[i].nodes : i \in DOMAIN walks})
      <4> DEFINE f == [i \in DOMAIN walks |-> walks[i].nodes]
      <4>1. DOMAIN walks = 1..Len(walks) /\ Len(walks) \in Nat
        BY DEF LayerInv, BudgetInv, IsSequence
      <4>2. IsFiniteSet(DOMAIN walks)
        BY <4>1, FS_Interval
      <4>3. f \in Surjection(DOMAIN walks, {walks[i].nodes : i \in DOMAIN walks})
        BY DEF Surjection
      <4> QED BY <4>2, <4>3, FS_Surjection
    <3>2. \A T \in {walks[i].nodes : i \in DOMAIN walks} : IsFiniteSet(T)
      BY DEF LayerInv, BudgetInv
    <3> QED BY <3>1, <3>2, FS_UNION DEF AllNodes
  <2>2. IsFiniteSet(all \ ToSet(ask.seeds))
    BY <2>1, FS_Subset
  <2> HIDE DEF all
  <2>3. IsSequence(ask.seeds)
    BY <1>2, AskAssumption, TypedIsSequence
  <2>4. IsSequence(s)
    BY <2>2, <2>3, SortedIsSequence, JoinedIsSequence
  <2> HIDE DEF s, limit
  <2>5. IsSequence(Cut(s, limit)) /\ Len(Cut(s, limit)) \in 0..limit
    BY <1>2, <2>4, CutIsShort
  <2>6. IsFiniteSet(nodes) /\ Cardinality(nodes) <= Len(Cut(s, limit))
    BY <2>5, SeedsAreFew
  <2>7. Cardinality(nodes) \in Nat
    BY <2>6, FS_CardinalityType
  <2> QED BY <1>2, <2>5, <2>6, <2>7
<1>5. ASSUME r.partial = FALSE
      PROVE  \A i \in DOMAIN walks : /\ NodesAround(walks[i].options) \subseteq nodes
                                     /\ EdgesAround(walks[i].options) \subseteq E
  <2> HIDE DEF nodes, all
  <2>1. CutWalks = {} /\ nodes = all /\ E = AllEdges(walks)
    BY <1>1, <1>5
  <2>2. \A i \in DOMAIN walks : walks[i].nodes \subseteq nodes /\ walks[i].edges \subseteq E
    BY <2>1 DEF all, AllNodes, AllEdges
  <2> QED BY <2>1, <2>2, AllIsThere
<1> HIDE DEF nodes
<1>6. r.nodes = nodes /\ r.edges = E
  BY <1>1
<1> QED BY <1>3, <1>4, <1>5, <1>6 DEF ReportHonest

LEMMA PlanIsHonest ==
  ASSUME LayerInv, ReachInv, ask # None, ask.op = "plan", Len(walks) = WalkCount(ask),
         NEW r \in PlanReports
  PROVE  ReportHonest(r)
<1> DEFINE budget == createExecutionBudget(ask)
           matches == ToSet(Matches(ask))
           all == matches \cup AllNodes(<<walks[1], walks[2]>>)
                     \cup (walks[3].nodes \ ToSet(Scope(ask)))
           packCut == \/ Cardinality(all) > Least(PackNodes, budget.maxEvidence)
                      \/ Cardinality(AllEdges(walks)) > Least(PackEdges, budget.maxEdges)
           others == Least(budget.maxNodes, Cardinality(all)) - Cardinality(matches)
           Reason(E) == CASE CutWalks # {} -> FirstReason
                          [] CutWalks = {} /\ ~packCut /\ E # AllEdges(walks) -> "EDGE_BUDGET_EXCEEDED"
                          [] OTHER -> "NODE_BUDGET_EXCEEDED"
           Partial(N, E) == CutWalks # {} \/ packCut \/ N # all \/ E # AllEdges(walks)
<1>1. PICK N \in {matches \cup S : S \in kSubset(others, all \ matches)} :
        \E E \in Limited(Touching(AllEdges(walks), N), budget.maxEdges) :
          r = [nodes |-> N, edges |-> E, partial |-> Partial(N, E),
               reason |-> IF Partial(N, E) THEN Reason(E) ELSE "COMPLETE"]
  BY DEF PlanReports
<1>2. PICK E \in Limited(Touching(AllEdges(walks), N), budget.maxEdges) :
          r = [nodes |-> N, edges |-> E, partial |-> Partial(N, E),
               reason |-> IF Partial(N, E) THEN Reason(E) ELSE "COMPLETE"]
  BY <1>1
<1>3. PICK S \in kSubset(others, all \ matches) : N = matches \cup S
  BY <1>1
<1>4. /\ BudgetInv /\ ask \in Asks /\ budget \in Budgets /\ Len(walks) = 3
      /\ DOMAIN walks = 1..3
  BY BudgetsAreNumbers DEF LayerInv, BudgetInv, IsSequence, WalkCount
<1>5. Touching(E, N) = E
  BY <1>2, LimitedTouch
<1>6. r.partial <=> r.reason # "COMPLETE"
  <2>1. Reason(E) # "COMPLETE"
    BY <1>4, FirstReasonIsOne
  <2> HIDE DEF Reason, Partial
  <2>2. r.partial = Partial(N, E) /\ r.reason = IF Partial(N, E) THEN Reason(E) ELSE "COMPLETE"
    BY <1>2
  <2> QED BY <2>1, <2>2
<1>7. Cardinality(N) <= budget.maxNodes
  <2>1. IsSequence(ask.seeds) /\ Least(budget.maxEvidence, budget.maxNodes) \in 0..budget.maxNodes
        /\ budget.maxNodes \in Nat
    BY <1>4, AskAssumption, TypedIsSequence DEF Budgets, Least
  <2>2. IsSequence(Matches(ask)) /\ Len(Matches(ask)) \in 0..budget.maxNodes
    <3>1. IsSequence(Matches(ask))
          /\ Len(Matches(ask)) \in 0..Least(budget.maxEvidence, budget.maxNodes)
      BY <2>1, CutIsShort DEF Matches
    <3> QED BY <2>1, <3>1
  <2>3. IsFiniteSet(matches) /\ Cardinality(matches) \in Nat /\ Cardinality(matches) <= budget.maxNodes
    <3>1. IsFiniteSet(matches) /\ Cardinality(matches) <= Len(Matches(ask))
      BY <2>2, SeedsAreFew
    <3>2. Cardinality(matches) \in Nat
      BY <3>1, FS_CardinalityType
    <3> QED BY <2>1, <2>2, <3>1, <3>2
  <2>4. IsFiniteSet(all)
    <3>1. \A i \in 1..3 : IsFiniteSet(walks[i].nodes)
      BY <1>4 DEF BudgetInv
    <3>2. AllNodes(<<walks[1], walks[2]>>) = walks[1].nodes \cup walks[2].nodes
      <4> DEFINE t == <<walks[1], walks[2]>>
      <4>1. DOMAIN t = {1, 2} /\ t[1] = walks[1] /\ t[2] = walks[2]
        OBVIOUS
      <4> HIDE DEF t
      <4>2. UNION {t[i].nodes : i \in DOMAIN t} = t[1].nodes \cup t[2].nodes
        BY <4>1
      <4> QED BY <4>1, <4>2 DEF AllNodes, t
    <3>3. IsFiniteSet(walks[3].nodes \ ToSet(Scope(ask)))
      BY <3>1, FS_Subset
    <3>4. IsFiniteSet(walks[1].nodes \cup walks[2].nodes)
      <4>1. 1 \in 1..3 /\ 2 \in 1..3
        OBVIOUS
      <4>2. IsFiniteSet(walks[1].nodes) /\ IsFiniteSet(walks[2].nodes)
        BY <3>1, <4>1
      <4> QED BY <4>2, FS_Union, Zenon
    <3>5. IsFiniteSet(matches \cup (walks[1].nodes \cup walks[2].nodes))
      BY <2>3, <3>4, FS_Union
    <3>6. IsFiniteSet((matches \cup (walks[1].nodes \cup walks[2].nodes))
                        \cup (walks[3].nodes \ ToSet(Scope(ask))))
      BY <3>3, <3>5, FS_Union
    <3> HIDE DEF matches
    <3> QED BY <3>2, <3>6
  <2>5. matches \subseteq all
    OBVIOUS
  <2> HIDE DEF all, matches
  <2>6. IsFiniteSet(S) /\ Cardinality(S) = others
    <3>1. S \subseteq all /\ Cardinality(S) = others
      BY <1>3 DEF kSubset
    <3> QED BY <2>4, <3>1, FS_Subset
  <2>7. Cardinality(S) \in Nat
    BY <2>6, FS_CardinalityType
  <2>8. Cardinality(N) = Cardinality(matches) + Cardinality(S) - Cardinality(matches \cap S)
    BY <1>3, <2>3, <2>6, FS_Union
  <2>9. Cardinality(matches \cap S) \in Nat
    BY <2>3, FS_Intersection, FS_CardinalityType
  <2>10. Cardinality(all) \in Nat
    BY <2>4, FS_CardinalityType
  <2>11. Cardinality(matches) + Cardinality(S) <= budget.maxNodes
    BY <2>1, <2>3, <2>6, <2>7, <2>10 DEF Least
  <2> QED BY <2>1, <2>3, <2>7, <2>8, <2>9, <2>11
<1>8. ASSUME r.partial = FALSE
      PROVE  \A i \in DOMAIN walks : /\ NodesAround(walks[i].options) \subseteq N
                                     /\ EdgesAround(walks[i].options) \subseteq E
  <2>1. CutWalks = {} /\ N = all /\ E = AllEdges(walks)
    <3> HIDE DEF all, packCut
    <3> QED BY <1>2, <1>8
  <2>2. ASSUME NEW i \in DOMAIN walks PROVE walks[i].nodes \subseteq N
    <3>1. walks[1].nodes \subseteq AllNodes(<<walks[1], walks[2]>>)
          /\ walks[2].nodes \subseteq AllNodes(<<walks[1], walks[2]>>)
      <4> DEFINE t == <<walks[1], walks[2]>>
      <4>1. 1 \in DOMAIN t /\ 2 \in DOMAIN t /\ t[1] = walks[1] /\ t[2] = walks[2]
        OBVIOUS
      <4> HIDE DEF t
      <4>2. t[1].nodes \subseteq AllNodes(t) /\ t[2].nodes \subseteq AllNodes(t)
        BY <4>1 DEF AllNodes
      <4> QED BY <4>1, <4>2 DEF t
    <3>2. ToSet(Scope(ask)) \subseteq matches \cup walks[2].nodes
      <4>1. 2 \in DOMAIN walks
        BY <1>4
      <4>2. Among(Scope(ask), (ToSet(Matches(ask)) \cup walks[2].nodes) \cap Nodes)
        BY <1>4, <4>1, ScopeAmong
      <4> QED BY <4>2 DEF Among, ToSet
    <3>3. i = 1 \/ i = 2 \/ i = 3
      BY <1>4
    <3> HIDE DEF matches
    <3> QED BY <2>1, <3>1, <3>2, <3>3
  <2>3. \A i \in DOMAIN walks : walks[i].edges \subseteq E
    BY <2>1 DEF AllEdges
  <2> QED BY <2>1, <2>2, <2>3, AllIsThere
<1> HIDE DEF budget, Partial, Reason, all, matches
<1>9. r.nodes = N /\ r.edges = E
  BY <1>2
<1> QED BY <1>5, <1>6, <1>7, <1>8, <1>9 DEF ReportHonest, budget

LEMMA FeaturesAreHonest ==
  ASSUME LayerInv, ReachInv, ask # None, ask.op = "touchpoints", Len(walks) = WalkCount(ask),
         NEW r \in FeatureReports
  PROVE  ReportHonest(r)
<1>1. /\ r.nodes = ToSet(ask.seeds) \cup walks[1].nodes /\ r.edges = walks[1].edges
      /\ r.partial = Undefined
  BY DEF FeatureReports
<1>2. r.partial # FALSE
  BY <1>1, AskAssumption
<1>3. ReturnedWithinReach(walks[1])
  BY DEF LayerInv, BudgetInv, IsSequence, ReachInv, WalkCount
<1>4. Touching(r.edges, r.nodes) = r.edges
  BY <1>1, <1>3 DEF ReturnedWithinReach, Touching
<1> QED BY <1>2, <1>4 DEF ReportHonest

LEMMA ReportIsHonest ==
  ASSUME LayerInv, ReachInv, Report PROVE ReportHonest(report')
<1>1. ask # None /\ Len(walks) = WalkCount(ask) /\ ask \in Asks
  BY DEF Report, LayerInv, BudgetInv
<1>2. CASE ask.op = "impact" /\ ask.seeds = <<>>
  <2>1. report' \in NoTarget
    BY <1>2 DEF Report
  <2>2. report'.nodes = {} /\ report'.edges = {} /\ report'.partial = Undefined
    BY <2>1 DEF NoTarget
  <2>3. report'.partial # FALSE
    BY <2>2, AskAssumption
  <2>4. Touching(report'.edges, report'.nodes) = report'.edges
    BY <2>2 DEF Touching
  <2>5. Cardinality(report'.nodes) <= Settings[ask.mode].nodeLimit
    <3>1. Settings[ask.mode].nodeLimit \in Nat
      BY <1>1, <1>2, AskAssumption, LimitAssumption
    <3>2. Cardinality(report'.nodes) = 0
      BY <2>2, FS_EmptySet
    <3> QED BY <3>1, <3>2
  <2> QED BY <1>2, <2>3, <2>4, <2>5 DEF ReportHonest
<1>3. CASE ask.op = "impact" /\ ask.seeds # <<>>
  <2>1. report' \in ImpactReports
    BY <1>3 DEF Report
  <2> QED BY <1>1, <1>3, <2>1, ImpactIsHonest
<1>4. CASE ask.op = "plan"
  <2>1. report' \in PlanReports
    BY <1>4 DEF Report
  <2> QED BY <1>1, <1>4, <2>1, PlanIsHonest
<1>5. CASE ask.op = "touchpoints"
  <2>1. report' \in FeatureReports
    BY <1>5 DEF Report
  <2> QED BY <1>1, <1>5, <2>1, FeaturesAreHonest
<1> QED BY <1>1, <1>2, <1>3, <1>4, <1>5, AskAssumption

\* A report stays as it is until it is delivered.
LEMMA ReportStays ==
  ASSUME UNCHANGED <<edges, ask, walks>>
  PROVE  \A r : ReportHonest(r)' <=> ReportHonest(r)
<1>1. \A o : NodesAround(o)' = NodesAround(o) /\ EdgesAround(o)' = EdgesAround(o)
  BY AroundFixed
<1>2. createExecutionBudget(ask)' = createExecutionBudget(ask)
  BY DEF createExecutionBudget, DefaultBudget, readNumberLimit, readDepth
<1>3. ASSUME NEW r PROVE ReportHonest(r)' <=> ReportHonest(r)
  <2> DEFINE Whole == \A i \in DOMAIN walks :
                        /\ NodesAround(walks[i].options) \subseteq r.nodes
                        /\ EdgesAround(walks[i].options) \subseteq r.edges
  <2>1. Whole' <=> Whole
    <3>1. ASSUME NEW i \in DOMAIN walks
          PROVE  /\ NodesAround(walks[i].options)' = NodesAround(walks[i].options)
                 /\ EdgesAround(walks[i].options)' = EdgesAround(walks[i].options)
      <4>1. PICK o : o = walks[i].options /\ o = walks'[i].options
        OBVIOUS
      <4> QED BY <1>1, <4>1
    <3> QED BY <3>1
  <2> HIDE DEF Whole
  <2>2. ReportHonest(r) <=>
          /\ r.partial = FALSE => Whole
          /\ Touching(r.edges, r.nodes) = r.edges
          /\ ask.op = "impact" => Cardinality(r.nodes) <= Settings[ask.mode].nodeLimit
          /\ ask.op = "plan" =>
               /\ Cardinality(r.nodes) <= createExecutionBudget(ask).maxNodes
               /\ r.partial <=> r.reason # "COMPLETE"
    BY DEF ReportHonest, Whole
  <2>3. ReportHonest(r)' <=>
          /\ r.partial = FALSE => Whole'
          /\ Touching(r.edges, r.nodes) = r.edges
          /\ ask.op = "impact" => Cardinality(r.nodes) <= Settings[ask.mode].nodeLimit
          /\ ask.op = "plan" =>
               /\ Cardinality(r.nodes) <= createExecutionBudget(ask)'.maxNodes
               /\ r.partial <=> r.reason # "COMPLETE"
    BY DEF ReportHonest, Whole, Touching
  <2> QED BY <1>2, <2>1, <2>2, <2>3
<1> QED BY <1>3

ReportInv == report # None => ReportHonest(report)

LEMMA ReportInvKept ==
  ASSUME LayerInv, ReachInv, ReportInv, [EngineNext]_allVars PROVE ReportInv'
<1>1. CASE Report /\ UNCHANGED vars
  <2>1. UNCHANGED <<edges, ask, walks>>
    BY <1>1 DEF Report, vars
  <2>2. PICK r : r = report'
    OBVIOUS
  <2>3. ReportHonest(r)'
    BY <1>1, <2>1, <2>2, ReportIsHonest, ReportStays
  <2> QED BY <2>2, <2>3 DEF ReportInv
<1>2. CASE report' = None
  BY <1>2 DEF ReportInv
<1>3. CASE UNCHANGED <<edges, ask, walks, report>>
  <2>1. PICK r : r = report /\ r = report'
    BY <1>3
  <2>2. report # None => ReportHonest(r)'
    BY <1>3, <2>1, ReportStays DEF ReportInv
  <2> QED BY <1>3, <2>1, <2>2 DEF ReportInv
<1>4. CASE Next /\ ask = None /\ UNCHANGED capabilityVars
  BY <1>2, <1>4 DEF LayerInv, BudgetInv, capabilityVars
<1>5. CASE AskCapability
  BY <1>2, <1>5 DEF AskCapability, Ask, LayerInv, BudgetInv
<1>6. CASE CapabilityStep /\ ~Report
  <2>1. CASE Deliver
    BY <1>2, <2>1 DEF Deliver
  <2>2. CASE ~Deliver
    <3>1. walk # None \/ StartBoundary
      BY <1>6, <2>2 DEF CapabilityStep, TakeNode, EndNode, EndBoundary
    <3>2. report = None
      <4>1. CASE StartBoundary
        <5>1. Len(walks) < WalkCount(ask) /\ Len(walks) \in Nat
          BY <4>1 DEF StartBoundary, LayerInv, BudgetInv, IsSequence
        <5> QED BY <5>1 DEF LayerInv, BudgetInv
      <4>2. CASE walk # None
        BY <4>2 DEF LayerInv, BudgetInv
      <4> QED BY <3>1, <4>1, <4>2
    <3>3. report' = report
      BY <1>6, <2>2
         DEF CapabilityStep, StartBoundary, TakeNode, EndNode, EndBoundary, CrossEdge
    <3> QED BY <1>2, <3>2, <3>3
  <2> QED BY <2>1, <2>2
<1>7. CASE UNCHANGED allVars
  BY <1>3, <1>7 DEF allVars, vars, capabilityVars
<1> QED BY <1>1, <1>4, <1>5, <1>6, <1>7 DEF EngineNext

\* A capability reports honestly, whatever the graph, the call and the clock: its
\* walks keep their budgets and return nothing beyond their depth, and all of it
\* unless they say they were cut; and a report that does not call itself partial has
\* everything they were about.
THEOREM CapabilitiesAreHonest == EngineSpec => []ReportsAreHonest
<1>1. EngineInit => LayerInv /\ ReachInv /\ ReportInv
  <2>1. EngineInit => BudgetInv
    BY DEF EngineInit, NoCapability, BudgetInv, BudgetsAreKept, IsSequence
  <2>2. EngineInit => edges \subseteq Edges
    BY GraphAssumption DEF EngineInit, Init
  <2> QED BY <2>1, <2>2 DEF EngineInit, NoCapability, LayerInv, ReachInv, ReportInv
<1>2. LayerInv /\ ReachInv /\ ReportInv /\ [EngineNext]_allVars
        => LayerInv' /\ ReachInv' /\ ReportInv'
  <2>1. LayerInv => BudgetInv
    BY DEF LayerInv
  <2> QED BY <2>1, LayerInvKept, ReachInvKept, ReportInvKept
<1>3. LayerInv /\ ReachInv /\ ReportInv => ReportsAreHonest
  <2> SUFFICES ASSUME LayerInv, ReachInv, ReportInv PROVE ReportsAreHonest
    OBVIOUS
  <2>1. \A i \in DOMAIN walks : WithinBudgets(walks[i]) /\ ReachesItsDepth(walks[i])
    BY WalksReachTheirDepth DEF LayerInv, BudgetInv, BudgetsAreKept
  <2> QED BY <2>1 DEF ReportInv, ReportHonest, ReportsAreHonest
<1> QED BY <1>1, <1>2, <1>3, PTL DEF EngineSpec
=============================================================================
