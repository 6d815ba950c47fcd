------------------------- MODULE QueryEngineProofs -------------------------
(***************************************************************************)
(* Proofs about the answers of the query engine, on every graph and for    *)
(* every set of queries, whether the answer is computed or comes from the  *)
(* cache: an unbounded walk finds what is reachable and a bounded one what *)
(* is within its depth, connectedComponents partitions the nodes by        *)
(* undirected reachability, a path is one, topologicalSort and             *)
(* detectCycles tell the truth, and the longest call chain is one.         *)
(***************************************************************************)
EXTENDS QueryEngineProperties, FiniteSetTheorems, WellFoundedInduction, TLAPS

USE DEF walkVars, searchVars, orderVars, chainVars, algorithms

-----------------------------------------------------------------------------
\* A graph does not change, and what is defined of it neither.
LEMMA GraphFixed ==
  ASSUME UNCHANGED edges, NEW q
  PROVE  /\ \A n : Neighbours(q, n)' = Neighbours(q, n)
         /\ \A S : ClosedUnder(q, S)' <=> ClosedUnder(q, S)
         /\ Reached(q)' = Reached(q)
<1>1. ASSUME NEW n PROVE Neighbours(q, n)' = Neighbours(q, n)
  BY DEF Neighbours, AdjacentEdges, NextNodes, Considered
<1>2. ASSUME NEW S PROVE ClosedUnder(q, S)' <=> ClosedUnder(q, S)
  BY <1>1 DEF ClosedUnder, Admits, Allowed
<1>3. Reached(q)' = Reached(q)
  BY <1>2 DEF Reached
<1> QED BY <1>1, <1>2, <1>3

\* The key of a query that is cached tells it from every other such query.
LEMMA KeyTellsApart ==
  ASSUME NoEmptyLists, NEW q \in Queries, NEW r \in Queries,
         q.op = "walk", Cacheable(q), Cacheable(r), Key(q) = Key(r)
  PROVE  q = r
<1> USE QueryAssumption
<1>1. /\ q.op = r.op /\ q.start = r.start /\ q.target = r.target
      /\ q.direction = r.direction /\ q.strategy = r.strategy
      /\ q.depth = r.depth /\ Listed(q.nodeTypes) = Listed(r.nodeTypes)
      /\ Listed(q.relationships) = Listed(r.relationships)
  BY DEF Key
<1>2. q.relationships = r.relationships /\ q.nodeTypes = r.nodeTypes
  BY <1>1 DEF Listed, NoEmptyLists
<1>3. q.predicate = r.predicate
  BY <1>1 DEF Cacheable
<1> QED BY <1>1, <1>2, <1>3

LEMMA WalkInit == Init => WalkInv
BY GraphAssumption, SentinelAssumption
   DEF Init, WalkInv, WalkTypes, WalkPhases, WalkProgress, WalkAnswered,
       WalkRemembered, NoWalk

-----------------------------------------------------------------------------
\* Every step but Remember and Clear leaves the cache as it is.
LEMMA MemoStays ==
  ASSUME WalkRemembered, UNCHANGED <<edges, memo>>
  PROVE  WalkRemembered'
<1>1. ASSUME NEW m \in memo', NEW q \in Queries,
             q.op = "walk", q.depth = Infinity, Cacheable(q), m.key = Key(q)
      PROVE  m.answer.nodes = Reached(q)'
  <2>1. m.answer.nodes = Reached(q)
    BY <1>1 DEF WalkRemembered
  <2> QED BY <2>1, GraphFixed
<1> QED BY <1>1 DEF WalkRemembered, Cacheable, Key, Listed

\* A query answered by the cache has the answer of its own key.
LEMMA HitStep ==
  ASSUME NoEmptyLists, WalkInv, NEW q \in Queries, Hit(q)
  PROVE  WalkInv'
<1> USE DEF Hit
<1>1. WalkTypes' /\ WalkPhases' /\ WalkProgress'
  BY SentinelAssumption DEF WalkInv, WalkTypes, WalkPhases, WalkProgress
<1>2. WalkRemembered'
  BY MemoStays DEF WalkInv
<1>3. ASSUME q.op = "walk", q.depth = Infinity PROVE answer'.nodes = Reached(q)
  BY <1>3 DEF WalkInv, WalkRemembered, Entries
<1>4. WalkAnswered'
  <2>1. Reached(q)' = Reached(q)
    BY GraphFixed
  <2> QED BY <1>3, <2>1 DEF WalkAnswered
<1> QED BY <1>1, <1>2, <1>4 DEF WalkInv

\* A walk begins with its start waiting, and with nothing visited.
LEMMA ExecuteStep ==
  ASSUME WalkInv, NEW q \in Queries, Execute(q)
  PROVE  WalkInv'
<1> USE DEF Execute
<1>1. WalkRemembered'
  BY MemoStays DEF WalkInv
<1>2. CASE BeginWalk(q)
  <2>1. WalkTypes' /\ WalkPhases' /\ WalkAnswered'
    BY <1>2, SentinelAssumption
       DEF BeginWalk, WalkInv, WalkTypes, WalkPhases, WalkAnswered
  <2>2. /\ visited' = {} /\ query' = q
        /\ \A n \in Nodes : waiting'[n] # <<>> <=> n = q.start
    BY <1>2 DEF BeginWalk, WalkInv, WalkPhases
  <2>3. \A S : ClosedUnder(q, S)' <=> ClosedUnder(q, S)
    BY GraphFixed
  <2>4. WalkProgress'
    BY <2>2, <2>3 DEF WalkProgress, Discovered, ClosedUnder, Admits, Allowed
  <2> QED BY <1>1, <2>1, <2>4 DEF WalkInv
<1>3. CASE /\ UNCHANGED walkVars
           /\ BeginPath(q) \/ BeginComponents(q) \/ BeginSort(q) \/ BeginCycles(q)
              \/ BeginChain(q)
  <2>1. /\ phase' \in {"path", "components", "topological", "cycles", "statistics",
                      "answered"}
        /\ query' = q /\ q.op # "walk"
        /\ phase' = "path" => q.op = "path"
        /\ phase' \in {"components", "topological", "cycles", "statistics"} => q.op = phase'
    BY <1>3 DEF BeginPath, BeginComponents, BeginSort, BeginCycles, BeginChain, Answered
  <2>2. WalkTypes' /\ WalkPhases' /\ WalkProgress' /\ WalkAnswered'
    BY <1>3, <2>1, SentinelAssumption
       DEF WalkInv, WalkTypes, WalkPhases, WalkProgress, WalkAnswered
  <2> QED BY <1>1, <2>2 DEF WalkInv
<1> QED BY <1>2, <1>3

\* The steps of the other algorithms are taken for other queries.
LEMMA OtherStep ==
  ASSUME WalkInv, PathStep \/ ComponentStep \/ SortStep \/ CycleStep \/ ChainStep,
         UNCHANGED <<edges, query, memo, walkVars>>
  PROVE  WalkInv'
<1>1. /\ phase \in {"path", "back", "components", "topological", "cycles", "statistics"}
      /\ \/ phase' = phase \/ phase' = "answered"
         \/ phase = "path" /\ phase' = "back"
  <2>1. CASE PathStep
    BY <2>1 DEF PathStep, NotFound, StepBack, BackAtStart, Expand, Found, Answered
  <2>2. CASE ComponentStep
    BY <2>2 DEF ComponentStep, StartComponent, EndComponent, EndComponents,
                Gather, Answered
  <2>3. CASE SortStep
    BY <2>3 DEF SortStep, EndSort, Emit, Answered
  <2>4. CASE CycleStep
    BY <2>4 DEF CycleStep, VisitRoot, LeaveNode, EndCycles, FollowEdge, Answered
  <2>5. CASE ChainStep
    BY <2>5 DEF ChainStep, StartChain, FollowCall, EndVisit, EndChain, Answered
  <2> QED BY <2>1, <2>2, <2>3, <2>4, <2>5
<1>2. query.op # "walk"
  BY <1>1 DEF WalkInv, WalkPhases
<1>3. WalkTypes' /\ WalkPhases' /\ WalkProgress' /\ WalkAnswered'
  BY <1>1, <1>2 DEF WalkInv, WalkTypes, WalkPhases, WalkProgress, WalkAnswered
<1> QED BY <1>3, MemoStays DEF WalkInv

-----------------------------------------------------------------------------
\* What is taken off the queue, and what is left of it.
LEMMA ItemTypes ==
  ASSUME WalkTypes, NEW n \in Queued
  PROVE  Item(n) \in Nat /\ Others(n) \in Seq(Nat)
<1>1. waiting[n] \in Seq(Nat) /\ waiting[n] # <<>>
  BY DEF WalkTypes, Queued
<1>2. Last(waiting[n]) \in Nat /\ Head(waiting[n]) \in Nat
  BY <1>1 DEF Last
<1>3. Front(waiting[n]) \in Seq(Nat) /\ Tail(waiting[n]) \in Seq(Nat)
  BY <1>1 DEF Front
<1> QED BY <1>2, <1>3 DEF Item, Others

\* Of an unbounded walk, only what has been visited or is not admitted is
\* skipped.
LEMMA SkipStep ==
  ASSUME WalkInv, NEW n \in Nodes, SkipItem(n),
         UNCHANGED <<edges, query, memo>>
  PROVE  WalkInv'
<1> USE DEF SkipItem, IsFirst, WalkInv
<1>1. WalkTypes'
  <2>1. Others(n) \in Seq(Nat)
    BY ItemTypes DEF Queued
  <2> QED BY <2>1 DEF WalkTypes
<1>2. WalkPhases' /\ WalkAnswered'
  BY DEF WalkPhases, WalkAnswered
<1>3. ASSUME query.depth = Infinity PROVE WalkProgress'
  <2>1. n \in visited \/ ~Admits(query, n)
    BY <1>3 DEF Visits, Within
  <2>2. \A m \in Nodes : Discovered(m)' => Discovered(m)
    BY ItemTypes DEF Discovered, WalkTypes, Queued
  <2>3. \A m \in Nodes : Discovered(m) /\ Admits(query, m) => Discovered(m)'
    BY <2>1 DEF Discovered, WalkTypes
  <2>4. \A m : Admits(query, m)' <=> Admits(query, m)
    BY DEF Admits, Allowed
  <2>5. \A m : Neighbours(query, m)' = Neighbours(query, m)
    BY DEF Neighbours, AdjacentEdges, NextNodes, Considered
  <2>6. \A m \in Nodes : Neighbours(query, m) \subseteq Nodes
    BY DEF Neighbours, AdjacentEdges, NextNodes, WalkTypes, Edges
  <2>7. \A S : ClosedUnder(query, S)' <=> ClosedUnder(query, S)
    BY <2>4, <2>5 DEF ClosedUnder
  <2> QED
    BY <1>3, <2>2, <2>3, <2>4, <2>5, <2>6, <2>7 DEF WalkProgress, WalkTypes
<1>4. query.depth # Infinity => WalkProgress'
  BY DEF WalkProgress
<1> QED BY <1>1, <1>2, <1>3, <1>4, MemoStays

LEMMA Appended ==
  ASSUME NEW s \in Seq(Nat), NEW t \in Seq(Nat)
  PROVE  s \o t \in Seq(Nat) /\ (s \o t # <<>> <=> s # <<>> \/ t # <<>>)
<1>1. s \o t \in Seq(Nat) /\ Len(s \o t) = Len(s) + Len(t)
  OBVIOUS
<1>2. ASSUME NEW u \in Seq(Nat) PROVE u = <<>> <=> Len(u) = 0
  OBVIOUS
<1>3. Len(s) \in Nat /\ Len(t) \in Nat
  OBVIOUS
<1> QED BY <1>1, <1>2, <1>3

\* A walk visits a node it has found, and finds its neighbours.
LEMMA VisitStep ==
  ASSUME WalkInv, NEW n \in Nodes, VisitNode(n),
         UNCHANGED <<edges, query, memo>>
  PROVE  WalkInv'
<1> USE DEF VisitNode, IsFirst, WalkInv
<1> DEFINE new(m) == IF m \in Neighbours(query, n) \ visited' THEN <<Item(n) + 1>>
                                                            ELSE <<>>
           old(m) == IF m = n THEN Others(n) ELSE waiting[m]
<1>1. /\ Item(n) \in Nat /\ Others(n) \in Seq(Nat)
      /\ \A m \in Nodes : old(m) \in Seq(Nat) /\ new(m) \in Seq(Nat)
      /\ waiting' = [m \in Nodes |-> old(m) \o new(m)]
  BY ItemTypes DEF WalkTypes
<1> HIDE DEF old, new
<1>2. ASSUME NEW m \in Nodes
      PROVE  /\ waiting'[m] \in Seq(Nat)
             /\ waiting'[m] # <<>> <=> old(m) # <<>> \/ new(m) # <<>>
  <2>1. waiting'[m] = old(m) \o new(m)
    BY <1>1
  <2>2. old(m) \in Seq(Nat) /\ new(m) \in Seq(Nat)
    BY <1>1
  <2>3. /\ old(m) \o new(m) \in Seq(Nat)
        /\ old(m) \o new(m) # <<>> <=> old(m) # <<>> \/ new(m) # <<>>
    BY <2>2, Appended, Zenon
  <2> QED BY <2>1, <2>3, Zenon
<1>3. WalkTypes'
  BY <1>1, <1>2 DEF WalkTypes
<1>4. WalkPhases' /\ WalkAnswered'
  BY DEF WalkPhases, WalkAnswered
<1>5. ASSUME query.depth = Infinity PROVE WalkProgress'
  <2>1. /\ n \in visited' /\ Admits(query, n) /\ Discovered(n)
        /\ visited' = visited \cup {n}
    BY DEF Visits, Discovered, Queued
  <2>2. \A m \in Nodes : Discovered(m) => Discovered(m)'
    BY <1>2, <2>1 DEF Discovered, old
  <2>3. \A m \in Nodes : m \in Neighbours(query, n) => Discovered(m)'
    BY <1>2 DEF Discovered, new
  <2>4. \A m \in Nodes : Discovered(m)' => Discovered(m) \/ m \in Neighbours(query, n)
    BY <1>2, <2>1 DEF Discovered, old, new
  <2>5. /\ \A m : Admits(query, m)' <=> Admits(query, m)
        /\ \A m : Neighbours(query, m)' = Neighbours(query, m)
    BY DEF Admits, Allowed, Neighbours, AdjacentEdges, NextNodes, Considered
  <2>6. \A m \in Nodes : Neighbours(query, m) \subseteq Nodes
    BY DEF Neighbours, AdjacentEdges, NextNodes, WalkTypes, Edges
  <2>7. ASSUME NEW k \in visited', NEW m \in Neighbours(query, k), Admits(query, m)
        PROVE  Discovered(m)'
    BY <1>5, <2>1, <2>2, <2>3, <2>6, <2>7 DEF WalkProgress, WalkTypes
  <2>8. ASSUME NEW S \in SUBSET Nodes, ClosedUnder(query, S),
               NEW m \in Nodes, Discovered(m)', Admits(query, m)
        PROVE  m \in S
    <3>1. n \in S
      BY <1>5, <2>1, <2>8 DEF WalkProgress
    <3>2. CASE Discovered(m)
      BY <1>5, <2>8, <3>2 DEF WalkProgress
    <3>3. CASE m \in Neighbours(query, n)
      BY <2>8, <3>1, <3>3 DEF ClosedUnder
    <3> QED BY <2>4, <2>8, <3>2, <3>3
  <2>9. \A S : ClosedUnder(query, S)' <=> ClosedUnder(query, S)
    BY <2>5 DEF ClosedUnder
  <2>10. query'.start \in Nodes /\ Admits(query, query.start)
           => Discovered(query.start)'
    BY <1>5, <2>2 DEF WalkProgress
  <2>11. \A k \in visited' : Admits(query, k)
    BY <1>5, <2>1 DEF WalkProgress
  <2> QED
    BY <2>5, <2>7, <2>8, <2>9, <2>10, <2>11 DEF WalkProgress
<1>6. query.depth # Infinity => WalkProgress'
  BY DEF WalkProgress
<1> QED BY <1>3, <1>4, <1>5, <1>6, MemoStays

\* When nothing waits, what has been visited is closed, and the smallest set
\* that is.
LEMMA EndStep ==
  ASSUME WalkInv, EndWalk, UNCHANGED <<edges, query, memo>>
  PROVE  WalkInv'
<1> USE DEF EndWalk, WalkInv
<1>1. WalkTypes' /\ WalkPhases' /\ WalkProgress'
  BY DEF WalkTypes, WalkPhases, WalkProgress, Answered
<1>2. ASSUME query.depth = Infinity PROVE answer'.nodes = Reached(query)
  <2>1. answer'.nodes = visited
    BY DEF Answered
  <2>2. visited \subseteq Nodes /\ \A n \in Nodes : Discovered(n) <=> n \in visited
    BY DEF Discovered, Queued, WalkTypes
  <2>3. \A m \in Nodes : Neighbours(query, m) \subseteq Nodes
    BY DEF Neighbours, AdjacentEdges, NextNodes, WalkTypes, Edges
  <2>4. ClosedUnder(query, visited)
    BY <1>2, <2>2, <2>3 DEF WalkProgress, ClosedUnder
  <2>5. \A S \in SUBSET Nodes : ClosedUnder(query, S) => visited \subseteq S
    BY <1>2, <2>2 DEF WalkProgress
  <2>6. Reached(query) = visited
    BY <2>2, <2>4, <2>5 DEF Reached
  <2> QED BY <2>1, <2>6
<1>3. WalkAnswered'
  <2>1. Reached(query)' = Reached(query)
    <3>1. PICK q : q = query
      OBVIOUS
    <3>2. Reached(q)' = Reached(q)
      BY GraphFixed
    <3> QED BY <3>1, <3>2
  <2> QED BY <1>2, <2>1 DEF WalkAnswered
<1> QED BY <1>1, <1>3, MemoStays

\* The answer of a walk is remembered for the queries of its key, and there is
\* only one.
LEMMA RememberStep ==
  ASSUME NoEmptyLists, WalkInv, Remember
  PROVE  WalkInv'
<1> USE DEF Remember
<1>1. WalkTypes' /\ WalkPhases' /\ WalkProgress'
  BY SentinelAssumption DEF WalkInv, WalkTypes, WalkPhases, WalkProgress
<1>2. query \in Queries
  BY DEF WalkInv, WalkTypes
<1>3. \A q : Reached(q)' = Reached(q)
  BY GraphFixed
<1>4. WalkAnswered'
  BY <1>3 DEF WalkInv, WalkAnswered
<1>5. ASSUME NEW m \in memo', NEW q \in Queries,
             q.op = "walk", q.depth = Infinity, Cacheable(q), m.key = Key(q)
      PROVE  m.answer.nodes = Reached(q)'
  <2>1. CASE m \in memo
    BY <1>3, <1>5, <2>1 DEF WalkInv, WalkRemembered
  <2>2. CASE Cacheable(query) /\ m = [key |-> Key(query), answer |-> answer]
    <3>1. q = query
      BY <1>2, <1>5, <2>2, KeyTellsApart
    <3> QED BY <1>3, <1>5, <2>2, <3>1 DEF WalkInv, WalkAnswered
  <2> QED BY <2>1, <2>2
<1>6. WalkRemembered'
  BY <1>5 DEF WalkRemembered, Cacheable, Key, Listed
<1> QED BY <1>1, <1>4, <1>6 DEF WalkInv

LEMMA WalkStepKeeps == NoEmptyLists /\ WalkInv /\ [Next]_vars => WalkInv'
<1> SUFFICES ASSUME NoEmptyLists, WalkInv, [Next]_vars PROVE WalkInv'
  OBVIOUS
<1>1. ASSUME NEW q \in Queries, Hit(q) PROVE WalkInv'
  BY <1>1, HitStep
<1>2. ASSUME NEW q \in Queries, Execute(q) PROVE WalkInv'
  BY <1>2, ExecuteStep
<1>3. CASE Step
  <2>1. CASE WalkStep
    BY <1>3, <2>1, EndStep, SkipStep, VisitStep DEF Step, WalkStep
  <2>2. CASE ~WalkStep
    BY <1>3, <2>2, OtherStep DEF Step
  <2> QED BY <2>1, <2>2
<1>4. CASE Remember
  BY <1>4, RememberStep
<1>5. CASE Return
  BY <1>5, MemoStays
     DEF Return, WalkInv, WalkTypes, WalkPhases, WalkProgress, WalkAnswered
<1>6. CASE Clear
  <2>1. WalkTypes' /\ WalkPhases' /\ WalkProgress' /\ WalkAnswered'
    BY <1>6 DEF Clear, WalkInv, WalkTypes, WalkPhases, WalkProgress, WalkAnswered
  <2>2. WalkRemembered'
    BY <1>6 DEF Clear, WalkRemembered
  <2> QED BY <2>1, <2>2 DEF WalkInv
<1>7. CASE UNCHANGED vars
  <2>1. \A q : /\ \A n : Neighbours(q, n)' = Neighbours(q, n)
               /\ \A S : ClosedUnder(q, S)' <=> ClosedUnder(q, S)
               /\ Reached(q)' = Reached(q)
    BY <1>7, GraphFixed DEF vars
  <2>2. WalkTypes' /\ WalkPhases' /\ WalkAnswered'
    BY <1>7, <2>1 DEF vars, WalkInv, WalkTypes, WalkPhases, WalkAnswered
  <2>3. WalkProgress'
    BY <1>7, <2>1
       DEF vars, WalkInv, WalkProgress, Discovered, Admits, Allowed
  <2>4. WalkRemembered'
    BY <1>7, MemoStays DEF vars, WalkInv
  <2> QED BY <2>2, <2>3, <2>4 DEF WalkInv
<1> QED
  BY <1>1, <1>2, <1>3, <1>4, <1>5, <1>6, <1>7 DEF Next

-----------------------------------------------------------------------------
\* An unbounded walk (ancestors, descendants), breadth-first or depth-first, in
\* any direction and filtered or not, finds exactly what its start reaches, and
\* so does the cache when it answers for it, as long as no query gives an empty
\* list for an option.
THEOREM WalksFindTheReachable ==
  ASSUME NoEmptyLists
  PROVE  Spec => []WalkIsReachability
<1>1. WalkInv /\ [Next]_vars => WalkInv'
  BY WalkStepKeeps
<1>2. WalkInv => WalkIsReachability
  BY DEF WalkInv, WalkAnswered, WalkIsReachability, Answers
<1> QED BY <1>1, <1>2, WalkInit, PTL DEF Spec
-----------------------------------------------------------------------------
\* The nodes next to a node, the sets closed under them, and the smallest such set
\* that holds a node: its component.
Linked(q, n) == Neighbours(Facing(q, "both"), n)
Closed(q, S) == \A n \in S : Linked(q, n) \subseteq S
Part(q, n) == {m \in Nodes : \A S \in SUBSET Nodes : n \in S /\ Closed(q, S) => m \in S}
Parts(q) == {Part(q, n) : n \in Nodes}

\* The search is over what it has seen: finished components, and one that is being
\* gathered, of which only the frontier has neighbours that are not in it.
PartsFound ==
  phase = "components" =>
    /\ seen \subseteq Nodes /\ component \cup frontier \subseteq seen
    /\ \A C \in components : C \subseteq seen
    /\ \A n \in seen \ (component \cup frontier) : \E C \in components : n \in C
    /\ components \subseteq Parts(query)
    /\ \A n \in component \cup frontier : \A C \in components : n \notin C
    /\ \A n \in component : Linked(query, n) \subseteq component \cup frontier
    /\ component \cup frontier = {} \/
         \E r \in component \cup frontier : component \cup frontier \subseteq Part(query, r)

PartsTypes ==
  /\ edges \subseteq Edges
  /\ query \in Queries \cup {None} /\ (query = None <=> phase = "idle")
  /\ phase \in {"idle", "walk", "path", "back", "components", "topological",
               "cycles", "statistics", "answered", "done"}
  /\ phase \in {"walk", "path", "components", "topological", "cycles", "statistics"} =>
       query.op = phase
  /\ phase = "back" => query.op = "path"
  /\ phase \notin {"path", "back", "components"} =>
       frontier = {} /\ seen = {} /\ component = {} /\ components = {}

PartsAnswered ==
  phase \in {"answered", "done"} /\ query.op = "components" => answer = Parts(query)

PartsRemembered ==
  \A m \in memo : \A q \in Queries :
    q.op = "components" /\ m.key = Key(q) => m.answer = Parts(q)

PartsInv == PartsTypes /\ PartsFound /\ PartsAnswered /\ PartsRemembered

-----------------------------------------------------------------------------
\* Who is next to a node has that node next to it.
LEMMA LinkedIsSymmetric ==
  ASSUME edges \subseteq Edges, NEW q \in Queries, NEW n \in Nodes
  PROVE  /\ Linked(q, n) \subseteq Nodes
         /\ \A m \in Linked(q, n) : n \in Linked(q, m)
<1> DEFINE both == Facing(q, "both")
<1>1. both.direction = "both" /\ both.relationships = q.relationships
  BY QueryAssumption DEF Facing
<1>2. ASSUME NEW e, NEW k
      PROVE  /\ e \in AdjacentEdges(both, k) <=>
                  e \in edges /\ e.type \in Considered(q) /\ (e.from = k \/ e.to = k)
             /\ NextNodes(both, e, k) = {e.from, e.to} \ {k}
  BY <1>1 DEF AdjacentEdges, NextNodes, Considered
<1> HIDE DEF both
<1>3. ASSUME NEW m \in Linked(q, n)
      PROVE  m \in Nodes /\ n \in Linked(q, m)
  <2>1. PICK e \in AdjacentEdges(both, n) : m \in NextNodes(both, e, n)
    BY <1>3 DEF Linked, Neighbours, both
  <2>2. /\ e \in edges /\ e.type \in Considered(q) /\ m # n
        /\ (e.from = n /\ e.to = m) \/ (e.from = m /\ e.to = n)
    BY <1>2, <2>1
  <2>3. m \in Nodes
    BY <2>2 DEF Edges
  <2>4. e \in AdjacentEdges(both, m) /\ n \in NextNodes(both, e, m)
    BY <1>2, <2>2
  <2> QED BY <2>3, <2>4 DEF Linked, Neighbours, both
<1> QED BY <1>3

\* A component is closed, holds its node, and lies in every closed set that does.
LEMMA PartIsLeast ==
  ASSUME edges \subseteq Edges, NEW q \in Queries, NEW n \in Nodes
  PROVE  /\ n \in Part(q, n) /\ Part(q, n) \subseteq Nodes /\ Closed(q, Part(q, n))
         /\ \A S \in SUBSET Nodes : n \in S /\ Closed(q, S) => Part(q, n) \subseteq S
<1>1. ASSUME NEW m \in Part(q, n), NEW k \in Linked(q, m) PROVE k \in Part(q, n)
  <2>1. m \in Nodes /\ k \in Nodes
    BY <1>1, LinkedIsSymmetric DEF Part
  <2>2. ASSUME NEW S \in SUBSET Nodes, n \in S, Closed(q, S) PROVE k \in S
    BY <1>1, <2>2 DEF Part, Closed
  <2> QED BY <2>1, <2>2 DEF Part
<1> QED BY <1>1 DEF Part, Closed

\* What is left of the nodes when a closed set is taken away is closed too.
LEMMA RestIsClosed ==
  ASSUME edges \subseteq Edges, NEW q \in Queries,
         NEW S \in SUBSET Nodes, NEW T \in SUBSET Nodes, Closed(q, S), Closed(q, T)
  PROVE  Closed(q, T \ S)
<1>1. ASSUME NEW n \in T \ S, NEW m \in Linked(q, n), m \in S PROVE FALSE
  BY <1>1, LinkedIsSymmetric DEF Closed
<1> QED BY <1>1 DEF Closed

\* Every node of a component has that component for its own.
LEMMA PartOfMember ==
  ASSUME edges \subseteq Edges, NEW q \in Queries, NEW n \in Nodes, NEW m \in Part(q, n)
  PROVE  m \in Nodes /\ Part(q, m) = Part(q, n)
<1>1. m \in Nodes
  BY DEF Part
<1>2. Part(q, m) \subseteq Part(q, n)
  BY <1>1, PartIsLeast
<1>3. n \in Part(q, m)
  <2>1. SUFFICES ASSUME n \notin Part(q, m) PROVE FALSE
    OBVIOUS
  <2>2. Closed(q, Part(q, n) \ Part(q, m))
    BY <1>1, PartIsLeast, RestIsClosed
  <2>3. Part(q, n) \subseteq Part(q, n) \ Part(q, m)
    BY <2>1, <2>2, PartIsLeast
  <2> QED BY <1>1, <2>3, PartIsLeast
<1>4. Part(q, n) \subseteq Part(q, m)
  BY <1>1, <1>3, PartIsLeast
<1> QED BY <1>1, <1>2, <1>4

\* The claim's components are these.
LEMMA PartIsReached ==
  ASSUME edges \subseteq Edges, NEW q \in Queries
  PROVE  {Reached([Facing(Unfiltered(q), "both") EXCEPT !.start = n]) : n \in Nodes}
           = Parts(q)
<1>1. ASSUME NEW n \in Nodes
      PROVE  Reached([Facing(Unfiltered(q), "both") EXCEPT !.start = n]) = Part(q, n)
  <2> DEFINE r == [Facing(Unfiltered(q), "both") EXCEPT !.start = n]
  <2>1. /\ r.start = n /\ r.direction = "both" /\ r.relationships = q.relationships
        /\ r.nodeTypes = Undefined /\ r.predicate = Undefined
        /\ Facing(q, "both").direction = "both"
        /\ Facing(q, "both").relationships = q.relationships
    BY QueryAssumption DEF Facing, Unfiltered
  <2>2. \A m : Neighbours(r, m) = Linked(q, m)
    BY <2>1 DEF Linked, Neighbours, AdjacentEdges, NextNodes, Considered
  <2>3. \A m \in Nodes : Admits(r, m)
    BY <2>1 DEF Admits, Allowed
  <2>4. ASSUME NEW S \in SUBSET Nodes
        PROVE  ClosedUnder(r, S) <=> n \in S /\ Closed(q, S)
    <3>1. \A m \in S : Linked(q, m) \subseteq Nodes
      BY LinkedIsSymmetric
    <3>2. ClosedUnder(r, S) <=> n \in S /\ \A m \in S : \A k \in Linked(q, m) : k \in S
      BY <2>1, <2>2, <2>3, <3>1 DEF ClosedUnder
    <3> QED BY <3>2 DEF Closed
  <2> HIDE DEF r
  <2>5. Reached(r) = Part(q, n)
    BY <2>4 DEF Reached, Part
  <2> QED BY <2>5 DEF r
<1> QED BY <1>1 DEF Parts

\* Of any node ids there is a least.
LEMMA LeastOfAny ==
  ASSUME NEW S \in SUBSET Nodes, S # {}
  PROVE  \E n \in S : IsFirst(n, S)
<1> DEFINE less == OpToRel(<, Nat)
<1>1. PICK n \in S : \A m \in S : <<m, n>> \notin less
  BY NatLessThanWellFounded, WFMin, NodeAssumption
<1>2. ASSUME NEW m \in S PROVE n <= m
  <2>1. m \in Nat /\ n \in Nat
    BY NodeAssumption
  <2>2. ~(m < n)
    BY <1>1, <2>1 DEF OpToRel
  <2> QED BY <2>1, <2>2
<1> QED BY <1>2 DEF IsFirst

\* A graph does not change, and its components neither.
LEMMA PartsFixed ==
  ASSUME UNCHANGED edges
  PROVE  \A q : /\ Parts(q)' = Parts(q)
                /\ \A n : Linked(q, n)' = Linked(q, n) /\ Part(q, n)' = Part(q, n)
<1> SUFFICES ASSUME NEW q
             PROVE  /\ Parts(q)' = Parts(q)
                    /\ \A n : Linked(q, n)' = Linked(q, n) /\ Part(q, n)' = Part(q, n)
  OBVIOUS
<1>1. ASSUME NEW n PROVE Linked(q, n)' = Linked(q, n)
  BY DEF Linked, Neighbours, AdjacentEdges, NextNodes, Considered, Facing
<1>2. ASSUME NEW n PROVE Part(q, n)' = Part(q, n)
  BY <1>1 DEF Part, Closed
<1> QED BY <1>1, <1>2 DEF Parts

LEMMA PartsInit == Init => PartsInv
BY GraphAssumption, SentinelAssumption
   DEF Init, PartsInv, PartsTypes, PartsFound, PartsAnswered, PartsRemembered, NoSearch

-----------------------------------------------------------------------------
\* Every step but Remember and Clear leaves the cache as it is.
LEMMA PartsMemoStays ==
  ASSUME PartsRemembered, UNCHANGED <<edges, memo>>
  PROVE  PartsRemembered'
<1>1. ASSUME NEW m \in memo', NEW q \in Queries, q.op = "components", m.key = Key(q)
      PROVE  m.answer = Parts(q)'
  BY <1>1, PartsFixed DEF PartsRemembered
<1> QED BY <1>1 DEF PartsRemembered, Key, Listed

LEMMA PartsHit ==
  ASSUME PartsInv, NEW q \in Queries, Hit(q)
  PROVE  PartsInv'
<1> USE DEF Hit
<1>1. PartsTypes' /\ PartsFound'
  BY SentinelAssumption DEF PartsInv, PartsTypes, PartsFound
<1>2. PartsRemembered'
  BY PartsMemoStays DEF PartsInv
<1>3. q.op = "components" => answer' = Parts(q)
  BY DEF PartsInv, PartsRemembered, Entries
<1>4. PartsAnswered'
  BY <1>3, PartsFixed DEF PartsAnswered
<1> QED BY <1>1, <1>2, <1>4 DEF PartsInv

\* A search for components begins with nothing seen.
LEMMA PartsExecute ==
  ASSUME PartsInv, NEW q \in Queries, Execute(q)
  PROVE  PartsInv'
<1> USE DEF Execute
<1>1. PartsRemembered'
  BY PartsMemoStays DEF PartsInv
<1>2. /\ query' = q /\ edges' = edges
      /\ frontier = {} /\ seen = {} /\ component = {} /\ components = {}
  BY DEF PartsInv, PartsTypes
<1>3. CASE BeginPath(q) /\ UNCHANGED <<walkVars, orderVars, chainVars>>
  <2>1. PartsTypes' /\ PartsFound' /\ PartsAnswered'
    BY <1>2, <1>3, SentinelAssumption
       DEF BeginPath, Answered, PartsInv, PartsTypes, PartsFound, PartsAnswered
  <2> QED BY <1>1, <2>1 DEF PartsInv
<1>4. CASE /\ UNCHANGED searchVars
           /\ BeginWalk(q) \/ BeginComponents(q) \/ BeginSort(q) \/ BeginCycles(q)
              \/ BeginChain(q)
  <2>1. /\ phase' \in {"walk", "components", "topological", "cycles", "statistics",
                      "answered"}
        /\ phase' # "answered" => q.op = phase'
        /\ phase' = "answered" => q.op = "walk"
    BY <1>4 DEF BeginWalk, BeginComponents, BeginSort, BeginCycles, BeginChain, Answered
  <2>2. PartsTypes' /\ PartsFound' /\ PartsAnswered'
    BY <1>2, <1>4, <2>1, SentinelAssumption
       DEF PartsInv, PartsTypes, PartsFound, PartsAnswered
  <2> QED BY <1>1, <2>2 DEF PartsInv
<1> QED BY <1>3, <1>4 DEF BeginComponents

\* The steps of the other algorithms are taken for other queries.
LEMMA PartsOtherStep ==
  ASSUME PartsInv, UNCHANGED <<edges, query, memo>>,
         \/ PathStep
         \/ UNCHANGED searchVars /\ (WalkStep \/ SortStep \/ CycleStep \/ ChainStep)
  PROVE  PartsInv'
<1>1. /\ phase \in {"walk", "path", "back", "topological", "cycles", "statistics"}
      /\ \/ phase' = phase \/ phase' = "answered"
         \/ phase = "path" /\ phase' = "back"
  <2>1. CASE PathStep
    BY <2>1 DEF PathStep, NotFound, StepBack, BackAtStart, Expand, Found, Answered
  <2>2. CASE WalkStep
    BY <2>2 DEF WalkStep, EndWalk, SkipItem, VisitNode, Answered
  <2>3. CASE SortStep
    BY <2>3 DEF SortStep, EndSort, Emit, Answered
  <2>4. CASE CycleStep
    BY <2>4 DEF CycleStep, VisitRoot, LeaveNode, EndCycles, FollowEdge, Answered
  <2>5. CASE ChainStep
    BY <2>5 DEF ChainStep, StartChain, FollowCall, EndVisit, EndChain, Answered
  <2> QED BY <2>1, <2>2, <2>3, <2>4, <2>5
<1>2. query \in Queries /\ query.op # "components"
  BY <1>1 DEF PartsInv, PartsTypes
<1>3. phase' \in {"path", "back"} \/
        (frontier' = {} /\ seen' = {} /\ component' = {} /\ components' = {})
  <2>1. CASE PathStep
    BY <2>1 DEF PathStep, NotFound, StepBack, BackAtStart, Expand, Found, Answered, DropSearch
  <2>2. CASE UNCHANGED searchVars /\ WalkStep
    BY <2>2 DEF PartsInv, PartsTypes, WalkStep, EndWalk, SkipItem, VisitNode
  <2>3. CASE UNCHANGED searchVars /\ SortStep
    BY <2>3 DEF PartsInv, PartsTypes, SortStep, EndSort, Emit
  <2>4. CASE UNCHANGED searchVars /\ CycleStep
    BY <2>4 DEF PartsInv, PartsTypes, CycleStep, VisitRoot, LeaveNode, EndCycles, FollowEdge
  <2>5. CASE UNCHANGED searchVars /\ ChainStep
    BY <2>5 DEF PartsInv, PartsTypes, ChainStep, StartChain, FollowCall, EndVisit, EndChain
  <2> QED BY <2>1, <2>2, <2>3, <2>4, <2>5
<1>4. PartsTypes' /\ PartsFound' /\ PartsAnswered'
  BY <1>1, <1>2, <1>3 DEF PartsInv, PartsTypes, PartsFound, PartsAnswered
<1> QED BY <1>4, PartsMemoStays DEF PartsInv

-----------------------------------------------------------------------------
\* The smallest node not seen starts a component.
LEMMA StartStep ==
  ASSUME PartsInv, StartComponent, UNCHANGED <<edges, query, memo>>
  PROVE  PartsInv'
<1> USE DEF StartComponent, PartsInv
<1> DEFINE n == First(Nodes \ seen)
<1>1. query \in Queries /\ edges \subseteq Edges
  BY DEF PartsTypes
<1>2. seen \subseteq Nodes
  BY DEF PartsFound
<1>3. n \in Nodes \ seen
  <2>1. \E m \in Nodes \ seen : IsFirst(m, Nodes \ seen)
    BY <1>2, LeastOfAny, NodeAssumption
  <2> QED BY <2>1 DEF First, IsFirst
<1> HIDE DEF n
<1>4. frontier' = {n} /\ seen' = seen \cup {n}
  BY DEF n
<1>5. n \in Part(query, n)
  BY <1>1, <1>3, PartIsLeast
<1>6. PartsFound'
  <2>1. /\ \A C \in components : C \subseteq seen
        /\ \A m \in seen : \E C \in components : m \in C
        /\ components \subseteq Parts(query)
    BY DEF PartsFound
  <2>2. \A C \in components : n \notin C
    BY <1>3, <2>1
  <2>3. /\ component' = {} /\ frontier' = {n} /\ components' = components
        /\ query' = query
        /\ \A q : /\ Parts(q)' = Parts(q)
                 /\ \A m : Linked(q, m)' = Linked(q, m) /\ Part(q, m)' = Part(q, m)
    BY <1>4, PartsFixed
  <2>4. /\ seen' \subseteq Nodes /\ component' \cup frontier' \subseteq seen'
        /\ \A C \in components' : C \subseteq seen'
        /\ \A m \in seen' \ (component' \cup frontier') : \E C \in components' : m \in C
    BY <1>2, <1>3, <1>4, <2>1, <2>3
  <2>5. n \in component' \cup frontier' /\ component' \cup frontier' \subseteq Part(query, n)
    BY <1>5, <2>3
  <2>6. \A m \in component' \cup frontier' : \A C \in components' : m \notin C
    BY <2>2, <2>3
  <2>7. \A m \in component' : Linked(query, m) \subseteq component' \cup frontier'
    BY <2>3
  <2>8. components' \subseteq Parts(query)
    BY <2>1, <2>3
  <2> HIDE DEF StartComponent, PartsInv
  <2> QED BY <2>3, <2>4, <2>5, <2>6, <2>7, <2>8 DEF PartsFound
<1>7. PartsTypes' /\ PartsAnswered'
  BY DEF PartsTypes, PartsAnswered
<1> QED BY <1>6, <1>7, PartsMemoStays

\* A node of the frontier joins its component, and its neighbours not seen before
\* take its place.  None of them is in another component, for these are closed.
LEMMA GatherStep ==
  ASSUME PartsInv, NEW n \in Nodes, Gather(n), UNCHANGED <<edges, query, memo>>
  PROVE  PartsInv'
<1> USE DEF Gather, PartsInv
<1> DEFINE new == Linked(query, n) \ seen
<1>1. query \in Queries /\ edges \subseteq Edges
  BY DEF PartsTypes
<1>2. /\ frontier' = (frontier \ {n}) \cup new /\ seen' = seen \cup new
      /\ component' = component \cup {n} /\ components' = components /\ n \in frontier
  BY DEF Linked
<1>0. /\ seen \subseteq Nodes /\ component \cup frontier \subseteq seen
      /\ \A C \in components : C \subseteq seen
      /\ \A m \in seen \ (component \cup frontier) : \E C \in components : m \in C
      /\ components \subseteq Parts(query)
      /\ \A m \in component \cup frontier : \A C \in components : m \notin C
      /\ \A m \in component : Linked(query, m) \subseteq component \cup frontier
  BY DEF PartsFound
<1>3. Linked(query, n) \subseteq Nodes
  BY <1>1, LinkedIsSymmetric
<1>4. ASSUME NEW m \in Linked(query, n), NEW C \in components, m \in C PROVE FALSE
  <2>1. PICK k \in Nodes : C = Part(query, k)
    BY DEF PartsFound, Parts
  <2>2. Closed(query, C)
    BY <1>1, <2>1, PartIsLeast
  <2>3. m \in Nodes /\ n \in Linked(query, m)
    BY <1>1, <1>3, LinkedIsSymmetric
  <2>4. n \in C
    BY <1>4, <2>2, <2>3 DEF Closed
  <2> QED BY <1>2, <2>4 DEF PartsFound
<1>5. Linked(query, n) \subseteq component \cup frontier \cup new
  BY <1>0, <1>4
<1>6. PICK r \in component \cup frontier : component \cup frontier \subseteq Part(query, r)
  BY <1>2 DEF PartsFound
<1>7. r \in Nodes /\ n \in Part(query, r)
  BY <1>0, <1>2, <1>6
<1>8. Linked(query, n) \subseteq Part(query, r)
  BY <1>1, <1>7, PartIsLeast DEF Closed
<1>9. component' \cup frontier' = component \cup frontier \cup new
  BY <1>2
<1> HIDE DEF new
<1>10. PartsFound'
  <2>1. /\ seen' \subseteq Nodes /\ component' \cup frontier' \subseteq seen'
        /\ \A C \in components' : C \subseteq seen'
        /\ \A m \in seen' \ (component' \cup frontier') : \E C \in components' : m \in C
        /\ components' \subseteq Parts(query)
    BY <1>0, <1>2, <1>3, <1>9 DEF new
  <2>2. \A m \in component' \cup frontier' : \A C \in components' : m \notin C
    BY <1>0, <1>2, <1>4, <1>9 DEF new
  <2>3. \A m \in component' : Linked(query, m) \subseteq component' \cup frontier'
    BY <1>0, <1>2, <1>5, <1>9
  <2>4. r \in component' \cup frontier' /\ component' \cup frontier' \subseteq Part(query, r)
    BY <1>6, <1>8, <1>9 DEF new
  <2>5. query' = query /\ \A q : /\ Parts(q)' = Parts(q)
             /\ \A m : Linked(q, m)' = Linked(q, m) /\ Part(q, m)' = Part(q, m)
    BY PartsFixed
  <2> QED BY <2>1, <2>2, <2>3, <2>4, <2>5 DEF PartsFound
<1>11. PartsTypes' /\ PartsAnswered'
  BY DEF PartsTypes, PartsAnswered
<1> QED BY <1>10, <1>11, PartsMemoStays

\* A component whose frontier is empty is closed, and so it is the one of the node it
\* started from.
LEMMA EndComponentStep ==
  ASSUME PartsInv, EndComponent, UNCHANGED <<edges, query, memo>>
  PROVE  PartsInv'
<1> USE DEF EndComponent, PartsInv
<1>1. query \in Queries /\ edges \subseteq Edges
  BY DEF PartsTypes
<1>2. /\ seen \subseteq Nodes /\ component \subseteq seen
      /\ \A C \in components : C \subseteq seen
      /\ \A n \in seen \ component : \E C \in components : n \in C
      /\ components \subseteq Parts(query)
      /\ \A n \in component : Linked(query, n) \subseteq component
  BY DEF PartsFound
<1>3. PICK r \in component : component \subseteq Part(query, r)
  BY DEF PartsFound
<1>4. r \in Nodes /\ component \in SUBSET Nodes /\ Closed(query, component)
  BY <1>2 DEF Closed
<1>5. component = Part(query, r)
  BY <1>1, <1>3, <1>4, PartIsLeast
<1>6. component \in Parts(query)
  BY <1>4, <1>5 DEF Parts
<1>7. /\ components' = components \cup {component} /\ component' = {} /\ frontier' = {}
      /\ seen' = seen /\ query' = query /\ Parts(query)' = Parts(query)
  BY PartsFixed
<1>8. /\ \A C \in components' : C \subseteq seen'
      /\ \A n \in seen' : \E C \in components' : n \in C
  BY <1>2, <1>7
<1>9. PartsFound'
  BY <1>2, <1>6, <1>7, <1>8 DEF PartsFound
<1>10. PartsTypes' /\ PartsAnswered'
  BY DEF PartsTypes, PartsAnswered
<1> QED BY <1>9, <1>10, PartsMemoStays

\* When every node has been seen, every component has been found.
LEMMA EndComponentsStep ==
  ASSUME PartsInv, EndComponents, UNCHANGED <<edges, query, memo>>
  PROVE  PartsInv'
<1> USE DEF EndComponents, PartsInv
<1>1. query \in Queries /\ edges \subseteq Edges
  BY DEF PartsTypes
<1>2. /\ \A n \in Nodes : \E C \in components : n \in C
      /\ components \subseteq Parts(query)
  BY DEF PartsFound
<1>3. ASSUME NEW n \in Nodes PROVE Part(query, n) \in components
  <2>1. PICK C \in components : n \in C
    BY <1>2
  <2>2. PICK k \in Nodes : C = Part(query, k)
    BY <1>2 DEF Parts
  <2> QED BY <1>1, <2>1, <2>2, PartOfMember
<1>4. answer' = Parts(query) /\ Parts(query)' = Parts(query) /\ query' = query
  BY <1>2, <1>3, PartsFixed DEF Parts, Answered
<1>5. PartsTypes' /\ PartsFound' /\ PartsAnswered'
  BY <1>4 DEF Answered, DropSearch, PartsTypes, PartsFound, PartsAnswered
<1> QED BY <1>5, PartsMemoStays

\* The answer is remembered for queries of the same relationships, whose components
\* are the same.
LEMMA PartsRemember ==
  ASSUME PartsInv, Remember
  PROVE  PartsInv'
<1> USE DEF Remember, PartsInv
<1>1. PartsTypes' /\ PartsFound'
  BY SentinelAssumption DEF PartsTypes, PartsFound
<1>2. query \in Queries
  BY DEF PartsTypes
<1>3. \A q : Parts(q)' = Parts(q)
  BY PartsFixed
<1>4. PartsAnswered'
  BY <1>3 DEF PartsAnswered
<1>5. ASSUME NEW m \in memo', NEW q \in Queries, q.op = "components", m.key = Key(q)
      PROVE  m.answer = Parts(q)'
  <2>1. CASE m \in memo
    BY <1>3, <1>5, <2>1 DEF PartsRemembered
  <2>2. CASE m = [key |-> Key(query), answer |-> answer]
    <3>1. query.op = "components" /\ query.relationships = q.relationships
      BY <1>2, <1>5, <2>2 DEF Key
    <3>2. Parts(query) = Parts(q)
      <4>1. Facing(query, "both").relationships = Facing(q, "both").relationships
        BY <1>2, <3>1, QueryAssumption DEF Facing
      <4>2. Facing(query, "both").direction = Facing(q, "both").direction
        BY <1>2, QueryAssumption DEF Facing
      <4>3. \A n : Linked(query, n) = Linked(q, n)
        BY <4>1, <4>2 DEF Linked, Neighbours, AdjacentEdges, NextNodes, Considered
      <4>4. \A n : Part(query, n) = Part(q, n)
        BY <4>3 DEF Part, Closed
      <4> QED BY <4>4 DEF Parts
    <3> QED BY <1>3, <2>2, <3>1, <3>2 DEF PartsAnswered
  <2> QED BY <2>1, <2>2
<1>6. PartsRemembered'
  BY <1>5 DEF PartsRemembered, Key, Listed
<1> QED BY <1>1, <1>4, <1>6

LEMMA PartsStepKeeps == PartsInv /\ [Next]_vars => PartsInv'
<1> SUFFICES ASSUME PartsInv, [Next]_vars PROVE PartsInv'
  OBVIOUS
<1>1. ASSUME NEW q \in Queries, Hit(q) PROVE PartsInv'
  BY <1>1, PartsHit
<1>2. ASSUME NEW q \in Queries, Execute(q) PROVE PartsInv'
  BY <1>2, PartsExecute
<1>3. CASE Step
  <2>1. CASE ComponentStep
    BY <1>3, <2>1, StartStep, GatherStep, EndComponentStep, EndComponentsStep
       DEF Step, ComponentStep
  <2>2. CASE ~ComponentStep
    BY <1>3, <2>2, PartsOtherStep DEF Step
  <2> QED BY <2>1, <2>2
<1>4. CASE Remember
  BY <1>4, PartsRemember
<1>5. CASE Return
  BY <1>5, PartsMemoStays
     DEF Return, PartsInv, PartsTypes, PartsFound, PartsAnswered
<1>6. CASE Clear
  <2>1. PartsTypes' /\ PartsFound' /\ PartsAnswered'
    BY <1>6 DEF Clear, PartsInv, PartsTypes, PartsFound, PartsAnswered
  <2>2. PartsRemembered'
    BY <1>6 DEF Clear, PartsRemembered
  <2> QED BY <2>1, <2>2 DEF PartsInv
<1>7. CASE UNCHANGED vars
  <2>1. \A q : /\ Parts(q)' = Parts(q)
               /\ \A n : Linked(q, n)' = Linked(q, n) /\ Part(q, n)' = Part(q, n)
    BY <1>7, PartsFixed DEF vars
  <2>2. PartsTypes' /\ PartsAnswered' /\ PartsFound'
    BY <1>7, <2>1 DEF vars, PartsInv, PartsTypes, PartsAnswered, PartsFound
  <2>3. PartsRemembered'
    BY <1>7, PartsMemoStays DEF vars, PartsInv
  <2> QED BY <2>2, <2>3 DEF PartsInv
<1> QED
  BY <1>1, <1>2, <1>3, <1>4, <1>5, <1>6, <1>7 DEF Next

-----------------------------------------------------------------------------
\* connectedComponents answers with the undirected components of the graph, each
\* once and all of them, though it starts from whatever node is left, and though the
\* cache answers for every query of the same relationships.
THEOREM ComponentsArePartition == Spec => []ComponentsPartition
<1>1. PartsInv /\ [Next]_vars => PartsInv'
  BY PartsStepKeeps
<1>2. PartsInv => ComponentsPartition
  <2> SUFFICES ASSUME PartsInv, Answers("components") PROVE ComponentsPartition
    BY DEF ComponentsPartition
  <2>1. query \in Queries /\ edges \subseteq Edges
    BY SentinelAssumption DEF PartsInv, PartsTypes, Answers
  <2>2. answer = Parts(query)
    BY DEF PartsInv, PartsAnswered, Answers
  <2> QED BY <2>1, <2>2, PartIsReached DEF ComponentsPartition
<1> QED BY <1>1, <1>2, PartsInit, PTL DEF Spec

-----------------------------------------------------------------------------
(***************************************************************************)
(* Paths.                                                                  *)
(***************************************************************************)
LegalPath(q, a) ==
  IF a = NoPath THEN q.target \notin Reached(Unfiltered(q))
  ELSE /\ a.nodes[1] = q.start
       /\ Last(a.nodes) = q.target
       /\ Distinct(a.nodes)
       /\ Len(a.nodes) = Len(a.edges) + 1
       /\ \A i \in 1..Len(a.edges) :
            /\ a.edges[i] \in AdjacentEdges(q, a.nodes[i])
            /\ a.nodes[i + 1] \in NextNodes(q, a.edges[i], a.nodes[i])

\* A search for a path has seen the start and the neighbours of what it has
\* expanded, none of which is the target, and nothing that is not reached.
SearchFound ==
  phase = "path" =>
    /\ frontier \subseteq seen /\ seen \subseteq Nodes /\ query.start \in seen
    /\ \A n \in seen \ frontier : n # query.target /\ Neighbours(query, n) \subseteq seen
    /\ \A S \in SUBSET Nodes : ClosedUnder(Unfiltered(query), S) => seen \subseteq S

\* The edge that leads from one node to another.
LeadsTo(e, n, m) == e \in AdjacentEdges(query, n) /\ m \in NextNodes(query, e, n)

\* What has been seen was seen from something of a lower rank.
SeenFrom(rank, m) ==
  /\ previous[m] # None /\ previous[m].node \in seen
  /\ rank[previous[m].node] < rank[m]
  /\ LeadsTo(previous[m].edge, previous[m].node, m)

\* The path reconstructed so far leads from something seen to the target, and
\* ranks rise along it.
PathSoFar(rank) ==
  /\ seen \subseteq Nodes
  /\ path \in Seq(seen) /\ path # <<>> /\ trail \in Seq(edges)
  /\ path[Len(path)] = query.target /\ Len(path) = Len(trail) + 1
  /\ \A i \in 1..Len(trail) : LeadsTo(trail[i], path[i], path[i + 1])
  /\ \A i, j \in 1..Len(path) : i < j => rank[path[i]] < rank[path[j]]

SearchRanked ==
  phase \in {"path", "back"} =>
    \E rank \in [Nodes -> Nat] :
      /\ \A m \in seen \ {query.start} : SeenFrom(rank, m)
      /\ phase = "back" => PathSoFar(rank)

SearchTypes ==
  /\ phase # "back" => path = <<>> /\ trail = <<>>
  /\ DOMAIN previous = Nodes

PathAnswered ==
  phase \in {"answered", "done"} /\ query.op = "path" => LegalPath(query, answer)

PathRemembered ==
  \A m \in memo : \A q \in Queries :
    q.op = "path" /\ m.key = Key(q) => LegalPath(q, m.answer)

PathInv == SearchTypes /\ SearchFound /\ SearchRanked /\ PathAnswered /\ PathRemembered

-----------------------------------------------------------------------------
\* A graph does not change, and what a path in it is neither.
LEMMA PathsFixed ==
  ASSUME UNCHANGED edges
  PROVE  \A q : /\ \A n : AdjacentEdges(q, n)' = AdjacentEdges(q, n)
                /\ \A e, n : NextNodes(q, e, n)' = NextNodes(q, e, n)
                /\ \A a : LegalPath(q, a)' <=> LegalPath(q, a)
<1> SUFFICES ASSUME NEW q
             PROVE  /\ \A n : AdjacentEdges(q, n)' = AdjacentEdges(q, n)
                    /\ \A e, n : NextNodes(q, e, n)' = NextNodes(q, e, n)
                    /\ \A a : LegalPath(q, a)' <=> LegalPath(q, a)
  OBVIOUS
<1>1. /\ \A n : AdjacentEdges(q, n)' = AdjacentEdges(q, n)
      /\ \A e, n : NextNodes(q, e, n)' = NextNodes(q, e, n)
  BY DEF AdjacentEdges, NextNodes, Considered
<1>2. Reached(Unfiltered(q))' = Reached(Unfiltered(q))
  <2>1. Unfiltered(q)' = Unfiltered(q)
    BY DEF Unfiltered
  <2>2. PICK r : r = Unfiltered(q)
    OBVIOUS
  <2>3. Reached(r)' = Reached(r)
    BY GraphFixed
  <2> QED BY <2>1, <2>2, <2>3 DEF Reached, ClosedUnder, Unfiltered, Neighbours, AdjacentEdges, NextNodes, Considered, Admits, Allowed
<1>3. ASSUME NEW a PROVE LegalPath(q, a)' <=> LegalPath(q, a)
  BY <1>1, <1>2 DEF LegalPath, Distinct, Last
<1> QED BY <1>1, <1>3

LEMMA LeadsStill ==
  ASSUME UNCHANGED <<edges, query>>
  PROVE  \A e, n, m : LeadsTo(e, n, m)' <=> LeadsTo(e, n, m)
BY DEF LeadsTo, AdjacentEdges, NextNodes, Considered

LEMMA PathMemoStays ==
  ASSUME PathRemembered, UNCHANGED <<edges, memo>>
  PROVE  PathRemembered'
<1>1. ASSUME NEW m \in memo', NEW q \in Queries, q.op = "path", m.key = Key(q)
      PROVE  LegalPath(q, m.answer)'
  BY <1>1, PathsFixed DEF PathRemembered
<1> QED BY <1>1 DEF PathRemembered, Key, Listed

\* Kinds and predicate are no matter to a path.
LEMMA UnfilteredIsAlike ==
  ASSUME edges \subseteq Edges, NEW q \in Queries
  PROVE  /\ \A n \in Nodes : Neighbours(q, n) \subseteq Nodes
         /\ \A S \in SUBSET Nodes : ClosedUnder(Unfiltered(q), S) <=>
              /\ q.start \in Nodes => q.start \in S
              /\ \A n \in S : Neighbours(q, n) \subseteq S
<1> DEFINE r == Unfiltered(q)
<1>1. /\ r.start = q.start /\ r.direction = q.direction /\ r.relationships = q.relationships
      /\ r.nodeTypes = Undefined /\ r.predicate = Undefined
  BY QueryAssumption DEF Unfiltered
<1>2. \A n : Neighbours(r, n) = Neighbours(q, n)
  BY <1>1 DEF Neighbours, AdjacentEdges, NextNodes, Considered
<1>3. \A n : Admits(r, n) <=> n \in Nodes
  BY <1>1 DEF Admits, Allowed
<1>4. \A n \in Nodes : Neighbours(q, n) \subseteq Nodes
  BY DEF Neighbours, AdjacentEdges, NextNodes, Edges
<1> HIDE DEF r
<1>5. \A S \in SUBSET Nodes : ClosedUnder(r, S) <=>
              /\ q.start \in Nodes => q.start \in S
              /\ \A n \in S : Neighbours(q, n) \subseteq S
  BY <1>1, <1>2, <1>3, <1>4 DEF ClosedUnder
<1> QED BY <1>4, <1>5 DEF r

LEMMA PathInit == Init => PathInv
BY DEF Init, PathInv, SearchTypes, SearchFound, SearchRanked, PathAnswered,
       PathRemembered, NoSearch

LEMMA PathHit ==
  ASSUME PartsTypes, PathInv, NEW q \in Queries, Hit(q)
  PROVE  PathInv'
<1> USE DEF Hit
<1>1. SearchTypes' /\ SearchFound' /\ SearchRanked'
  BY DEF PathInv, SearchTypes, SearchFound, SearchRanked
<1>2. PathRemembered'
  BY PathMemoStays DEF PathInv
<1>3. q.op = "path" => LegalPath(q, answer')
  BY DEF PathInv, PathRemembered, Entries
<1>4. PathAnswered'
  <2>1. PICK a : a = answer'
    OBVIOUS
  <2>2. LegalPath(q, a)' <=> LegalPath(q, a)
    BY PathsFixed
  <2> QED BY <1>3, <2>1, <2>2 DEF PathAnswered, LegalPath
<1> QED BY <1>1, <1>2, <1>4 DEF PathInv

\* Between nodes the graph does not have there is no path.
LEMMA NoPathFromNowhere ==
  ASSUME edges \subseteq Edges, NEW q \in Queries, q.start \notin Nodes \/ q.target \notin Nodes
  PROVE  LegalPath(q, NoPath)
<1>1. q.start \notin Nodes => ClosedUnder(Unfiltered(q), {})
  BY UnfilteredIsAlike
<1>2. Reached(Unfiltered(q)) \subseteq Nodes
  BY DEF Reached
<1>3. q.target \notin Reached(Unfiltered(q))
  BY <1>1, <1>2 DEF Reached
<1> QED BY <1>3 DEF LegalPath

LEMMA PathExecute ==
  ASSUME PartsTypes, PathInv, NEW q \in Queries, Execute(q)
  PROVE  PathInv'
<1> USE DEF Execute
<1>1. PathRemembered'
  BY PathMemoStays DEF PathInv
<1>2. CASE BeginPath(q) /\ q.start \in Nodes /\ q.target \in Nodes
  <2>1. /\ phase' = "path" /\ frontier' = {q.start} /\ seen' = {q.start} /\ query' = q
        /\ UNCHANGED <<edges, previous, path, trail>>
    BY <1>2 DEF BeginPath
  <2>2. SearchFound'
    <3>1. \A S \in SUBSET Nodes : ClosedUnder(Unfiltered(q), S) => q.start \in S
      BY <1>2, UnfilteredIsAlike DEF PartsTypes
    <3>2. \A S : ClosedUnder(Unfiltered(q), S)' <=> ClosedUnder(Unfiltered(q), S)
      BY <2>1 DEF ClosedUnder, Unfiltered, Neighbours, AdjacentEdges, NextNodes, Considered, Admits, Allowed
    <3> QED BY <1>2, <2>1, <3>1, <3>2 DEF SearchFound, Unfiltered
  <2>3. SearchRanked'
    <3>1. [n \in Nodes |-> 0] \in [Nodes -> Nat]
      OBVIOUS
    <3>2. \A m \in seen' \ {query'.start} : FALSE
      BY <2>1
    <3> QED BY <2>1, <3>1, <3>2 DEF SearchRanked
  <2>4. SearchTypes' /\ PathAnswered'
    BY <2>1 DEF PathInv, SearchTypes, PathAnswered, PartsTypes
  <2> QED BY <1>1, <2>2, <2>3, <2>4 DEF PathInv
<1>3. CASE BeginPath(q) /\ (q.start \notin Nodes \/ q.target \notin Nodes)
  <2>1. /\ phase' = "answered" /\ answer' = NoPath /\ query' = q /\ UNCHANGED searchVars
    BY <1>3 DEF BeginPath, Answered
  <2>2. LegalPath(q, NoPath)' <=> LegalPath(q, NoPath)
    BY PathsFixed DEF LegalPath
  <2>3. PathAnswered'
    BY <1>3, <2>1, <2>2, NoPathFromNowhere DEF PathAnswered, PartsTypes, LegalPath
  <2>4. SearchTypes' /\ SearchFound' /\ SearchRanked'
    BY <2>1 DEF PathInv, SearchTypes, SearchFound, SearchRanked, PartsTypes
  <2> QED BY <1>1, <2>3, <2>4 DEF PathInv
<1>4. CASE /\ UNCHANGED searchVars
           /\ BeginWalk(q) \/ BeginComponents(q) \/ BeginSort(q) \/ BeginCycles(q)
              \/ BeginChain(q)
  <2>1. q.op # "path" /\ phase' \notin {"path", "back"} /\ query' = q
    BY <1>4 DEF BeginWalk, BeginComponents, BeginSort, BeginCycles, BeginChain, Answered
  <2>2. SearchTypes' /\ SearchFound' /\ SearchRanked' /\ PathAnswered'
    BY <1>4, <2>1 DEF PathInv, SearchTypes, SearchFound, SearchRanked, PathAnswered, PartsTypes
  <2> QED BY <1>1, <2>2 DEF PathInv
<1> QED BY <1>2, <1>3, <1>4 DEF BeginComponents

\* The steps of the other algorithms are taken for other queries.
LEMMA PathOtherStep ==
  ASSUME PartsTypes, PathInv, UNCHANGED <<edges, query, memo>>,
         \/ ComponentStep
         \/ UNCHANGED searchVars /\ (WalkStep \/ SortStep \/ CycleStep \/ ChainStep)
  PROVE  PathInv'
<1>1. /\ phase \in {"walk", "components", "topological", "cycles", "statistics"}
      /\ phase' = phase \/ phase' = "answered"
      /\ UNCHANGED <<path, trail>> \/ (path' = <<>> /\ trail' = <<>>)
      /\ DOMAIN previous = Nodes => DOMAIN previous' = Nodes
  <2>1. CASE ComponentStep
    BY <2>1 DEF ComponentStep, StartComponent, EndComponent, EndComponents, Gather, Answered,
                DropSearch
  <2>2. CASE UNCHANGED searchVars /\ WalkStep
    BY <2>2 DEF WalkStep, EndWalk, SkipItem, VisitNode, Answered
  <2>3. CASE UNCHANGED searchVars /\ SortStep
    BY <2>3 DEF SortStep, EndSort, Emit, Answered
  <2>4. CASE UNCHANGED searchVars /\ CycleStep
    BY <2>4 DEF CycleStep, VisitRoot, LeaveNode, EndCycles, FollowEdge, Answered
  <2>5. CASE UNCHANGED searchVars /\ ChainStep
    BY <2>5 DEF ChainStep, StartChain, FollowCall, EndVisit, EndChain, Answered
  <2> QED BY <2>1, <2>2, <2>3, <2>4, <2>5
<1>2. query.op # "path"
  BY <1>1 DEF PartsTypes
<1>3. SearchTypes' /\ SearchFound' /\ SearchRanked' /\ PathAnswered'
  BY <1>1, <1>2 DEF PathInv, SearchTypes, SearchFound, SearchRanked, PathAnswered
<1> QED BY <1>3, PathMemoStays DEF PathInv

-----------------------------------------------------------------------------
\* A node is expanded: its neighbours not seen before are of the next rank.
LEMMA ExpandKeeps ==
  ASSUME PartsTypes, PathInv, NEW n \in Nodes, Expand(n), UNCHANGED <<edges, query, memo>>
  PROVE  PathInv'
<1> DEFINE new == Neighbours(query, n) \ seen
<1>1. /\ query \in Queries /\ edges \subseteq Edges
      /\ phase = "path" /\ phase' = "path" /\ n \in frontier /\ n # query.target
      /\ frontier' = (frontier \ {n}) \cup new /\ seen' = seen \cup new
      /\ UNCHANGED <<path, trail>>
  BY SentinelAssumption DEF Expand, IsFirstByCode, PartsTypes
<1>2. PICK via \in [new -> AdjacentEdges(query, n)] :
        /\ \A m \in new : m \in NextNodes(query, via[m], n)
        /\ previous' = [m \in Nodes |->
             IF m \in new THEN [node |-> n, edge |-> via[m]] ELSE previous[m]]
  BY DEF Expand
<1>3. Neighbours(query, n) \subseteq Nodes
  BY <1>1, UnfilteredIsAlike
<1> HIDE DEF new
<1>4. /\ frontier \subseteq seen /\ seen \subseteq Nodes /\ query.start \in seen
      /\ \A m \in seen \ frontier : m # query.target /\ Neighbours(query, m) \subseteq seen
      /\ \A S \in SUBSET Nodes : ClosedUnder(Unfiltered(query), S) => seen \subseteq S
  BY <1>1 DEF PathInv, SearchFound
<1>5. /\ \A m : Neighbours(query, m)' = Neighbours(query, m)
      /\ \A S : ClosedUnder(Unfiltered(query), S)' <=> ClosedUnder(Unfiltered(query), S)
  BY DEF ClosedUnder, Unfiltered, Neighbours, AdjacentEdges, NextNodes, Considered, Admits, Allowed
<1>6. SearchFound'
  <2>1. /\ frontier' \subseteq seen' /\ seen' \subseteq Nodes /\ query.start \in seen'
    BY <1>1, <1>3, <1>4 DEF new
  <2>2. ASSUME NEW m \in seen' \ frontier'
        PROVE  m # query.target /\ Neighbours(query, m) \subseteq seen'
    <3>1. m = n \/ m \in seen \ frontier
      BY <1>1, <2>2
    <3> QED BY <1>1, <1>4, <3>1 DEF new
  <2>3. ASSUME NEW S \in SUBSET Nodes, ClosedUnder(Unfiltered(query), S)
        PROVE  seen' \subseteq S
    <3>1. seen \subseteq S /\ n \in S
      BY <1>1, <1>4, <2>3
    <3>2. Neighbours(query, n) \subseteq S
      BY <1>1, <2>3, <3>1, UnfilteredIsAlike
    <3> QED BY <1>1, <3>1, <3>2 DEF new
  <2> QED BY <1>5, <2>1, <2>2, <2>3 DEF SearchFound
<1>7. SearchRanked'
  <2>1. PICK rank \in [Nodes -> Nat] : \A m \in seen \ {query.start} : SeenFrom(rank, m)
    BY <1>1 DEF PathInv, SearchRanked
  <2>2. PICK next \in [Nodes -> Nat] :
          next = [m \in Nodes |-> IF m \in new THEN rank[n] + 1 ELSE rank[m]]
    <3>1. [m \in Nodes |-> IF m \in new THEN rank[n] + 1 ELSE rank[m]] \in [Nodes -> Nat]
      OBVIOUS
    <3> QED BY <3>1
  <2>3. new \subseteq Nodes /\ new \cap seen = {} /\ n \in seen
    BY <1>1, <1>3, <1>4 DEF new
  <2>4. \A m \in Nodes : next[m] = IF m \in new THEN rank[n] + 1 ELSE rank[m]
    BY <2>2
  <2>5. ASSUME NEW m \in seen' \ {query.start} PROVE SeenFrom(next, m)'
    <3>1. CASE m \in new
      <4>1. previous'[m] = [node |-> n, edge |-> via[m]]
        BY <1>2, <2>3, <3>1
      <4>2. via[m] \in AdjacentEdges(query, n) /\ m \in NextNodes(query, via[m], n)
        BY <1>2, <3>1
      <4>3. via[m] \in Edges
        BY <1>1, <4>2 DEF AdjacentEdges
      <4>4. previous'[m] # None
        BY <4>1, <4>3, SentinelAssumption
      <4>5. next[n] < next[m] /\ n \in seen'
        BY <1>1, <2>3, <2>4, <3>1
      <4>6. LeadsTo(previous[m].edge, previous[m].node, m)'
        BY <4>1, <4>2 DEF LeadsTo, AdjacentEdges, NextNodes, Considered
      <4>7. previous'[m].node = n
        BY <4>1
      <4> QED BY <4>4, <4>5, <4>6, <4>7 DEF SeenFrom
    <3>2. CASE m \in seen
      <4>1. m \in seen \ {query.start} /\ m \in Nodes /\ m \notin new
        BY <1>4, <2>3, <2>5, <3>2
      <4>2. SeenFrom(rank, m)
        BY <2>1, <4>1
      <4>3. previous'[m] = previous[m]
        BY <1>2, <4>1
      <4>4. previous[m].node \in seen /\ previous[m].node \in Nodes /\ previous[m].node \notin new
        BY <1>4, <2>3, <4>2 DEF SeenFrom
      <4>5. next[m] = rank[m] /\ next[previous[m].node] = rank[previous[m].node]
        BY <2>4, <4>1, <4>4
      <4>6. LeadsTo(previous[m].edge, previous[m].node, m)'
        BY <4>2, <4>3 DEF SeenFrom, LeadsTo, AdjacentEdges, NextNodes, Considered
      <4>7. previous'[m] # None
        BY <4>2, <4>3 DEF SeenFrom
      <4>8. previous'[m].node \in seen' /\ next[previous'[m].node] < next[m]
        BY <1>1, <4>2, <4>3, <4>4, <4>5 DEF SeenFrom
      <4> QED BY <4>6, <4>7, <4>8 DEF SeenFrom
    <3> QED BY <1>1, <2>5, <3>1, <3>2
  <2>6. \A m \in seen' \ {query'.start} : SeenFrom(next, m)'
    BY <2>5
  <2>7. phase' # "back"
    BY <1>1
  <2> QED BY <2>2, <2>6, <2>7 DEF SearchRanked
<1>8. SearchTypes' /\ PathAnswered'
  BY <1>1, <1>2 DEF PathInv, SearchTypes, PathAnswered
<1> QED BY <1>6, <1>7, <1>8, PathMemoStays DEF PathInv

\* The target has been seen: the path back begins with it.
LEMMA FoundKeeps ==
  ASSUME PartsTypes, PathInv, NEW n \in Nodes, Found(n), UNCHANGED <<edges, query, memo>>
  PROVE  PathInv'
<1>1. /\ phase = "path" /\ phase' = "back" /\ n \in frontier /\ n = query.target
      /\ path' = <<n>> /\ trail = <<>> /\ UNCHANGED <<trail, seen, previous>>
  BY DEF Found, IsFirstByCode, PathInv, SearchTypes
<1>2. n \in seen /\ seen \subseteq Nodes
  BY <1>1 DEF PathInv, SearchFound
<1>3. PICK rank \in [Nodes -> Nat] : \A m \in seen \ {query.start} : SeenFrom(rank, m)
  BY <1>1 DEF PathInv, SearchRanked
<1>4. \A m \in seen \ {query.start} : SeenFrom(rank, m)'
  BY <1>1, <1>3, PathsFixed DEF SeenFrom, LeadsTo
<1>5. PathSoFar(rank)'
  <2>1. path' \in Seq(seen) /\ Len(path') = 1 /\ path'[1] = n /\ path' # <<>>
    BY <1>1, <1>2
  <2>2. trail' \in Seq(edges) /\ Len(trail') = 0
    BY <1>1
  <2>3. \A i \in 1..Len(trail') : FALSE
    BY <2>2
  <2>4. \A i, j \in 1..Len(path') : ~(i < j)
    BY <2>1
  <2> QED BY <1>1, <1>2, <2>1, <2>2, <2>3, <2>4 DEF PathSoFar
<1>6. SearchRanked'
  BY <1>1, <1>3, <1>4, <1>5 DEF SearchRanked
<1>7. SearchTypes' /\ SearchFound' /\ PathAnswered'
  BY <1>1 DEF PathInv, SearchTypes, SearchFound, PathAnswered
<1> QED BY <1>6, <1>7, PathMemoStays DEF PathInv

\* When the frontier is empty, what has been seen is closed and has no target.
LEMMA NotFoundKeeps ==
  ASSUME PartsTypes, PathInv, NotFound, UNCHANGED <<edges, query, memo>>
  PROVE  PathInv'
<1>1. /\ query \in Queries /\ edges \subseteq Edges /\ phase = "path" /\ frontier = {}
      /\ phase' = "answered" /\ answer' = NoPath /\ path' = <<>> /\ trail' = <<>>
      /\ DOMAIN previous' = Nodes
  BY SentinelAssumption DEF NotFound, PartsTypes, Answered, DropSearch
<1>2. /\ seen \subseteq Nodes /\ query.start \in seen
      /\ \A m \in seen : m # query.target /\ Neighbours(query, m) \subseteq seen
  BY <1>1 DEF PathInv, SearchFound
<1>3. ClosedUnder(Unfiltered(query), seen)
  BY <1>1, <1>2, UnfilteredIsAlike
<1>4. query.target \notin Reached(Unfiltered(query))
  BY <1>2, <1>3 DEF Reached
<1>5. PathAnswered'
  <2>1. LegalPath(query, NoPath)
    BY <1>4 DEF LegalPath
  <2>2. PICK q : q = query
    OBVIOUS
  <2>3. LegalPath(q, NoPath)'
    BY <2>1, <2>2, PathsFixed DEF LegalPath
  <2> QED BY <1>1, <2>2, <2>3 DEF PathAnswered, LegalPath
<1>6. SearchTypes' /\ SearchFound' /\ SearchRanked'
  BY <1>1 DEF SearchTypes, SearchFound, SearchRanked
<1> QED BY <1>5, <1>6, PathMemoStays DEF PathInv

\* Of sequences: something put in front.
LEMMA PutInFront ==
  ASSUME NEW S, NEW s \in Seq(S), NEW x \in S
  PROVE  LET t == <<x>> \o s IN
         /\ t \in Seq(S) /\ Len(t) = Len(s) + 1 /\ t # <<>> /\ t[1] = x
         /\ \A i \in 1..Len(s) : t[i + 1] = s[i]
         /\ \A i \in 2..Len(t) : t[i] = s[i - 1]
<1> DEFINE t == <<x>> \o s
<1>1. t \in Seq(S) /\ Len(t) = Len(s) + 1 /\ t[1] = x /\ Len(s) \in Nat
  OBVIOUS
<1>2. \A i \in 1..Len(t) : t[i] = IF i = 1 THEN x ELSE s[i - 1]
  OBVIOUS
<1> QED BY <1>1, <1>2

\* One step back: to a node of a lower rank.
LEMMA StepBackKeeps ==
  ASSUME PartsTypes, PathInv, StepBack, UNCHANGED <<edges, query, memo>>
  PROVE  PathInv'
<1> DEFINE h == path[1]
           p == previous[path[1]]
<1>1. PICK rank \in [Nodes -> Nat] :
        (\A m \in seen \ {query.start} : SeenFrom(rank, m)) /\ PathSoFar(rank)
  BY DEF StepBack, PathInv, SearchRanked
<1>2. path \in Seq(seen) /\ path # <<>> /\ Head(path) = h /\ h \in seen /\ Len(path) \in Nat \ {0}
  BY <1>1 DEF PathSoFar
<1>3. /\ phase = "back" /\ phase' = "back" /\ h # query.start
      /\ path' = <<p.node>> \o path /\ trail' = <<p.edge>> \o trail
      /\ UNCHANGED <<seen, previous>>
  BY <1>2 DEF StepBack
<1>4. p.node \in seen /\ rank[p.node] < rank[h] /\ LeadsTo(p.edge, p.node, h)
  BY <1>1, <1>2, <1>3 DEF SeenFrom
<1>5. p.edge \in edges /\ trail \in Seq(edges) /\ Len(path) = Len(trail) + 1 /\ seen \subseteq Nodes
  BY <1>1, <1>4 DEF LeadsTo, AdjacentEdges, PathSoFar
<1> HIDE DEF h, p
<1>6. /\ path' \in Seq(seen) /\ Len(path') = Len(path) + 1 /\ path' # <<>> /\ path'[1] = p.node
      /\ \A i \in 1..Len(path) : path'[i + 1] = path[i]
      /\ \A i \in 2..Len(path') : path'[i] = path[i - 1]
  BY <1>2, <1>3, <1>4, PutInFront
<1>7. /\ trail' \in Seq(edges) /\ Len(trail') = Len(trail) + 1 /\ trail'[1] = p.edge
      /\ \A i \in 2..Len(trail') : trail'[i] = trail[i - 1]
  BY <1>3, <1>5, PutInFront
<1>8. \A m \in seen \ {query.start} : SeenFrom(rank, m)'
  BY <1>1, <1>3, PathsFixed DEF SeenFrom, LeadsTo
<1>9. ASSUME NEW i \in 1..Len(trail') PROVE LeadsTo(trail'[i], path'[i], path'[i + 1])
  <2>1. CASE i = 1
    BY <1>2, <1>4, <1>6, <1>7, <2>1 DEF h
  <2>2. CASE i # 1
    <3>1. i \in 2..Len(trail') /\ i - 1 \in 1..Len(trail) /\ i \in 2..Len(path') /\ i \in 1..Len(path)
      BY <1>5, <1>6, <1>7, <2>2
    <3>2. LeadsTo(trail[i - 1], path[i - 1], path[i])
      <4>1. LeadsTo(trail[i - 1], path[i - 1], path[(i - 1) + 1])
        BY <1>1, <3>1 DEF PathSoFar
      <4>2. (i - 1) + 1 = i
        OBVIOUS
      <4> QED BY <4>1, <4>2
    <3> QED BY <1>6, <1>7, <3>1, <3>2
  <2> QED BY <2>1, <2>2
<1>10. ASSUME NEW i \in 1..Len(path'), NEW j \in 1..Len(path'), i < j
       PROVE  rank[path'[i]] < rank[path'[j]]
  <2>1. j \in 2..Len(path') /\ j - 1 \in 1..Len(path) /\ path'[j] = path[j - 1]
    BY <1>2, <1>6, <1>10
  <2>2. \A k \in 1..Len(path) : path[k] \in Nodes /\ rank[path[k]] \in Nat
    BY <1>2, <1>5
  <2>3. rank[h] <= rank[path[j - 1]]
    <3>1. CASE j - 1 = 1
      BY <2>1, <2>2, <3>1 DEF h
    <3>2. CASE j - 1 # 1
      <4>1. 1 \in 1..Len(path) /\ 1 < j - 1
        BY <1>2, <2>1, <3>2
      <4> QED BY <1>1, <2>1, <2>2, <4>1 DEF PathSoFar, h
    <3> QED BY <3>1, <3>2
  <2>4. CASE i = 1
    <3>1. rank[p.node] \in Nat /\ rank[h] \in Nat /\ rank[path[j - 1]] \in Nat
      BY <1>2, <1>4, <1>5, <2>1, <2>2
    <3> QED BY <1>4, <1>6, <2>1, <2>3, <2>4, <3>1
  <2>5. CASE i # 1
    <3>1. i \in 2..Len(path') /\ i - 1 \in 1..Len(path) /\ path'[i] = path[i - 1] /\ i - 1 < j - 1
      BY <1>2, <1>6, <1>10, <2>5
    <3> QED BY <1>1, <2>1, <3>1 DEF PathSoFar
  <2> QED BY <2>4, <2>5
<1>11. path'[Len(path')] = query.target
  <2>1. Len(path) \in 1..Len(path) /\ path[Len(path)] = query.target
    BY <1>1, <1>2 DEF PathSoFar
  <2> QED BY <1>6, <2>1
<1>12. PathSoFar(rank)'
  <2>1. \A i \in 1..Len(trail') : LeadsTo(trail[i], path[i], path[i + 1])'
    BY <1>9 DEF LeadsTo, AdjacentEdges, NextNodes, Considered
  <2>2. /\ seen' \subseteq Nodes /\ path' \in Seq(seen') /\ path' # <<>> /\ trail' \in Seq(edges')
        /\ Len(path') = Len(trail') + 1
    BY <1>3, <1>5, <1>6, <1>7
  <2>3. \A i, j \in 1..Len(path') : i < j => rank[path'[i]] < rank[path'[j]]
    BY <1>10
  <2> QED BY <1>11, <2>1, <2>2, <2>3 DEF PathSoFar
<1>13. SearchRanked'
  BY <1>3, <1>8, <1>12 DEF SearchRanked
<1>14. SearchTypes' /\ SearchFound' /\ PathAnswered'
  BY <1>3 DEF PathInv, SearchTypes, SearchFound, PathAnswered
<1> QED BY <1>13, <1>14, PathMemoStays DEF PathInv

\* At the start the path is whole.
LEMMA BackAtStartKeeps ==
  ASSUME PartsTypes, PathInv, BackAtStart, UNCHANGED <<edges, query, memo>>
  PROVE  PathInv'
<1>1. PICK rank \in [Nodes -> Nat] :
        (\A m \in seen \ {query.start} : SeenFrom(rank, m)) /\ PathSoFar(rank)
  BY DEF BackAtStart, PathInv, SearchRanked
<1>2. /\ path \in Seq(seen) /\ seen \subseteq Nodes /\ path # <<>> /\ Head(path) = path[1]
      /\ path[1] \in seen /\ Len(path) \in Nat \ {0} /\ trail \in Seq(edges)
      /\ edges \subseteq Edges
  BY <1>1 DEF PathSoFar, PartsTypes
<1>3. Head(path) = query.start
  BY <1>1, <1>2 DEF BackAtStart, SeenFrom
<1>4. /\ phase' = "answered" /\ answer' = [nodes |-> path, edges |-> trail]
      /\ path' = <<>> /\ trail' = <<>> /\ DOMAIN previous' = Nodes
  BY <1>3 DEF BackAtStart, Answered, DropSearch
<1>5. answer' # NoPath
  <2>1. path \in Seq(Nodes) /\ trail \in Seq(Edges)
    BY <1>2
  <2> QED BY <1>4, <2>1, SentinelAssumption
<1>6. Distinct(path)
  <2>1. ASSUME NEW i \in 1..Len(path), NEW j \in 1..Len(path), path[i] = path[j], i < j
        PROVE  FALSE
    <3>1. rank[path[i]] < rank[path[j]] /\ rank[path[i]] \in Nat
      BY <1>1, <1>2, <2>1 DEF PathSoFar
    <3> QED BY <2>1, <3>1
  <2> QED BY <1>2, <2>1 DEF Distinct
<1>7. LegalPath(query, answer')
  <2>1. Last(path) = query.target
    BY <1>1 DEF PathSoFar, Last
  <2>2. \A i \in 1..Len(trail) : LeadsTo(trail[i], path[i], path[i + 1])
    BY <1>1 DEF PathSoFar
  <2>3. Len(path) = Len(trail) + 1
    BY <1>1 DEF PathSoFar
  <2> QED BY <1>2, <1>3, <1>4, <1>5, <1>6, <2>1, <2>2, <2>3 DEF LegalPath, LeadsTo
<1>8. PathAnswered'
  <2>1. PICK q, a : q = query /\ a = answer'
    OBVIOUS
  <2>2. LegalPath(q, a)'
    BY <1>7, <2>1, PathsFixed
  <2>3. query' = q /\ answer' = a
    BY <2>1
  <2> QED BY <2>2, <2>3 DEF PathAnswered, LegalPath
<1>9. SearchTypes' /\ SearchFound' /\ SearchRanked'
  BY <1>4 DEF SearchTypes, SearchFound, SearchRanked
<1> QED BY <1>8, <1>9, PathMemoStays DEF PathInv

-----------------------------------------------------------------------------
\* A path is remembered for queries of its ends, direction and relationships.
LEMMA PathRemember ==
  ASSUME NoEmptyLists, PartsTypes, PathInv, Remember
  PROVE  PathInv'
<1> USE DEF Remember
<1>1. SearchTypes' /\ SearchFound' /\ SearchRanked'
  BY DEF PathInv, SearchTypes, SearchFound, SearchRanked
<1>2. query \in Queries
  BY DEF PartsTypes
<1>3. \A q, a : LegalPath(q, a)' <=> LegalPath(q, a)
  BY PathsFixed
<1>4. PathAnswered'
  <2>1. PICK q, a : q = query /\ a = answer
    OBVIOUS
  <2>2. query.op = "path" => LegalPath(q, a)'
    BY <1>3, <2>1 DEF PathInv, PathAnswered
  <2> QED BY <2>1, <2>2 DEF PathAnswered, LegalPath
<1>5. ASSUME NEW m \in memo', NEW q \in Queries, q.op = "path", m.key = Key(q)
      PROVE  LegalPath(q, m.answer)'
  <2>1. CASE m \in memo
    BY <1>3, <1>5, <2>1 DEF PathInv, PathRemembered
  <2>2. CASE m = [key |-> Key(query), answer |-> answer]
    <3>1. /\ query.op = "path" /\ query.start = q.start /\ query.target = q.target
          /\ query.direction = q.direction
          /\ Listed(query.relationships) = Listed(q.relationships)
      BY <1>2, <1>5, <2>2 DEF Key
    <3>2. query.relationships = q.relationships
      BY <1>2, <3>1 DEF Listed, NoEmptyLists
    <3>3. /\ \A n : AdjacentEdges(query, n) = AdjacentEdges(q, n)
          /\ \A e, n : NextNodes(query, e, n) = NextNodes(q, e, n)
          /\ \A n : Neighbours(query, n) = Neighbours(q, n)
      BY <3>1, <3>2 DEF AdjacentEdges, NextNodes, Considered, Neighbours
    <3>4. \A S \in SUBSET Nodes : ClosedUnder(Unfiltered(query), S) <=> ClosedUnder(Unfiltered(q), S)
      BY <1>2, <3>1, <3>3, UnfilteredIsAlike DEF PartsTypes
    <3>5. Reached(Unfiltered(query)) = Reached(Unfiltered(q))
      BY <3>4 DEF Reached
    <3>6. LegalPath(query, answer)
      BY <3>1 DEF PathInv, PathAnswered
    <3>7. LegalPath(q, answer)
      BY <3>1, <3>3, <3>5, <3>6 DEF LegalPath
    <3> QED BY <1>3, <2>2, <3>7
  <2> QED BY <2>1, <2>2
<1>6. PathRemembered'
  BY <1>5 DEF PathRemembered, Key, Listed
<1> QED BY <1>1, <1>4, <1>6 DEF PathInv

LEMMA PathStepKeeps == NoEmptyLists /\ PartsTypes /\ PathInv /\ [Next]_vars => PathInv'
<1> SUFFICES ASSUME NoEmptyLists, PartsTypes, PathInv, [Next]_vars PROVE PathInv'
  OBVIOUS
<1>1. ASSUME NEW q \in Queries, Hit(q) PROVE PathInv'
  BY <1>1, PathHit
<1>2. ASSUME NEW q \in Queries, Execute(q) PROVE PathInv'
  BY <1>2, PathExecute
<1>3. CASE Step
  <2>1. CASE PathStep
    BY <1>3, <2>1, ExpandKeeps, FoundKeeps, NotFoundKeeps, StepBackKeeps, BackAtStartKeeps
       DEF Step, PathStep
  <2>2. CASE ~PathStep
    BY <1>3, <2>2, PathOtherStep DEF Step
  <2> QED BY <2>1, <2>2
<1>4. CASE Remember
  BY <1>4, PathRemember
<1>5. CASE Return
  BY <1>5, PathMemoStays
     DEF Return, PathInv, SearchTypes, SearchFound, SearchRanked, PathAnswered
<1>6. CASE Clear
  <2>1. SearchTypes' /\ SearchFound' /\ SearchRanked' /\ PathAnswered'
    BY <1>6 DEF Clear, PathInv, SearchTypes, SearchFound, SearchRanked, PathAnswered
  <2>2. PathRemembered'
    BY <1>6 DEF Clear, PathRemembered
  <2> QED BY <2>1, <2>2 DEF PathInv
<1>7. CASE UNCHANGED vars
  <2>1. /\ UNCHANGED <<edges, query, phase, answer, memo>>
        /\ UNCHANGED <<frontier, seen, previous, path, trail>>
    BY <1>7 DEF vars
  <2>2. SearchTypes'
    BY <2>1 DEF PathInv, SearchTypes
  <2>3. SearchFound'
    BY <2>1 DEF PathInv, SearchFound, ClosedUnder, Unfiltered, Neighbours, AdjacentEdges, NextNodes, Considered, Admits, Allowed
  <2>4. SearchRanked'
    <3> SUFFICES ASSUME phase \in {"path", "back"} PROVE SearchRanked'
      BY <2>1 DEF SearchRanked
    <3>1. PICK rank \in [Nodes -> Nat] :
            /\ \A m \in seen \ {query.start} : SeenFrom(rank, m)
            /\ phase = "back" => PathSoFar(rank)
      BY DEF PathInv, SearchRanked
    <3>2. \A m : SeenFrom(rank, m)' <=> SeenFrom(rank, m)
      BY <2>1, LeadsStill DEF SeenFrom
    <3>3. PathSoFar(rank)' <=> PathSoFar(rank)
      BY <2>1, LeadsStill DEF PathSoFar
    <3> QED BY <2>1, <3>1, <3>2, <3>3 DEF SearchRanked
  <2>5. PathAnswered'
    <3>1. PICK q, a : q = query /\ a = answer
      OBVIOUS
    <3>2. LegalPath(q, a)' <=> LegalPath(q, a)
      BY <2>1, PathsFixed
    <3> QED BY <2>1, <3>1, <3>2 DEF PathInv, PathAnswered, LegalPath
  <2> QED BY <2>1, <2>2, <2>3, <2>4, <2>5, PathMemoStays DEF PathInv
<1> QED
  BY <1>1, <1>2, <1>3, <1>4, <1>5, <1>6, <1>7 DEF Next

\* shortestPath finds a path exactly if there is one, and what it finds is one
\* that repeats no node, though its queue is sorted by id after every node and
\* the cache answers for it, as long as no query gives an empty list for an
\* option.
THEOREM PathsAreReal ==
  ASSUME NoEmptyLists
  PROVE  Spec => []PathIsReal
<1>1. Init => PartsInv /\ PathInv
  BY PartsInit, PathInit
<1>2. (PartsInv /\ PathInv) /\ [Next]_vars => (PartsInv /\ PathInv)'
  BY PartsStepKeeps, PathStepKeeps DEF PartsInv
<1>3. PathInv => PathIsReal
  BY DEF PathInv, PathAnswered, PathIsReal, LegalPath, Answers
<1> QED BY <1>1, <1>2, <1>3, PTL DEF Spec

-----------------------------------------------------------------------------
(***************************************************************************)
(* Orders and cycles.                                                      *)
(***************************************************************************)
\* The edges a node still waits for.
Left(n) == {e \in EdgesOf(query) : e.to = n /\ e.from \notin ToSet(sorted)}

\* What is sorted had what leads to it before it, and counts and what is ready are
\* those of the edges that are left.
SortFound ==
  phase = "topological" =>
    /\ sorted \in Seq(Nodes) /\ Distinct(sorted) /\ Len(sorted) = Cardinality(ToSet(sorted))
    /\ \A j \in 1..Len(sorted) : \A e \in EdgesOf(query) :
         e.to = sorted[j] => \E i \in 1..j - 1 : sorted[i] = e.from
    /\ incoming = [n \in Nodes |-> Cardinality(Left(n))]
    /\ ready = {n \in Nodes \ ToSet(sorted) : Left(n) = {}}

SortTypes == IsFiniteSet(edges) /\ (phase # "topological" => sorted = <<>>)

LegalSort(q, a) ==
  IF a = Thrown THEN ~Acyclic(EdgesOf(q))
  ELSE /\ ToSet(a) = Nodes /\ Distinct(a)
       /\ \A e \in EdgesOf(q) : \A i, j \in 1..Len(a) : a[i] = e.from /\ a[j] = e.to => i < j

SortAnswered ==
  phase \in {"answered", "done"} /\ query.op = "topological" => LegalSort(query, answer)

SortRemembered ==
  \A m \in memo : \A q \in Queries :
    q.op = "topological" /\ m.key = Key(q) => LegalSort(q, m.answer)

SortInv == SortTypes /\ SortFound /\ SortAnswered /\ SortRemembered

-----------------------------------------------------------------------------
LEMMA SortFixed ==
  ASSUME UNCHANGED edges
  PROVE  \A q, a : EdgesOf(q)' = EdgesOf(q) /\ (LegalSort(q, a)' <=> LegalSort(q, a))
BY DEF EdgesOf, Considered, LegalSort, Acyclic, Distinct, ToSet

LEMMA SortMemoStays ==
  ASSUME SortRemembered, UNCHANGED <<edges, memo>>
  PROVE  SortRemembered'
<1>1. ASSUME NEW m \in memo', NEW q \in Queries, q.op = "topological", m.key = Key(q)
      PROVE  LegalSort(q, m.answer)'
  <2>1. LegalSort(q, m.answer)
    BY <1>1 DEF SortRemembered
  <2> QED BY <2>1, SortFixed DEF LegalSort, Acyclic, EdgesOf, Considered, Distinct, ToSet
<1> QED BY <1>1 DEF SortRemembered, Key, Listed

LEMMA SortInit == Init => SortInv
BY GraphAssumption
   DEF Init, SortInv, SortTypes, SortFound, SortAnswered, SortRemembered, NoOrder

\* Counts are of finitely many edges.
LEMMA LeftIsFinite ==
  ASSUME SortTypes
  PROVE  \A n : IsFiniteSet(Left(n)) /\ Cardinality(Left(n)) \in Nat
                /\ (Cardinality(Left(n)) = 0 <=> Left(n) = {})
<1> TAKE n
<1>1. IsFiniteSet(Left(n))
  BY FS_Subset DEF SortTypes, Left, EdgesOf
<1> QED BY <1>1, FS_CardinalityType, FS_EmptySet

LEMMA BeginSortKeeps ==
  ASSUME PartsTypes, SortInv, NEW q \in Queries, BeginSort(q), query' = q, UNCHANGED <<edges, memo>>,
         phase = "idle"
  PROVE  SortInv'
<1> USE DEF BeginSort, SortInv
<1>1. sorted = <<>> /\ sorted' = <<>> /\ ToSet(sorted') = {}
  BY DEF SortTypes, ToSet
<1>2. \A n : Left(n)' = {e \in EdgesOf(q) : e.to = n}
  BY <1>1, SortFixed DEF Left
<1>3. SortTypes'
  BY DEF SortTypes
<1>4. incoming' = [n \in Nodes |-> Cardinality(Left(n))']
  BY <1>2
<1>5. ready' = {n \in Nodes : Left(n)' = {}}
  <2>1. \A n : IsFiniteSet(Left(n)')
    BY <1>2, FS_Subset DEF SortTypes, EdgesOf
  <2>2. \A n \in Nodes : incoming'[n] = 0 <=> Left(n)' = {}
    BY <1>4, <2>1, FS_EmptySet
  <2> QED BY <2>2
<1>6. SortFound'
  <2> HIDE DEF BeginSort, SortInv
  <2>1. /\ sorted' \in Seq(Nodes) /\ Len(sorted') = 0 /\ 1..Len(sorted') = {}
    BY <1>1
  <2>2. Cardinality(ToSet(sorted')) = 0
    BY <1>1, FS_EmptySet
  <2>3. Distinct(sorted')
    BY <2>1 DEF Distinct
  <2>4. \A j \in 1..Len(sorted') : FALSE
    BY <2>1
  <2> QED BY <1>1, <1>4, <1>5, <2>1, <2>2, <2>3, <2>4 DEF SortFound
<1>7. SortAnswered'
  BY DEF SortAnswered
<1> QED BY <1>3, <1>6, <1>7, SortMemoStays

-----------------------------------------------------------------------------
\* Of sequences of nodes.
LEMMA ToSetIsImage ==
  ASSUME NEW s \in Seq(Nodes)
  PROVE  ToSet(s) = {s[i] : i \in 1..Len(s)}
BY DEF ToSet

LEMMA NodeAppended ==
  ASSUME NEW s \in Seq(Nodes), NEW n \in Nodes
  PROVE  LET t == Append(s, n) IN
         /\ t \in Seq(Nodes) /\ Len(t) = Len(s) + 1 /\ t[Len(t)] = n
         /\ \A i \in 1..Len(s) : t[i] = s[i]
         /\ ToSet(t) = ToSet(s) \cup {n}
<1> DEFINE t == Append(s, n)
<1>1. /\ t \in Seq(Nodes) /\ Len(t) = Len(s) + 1 /\ t[Len(t)] = n
      /\ \A i \in 1..Len(s) : t[i] = s[i]
  OBVIOUS
<1> HIDE DEF t
<1>2. Len(s) \in Nat /\ 1..Len(t) = 1..Len(s) \cup {Len(t)}
  BY <1>1
<1>3. DOMAIN t = 1..Len(t) /\ DOMAIN s = 1..Len(s)
  BY <1>1
<1>4. ToSet(t) = {t[i] : i \in 1..Len(s)} \cup {t[Len(t)]}
  BY <1>2, <1>3 DEF ToSet
<1>5. ToSet(s) = {t[i] : i \in 1..Len(s)}
  BY <1>1, <1>3 DEF ToSet
<1> QED BY <1>1, <1>4, <1>5 DEF t

\* What is sorted waits for nothing.
LEMMA SortedWaitsForNothing ==
  ASSUME SortFound, phase = "topological"
  PROVE  ToSet(sorted) \subseteq Nodes /\ \A n \in ToSet(sorted) : Left(n) = {}
<1>1. sorted \in Seq(Nodes) /\ ToSet(sorted) = {sorted[j] : j \in 1..Len(sorted)}
  BY DEF SortFound, ToSet
<1>2. ASSUME NEW j \in 1..Len(sorted), NEW e \in Left(sorted[j]) PROVE FALSE
  <2>1. PICK i \in 1..j - 1 : sorted[i] = e.from
    BY <1>2 DEF SortFound, Left
  <2>2. i \in 1..Len(sorted)
    BY <1>1
  <2> QED BY <1>1, <1>2, <2>1, <2>2 DEF Left
<1> QED BY <1>1, <1>2

LEMMA EmitKeeps ==
  ASSUME PartsTypes, SortInv, NEW n \in Nodes, Emit(n), UNCHANGED <<edges, query, memo>>
  PROVE  SortInv'
<1> USE DEF Emit, SortInv
<1> DEFINE S == ToSet(sorted)
           Out(m) == {e \in EdgesOf(query) : e.from = n /\ e.to = m}
<1>1. /\ sorted \in Seq(Nodes) /\ Distinct(sorted) /\ Len(sorted) = Cardinality(S)
      /\ \A j \in 1..Len(sorted) : \A e \in EdgesOf(query) :
           e.to = sorted[j] => \E i \in 1..j - 1 : sorted[i] = e.from
      /\ incoming = [m \in Nodes |-> Cardinality(Left(m))]
      /\ ready = {m \in Nodes \ S : Left(m) = {}}
  BY DEF SortFound
<1>2. n \notin S /\ Left(n) = {} /\ S \subseteq Nodes /\ \A m \in S : Left(m) = {}
  BY <1>1, SortedWaitsForNothing DEF IsFirstByCode
<1>3. /\ sorted' \in Seq(Nodes) /\ Len(sorted') = Len(sorted) + 1
      /\ sorted'[Len(sorted')] = n /\ \A i \in 1..Len(sorted) : sorted'[i] = sorted[i]
      /\ ToSet(sorted') = S \cup {n}
  BY <1>1, NodeAppended
<1>4. EdgesOf(query)' = EdgesOf(query)
  BY SortFixed DEF EdgesOf, Considered
<1>5. \A m : Out(m) \subseteq Left(m) /\ Left(m)' = Left(m) \ Out(m)
  BY <1>2, <1>3, <1>4 DEF Left
<1>6. \A m : /\ IsFiniteSet(Left(m)) /\ Left(m) \cap Out(m) = Out(m)
             /\ Cardinality(Left(m)) \in Nat
             /\ Cardinality(Left(m)) = 0 <=> Left(m) = {}
  BY <1>5, LeftIsFinite
<1>7. \A m : /\ IsFiniteSet(Left(m)')
             /\ Cardinality(Left(m)') = Cardinality(Left(m)) - Cardinality(Out(m))
             /\ Cardinality(Left(m)') = 0 <=> Left(m)' = {}
  <2> TAKE m
  <2>1. /\ IsFiniteSet(Left(m) \ Out(m))
        /\ Cardinality(Left(m) \ Out(m)) = Cardinality(Left(m)) - Cardinality(Left(m) \cap Out(m))
    BY <1>6, FS_Difference
  <2> QED BY <1>5, <1>6, <2>1, FS_EmptySet
<1>8. incoming' = [m \in Nodes |-> Cardinality(Left(m))']
  BY <1>1, <1>7
<1> HIDE DEF Out
<1>9. ready' = {m \in Nodes \ ToSet(sorted') : Left(m)' = {}}
  <2>1. ready' = (ready \ {n}) \cup {m \in Nodes : incoming[m] # 0 /\ incoming'[m] = 0}
    OBVIOUS
  <2>2. \A m \in Nodes : incoming[m] # 0 /\ incoming'[m] = 0
                           <=> Left(m) # {} /\ Left(m)' = {}
    BY <1>1, <1>6, <1>7, <1>8
  <2>3. ASSUME NEW m \in Nodes PROVE m \in ready' <=> m \notin ToSet(sorted') /\ Left(m)' = {}
    BY <1>1, <1>2, <1>3, <1>5, <2>1, <2>2
  <2>4. ready' \subseteq Nodes
    BY <1>1, <2>1
  <2> HIDE DEF Emit, SortInv
  <2> QED BY <2>3, <2>4
<1>10. /\ Distinct(sorted') /\ Len(sorted') = Cardinality(ToSet(sorted'))
       /\ \A j \in 1..Len(sorted') : \A e \in EdgesOf(query)' :
            e.to = sorted'[j] => \E i \in 1..j - 1 : sorted'[i] = e.from
  <2>1. IsFiniteSet(S)
    BY <1>2, FS_Subset, NodeAssumption
  <2>2. Len(sorted') = Cardinality(ToSet(sorted'))
    BY <1>1, <1>2, <1>3, <2>1, FS_AddElement
  <2>3. \A i \in 1..Len(sorted) : sorted[i] \in S
    BY <1>1 DEF ToSet
  <2>4. Len(sorted) \in Nat
    BY <1>1
  <2>5. Distinct(sorted')
    <3> SUFFICES ASSUME NEW i \in 1..Len(sorted'), NEW j \in 1..Len(sorted'),
                        sorted'[i] = sorted'[j]
                 PROVE  i = j
      BY DEF Distinct
    <3> QED BY <1>1, <1>2, <1>3, <2>3, <2>4 DEF Distinct
  <2>6. ASSUME NEW j \in 1..Len(sorted'), NEW e \in EdgesOf(query), e.to = sorted'[j]
        PROVE  \E i \in 1..j - 1 : sorted'[i] = e.from
    <3>1. CASE j = Len(sorted')
      <4>1. e.from \in S
        BY <1>2, <1>3, <2>6, <3>1 DEF Left
      <4>2. ToSet(sorted) = {sorted[i] : i \in 1..Len(sorted)}
        BY <1>1, ToSetIsImage
      <4>3. PICK i \in 1..Len(sorted) : sorted[i] = e.from
        BY <4>1, <4>2
      <4> QED BY <1>3, <2>4, <3>1, <4>3
    <3>2. CASE j # Len(sorted')
      <4>1. j \in 1..Len(sorted) /\ e.to = sorted[j]
        BY <1>3, <2>4, <2>6, <3>2
      <4>2. PICK i \in 1..j - 1 : sorted[i] = e.from
        BY <1>1, <4>1
      <4> QED BY <1>3, <2>4, <4>1, <4>2
    <3> QED BY <3>1, <3>2
  <2> QED BY <1>4, <2>2, <2>5, <2>6
<1>11. SortFound'
  BY <1>3, <1>4, <1>8, <1>9, <1>10 DEF SortFound
<1>12. SortTypes' /\ SortAnswered'
  BY DEF SortTypes, SortAnswered
<1> QED BY <1>11, <1>12, SortMemoStays

\* With nothing ready, what is not sorted waits for something that is not: if that is
\* no node at all, the order is complete, and otherwise there is a cycle.
LEMMA EndSortKeeps ==
  ASSUME PartsTypes, SortInv, EndSort, UNCHANGED <<edges, query, memo>>
  PROVE  SortInv'
<1> USE DEF EndSort, SortInv, Answered
<1> DEFINE S == ToSet(sorted)
<1>1. /\ sorted \in Seq(Nodes) /\ Distinct(sorted) /\ Len(sorted) = Cardinality(S)
      /\ \A j \in 1..Len(sorted) : \A e \in EdgesOf(query) :
           e.to = sorted[j] => \E i \in 1..j - 1 : sorted[i] = e.from
      /\ ready = {m \in Nodes \ S : Left(m) = {}} /\ ready = {}
  BY DEF SortFound
<1>2. S \subseteq Nodes
  BY SortedWaitsForNothing
<1>3. ASSUME Len(sorted) = Cardinality(Nodes), answer' = sorted
      PROVE  LegalSort(query, answer')
  <2>1. S = Nodes
    BY <1>1, <1>2, <1>3, FS_Subset, NodeAssumption
  <2>2. ASSUME NEW e \in EdgesOf(query), NEW i \in 1..Len(sorted), NEW j \in 1..Len(sorted),
               sorted[i] = e.from, sorted[j] = e.to
        PROVE  i < j
    <3>1. PICK k \in 1..j - 1 : sorted[k] = e.from
      BY <1>1, <2>2
    <3>2. k \in 1..Len(sorted) /\ k < j
      BY <1>1, <3>1
    <3> QED BY <1>1, <2>2, <3>1, <3>2 DEF Distinct
  <2>3. sorted # Thrown
    BY <1>1, SentinelAssumption
  <2> QED BY <1>1, <1>3, <2>1, <2>2, <2>3 DEF LegalSort
<1>4. ASSUME Len(sorted) # Cardinality(Nodes), answer' = Thrown
      PROVE  LegalSort(query, answer')
  <2> DEFINE U == Nodes \ S
  <2>1. U # {} /\ U \in SUBSET Nodes
    <3>1. S # Nodes
      BY <1>1, <1>4
    <3> HIDE DEF S
    <3> QED BY <1>2, <3>1
  <2>2. ASSUME NEW n \in U PROVE \E e \in EdgesOf(query) : e.to = n /\ e.from \in U
    <3>1. PICK e \in Left(n) : TRUE
      BY <1>1
    <3>2. e.from \in Nodes
      BY <3>1 DEF Left, EdgesOf, PartsTypes, Edges
    <3> QED BY <3>1, <3>2 DEF Left
  <2>3. ~Acyclic(EdgesOf(query))
    BY <2>1, <2>2 DEF Acyclic
  <2> QED BY <1>4, <2>3 DEF LegalSort
<1>5. LegalSort(query, answer')
  BY <1>3, <1>4
<1>6. LegalSort(query, answer)'
  <2>1. UNCHANGED <<edges, query>>
    OBVIOUS
  <2> QED BY ONLY <1>5, <2>1 DEF LegalSort, EdgesOf, Considered, Acyclic, Distinct, ToSet
<1>7. SortTypes' /\ SortFound' /\ SortAnswered'
  BY <1>6 DEF SortTypes, SortFound, SortAnswered, DropOrder
<1> QED BY <1>7, SortMemoStays

\* The order is remembered for queries of the same relationships.
LEMMA SortRemember ==
  ASSUME PartsTypes, SortInv, Remember
  PROVE  SortInv'
<1> USE DEF Remember, SortInv
<1>1. SortTypes' /\ SortFound' /\ SortAnswered'
  <2>1. LegalSort(query, answer)' <=> LegalSort(query, answer)
    BY DEF EdgesOf, Considered, LegalSort, Acyclic, Distinct, ToSet
  <2> QED BY <2>1 DEF SortTypes, SortFound, SortAnswered
<1>2. ASSUME NEW m \in memo', NEW q \in Queries, q.op = "topological", m.key = Key(q)
      PROVE  LegalSort(q, m.answer)
  <2>1. CASE m \in memo
    BY <1>2, <2>1 DEF SortRemembered
  <2>2. CASE m = [key |-> Key(query), answer |-> answer]
    <3>1. query.op = "topological" /\ query.relationships = q.relationships
      BY <1>2, <2>2 DEF Key
    <3>2. LegalSort(query, answer)
      BY <3>1 DEF SortAnswered
    <3>3. EdgesOf(query) = EdgesOf(q)
      BY <3>1 DEF EdgesOf, Considered
    <3> QED BY <2>2, <3>2, <3>3 DEF LegalSort
  <2> QED BY <2>1, <2>2
<1>3. SortRemembered'
  <2>1. ASSUME NEW m \in memo', NEW q \in Queries, q.op = "topological", m.key = Key(q)
        PROVE  LegalSort(q, m.answer)'
    <3>1. LegalSort(q, m.answer)
      BY <1>2, <2>1
    <3> QED BY <3>1, SortFixed DEF LegalSort, EdgesOf, Considered, Acyclic, Distinct, ToSet
  <2> QED BY <2>1 DEF SortRemembered, Key, Listed
<1> QED BY <1>1, <1>3

\* Every other step either sorts nothing or is no step of a sort.
LEMMA SortOtherStep ==
  ASSUME PartsTypes, SortInv, UNCHANGED <<edges, query, memo>>,
         \/ UNCHANGED orderVars /\ (WalkStep \/ PathStep \/ ComponentStep \/ ChainStep)
         \/ CycleStep
  PROVE  SortInv'
<1>1. phase # "topological" /\ phase' # "topological" /\ phase # "done"
      /\ (phase' = "answered" => query.op # "topological") /\ phase' # "done"
  <2>1. CASE PathStep
    BY <2>1 DEF PartsTypes, PathStep, NotFound, StepBack, BackAtStart, Expand, Found, Answered
  <2>2. CASE WalkStep
    BY <2>2 DEF PartsTypes, WalkStep, EndWalk, SkipItem, VisitNode, Answered
  <2>3. CASE ComponentStep
    BY <2>3 DEF PartsTypes, ComponentStep, StartComponent, Gather, EndComponent, EndComponents,
                Answered
  <2>4. CASE CycleStep
    BY <2>4 DEF PartsTypes, CycleStep, VisitRoot, LeaveNode, EndCycles, FollowEdge, Answered
  <2>5. CASE ChainStep
    BY <2>5 DEF PartsTypes, ChainStep, StartChain, FollowCall, EndVisit, EndChain, Answered
  <2> QED BY <2>1, <2>2, <2>3, <2>4, <2>5
<1>2. sorted = <<>> /\ sorted' = <<>>
  BY <1>1 DEF SortInv, SortTypes, CycleStep, VisitRoot, LeaveNode, EndCycles, FollowEdge, DropOrder
<1>3. SortTypes' /\ SortFound' /\ SortAnswered'
  BY <1>1, <1>2 DEF SortInv, SortTypes, SortFound, SortAnswered
<1> QED BY <1>3, SortMemoStays DEF SortInv

LEMMA SortExecute ==
  ASSUME PartsTypes, SortInv, NEW q \in Queries, Execute(q)
  PROVE  SortInv'
<1>1. CASE BeginSort(q)
  BY <1>1, BeginSortKeeps DEF Execute
<1>2. CASE ~BeginSort(q)
  <2>1. /\ UNCHANGED <<edges, memo, orderVars>> /\ query' = q /\ phase = "idle"
        /\ phase' # "topological" /\ phase' # "done"
        /\ phase' = "answered" => q.op # "topological"
    BY <1>2 DEF Execute, BeginWalk, BeginPath, BeginComponents, BeginCycles, BeginChain, Answered
  <2>2. SortTypes' /\ SortFound' /\ SortAnswered'
    BY <2>1 DEF SortInv, SortTypes, SortFound, SortAnswered
  <2> QED BY <2>1, <2>2, SortMemoStays DEF SortInv
<1> QED BY <1>1, <1>2

LEMMA SortHit ==
  ASSUME PartsTypes, SortInv, NEW q \in Queries, Hit(q)
  PROVE  SortInv'
<1> USE DEF Hit, SortInv
<1>1. SortTypes' /\ SortFound'
  BY DEF SortTypes, SortFound
<1>2. q.op = "topological" => LegalSort(q, answer')
  BY DEF SortRemembered, Entries
<1>3. SortAnswered'
  BY <1>2 DEF SortAnswered, EdgesOf, Considered, LegalSort, Acyclic, Distinct, ToSet
<1> QED BY <1>1, <1>3, SortMemoStays

LEMMA SortStepKeeps == PartsInv /\ SortInv /\ [Next]_vars => SortInv'
<1> SUFFICES ASSUME PartsInv, SortInv, [Next]_vars PROVE SortInv'
  OBVIOUS
<1>0. PartsTypes
  BY DEF PartsInv
<1>1. ASSUME NEW q \in Queries, Hit(q) PROVE SortInv'
  BY <1>0, <1>1, SortHit
<1>2. ASSUME NEW q \in Queries, Execute(q) PROVE SortInv'
  BY <1>0, <1>2, SortExecute
<1>3. CASE Step
  <2>1. CASE SortStep
    BY <1>0, <1>3, <2>1, EmitKeeps, EndSortKeeps DEF Step, SortStep
  <2>2. CASE ~SortStep
    BY <1>0, <1>3, <2>2, SortOtherStep DEF Step
  <2> QED BY <2>1, <2>2
<1>4. CASE Remember
  BY <1>0, <1>4, SortRemember
<1>5. CASE Return
  <2>1. SortTypes' /\ SortFound' /\ SortAnswered'
    BY <1>5 DEF Return, SortInv, SortTypes, SortFound, SortAnswered
  <2> QED BY <1>5, <2>1, SortMemoStays DEF Return, SortInv
<1>6. CASE Clear
  <2>1. SortTypes' /\ SortFound' /\ SortAnswered'
    BY <1>6 DEF Clear, SortInv, SortTypes, SortFound, SortAnswered
  <2> QED BY <1>6, <2>1 DEF Clear, SortInv, SortRemembered
<1>7. CASE UNCHANGED vars
  <2>1. \A q, a : EdgesOf(q)' = EdgesOf(q) /\ (LegalSort(q, a)' <=> LegalSort(q, a))
    BY <1>7, SortFixed DEF vars
  <2>2. SortTypes' /\ SortFound'
    BY <1>7 DEF vars, SortInv, SortTypes, SortFound, Left, EdgesOf, Considered, ToSet, Distinct
  <2>3. SortAnswered'
    BY <1>7, <2>1 DEF vars, SortInv, SortAnswered
  <2> QED BY <1>7, <2>2, <2>3, SortMemoStays DEF vars, SortInv
<1> QED
  BY <1>1, <1>2, <1>3, <1>4, <1>5, <1>6, <1>7 DEF Next

\* topologicalSort throws exactly on a cycle, and otherwise arranges every node after
\* all that lead to it, on every graph, computed or answered by the cache.
THEOREM SortsAreLegal == Spec => []SortIsLegal
<1>1. PartsInv /\ [Next]_vars => PartsInv'
  BY PartsStepKeeps
<1>2. PartsInv /\ SortInv /\ [Next]_vars => SortInv'
  BY SortStepKeeps
<1>3. SortInv => SortIsLegal
  BY DEF SortInv, SortAnswered, SortIsLegal, Answers, LegalSort
<1> QED BY <1>1, <1>2, <1>3, PartsInit, SortInit, PTL DEF Spec
-----------------------------------------------------------------------------
\* A sequence of nodes that the edges lead around.
IsCycle(E, c) ==
  /\ c \in Seq(Nodes) /\ c # <<>> /\ Distinct(c)
  /\ \A i \in 1..Len(c) : \E e \in E : e.from = c[i] /\ e.to = c[(i % Len(c)) + 1]

\* Cycles, and of each one rotation.
Sound(E, C) ==
  /\ \A c \in C : IsCycle(E, c)
  /\ \A c, d \in C : d \in Rotations(c) => d = c

LegalCycles(q, a) == Sound(EdgesOf(q), a) /\ (a = {} <=> Acyclic(EdgesOf(q)))

\* The stack is a path of distinct nodes that are not done.
StackIsPath ==
  /\ stack \in Seq(Nodes) /\ Distinct(stack)
  /\ done \subseteq Nodes /\ ToSet(stack) \cap done = {}
  /\ \A n \in ToSet(stack) : todo[n] \subseteq {e \in EdgesOf(query) : e.from = n}
  /\ \A i \in 1..Len(stack) - 1 :
       \E e \in EdgesOf(query) : e.from = stack[i] /\ e.to = stack[i + 1]

\* Until a cycle is found, what is done leads to nothing that is not, and has none;
\* and the edges followed from the stack lead to what is done or up the stack.
NoneMissed ==
  cycles = {} =>
    /\ \A e \in EdgesOf(query) : e.from \in done => e.to \in done
    /\ \A S \in (SUBSET done) \ {{}} :
         \E n \in S : \A e \in EdgesOf(query) : e.to = n => e.from \notin S
    /\ \A i \in 1..Len(stack) : \A e \in EdgesOf(query) :
         e.from = stack[i] /\ e \notin todo[stack[i]] =>
           e.to \in done \/ (i < Len(stack) /\ e.to = stack[i + 1])

CyclesFound ==
  phase = "cycles" => StackIsPath /\ NoneMissed /\ Sound(EdgesOf(query), cycles)

CycleTypes ==
  /\ todo \in [Nodes -> SUBSET edges]
  /\ phase # "cycles" => stack = <<>> /\ done = {} /\ cycles = {}

CyclesAnswered ==
  phase \in {"answered", "done"} /\ query.op = "cycles" => LegalCycles(query, answer)

CyclesRemembered ==
  \A m \in memo : \A q \in Queries :
    q.op = "cycles" /\ m.key = Key(q) => LegalCycles(q, m.answer)

CycleInv == CycleTypes /\ CyclesFound /\ CyclesAnswered /\ CyclesRemembered

-----------------------------------------------------------------------------
LEMMA RoundIndex ==
  ASSUME NEW L \in Nat \ {0}, NEW i \in 1..L
  PROVE  (i % L) + 1 = IF i = L THEN 1 ELSE i + 1
<1>1. CASE i = L
  BY <1>1
<1>2. CASE i # L
  BY <1>2
<1> QED BY <1>1, <1>2

\* A cycle is no acyclic graph's.
LEMMA CycleRefutes ==
  ASSUME NEW E, NEW c, IsCycle(E, c)
  PROVE  ~Acyclic(E)
<1> DEFINE S == {c[i] : i \in 1..Len(c)}
<1>1. c \in Seq(Nodes) /\ Len(c) \in Nat \ {0} /\ \A i \in 1..Len(c) : c[i] \in Nodes
  BY DEF IsCycle
<1>2. S \in SUBSET Nodes /\ c[1] \in S
  BY <1>1
<1>3. ASSUME NEW j \in 1..Len(c) PROVE \E e \in E : e.to = c[j] /\ e.from \in S
  <2> DEFINE i == IF j = 1 THEN Len(c) ELSE j - 1
  <2>1. i \in 1..Len(c) /\ (i % Len(c)) + 1 = j
    <3>1. CASE j = 1
      <4>1. i = Len(c) /\ i \in 1..Len(c)
        BY <1>1, <3>1
      <4> QED BY <1>1, <3>1, <4>1, RoundIndex
    <3>2. CASE j # 1
      <4>1. i = j - 1 /\ i \in 1..Len(c) /\ i # Len(c) /\ i + 1 = j
        BY <1>1, <3>2
      <4> HIDE DEF i
      <4> QED BY <1>1, <4>1, RoundIndex
    <3> QED BY <3>1, <3>2
  <2> HIDE DEF i
  <2>2. PICK e \in E : e.from = c[i] /\ e.to = c[(i % Len(c)) + 1]
    BY <2>1 DEF IsCycle
  <2> QED BY <2>1, <2>2
<1>4. S # {} /\ \A n \in S : \E e \in E : e.to = n /\ e.from \in S
  BY <1>2, <1>3
<1> HIDE DEF S
<1> QED BY <1>2, <1>4 DEF Acyclic

\* The rotation that begins at i, node by node.
LEMMA RotationAt ==
  ASSUME NEW c \in Seq(Nodes), NEW i \in 1..Len(c)
  PROVE  LET r == SubSeq(c, i, Len(c)) \o SubSeq(c, 1, i - 1) IN
         /\ r \in Seq(Nodes) /\ Len(r) = Len(c)
         /\ \A k \in 1..Len(c) :
              r[k] = IF k <= Len(c) - i + 1 THEN c[k + i - 1] ELSE c[k - (Len(c) - i + 1)]
<1> DEFINE a == SubSeq(c, i, Len(c))
           b == SubSeq(c, 1, i - 1)
<1>0. Len(c) \in Nat /\ \A k \in 1..Len(c) : c[k] \in Nodes
  OBVIOUS
<1>1. /\ a \in Seq(Nodes) /\ Len(a) = Len(c) - i + 1
      /\ \A k \in 1..Len(c) - i + 1 : a[k] = c[k + i - 1]
  BY <1>0
<1>2. /\ b \in Seq(Nodes) /\ Len(b) = i - 1
      /\ \A k \in 1..i - 1 : b[k] = c[k]
  BY <1>0
<1> HIDE DEF a, b
<1>3. /\ a \o b \in Seq(Nodes) /\ Len(a \o b) = Len(c)
      /\ \A k \in 1..Len(c) : (a \o b)[k] = IF k <= Len(a) THEN a[k] ELSE b[k - Len(a)]
  BY <1>0, <1>1, <1>2
<1>4. ASSUME NEW k \in 1..Len(c)
      PROVE  (a \o b)[k] = IF k <= Len(c) - i + 1 THEN c[k + i - 1]
                                               ELSE c[k - (Len(c) - i + 1)]
  <2>1. CASE k <= Len(c) - i + 1
    BY <1>0, <1>1, <1>3, <2>1
  <2>2. CASE ~(k <= Len(c) - i + 1)
    <3>1. k - Len(a) \in 1..i - 1
      BY <1>0, <1>1, <2>2
    <3> QED BY <1>1, <1>2, <1>3, <2>2, <3>1
  <2> QED BY <2>1, <2>2
<1> QED BY <1>3, <1>4 DEF a, b

\* Rotating is mutual.
LEMMA RotationsAreMutual ==
  ASSUME NEW c \in Seq(Nodes), NEW d \in Rotations(c)
  PROVE  c \in Rotations(d) /\ d \in Seq(Nodes)
<1>1. PICK i \in 1..Len(c) : d = SubSeq(c, i, Len(c)) \o SubSeq(c, 1, i - 1)
  BY DEF Rotations
<1>2. /\ d \in Seq(Nodes) /\ Len(d) = Len(c) /\ Len(c) \in Nat
      /\ \A k \in 1..Len(c) :
              d[k] = IF k <= Len(c) - i + 1 THEN c[k + i - 1] ELSE c[k - (Len(c) - i + 1)]
  BY <1>1, RotationAt
<1> DEFINE j == IF i = 1 THEN 1 ELSE Len(c) - i + 2
           r == SubSeq(d, j, Len(d)) \o SubSeq(d, 1, j - 1)
<1>3. j \in 1..Len(d)
  BY <1>2
<1>4. /\ r \in Seq(Nodes) /\ Len(r) = Len(d)
      /\ \A k \in 1..Len(d) :
              r[k] = IF k <= Len(d) - j + 1 THEN d[k + j - 1] ELSE d[k - (Len(d) - j + 1)]
  BY <1>2, <1>3, RotationAt
<1>5. ASSUME NEW k \in 1..Len(c) PROVE r[k] = c[k]
  <2> HIDE DEF r
  <2>1. CASE i = 1
    BY <1>2, <1>4, <2>1
  <2>2. CASE i # 1 /\ k <= i - 1
    <3>1. k <= Len(d) - j + 1 /\ k + j - 1 \in 1..Len(c) /\ ~(k + j - 1 <= Len(c) - i + 1)
          /\ k + j - 1 - (Len(c) - i + 1) = k
      BY <1>2, <2>2
    <3>2. r[k] = d[k + j - 1]
      BY <1>2, <1>4, <3>1
    <3>3. \A h \in 1..Len(c) : ~(h <= Len(c) - i + 1) => d[h] = c[h - (Len(c) - i + 1)]
      BY <1>2
    <3>4. d[k + j - 1] = c[k + j - 1 - (Len(c) - i + 1)]
      BY <3>1, <3>3
    <3> QED BY <3>1, <3>2, <3>4
  <2>3. CASE i # 1 /\ k > i - 1
    <3>1. ~(k <= Len(d) - j + 1) /\ k - (Len(d) - j + 1) = k - i + 1
          /\ k - i + 1 \in 1..Len(c) /\ k - i + 1 <= Len(c) - i + 1
          /\ (k - i + 1) + i - 1 = k
      BY <1>2, <2>3
    <3>2. r[k] = d[k - i + 1]
      BY <1>2, <1>4, <3>1
    <3>3. d[k - i + 1] = c[(k - i + 1) + i - 1]
      BY <1>2, <3>1
    <3> QED BY <3>1, <3>2, <3>3
  <2> QED BY <1>2, <2>1, <2>2, <2>3
<1>6. r = c
  <2> HIDE DEF r
  <2>1. /\ r = [k \in 1..Len(c) |-> r[k]] /\ c = [k \in 1..Len(c) |-> c[k]]
    BY <1>2, <1>4
  <2>2. [k \in 1..Len(c) |-> r[k]] = [k \in 1..Len(c) |-> c[k]]
    BY <1>5
  <2> QED BY <2>1, <2>2
<1> QED BY <1>2, <1>3, <1>6 DEF Rotations

LEMMA CycleFixed ==
  ASSUME UNCHANGED edges
  PROVE  \A q, a : EdgesOf(q)' = EdgesOf(q) /\ (LegalCycles(q, a)' <=> LegalCycles(q, a))
<1> SUFFICES ASSUME NEW q, NEW a
             PROVE  EdgesOf(q)' = EdgesOf(q) /\ (LegalCycles(q, a)' <=> LegalCycles(q, a))
  OBVIOUS
<1>1. EdgesOf(q)' = EdgesOf(q)
  BY DEF EdgesOf, Considered
<1>2. Acyclic(EdgesOf(q))' <=> Acyclic(EdgesOf(q))
  BY <1>1 DEF Acyclic
<1>3. Sound(EdgesOf(q), a)' <=> Sound(EdgesOf(q), a)
  BY <1>1 DEF Sound, IsCycle, Distinct, Rotations
<1> QED BY <1>1, <1>2, <1>3 DEF LegalCycles

LEMMA CycleMemoStays ==
  ASSUME CyclesRemembered, UNCHANGED <<edges, memo>>
  PROVE  CyclesRemembered'
<1>1. ASSUME NEW m \in memo', NEW q \in Queries, q.op = "cycles", m.key = Key(q)
      PROVE  LegalCycles(q, m.answer)'
  BY <1>1, CycleFixed DEF CyclesRemembered
<1> QED BY <1>1 DEF CyclesRemembered, Key, Listed

LEMMA CycleInit == Init => CycleInv
BY DEF Init, CycleInv, CycleTypes, CyclesFound, CyclesAnswered, CyclesRemembered, NoOrder

\* The top of a stack, and what is under it.
LEMMA Popped ==
  ASSUME NEW s \in Seq(Nodes), s # <<>>, Distinct(s)
  PROVE  /\ Len(s) \in Nat \ {0} /\ Last(s) = s[Len(s)] /\ Last(s) \in Nodes
         /\ Last(s) \in ToSet(s)
         /\ Front(s) \in Seq(Nodes) /\ Len(Front(s)) = Len(s) - 1
         /\ \A i \in 1..Len(s) - 1 : Front(s)[i] = s[i]
         /\ ToSet(Front(s)) = ToSet(s) \ {Last(s)}
<1>1. /\ Len(s) \in Nat \ {0} /\ Last(s) = s[Len(s)] /\ Last(s) \in Nodes
      /\ \A i \in 1..Len(s) : s[i] \in Nodes
  BY DEF Last
<1>2. /\ Front(s) \in Seq(Nodes) /\ Len(Front(s)) = Len(s) - 1
      /\ \A i \in 1..Len(s) - 1 : Front(s)[i] = s[i]
  <2>1. Front(s) = [i \in 1..Len(s) - 1 |-> s[i]] /\ Len(s) - 1 \in Nat
    BY <1>1 DEF Front
  <2>2. \A i \in 1..Len(s) - 1 : s[i] \in Nodes
    BY <1>1
  <2> QED BY <2>1, <2>2
<1>3. ToSet(s) = {s[i] : i \in 1..Len(s)}
  BY ToSetIsImage
<1>4. ToSet(Front(s)) = {Front(s)[i] : i \in 1..Len(s) - 1}
  BY <1>2, ToSetIsImage
<1>5. \A i \in 1..Len(s) - 1 : i \in 1..Len(s) /\ s[i] # Last(s)
  BY <1>1 DEF Distinct
<1>6. \A i \in 1..Len(s) : i \in 1..Len(s) - 1 \/ s[i] = Last(s)
  BY <1>1
<1>7. \A x : x \in ToSet(Front(s)) <=> x \in ToSet(s) \ {Last(s)}
  BY <1>2, <1>3, <1>4, <1>5, <1>6
<1> QED BY <1>1, <1>2, <1>3, <1>7

\* Out of a search for cycles there is none of it.
LEMMA OutOfCycles ==
  ASSUME UNCHANGED edges, phase' # "cycles", stack' = <<>>, done' = {}, cycles' = {},
         todo' \in [Nodes -> SUBSET edges]
  PROVE  CycleTypes' /\ CyclesFound'
BY DEF CycleTypes, CyclesFound

-----------------------------------------------------------------------------
LEMMA VisitRootKeeps ==
  ASSUME PartsTypes, CycleInv, VisitRoot, UNCHANGED <<edges, query, memo>>
  PROVE  CycleInv'
<1> DEFINE n == First(Nodes \ done)
<1>1. /\ phase = "cycles" /\ phase' = phase /\ stack = <<>> /\ stack' = Append(stack, n)
      /\ todo' = [todo EXCEPT ![n] = {e \in EdgesOf(query) : e.from = n}]
      /\ UNCHANGED <<answer, done, cycles>> /\ done # Nodes
  BY DEF VisitRoot, Enter
<1>2. StackIsPath /\ NoneMissed /\ Sound(EdgesOf(query), cycles)
      /\ todo \in [Nodes -> SUBSET edges]
  BY <1>1 DEF CycleInv, CyclesFound, CycleTypes
<1>3. n \in Nodes \ done
  <2>1. done \subseteq Nodes
    BY <1>2 DEF StackIsPath
  <2>2. \E m \in Nodes \ done : IsFirst(m, Nodes \ done)
    BY <1>1, <2>1, LeastOfAny
  <2> QED BY <2>2 DEF First, IsFirst
<1> HIDE DEF n
<1>4. /\ stack' \in Seq(Nodes) /\ Len(stack') = 1 /\ stack'[1] = n /\ ToSet(stack') = {n}
      /\ 1..Len(stack') - 1 = {} /\ 1..Len(stack') = {1}
  <2>1. stack = <<>> /\ stack \in Seq(Nodes) /\ Len(stack) = 0 /\ ToSet(<<>>) = {}
    BY <1>1 DEF ToSet
  <2>2. /\ stack' \in Seq(Nodes) /\ Len(stack') = 1 /\ stack'[Len(stack')] = n
        /\ ToSet(stack') = {} \cup {n}
    <3>1. n \in Nodes
      BY <1>3
    <3>2. LET t == Append(stack, n) IN
            /\ t \in Seq(Nodes) /\ Len(t) = Len(stack) + 1 /\ t[Len(t)] = n
            /\ ToSet(t) = ToSet(stack) \cup {n}
      BY <2>1, <3>1, NodeAppended
    <3>3. stack' = Append(stack, n)
      BY <1>1
    <3>4. ToSet(stack) = {} /\ Len(stack) = 0
      BY <2>1
    <3> QED BY <3>2, <3>3, <3>4
  <2> QED BY <2>2
<1>5. EdgesOf(query)' = EdgesOf(query)
  BY CycleFixed DEF EdgesOf, Considered
<1>6. todo'[n] = {e \in EdgesOf(query) : e.from = n} /\ todo' \in [Nodes -> SUBSET edges]'
  BY <1>1, <1>2, <1>3 DEF EdgesOf
<1>7. StackIsPath'
  BY <1>1, <1>2, <1>3, <1>4, <1>5, <1>6 DEF StackIsPath, Distinct
<1>8. NoneMissed'
  BY <1>1, <1>2, <1>4, <1>5, <1>6 DEF NoneMissed
<1>9. Sound(EdgesOf(query), cycles)'
  BY <1>1, <1>2, <1>5 DEF Sound, IsCycle, Distinct, Rotations
<1>10. CycleTypes' /\ CyclesFound' /\ CyclesAnswered'
  BY <1>1, <1>6, <1>7, <1>8, <1>9 DEF CycleTypes, CyclesFound, CyclesAnswered
<1> QED BY <1>10, CycleMemoStays DEF CycleInv

\* What there is in a phase of cycles.
LEMMA InCycles ==
  ASSUME PartsTypes, CycleInv, phase = "cycles"
  PROVE  /\ StackIsPath /\ NoneMissed /\ Sound(EdgesOf(query), cycles)
         /\ todo \in [Nodes -> SUBSET edges] /\ query.op = "cycles"
         /\ \A e \in EdgesOf(query) : e \in edges /\ e.from \in Nodes /\ e.to \in Nodes
<1>1. \A e \in EdgesOf(query) : e \in edges /\ e.from \in Nodes /\ e.to \in Nodes
  BY DEF EdgesOf, PartsTypes, Edges
<1> QED BY <1>1 DEF CycleInv, CyclesFound, CycleTypes, PartsTypes

\* A step within a search keeps the invariant if it keeps the search's.
LEMMA WithinCycles ==
  ASSUME PartsTypes, CycleInv, phase = "cycles", phase' = phase,
         UNCHANGED <<edges, query, memo>>,
         (todo \in [Nodes -> SUBSET edges])', StackIsPath', NoneMissed',
         Sound(EdgesOf(query), cycles)'
  PROVE  CycleInv'
<1>1. CycleTypes' /\ CyclesFound' /\ CyclesAnswered'
  BY DEF CycleTypes, CyclesFound, CyclesAnswered
<1> QED BY <1>1, CycleMemoStays DEF CycleInv

\* An edge back to a node of the stack and the stack from there on are a cycle.
LEMMA CycleIsFound ==
  ASSUME NEW E, NEW s \in Seq(Nodes), s # <<>>, Distinct(s),
         \A i \in 1..Len(s) - 1 : \E d \in E : d.from = s[i] /\ d.to = s[i + 1],
         NEW e \in E, NEW k \in 1..Len(s), e.from = s[Len(s)], e.to = s[k]
  PROVE  IsCycle(E, SubSeq(s, k, Len(s)))
<1> DEFINE c == SubSeq(s, k, Len(s))
<1>1. /\ Len(s) \in Nat \ {0} /\ Len(s) - k + 1 \in Nat \ {0}
      /\ \A i \in 1..Len(s) : s[i] \in Nodes
  OBVIOUS
<1>2. /\ c \in Seq(Nodes) /\ Len(c) = Len(s) - k + 1
      /\ \A i \in 1..Len(s) - k + 1 : c[i] = s[i + k - 1]
  BY <1>1
<1> HIDE DEF c
<1>3. c # <<>> /\ Distinct(c)
  <2>1. Len(c) # 0
    BY <1>1, <1>2
  <2>2. ASSUME NEW i \in 1..Len(c), NEW j \in 1..Len(c), c[i] = c[j] PROVE i = j
    <3>1. i + k - 1 \in 1..Len(s) /\ j + k - 1 \in 1..Len(s)
      BY <1>1, <1>2
    <3>2. s[i + k - 1] = s[j + k - 1]
      BY <1>2, <2>2
    <3>3. i + k - 1 = j + k - 1
      BY <3>1, <3>2 DEF Distinct
    <3> QED BY <1>1, <1>2, <3>3
  <2> QED BY <2>1, <2>2 DEF Distinct
<1>4. ASSUME NEW i \in 1..Len(c)
      PROVE  \E d \in E : d.from = c[i] /\ d.to = c[(i % Len(c)) + 1]
  <2>1. CASE i = Len(c)
    <3>1. (i % Len(c)) + 1 = 1
      BY <1>1, <1>2, <2>1, RoundIndex
    <3>2. c[i] = s[Len(s)] /\ c[1] = s[k]
      <4>1. i + k - 1 = Len(s) /\ 1 + k - 1 = k
        BY <1>1, <1>2, <2>1
      <4>2. c[i] = s[i + k - 1] /\ c[1] = s[1 + k - 1]
        BY <1>1, <1>2
      <4> QED BY <4>1, <4>2
    <3> QED BY <3>1, <3>2
  <2>2. CASE i # Len(c)
    <3>1. (i % Len(c)) + 1 = i + 1
      BY <1>1, <1>2, <2>2, RoundIndex
    <3>2. i + k - 1 \in 1..Len(s) - 1 /\ (i + 1) + k - 1 = (i + k - 1) + 1
      BY <1>1, <1>2, <2>2
    <3>3. c[i] = s[i + k - 1] /\ c[i + 1] = s[(i + 1) + k - 1]
      <4>1. i \in 1..Len(s) - k + 1 /\ i + 1 \in 1..Len(s) - k + 1
        BY <1>1, <1>2, <2>2
      <4> QED BY <1>2, <4>1
    <3>4. PICK d \in E : d.from = s[i + k - 1] /\ d.to = s[(i + k - 1) + 1]
      BY <3>2
    <3> QED BY <3>1, <3>2, <3>3, <3>4
  <2> QED BY <2>1, <2>2
<1> QED BY <1>2, <1>3, <1>4 DEF IsCycle, c

\* Replacing the rotations of a cycle by the cycle leaves of each cycle one.
LEMMA SoundWithOneMore ==
  ASSUME NEW E, NEW C, Sound(E, C), NEW f, IsCycle(E, f)
  PROVE  Sound(E, {c \in C : c \notin Rotations(f)} \cup {f})
<1> DEFINE D == {c \in C : c \notin Rotations(f)} \cup {f}
<1>1. \A c \in D : IsCycle(E, c)
  BY DEF Sound
<1>2. ASSUME NEW c \in D, NEW d \in D, d \in Rotations(c) PROVE d = c
  <2>1. c \in Rotations(d)
    BY <1>1, <1>2, RotationsAreMutual DEF IsCycle
  <2> QED BY <1>2, <2>1 DEF Sound
<1> QED BY <1>1, <1>2 DEF Sound

LEMMA FollowKeeps ==
  ASSUME PartsTypes, CycleInv, NEW e \in edges, FollowEdge(e),
         UNCHANGED <<edges, query, memo>>
  PROVE  CycleInv'
<1> DEFINE E == EdgesOf(query)
           L == Len(stack)
<1>0. phase = "cycles" /\ phase' = phase /\ stack # <<>> /\ e \in todo[Top]
  BY DEF FollowEdge
<1>1. /\ StackIsPath /\ NoneMissed /\ Sound(E, cycles)
      /\ todo \in [Nodes -> SUBSET edges]
      /\ \A d \in E : d \in edges /\ d.from \in Nodes /\ d.to \in Nodes
  BY <1>0, InCycles
<1>2. /\ stack \in Seq(Nodes) /\ Distinct(stack) /\ L \in Nat \ {0}
      /\ Top = stack[L] /\ Top \in Nodes /\ Top \in ToSet(stack)
  BY <1>0, <1>1, Popped DEF StackIsPath, Top
<1>3. e \in E /\ e.from = stack[L]
  BY <1>0, <1>1, <1>2 DEF StackIsPath
<1>4. E' = E
  BY CycleFixed DEF EdgesOf, Considered
<1>5. \A i \in 1..L : stack[i] \in ToSet(stack) /\ (stack[i] = Top => i = L)
  BY <1>2, ToSetIsImage DEF Distinct
<1> HIDE DEF E, L
<1>6. CASE e.to \in ToSet(stack) \/ e.to \in done
  <2>1. /\ stack' = stack /\ done' = done /\ todo' = [todo EXCEPT ![Top] = @ \ {e}]
        /\ e.to \notin ToSet(stack) => cycles' = cycles
        /\ e.to \in ToSet(stack) =>
             cycles' = {c \in cycles : c \notin Rotations(CycleTo(e.to))} \cup {CycleTo(e.to)}
    BY <1>1, <1>6 DEF FollowEdge, StackIsPath
  <2>2. /\ todo' \in [Nodes -> SUBSET edges]
        /\ todo'[Top] = todo[Top] \ {e} /\ \A n \in Nodes \ {Top} : todo'[n] = todo[n]
    BY <1>1, <1>2, <2>1
  <2>3. StackIsPath'
    BY <1>1, <1>2, <1>4, <2>1, <2>2 DEF StackIsPath, E, Distinct, ToSet
  <2>4. NoneMissed'
    BY <1>0, <1>1, <1>2, <1>4, <1>5, <1>6, <2>1, <2>2 DEF NoneMissed, E, L
  <2>5. Sound(E, cycles')
    <3>1. CASE e.to \in ToSet(stack)
      <4> DEFINE k == CHOOSE i \in 1..Len(stack) : stack[i] = e.to
      <4>1. \E i \in 1..Len(stack) : stack[i] = e.to
        BY <1>2, <3>1, ToSetIsImage
      <4>2. k \in 1..Len(stack) /\ e.to = stack[k]
        BY <4>1
      <4> HIDE DEF k
      <4>3. \A i \in 1..Len(stack) - 1 : \E d \in E : d.from = stack[i] /\ d.to = stack[i + 1]
        BY <1>1 DEF StackIsPath, E
      <4>4. IsCycle(E, SubSeq(stack, k, Len(stack)))
        BY <1>0, <1>2, <1>3, <4>2, <4>3, CycleIsFound DEF L
      <4>5. CycleTo(e.to) = SubSeq(stack, k, Len(stack))
        BY DEF CycleTo, k
      <4>6. IsCycle(E, CycleTo(e.to))
        BY <4>4, <4>5
      <4>7. Sound(E, {c \in cycles : c \notin Rotations(CycleTo(e.to))} \cup {CycleTo(e.to)})
        BY <1>1, <4>6, SoundWithOneMore
      <4> QED BY <2>1, <3>1, <4>7
    <3>2. CASE e.to \notin ToSet(stack)
      BY <1>1, <2>1, <3>2
    <3> QED BY <3>1, <3>2
  <2>6. Sound(EdgesOf(query), cycles)'
    BY <1>4, <2>5 DEF E, Sound, IsCycle, Distinct, Rotations
  <2> QED BY <1>0, <2>2, <2>3, <2>4, <2>6, WithinCycles
<1>7. CASE e.to \notin ToSet(stack) \cup done
  <2> DEFINE m == e.to
  <2>1. /\ stack' = Append(stack, m) /\ done' = done /\ cycles' = cycles
        /\ todo' = [todo EXCEPT ![Top] = @ \ {e}, ![m] = {d \in EdgesOf(query) : d.from = m}]
    BY <1>7 DEF FollowEdge
  <2>2. m \in Nodes /\ m # Top /\ m \notin ToSet(stack) /\ m \notin done
    BY <1>1, <1>2, <1>3, <1>7
  <2> HIDE DEF m
  <2>3. /\ todo' \in [Nodes -> SUBSET edges]
        /\ todo'[Top] = todo[Top] \ {e} /\ todo'[m] = {d \in E : d.from = m}
        /\ \A n \in Nodes \ {Top, m} : todo'[n] = todo[n]
    BY <1>1, <1>2, <2>1, <2>2 DEF E, EdgesOf
  <2>4. /\ stack' \in Seq(Nodes) /\ Len(stack') = L + 1 /\ stack'[L + 1] = m
        /\ \A i \in 1..L : stack'[i] = stack[i]
        /\ ToSet(stack') = ToSet(stack) \cup {m}
    BY <1>2, <2>1, <2>2, NodeAppended DEF L
  <2>5. Distinct(stack')
    <3> SUFFICES ASSUME NEW i \in 1..Len(stack'), NEW j \in 1..Len(stack'),
                        stack'[i] = stack'[j]
                 PROVE  i = j
      BY DEF Distinct
    <3> QED BY <1>2, <1>5, <2>2, <2>4 DEF Distinct, L
  <2>6. \A i \in 1..Len(stack') - 1 :
          \E d \in E : d.from = stack'[i] /\ d.to = stack'[i + 1]
    <3> TAKE i \in 1..Len(stack') - 1
    <3>1. CASE i = L
      BY <1>2, <1>3, <2>4, <3>1 DEF m
    <3>2. CASE i # L
      <4>1. i \in 1..L - 1 /\ i + 1 \in 1..L /\ i \in 1..L
        BY <1>2, <2>4, <3>2
      <4>2. PICK d \in E : d.from = stack[i] /\ d.to = stack[i + 1]
        BY <1>1, <4>1 DEF StackIsPath, E, L
      <4> QED BY <2>4, <4>1, <4>2
    <3> QED BY <3>1, <3>2
  <2>7. \A n \in ToSet(stack') : todo'[n] \subseteq {d \in E : d.from = n}
    <3>1. \A n \in ToSet(stack) : n \in Nodes /\ todo[n] \subseteq {d \in E : d.from = n}
      BY <1>1, <1>2, ToSetIsImage DEF StackIsPath, E
    <3> QED BY <2>3, <2>4, <3>1
  <2>8. StackIsPath'
    <3>1. done' \subseteq Nodes /\ ToSet(stack') \cap done' = {}
      BY <1>1, <2>1, <2>2, <2>4 DEF StackIsPath
    <3> QED BY <1>4, <2>4, <2>5, <2>6, <2>7, <3>1 DEF StackIsPath, E
  <2>9. ASSUME cycles = {}, NEW i \in 1..Len(stack'), NEW d \in E,
               d.from = stack'[i], d \notin todo'[stack'[i]]
        PROVE  d.to \in done \/ (i < Len(stack') /\ d.to = stack'[i + 1])
    <3>1. \A j \in 1..L : \A c \in E :
            c.from = stack[j] /\ c \notin todo[stack[j]] =>
              c.to \in done \/ (j < L /\ c.to = stack[j + 1])
      BY <1>1, <2>9 DEF NoneMissed, E, L
    <3>2. i # L + 1
      BY <2>3, <2>4, <2>9
    <3>3. i \in 1..L /\ stack'[i] = stack[i] /\ i < Len(stack') /\ stack[i] \in Nodes
      BY <1>2, <2>4, <3>2 DEF L
    <3>4. CASE i = L
      BY <1>2, <2>3, <2>4, <2>9, <3>1, <3>3, <3>4 DEF m
    <3>5. CASE i # L
      <4>1. stack[i] # Top /\ stack[i] # m /\ i + 1 \in 1..L
        BY <1>2, <1>5, <2>2, <3>3, <3>5
      <4>2. d.to \in done \/ (i < L /\ d.to = stack[i + 1])
        BY <2>3, <2>9, <3>1, <3>3, <4>1
      <4> QED BY <2>4, <3>3, <4>1, <4>2
    <3> QED BY <3>4, <3>5
  <2>10. NoneMissed'
    BY <1>1, <1>4, <2>1, <2>9 DEF NoneMissed, E
  <2>11. Sound(EdgesOf(query), cycles)'
    BY <1>1, <1>4, <2>1 DEF E, Sound, IsCycle, Distinct, Rotations
  <2> QED BY <1>0, <2>3, <2>8, <2>10, <2>11, WithinCycles
<1> QED BY <1>6, <1>7

\* A node is left when all it leads to is done, so that with it there is no cycle yet.
LEMMA LeaveKeeps ==
  ASSUME PartsTypes, CycleInv, LeaveNode, UNCHANGED <<edges, query, memo>>
  PROVE  CycleInv'
<1> DEFINE E == EdgesOf(query)
           L == Len(stack)
<1>0. /\ phase = "cycles" /\ phase' = phase /\ stack # <<>> /\ todo[Top] = {}
      /\ stack' = Front(stack) /\ done' = done \cup {Top} /\ UNCHANGED <<todo, cycles>>
  BY DEF LeaveNode
<1>1. /\ StackIsPath /\ NoneMissed /\ Sound(E, cycles)
      /\ todo \in [Nodes -> SUBSET edges]
  BY <1>0, InCycles
<1>2. /\ stack \in Seq(Nodes) /\ Distinct(stack) /\ L \in Nat \ {0}
      /\ Top = stack[L] /\ Top \in Nodes /\ Top \in ToSet(stack)
      /\ stack' \in Seq(Nodes) /\ Len(stack') = L - 1
      /\ \A i \in 1..L - 1 : stack'[i] = stack[i]
      /\ ToSet(stack') = ToSet(stack) \ {Top}
  BY <1>0, <1>1, Popped DEF StackIsPath, Top
<1>3. Top \notin done
  BY <1>1, <1>2 DEF StackIsPath
<1>4. E' = E
  BY CycleFixed DEF EdgesOf, Considered
<1> HIDE DEF E, L
<1>5. StackIsPath'
  <2>1. Distinct(stack')
    <3> SUFFICES ASSUME NEW i \in 1..Len(stack'), NEW j \in 1..Len(stack'),
                        stack'[i] = stack'[j]
                 PROVE  i = j
      BY DEF Distinct
    <3>1. i \in 1..L - 1 /\ j \in 1..L - 1 /\ i \in 1..L /\ j \in 1..L
      BY <1>2
    <3> QED BY <1>2, <3>1 DEF Distinct, L
  <2>2. \A i \in 1..Len(stack') - 1 :
          \E d \in E : d.from = stack'[i] /\ d.to = stack'[i + 1]
    <3> TAKE i \in 1..Len(stack') - 1
    <3>1. i \in 1..L - 1 /\ i + 1 \in 1..L - 1
      BY <1>2
    <3>2. PICK d \in E : d.from = stack[i] /\ d.to = stack[i + 1]
      BY <1>1, <3>1 DEF StackIsPath, E, L
    <3> QED BY <1>2, <3>1, <3>2
  <2>3. done' \subseteq Nodes /\ ToSet(stack') \cap done' = {}
    BY <1>0, <1>1, <1>2 DEF StackIsPath
  <2>4. \A n \in ToSet(stack') : todo'[n] \subseteq {d \in E : d.from = n}
    BY <1>0, <1>1, <1>2 DEF StackIsPath, E
  <2> QED BY <1>2, <1>4, <2>1, <2>2, <2>3, <2>4 DEF StackIsPath, E
<1>6. ASSUME cycles = {}
      PROVE  /\ \A e \in E : e.from \in done' => e.to \in done'
             /\ \A S \in (SUBSET done') \ {{}} :
                  \E n \in S : \A e \in E : e.to = n => e.from \notin S
             /\ \A i \in 1..Len(stack') : \A e \in E :
                  e.from = stack'[i] /\ e \notin todo'[stack'[i]] =>
                    e.to \in done' \/ (i < Len(stack') /\ e.to = stack'[i + 1])
  <2>1. /\ \A e \in E : e.from \in done => e.to \in done
        /\ \A S \in (SUBSET done) \ {{}} :
             \E n \in S : \A e \in E : e.to = n => e.from \notin S
        /\ \A i \in 1..L : \A e \in E :
             e.from = stack[i] /\ e \notin todo[stack[i]] =>
               e.to \in done \/ (i < L /\ e.to = stack[i + 1])
    BY <1>1, <1>6 DEF NoneMissed, E, L
  <2>2. \A e \in E : e.from = Top => e.to \in done
    BY <1>0, <1>2, <2>1
  <2>3. \A e \in E : e.from \in done' => e.to \in done'
    BY <1>0, <2>1, <2>2
  <2>4. ASSUME NEW S \in (SUBSET done') \ {{}}
        PROVE  \E n \in S : \A e \in E : e.to = n => e.from \notin S
    <3>1. CASE Top \in S
      <4>1. \A e \in E : e.to = Top => e.from \notin done'
        BY <1>0, <1>3, <2>1, <2>2
      <4> QED BY <3>1, <4>1
    <3>2. CASE Top \notin S
      BY <1>0, <2>1, <3>2
    <3> QED BY <3>1, <3>2
  <2>5. ASSUME NEW i \in 1..Len(stack'), NEW e \in E,
               e.from = stack'[i], e \notin todo'[stack'[i]]
        PROVE  e.to \in done' \/ (i < Len(stack') /\ e.to = stack'[i + 1])
    <3>1. i \in 1..L - 1 /\ i \in 1..L /\ (i = L - 1 => i + 1 = L)
          /\ (i # L - 1 => i + 1 \in 1..L - 1 /\ i < L - 1)
      BY <1>2
    <3>2. e.to \in done \/ e.to = stack[i + 1]
      BY <1>0, <1>2, <2>1, <2>5, <3>1
    <3>3. CASE i = L - 1
      BY <1>0, <1>2, <3>1, <3>2, <3>3
    <3>4. CASE i # L - 1
      BY <1>0, <1>2, <3>1, <3>2, <3>4
    <3> QED BY <3>3, <3>4
  <2> QED BY <2>3, <2>4, <2>5
<1>7. NoneMissed'
  <2> HIDE DEF E
  <2>1. EdgesOf(query)' = E
    BY <1>4 DEF E
  <2>2. CASE cycles = {}
    BY <1>6, <2>1, <2>2 DEF NoneMissed
  <2>3. CASE cycles # {}
    BY <1>0, <2>3 DEF NoneMissed
  <2> QED BY <2>2, <2>3
<1>8. Sound(EdgesOf(query), cycles)'
  BY <1>0, <1>1, <1>4 DEF E
<1>9. (todo \in [Nodes -> SUBSET edges])'
  BY <1>0, <1>1
<1> QED BY <1>0, <1>5, <1>7, <1>8, <1>9, WithinCycles

\* With every node done, the graph has a cycle exactly if one was found.
LEMMA EndCyclesKeeps ==
  ASSUME PartsTypes, CycleInv, EndCycles, UNCHANGED <<edges, query, memo>>
  PROVE  CycleInv'
<1>0. /\ phase = "cycles" /\ phase' = "answered" /\ answer' = cycles /\ done = Nodes
      /\ stack' = <<>> /\ done' = {} /\ cycles' = {} /\ todo' = [n \in Nodes |-> {}]
  BY DEF EndCycles, Answered, DropOrder
<1>1. NoneMissed /\ Sound(EdgesOf(query), cycles)
  BY <1>0, InCycles
<1>2. cycles = {} => Acyclic(EdgesOf(query))
  BY <1>0, <1>1 DEF NoneMissed, Acyclic
<1>3. cycles # {} => ~Acyclic(EdgesOf(query))
  BY <1>1, CycleRefutes DEF Sound
<1>4. LegalCycles(query, answer')
  BY <1>0, <1>1, <1>2, <1>3 DEF LegalCycles
<1>5. LegalCycles(query, answer)'
  <2>1. \A a : LegalCycles(query, a)' <=> LegalCycles(query, a)
    BY CycleFixed
  <2> QED BY <1>4 DEF LegalCycles, EdgesOf, Considered, Sound, IsCycle, Distinct, Rotations, Acyclic
<1>6. CycleTypes' /\ CyclesFound' /\ CyclesAnswered'
  <2>1. CycleTypes' /\ CyclesFound'
    BY <1>0, OutOfCycles
  <2> QED BY <1>0, <1>5, <2>1 DEF CyclesAnswered
<1> QED BY <1>6, CycleMemoStays DEF CycleInv

LEMMA CycleRemember ==
  ASSUME PartsTypes, CycleInv, Remember
  PROVE  CycleInv'
<1> USE DEF Remember, CycleInv
<1>1. CycleTypes' /\ CyclesFound' /\ CyclesAnswered'
  <2>1. LegalCycles(query, answer)' <=> LegalCycles(query, answer)
    BY DEF LegalCycles, EdgesOf, Considered, Sound, IsCycle, Distinct, Rotations, Acyclic
  <2> QED BY <2>1 DEF CycleTypes, CyclesFound, CyclesAnswered
<1>2. ASSUME NEW m \in memo', NEW q \in Queries, q.op = "cycles", m.key = Key(q)
      PROVE  LegalCycles(q, m.answer)
  <2>1. CASE m \in memo
    BY <1>2, <2>1 DEF CyclesRemembered
  <2>2. CASE m = [key |-> Key(query), answer |-> answer]
    <3>1. query.op = "cycles" /\ query.relationships = q.relationships
      BY <1>2, <2>2 DEF Key
    <3>2. LegalCycles(query, answer)
      BY <3>1 DEF CyclesAnswered
    <3>3. EdgesOf(query) = EdgesOf(q)
      BY <3>1 DEF EdgesOf, Considered
    <3> QED BY <2>2, <3>2, <3>3 DEF LegalCycles
  <2> QED BY <2>1, <2>2
<1>3. CyclesRemembered'
  <2>1. ASSUME NEW m \in memo', NEW q \in Queries, q.op = "cycles", m.key = Key(q)
        PROVE  LegalCycles(q, m.answer)'
    <3>1. LegalCycles(q, m.answer)
      BY <1>2, <2>1
    <3> QED BY <3>1, CycleFixed DEF LegalCycles, EdgesOf, Considered, Sound, IsCycle, Distinct,
                                    Rotations, Acyclic
  <2> QED BY <2>1 DEF CyclesRemembered, Key, Listed
<1> QED BY <1>1, <1>3

LEMMA CycleOtherStep ==
  ASSUME PartsTypes, CycleInv, UNCHANGED <<edges, query, memo>>,
         \/ UNCHANGED orderVars /\ (WalkStep \/ PathStep \/ ComponentStep \/ ChainStep)
         \/ SortStep
  PROVE  CycleInv'
<1>1. phase # "cycles" /\ phase' # "cycles" /\ phase # "done"
      /\ (phase' = "answered" => query.op # "cycles") /\ phase' # "done"
  <2>1. CASE PathStep
    BY <2>1 DEF PartsTypes, PathStep, NotFound, StepBack, BackAtStart, Expand, Found, Answered
  <2>2. CASE WalkStep
    BY <2>2 DEF PartsTypes, WalkStep, EndWalk, SkipItem, VisitNode, Answered
  <2>3. CASE ComponentStep
    BY <2>3 DEF PartsTypes, ComponentStep, StartComponent, Gather, EndComponent, EndComponents,
                Answered
  <2>4. CASE SortStep
    BY <2>4 DEF PartsTypes, SortStep, EndSort, Emit, Answered
  <2>5. CASE ChainStep
    BY <2>5 DEF PartsTypes, ChainStep, StartChain, FollowCall, EndVisit, EndChain, Answered
  <2> QED BY <2>1, <2>2, <2>3, <2>4, <2>5
<1>2. /\ stack' = <<>> /\ done' = {} /\ cycles' = {}
      /\ todo' = todo \/ todo' = [n \in Nodes |-> {}]
  <2>0. stack = <<>> /\ done = {} /\ cycles = {}
    BY <1>1 DEF CycleInv, CycleTypes
  <2>1. CASE UNCHANGED orderVars
    BY <2>0, <2>1
  <2>2. CASE SortStep
    BY <2>0, <2>2 DEF SortStep, EndSort, Emit, DropOrder
  <2> QED BY <2>1, <2>2
<1>3. CycleTypes' /\ CyclesFound'
  BY <1>1, <1>2, OutOfCycles DEF CycleInv, CycleTypes
<1>4. CyclesAnswered'
  BY <1>1 DEF CyclesAnswered
<1> QED BY <1>3, <1>4, CycleMemoStays DEF CycleInv

LEMMA CycleExecute ==
  ASSUME PartsTypes, CycleInv, NEW q \in Queries, Execute(q)
  PROVE  CycleInv'
<1>1. /\ UNCHANGED <<edges, memo, stack, todo, done, cycles>> /\ query' = q /\ phase = "idle"
      /\ phase' # "done" /\ (phase' = "answered" => q.op # "cycles")
  <2>1. CASE BeginSort(q)
    BY <2>1 DEF Execute, BeginSort
  <2>2. CASE BeginCycles(q)
    BY <2>2 DEF Execute, BeginCycles
  <2>3. CASE ~BeginSort(q) /\ ~BeginCycles(q)
    BY <2>3 DEF Execute, BeginWalk, BeginPath, BeginComponents, BeginChain, Answered
  <2> QED BY <2>1, <2>2, <2>3
<1>2. stack' = <<>> /\ done' = {} /\ cycles' = {} /\ todo' = todo
  BY <1>1 DEF CycleInv, CycleTypes
<1>3. CycleTypes' /\ CyclesAnswered'
  BY <1>1, <1>2 DEF CycleInv, CycleTypes, CyclesAnswered
<1>4. StackIsPath' /\ NoneMissed' /\ Sound(EdgesOf(query), cycles)'
  <2>1. stack' \in Seq(Nodes) /\ 1..Len(stack') = {} /\ 1..Len(stack') - 1 = {} /\ ToSet(stack') = {}
    BY <1>2 DEF ToSet
  <2>2. StackIsPath'
    BY <1>2, <2>1 DEF StackIsPath, Distinct
  <2>3. NoneMissed'
    <3>1. ASSUME NEW S \in SUBSET done', S # {} PROVE FALSE
      <4>1. \E n \in S : n \in done'
        BY <3>1
      <4> QED BY <1>2, <4>1
    <3>2. \A e : e.from \notin done'
      BY <1>2
    <3>3. \A i \in 1..Len(stack') : FALSE
      BY <2>1
    <3>4. ASSUME NEW S \in (SUBSET done') \ {{}} PROVE FALSE
      BY <3>1
    <3> HIDE DEF CycleInv
    <3> QED BY <3>2, <3>3, <3>4 DEF NoneMissed
  <2>4. Sound(EdgesOf(query), cycles)'
    BY <1>2 DEF Sound
  <2> QED BY <2>2, <2>3, <2>4
<1>5. CyclesFound'
  BY <1>4 DEF CyclesFound
<1> QED BY <1>1, <1>3, <1>5, CycleMemoStays DEF CycleInv

LEMMA CycleHit ==
  ASSUME PartsTypes, CycleInv, NEW q \in Queries, Hit(q)
  PROVE  CycleInv'
<1>1. /\ phase = "idle" /\ phase' = "done" /\ query' = q
      /\ UNCHANGED <<edges, memo, stack, todo, done, cycles>>
  BY DEF Hit
<1>2. CycleTypes' /\ CyclesFound'
  BY <1>1, OutOfCycles DEF CycleInv, CycleTypes
<1>3. q.op = "cycles" => LegalCycles(q, answer')
  BY DEF Hit, CycleInv, CyclesRemembered, Entries
<1>4. CyclesAnswered'
  BY <1>1, <1>3, CycleFixed DEF CyclesAnswered
<1> QED BY <1>1, <1>2, <1>4, CycleMemoStays DEF CycleInv

LEMMA CycleStepKeeps == PartsInv /\ CycleInv /\ [Next]_vars => CycleInv'
<1> SUFFICES ASSUME PartsInv, CycleInv, [Next]_vars PROVE CycleInv'
  OBVIOUS
<1>0. PartsTypes
  BY DEF PartsInv
<1>1. ASSUME NEW q \in Queries, Hit(q) PROVE CycleInv'
  BY <1>0, <1>1, CycleHit
<1>2. ASSUME NEW q \in Queries, Execute(q) PROVE CycleInv'
  BY <1>0, <1>2, CycleExecute
<1>3. CASE Step
  <2>1. CASE CycleStep
    BY <1>0, <1>3, <2>1, VisitRootKeeps, FollowKeeps, LeaveKeeps, EndCyclesKeeps
       DEF Step, CycleStep
  <2>2. CASE ~CycleStep
    BY <1>0, <1>3, <2>2, CycleOtherStep DEF Step
  <2> QED BY <2>1, <2>2
<1>4. CASE Remember
  BY <1>0, <1>4, CycleRemember
<1>5. CASE Return
  <2>1. /\ phase = "done" /\ phase' = "idle"
        /\ UNCHANGED <<edges, memo, stack, todo, done, cycles>>
    BY <1>5 DEF Return
  <2>2. CycleTypes' /\ CyclesFound' /\ CyclesAnswered'
    BY <2>1, OutOfCycles DEF CycleInv, CycleTypes, CyclesAnswered
  <2> QED BY <2>1, <2>2, CycleMemoStays DEF CycleInv
<1>6. CASE Clear
  <2>1. /\ phase = "idle" /\ phase' = "idle" /\ memo' = {}
        /\ UNCHANGED <<edges, stack, todo, done, cycles>>
    BY <1>6 DEF Clear
  <2>2. CycleTypes' /\ CyclesFound' /\ CyclesAnswered'
    BY <2>1, OutOfCycles DEF CycleInv, CycleTypes, CyclesAnswered
  <2> QED BY <2>1, <2>2 DEF CycleInv, CyclesRemembered
<1>7. CASE UNCHANGED vars
  <2>1. \A q, a : EdgesOf(q)' = EdgesOf(q) /\ (LegalCycles(q, a)' <=> LegalCycles(q, a))
    BY <1>7, CycleFixed DEF vars
  <2>0. UNCHANGED <<edges, query, phase, answer, memo, stack, todo, done, cycles>>
    BY <1>7 DEF vars
  <2>2. CycleTypes' /\ CyclesAnswered'
    BY <2>0, <2>1 DEF CycleInv, CycleTypes, CyclesAnswered
  <2>3. CyclesFound'
    <3>1. EdgesOf(query)' = EdgesOf(query)
      BY <2>0 DEF EdgesOf, Considered
    <3>2. StackIsPath' <=> StackIsPath
      BY <2>0, <3>1 DEF StackIsPath, ToSet, Distinct
    <3>3. NoneMissed' <=> NoneMissed
      BY <2>0, <3>1 DEF NoneMissed
    <3>4. Sound(EdgesOf(query), cycles)' <=> Sound(EdgesOf(query), cycles)
      BY <2>0, <3>1 DEF Sound, IsCycle, Distinct, Rotations
    <3> QED BY <2>0, <3>2, <3>3, <3>4 DEF CycleInv, CyclesFound
  <2> QED BY <1>7, <2>2, <2>3, CycleMemoStays DEF vars, CycleInv
<1> QED
  BY <1>1, <1>2, <1>3, <1>4, <1>5, <1>6, <1>7 DEF Next

\* detectCycles reports only cycles, none twice however it is turned, and some exactly if
\* there are any, on every graph, computed or answered by the cache.
THEOREM CyclesAreFound == Spec => []CyclesAreReal
<1>1. PartsInv /\ [Next]_vars => PartsInv'
  BY PartsStepKeeps
<1>2. PartsInv /\ CycleInv /\ [Next]_vars => CycleInv'
  BY CycleStepKeeps
<1>3. CycleInv => CyclesAreReal
  BY DEF CycleInv, CyclesAnswered, CyclesAreReal, Answers, LegalCycles, Sound, IsCycle
<1> QED BY <1>1, <1>2, <1>3, PartsInit, CycleInit, PTL DEF Spec
-----------------------------------------------------------------------------
(***************************************************************************)
(* Walks of any depth agree with themselves.  The nodes within some steps  *)
(* of a node are defined by recursion over the number of steps; what is    *)
(* said of them for every number is proved of the least number for which   *)
(* it fails.                                                               *)
(***************************************************************************)
\* What an answer to a walk of q claims of itself.
Trail(q, a) ==
  /\ a.order \in Seq(Nodes) /\ ToSet(a.order) = a.nodes /\ Distinct(a.order)
  /\ \A i \in 1..Len(a.order) :
       IF i = 1 THEN a.order[i] = q.start
       ELSE \E j \in 1..i - 1 : a.order[i] \in Neighbours(q, a.order[j])
  /\ q.depth # Infinity => a.nodes \subseteq Ball(q, q.depth)
  /\ a.edges = UNION {AdjacentEdges(q, n) : n \in a.nodes}

\* A walk under way: what has been visited is such an answer, what waits and was not
\* visited is the start or next to what was, and what it carries is a number of steps
\* within which it is reached.
TrailKept ==
  IF phase = "walk"
  THEN /\ Trail(query, [nodes |-> visited, edges |-> crossed, order |-> order])
       /\ \A n \in Queued \ visited :
            IF visited = {} THEN n = query.start
            ELSE \E m \in visited : n \in Neighbours(query, m)
       /\ \A n \in Nodes : Admits(query, n) =>
            \A i \in 1..Len(waiting[n]) : n \in Ball(query, waiting[n][i])
  ELSE crossed = {} /\ order = <<>>

TrailAnswered ==
  phase \in {"answered", "done"} /\ query.op = "walk" => Trail(query, answer)

TrailRemembered ==
  \A m \in memo : \A q \in Queries :
    q.op = "walk" /\ Cacheable(q) /\ m.key = Key(q) => Trail(q, m.answer)

TrailInv == TrailKept /\ TrailAnswered /\ TrailRemembered

Seed(q) == {n \in Nodes : n = q.start /\ Admits(q, n)}
Grown(q, S) == S \cup {m \in UNION {Neighbours(q, n) : n \in S} : Admits(q, m)}

\* The function by which the nodes within k steps are defined.
Grows(q, k, f) ==
  f = [i \in 0..k |-> IF i = 0 THEN Seed(q) ELSE Grown(q, f[i - 1])]

\* Of any numbers there is a least.
LEMMA LeastNumber ==
  ASSUME NEW S \in SUBSET Nat, S # {}
  PROVE  \E n \in S : \A m \in Nat : m < n => m \notin S
<1> DEFINE less == OpToRel(<, Nat)
<1>1. PICK n \in S : \A m \in S : <<m, n>> \notin less
  BY NatLessThanWellFounded, WFMin
<1>2. ASSUME NEW m \in S, m < n PROVE FALSE
  BY <1>1, <1>2 DEF OpToRel
<1> QED BY <1>2

\* The function by which the nodes within k steps are defined exists.
LEMMA BallExists ==
  ASSUME NEW q
  PROVE  \A k \in Nat : \E f : Grows(q, k, f)
<1> DEFINE Bad == {k \in Nat : ~\E f : Grows(q, k, f)}
<1>1. SUFFICES ASSUME Bad # {} PROVE FALSE
  OBVIOUS
<1>2. PICK k \in Bad : \A m \in Nat : m < k => m \notin Bad
  <2>1. Bad \in SUBSET Nat
    OBVIOUS
  <2> HIDE DEF Bad
  <2> QED BY <1>1, <2>1, LeastNumber
<1>3. CASE k = 0
  <2>1. Grows(q, 0, [i \in 0..0 |-> Seed(q)])
    BY DEF Grows
  <2> QED BY <1>3, <2>1
<1>4. CASE k # 0
  <2>1. k \in Nat /\ k - 1 \in Nat /\ k - 1 < k
    BY <1>4
  <2>2. PICK f : Grows(q, k - 1, f)
    BY <1>2, <2>1
  <2> DEFINE g == [i \in 0..k |-> IF i = k THEN Grown(q, f[k - 1]) ELSE f[i]]
  <2>3. ASSUME NEW i \in 0..k
        PROVE  g[i] = IF i = 0 THEN Seed(q) ELSE Grown(q, g[i - 1])
    <3>1. CASE i = k
      <4>1. k - 1 \in 0..k /\ k - 1 # k
        BY <2>1
      <4>2. g[k - 1] = f[k - 1]
        BY <4>1
      <4> QED BY <1>4, <3>1, <4>2
    <3>2. CASE i # k
      <4>1. i \in 0..k - 1 /\ g[i] = f[i]
        BY <2>1, <3>2
      <4>2. f[i] = IF i = 0 THEN Seed(q) ELSE Grown(q, f[i - 1])
        BY <2>2, <4>1 DEF Grows
      <4>3. i # 0 => i - 1 \in 0..k /\ i - 1 # k
        BY <2>1, <3>2
      <4>4. i # 0 => g[i - 1] = f[i - 1]
        BY <4>3
      <4> QED BY <4>1, <4>2, <4>4
    <3> QED BY <3>1, <3>2
  <2>4. g = [i \in 0..k |-> g[i]]
    OBVIOUS
  <2> HIDE DEF g
  <2>5. Grows(q, k, g)
    BY <2>3, <2>4 DEF Grows
  <2> QED BY <2>5
<1> QED BY <1>3, <1>4

\* Two such functions agree where both are defined.
LEMMA BallsAgree ==
  ASSUME NEW q, NEW k \in Nat, NEW l \in Nat, NEW f, NEW g,
         Grows(q, k, f), Grows(q, l, g)
  PROVE  \A i \in Nat : i <= k /\ i <= l => f[i] = g[i]
<1> DEFINE Bad == {i \in Nat : i <= k /\ i <= l /\ f[i] # g[i]}
<1>1. SUFFICES ASSUME Bad # {} PROVE FALSE
  OBVIOUS
<1>2. PICK i \in Bad : \A m \in Nat : m < i => m \notin Bad
  <2>1. Bad \in SUBSET Nat
    OBVIOUS
  <2> HIDE DEF Bad
  <2> QED BY <1>1, <2>1, LeastNumber
<1>3. i \in Nat /\ i \in 0..k /\ i \in 0..l
  OBVIOUS
<1>4. /\ f[i] = IF i = 0 THEN Seed(q) ELSE Grown(q, f[i - 1])
      /\ g[i] = IF i = 0 THEN Seed(q) ELSE Grown(q, g[i - 1])
  BY <1>3 DEF Grows
<1>5. i # 0 => f[i - 1] = g[i - 1]
  <2>1. ASSUME i # 0 PROVE i - 1 \in Nat /\ i - 1 < i /\ i - 1 <= k /\ i - 1 <= l
    BY <1>3, <2>1
  <2> QED BY <1>2, <2>1
<1> QED BY <1>2, <1>4, <1>5

\* The nodes within 0 and within k + 1 steps.
LEMMA BallGrows ==
  ASSUME NEW q
  PROVE  /\ Ball(q, 0) = Seed(q)
         /\ \A k \in Nat : Ball(q, k + 1) = Grown(q, Ball(q, k))
<1>1. ASSUME NEW k \in Nat
      PROVE  \E f : Grows(q, k, f) /\ Ball(q, k) = f[k]
  <2>1. Ball(q, k) = (CHOOSE f : Grows(q, k, f))[k]
    BY DEF Ball, Grows, Seed, Grown
  <2> QED BY <2>1, BallExists
<1>2. Ball(q, 0) = Seed(q)
  <2>1. PICK f : Grows(q, 0, f) /\ Ball(q, 0) = f[0]
    BY <1>1
  <2> QED BY <2>1 DEF Grows
<1>3. ASSUME NEW k \in Nat PROVE Ball(q, k + 1) = Grown(q, Ball(q, k))
  <2>1. PICK f : Grows(q, k, f) /\ Ball(q, k) = f[k]
    BY <1>1
  <2>2. k + 1 \in Nat /\ k + 1 # 0 /\ (k + 1) - 1 = k /\ k + 1 \in 0..k + 1
    OBVIOUS
  <2>3. PICK g : Grows(q, k + 1, g) /\ Ball(q, k + 1) = g[k + 1]
    BY <1>1, <2>2
  <2>4. g[k + 1] = Grown(q, g[k])
    BY <2>2, <2>3 DEF Grows
  <2>5. f[k] = g[k]
    BY <2>1, <2>2, <2>3, BallsAgree
  <2> QED BY <2>1, <2>3, <2>4, <2>5
<1> QED BY <1>2, <1>3

\* A graph does not change, and what is within k steps neither.
LEMMA BallFixed ==
  ASSUME UNCHANGED edges, NEW q, NEW k
  PROVE Ball(q, k)' = Ball(q, k)
BY DEF Ball, Admits, Allowed, Neighbours, AdjacentEdges, NextNodes, Considered

\* What is within some steps is within more.
LEMMA BallsAreNested ==
  ASSUME NEW q, NEW k \in Nat, NEW l \in Nat, k <= l
  PROVE  Ball(q, k) \subseteq Ball(q, l)
<1> DEFINE Bad == {i \in Nat : k <= i /\ ~(Ball(q, k) \subseteq Ball(q, i))}
<1>1. SUFFICES ASSUME Bad # {} PROVE FALSE
  OBVIOUS
<1>2. PICK i \in Bad : \A m \in Nat : m < i => m \notin Bad
  <2>1. Bad \in SUBSET Nat
    OBVIOUS
  <2> HIDE DEF Bad
  <2> QED BY <1>1, <2>1, LeastNumber
<1>3. i # k /\ k <= i /\ i \in Nat
  OBVIOUS
<1>4. i - 1 \in Nat /\ i - 1 < i /\ k <= i - 1 /\ (i - 1) + 1 = i
  BY <1>3
<1>5. Ball(q, k) \subseteq Ball(q, i - 1)
  BY <1>2, <1>4
<1>6. Ball(q, i) = Grown(q, Ball(q, i - 1))
  BY <1>4, BallGrows
<1> QED BY <1>2, <1>5, <1>6 DEF Grown

-----------------------------------------------------------------------------
LEMMA TrailFixed ==
  ASSUME UNCHANGED edges
  PROVE  \A q, a : Trail(q, a)' <=> Trail(q, a)
<1> SUFFICES ASSUME NEW q, NEW a PROVE Trail(q, a)' <=> Trail(q, a)
  OBVIOUS
<1>1. \A k : Ball(q, k)' = Ball(q, k)
  BY BallFixed
<1>2. \A n : /\ AdjacentEdges(q, n)' = AdjacentEdges(q, n)
             /\ Neighbours(q, n)' = Neighbours(q, n)
  BY DEF Neighbours, AdjacentEdges, NextNodes, Considered
<1> QED BY <1>1, <1>2 DEF Trail, Distinct

LEMMA TrailMemoStays ==
  ASSUME TrailRemembered, UNCHANGED <<edges, memo>>
  PROVE  TrailRemembered'
<1>1. ASSUME NEW m \in memo', NEW q \in Queries, q.op = "walk", Cacheable(q), m.key = Key(q)
      PROVE  Trail(q, m.answer)'
  BY <1>1, TrailFixed DEF TrailRemembered
<1> QED BY <1>1 DEF TrailRemembered, Cacheable, Key, Listed

LEMMA TrailInit == Init => TrailInv
BY DEF Init, TrailInv, TrailKept, TrailAnswered, TrailRemembered, NoWalk

LEMMA TrailHit ==
  ASSUME TrailInv, WalkInv, NEW q \in Queries, Hit(q)
  PROVE  TrailInv'
<1> USE DEF Hit
<1>1. TrailRemembered'
  BY TrailMemoStays DEF TrailInv
<1>2. TrailKept'
  BY DEF TrailInv, TrailKept
<1>3. ASSUME q.op = "walk" PROVE Trail(query, answer)'
  <2>1. Trail(q, answer')
    BY <1>3 DEF TrailInv, TrailRemembered, Entries
  <2>2. PICK a : a = answer'
    OBVIOUS
  <2>3. Trail(q, a)'
    BY <2>1, <2>2, TrailFixed
  <2> QED BY <2>2, <2>3
<1>4. TrailAnswered'
  BY <1>3 DEF TrailAnswered
<1> QED BY <1>1, <1>2, <1>4 DEF TrailInv

LEMMA TrailExecute ==
  ASSUME TrailInv, WalkInv, NEW q \in Queries, Execute(q)
  PROVE  TrailInv'
<1> USE DEF Execute
<1>1. TrailRemembered'
  BY TrailMemoStays DEF TrailInv
<1>2. phase = "idle" /\ visited = {} /\ crossed = {} /\ order = <<>>
  BY DEF TrailInv, TrailKept, WalkInv, WalkPhases
<1>3. CASE BeginWalk(q)
  <2>1. /\ phase' = "walk" /\ visited' = {} /\ crossed' = {} /\ order' = <<>> /\ query' = q
        /\ waiting' = [n \in Nodes |-> IF n = q.start THEN <<0>> ELSE <<>>]
    BY <1>2, <1>3 DEF BeginWalk
  <2>2. Trail(query, [nodes |-> visited, edges |-> crossed, order |-> order])'
    BY <2>1 DEF Trail, ToSet, Distinct
  <2>3. \A n \in Queued' : n = query'.start
    BY <2>1 DEF Queued
  <2>4. ASSUME NEW n \in Nodes, Admits(query, n)', NEW i \in 1..Len(waiting'[n])
        PROVE  n \in Ball(query, waiting[n][i])'
    <3>1. n = q.start /\ waiting'[n][i] = 0
      BY <2>1, <2>4
    <3>2. n \in Ball(q, 0)
      BY <2>1, <2>4, <3>1, BallGrows DEF Seed, Admits, Allowed
    <3>3. n \in Ball(q, 0)'
      BY <3>2, BallFixed
    <3>4. PICK k : k = waiting'[n][i]
      OBVIOUS
    <3>5. n \in Ball(q, k)'
      BY <3>1, <3>3, <3>4
    <3> QED BY <2>1, <3>4, <3>5
  <2>5. TrailKept'
    BY <2>1, <2>2, <2>3, <2>4 DEF TrailKept
  <2>6. TrailAnswered'
    BY <2>1 DEF TrailAnswered
  <2> QED BY <1>1, <2>5, <2>6 DEF TrailInv
<1>4. CASE /\ UNCHANGED walkVars
           /\ BeginPath(q) \/ BeginComponents(q) \/ BeginSort(q) \/ BeginCycles(q)
              \/ BeginChain(q)
  <2>1. phase' # "walk" /\ query' = q /\ q.op # "walk"
    BY <1>4 DEF BeginPath, BeginComponents, BeginSort, BeginCycles, BeginChain, Answered
  <2>2. TrailKept' /\ TrailAnswered'
    BY <1>2, <1>4, <2>1 DEF TrailKept, TrailAnswered
  <2> QED BY <1>1, <2>2 DEF TrailInv
<1> QED BY <1>3, <1>4

LEMMA TrailOther ==
  ASSUME TrailInv, WalkInv, PathStep \/ ComponentStep \/ SortStep \/ CycleStep \/ ChainStep,
         UNCHANGED <<edges, query, memo, walkVars>>
  PROVE  TrailInv'
<1>1. /\ phase \in {"path", "back", "components", "topological", "cycles", "statistics"}
      /\ phase' # "walk"
  <2>1. CASE PathStep
    BY <2>1 DEF PathStep, NotFound, StepBack, BackAtStart, Expand, Found, Answered
  <2>2. CASE ComponentStep
    BY <2>2 DEF ComponentStep, StartComponent, EndComponent, EndComponents,
                Gather, Answered
  <2>3. CASE SortStep
    BY <2>3 DEF SortStep, EndSort, Emit, Answered
  <2>4. CASE CycleStep
    BY <2>4 DEF CycleStep, VisitRoot, LeaveNode, EndCycles, FollowEdge, Answered
  <2>5. CASE ChainStep
    BY <2>5 DEF ChainStep, StartChain, FollowCall, EndVisit, EndChain, Answered
  <2> QED BY <2>1, <2>2, <2>3, <2>4, <2>5
<1>2. query.op # "walk"
  BY <1>1 DEF WalkInv, WalkPhases
<1>3. TrailKept' /\ TrailAnswered'
  BY <1>1, <1>2 DEF TrailInv, TrailKept, TrailAnswered
<1> QED BY <1>3, TrailMemoStays DEF TrailInv

-----------------------------------------------------------------------------
\* What an item carries is among what its node waits with, and so is what the
\* others carry.
LEMMA ItemsOf ==
  ASSUME WalkTypes, NEW n \in Queued
  PROVE  /\ \E i \in 1..Len(waiting[n]) : Item(n) = waiting[n][i]
         /\ \A i \in 1..Len(Others(n)) :
              \E j \in 1..Len(waiting[n]) : Others(n)[i] = waiting[n][j]
<1> DEFINE s == waiting[n]
<1>1. s \in Seq(Nat) /\ s # <<>>
  BY DEF WalkTypes, Queued
<1> HIDE DEF s
<1>2. Len(s) \in Nat /\ Len(s) # 0
  BY <1>1
<1>3. Last(s) = s[Len(s)] /\ Head(s) = s[1] /\ 1 \in 1..Len(s) /\ Len(s) \in 1..Len(s)
  BY <1>1, <1>2 DEF Last
<1>4. ASSUME NEW i \in 1..Len(Tail(s)) PROVE \E j \in 1..Len(s) : Tail(s)[i] = s[j]
  <2>1. i + 1 \in 1..Len(s) /\ Tail(s)[i] = s[i + 1]
    BY <1>1, <1>2, <1>4
  <2> QED BY <2>1
<1>5. ASSUME NEW i \in 1..Len(Front(s)) PROVE \E j \in 1..Len(s) : Front(s)[i] = s[j]
  <2>1. Front(s) = [j \in 1..Len(s) - 1 |-> s[j]] /\ Len(s) - 1 \in Nat
    BY <1>2 DEF Front
  <2>2. Len(Front(s)) = Len(s) - 1
    BY <2>1
  <2>3. i \in 1..Len(s) /\ Front(s)[i] = s[i]
    BY <1>2, <1>5, <2>1, <2>2
  <2> QED BY <2>3
<1> QED BY <1>3, <1>4, <1>5 DEF Item, Others, s

LEMMA TrailSkip ==
  ASSUME WalkInv, TrailInv, NEW n \in Nodes, SkipItem(n), UNCHANGED <<edges, query, memo>>
  PROVE  TrailInv'
<1> USE DEF SkipItem, IsFirst
<1>1. /\ WalkTypes /\ n \in Queued /\ phase = "walk" /\ phase' = "walk"
      /\ waiting' = [waiting EXCEPT ![n] = Others(n)] /\ waiting \in [Nodes -> Seq(Nat)]
  BY DEF WalkInv, WalkTypes
<1>2. /\ waiting'[n] = Others(n)
      /\ \A m \in Nodes : m # n => waiting'[m] = waiting[m]
  BY <1>1
<1>3. PICK q, a : q = query /\ a = [nodes |-> visited, edges |-> crossed, order |-> order]
  OBVIOUS
<1>4. Trail(query, [nodes |-> visited, edges |-> crossed, order |-> order])'
  <2>1. Trail(q, a)'
    BY <1>1, <1>3, TrailFixed DEF TrailInv, TrailKept
  <2> QED BY <1>3, <2>1
<1>5. Queued' \subseteq Queued
  BY <1>1, <1>2 DEF Queued
<1>6. /\ \A k : Ball(q, k)' = Ball(q, k)
      /\ \A m : (Admits(q, m)' <=> Admits(q, m)) /\ Neighbours(q, m)' = Neighbours(q, m)
  BY BallFixed, GraphFixed DEF Admits, Allowed
<1>7. ASSUME NEW m \in Queued' \ visited'
      PROVE  IF visited' = {} THEN m = query'.start
             ELSE \E j \in visited' : m \in Neighbours(query, j)'
  <2>1. m \in Queued \ visited
    BY <1>5, <1>7
  <2>2. IF visited = {} THEN m = q.start ELSE \E j \in visited : m \in Neighbours(q, j)
    BY <1>1, <1>3, <2>1 DEF TrailInv, TrailKept
  <2>3. IF visited = {} THEN m = q.start ELSE \E j \in visited : m \in Neighbours(q, j)'
    BY <1>6, <2>2
  <2> QED BY <1>3, <2>3
<1>8. ASSUME NEW m \in Nodes, Admits(query, m)', NEW i \in 1..Len(waiting'[m])
      PROVE  m \in Ball(query, waiting[m][i])'
  <2>1. \A j \in 1..Len(waiting[m]) : m \in Ball(q, waiting[m][j])
    BY <1>1, <1>3, <1>8 DEF TrailInv, TrailKept, Admits, Allowed
  <2>2. \E j \in 1..Len(waiting[m]) : waiting'[m][i] = waiting[m][j]
    BY <1>1, <1>2, <1>8, ItemsOf
  <2>3. PICK k : k = waiting'[m][i]
    OBVIOUS
  <2>4. m \in Ball(q, k)'
    BY <1>6, <2>1, <2>2, <2>3
  <2> QED BY <1>3, <2>3, <2>4
<1>9. TrailKept'
  BY <1>1, <1>4, <1>7, <1>8 DEF TrailKept
<1>10. TrailAnswered'
  BY <1>1 DEF TrailAnswered
<1> QED BY <1>9, <1>10, TrailMemoStays DEF TrailInv

\* What a walk visits continues its answer.
LEMMA TrailContinues ==
  ASSUME WalkInv, TrailInv, NEW n \in Nodes, VisitNode(n), UNCHANGED <<edges, query, memo>>,
         NEW q, q = query
  PROVE  Trail(q, [nodes |-> visited', edges |-> crossed', order |-> order'])
<1> USE DEF VisitNode, IsFirst, Visits
<1>1. /\ WalkTypes /\ n \in Queued \ visited /\ phase = "walk" /\ Admits(q, n)
      /\ visited' = visited \cup {n} /\ order' = Append(order, n)
      /\ crossed' = crossed \cup AdjacentEdges(q, n)
      /\ query \in Queries
  BY SentinelAssumption DEF WalkInv, WalkTypes
<1>2. /\ order \in Seq(Nodes) /\ ToSet(order) = visited /\ Distinct(order)
      /\ \A i \in 1..Len(order) :
           IF i = 1 THEN order[i] = q.start
           ELSE \E j \in 1..i - 1 : order[i] \in Neighbours(q, order[j])
      /\ q.depth # Infinity => visited \subseteq Ball(q, q.depth)
      /\ crossed = UNION {AdjacentEdges(q, m) : m \in visited}
  BY <1>1 DEF TrailInv, TrailKept, Trail
<1>3. /\ order' \in Seq(Nodes) /\ Len(order') = Len(order) + 1 /\ order'[Len(order')] = n
      /\ \A i \in 1..Len(order) : order'[i] = order[i]
      /\ ToSet(order') = visited'
  BY <1>1, <1>2, NodeAppended
<1>4. Len(order) \in Nat /\ \A i \in 1..Len(order') : i \in 1..Len(order) \/ i = Len(order')
  BY <1>2, <1>3
<1>5. \A i \in 1..Len(order) : order[i] \in visited
  BY <1>2, ToSetIsImage
<1>6. Distinct(order')
  <2>1. \A i \in 1..Len(order) : order'[i] # n
    BY <1>1, <1>3, <1>5
  <2>2. \A i, j \in 1..Len(order) : order'[i] = order'[j] => i = j
    BY <1>2, <1>3 DEF Distinct
  <2> QED BY <1>3, <1>4, <2>1, <2>2 DEF Distinct
<1>7. ASSUME NEW i \in 1..Len(order')
      PROVE  IF i = 1 THEN order'[i] = q.start
             ELSE \E j \in 1..i - 1 : order'[i] \in Neighbours(q, order'[j])
  <2>1. CASE i \in 1..Len(order)
    <3>1. \A j \in 1..i - 1 : j \in 1..Len(order)
      BY <1>4, <2>1
    <3> QED BY <1>2, <1>3, <2>1, <3>1
  <2>2. CASE i = Len(order') /\ visited = {}
    <3>1. Len(order) = 0
      <4>1. 1 \notin 1..Len(order)
        BY <1>5, <2>2
      <4> QED BY <1>4, <4>1
    <3>2. n = q.start
      BY <1>1, <2>2 DEF TrailInv, TrailKept
    <3> QED BY <1>3, <2>2, <3>1, <3>2
  <2>3. CASE i = Len(order') /\ visited # {}
    <3>1. PICK m \in visited : n \in Neighbours(q, m)
      BY <1>1, <2>3 DEF TrailInv, TrailKept
    <3>2. PICK j \in 1..Len(order) : order[j] = m
      BY <1>2, ToSetIsImage
    <3>3. j \in 1..i - 1 /\ i # 1
      BY <1>3, <1>4, <2>3, <3>2
    <3> QED BY <1>3, <2>3, <3>1, <3>2, <3>3
  <2> QED BY <1>4, <2>1, <2>2, <2>3
<1>8. ASSUME q.depth # Infinity PROVE visited' \subseteq Ball(q, q.depth)
  <2>1. Item(n) \in Nat /\ \E i \in 1..Len(waiting[n]) : Item(n) = waiting[n][i]
    BY <1>1, ItemTypes, ItemsOf
  <2>2. n \in Ball(q, Item(n))
    BY <1>1, <2>1 DEF TrailInv, TrailKept
  <2>3. Item(n) <= q.depth /\ q.depth \in Nat
    BY <1>1, <1>8, QueryAssumption DEF Within
  <2>4. Ball(q, Item(n)) \subseteq Ball(q, q.depth)
    BY <2>1, <2>3, BallsAreNested
  <2> QED BY <1>1, <1>2, <1>8, <2>2, <2>4
<1>9. crossed' = UNION {AdjacentEdges(q, m) : m \in visited'}
  BY <1>1, <1>2
<1> QED BY <1>3, <1>6, <1>7, <1>8, <1>9 DEF Trail

LEMMA TrailVisit ==
  ASSUME WalkInv, TrailInv, NEW n \in Nodes, VisitNode(n), UNCHANGED <<edges, query, memo>>
  PROVE  TrailInv'
<1>1. PICK q, a : q = query /\ a = [nodes |-> visited', edges |-> crossed', order |-> order']
  OBVIOUS
<1>2. Trail(query, [nodes |-> visited, edges |-> crossed, order |-> order])'
  <2>1. Trail(q, a)
    BY <1>1, TrailContinues
  <2>2. Trail(q, a)'
    BY <2>1, TrailFixed
  <2> QED BY <1>1, <2>2
<1> USE DEF VisitNode, IsFirst, Visits
<1> DEFINE new(m) == IF m \in Neighbours(query, n) \ visited' THEN <<Item(n) + 1>>
                                                            ELSE <<>>
           old(m) == IF m = n THEN Others(n) ELSE waiting[m]
<1>3. /\ WalkTypes /\ n \in Queued \ visited /\ phase = "walk" /\ phase' = "walk"
      /\ Admits(q, n) /\ visited' = visited \cup {n} /\ Item(n) \in Nat
      /\ \A m \in Nodes : old(m) \in Seq(Nat) /\ new(m) \in Seq(Nat)
      /\ waiting' = [m \in Nodes |-> old(m) \o new(m)]
  BY <1>1, ItemTypes DEF WalkInv, WalkTypes
<1>4. /\ \A k : Ball(q, k)' = Ball(q, k)
      /\ \A m : (Admits(q, m)' <=> Admits(q, m)) /\ Neighbours(q, m)' = Neighbours(q, m)
  BY BallFixed, GraphFixed DEF Admits, Allowed
<1>5. ASSUME NEW m \in Nodes, NEW i \in 1..Len(waiting'[m])
      PROVE  \/ m \in Queued /\ \E j \in 1..Len(waiting[m]) : waiting'[m][i] = waiting[m][j]
             \/ m \in Neighbours(q, n) /\ waiting'[m][i] = Item(n) + 1
  <2>1. waiting'[m] = old(m) \o new(m) /\ old(m) \in Seq(Nat) /\ new(m) \in Seq(Nat)
    BY <1>3
  <2>2. PICK s \in Seq(Nat), t \in Seq(Nat) : s = old(m) /\ t = new(m)
    BY <2>1
  <2>3. /\ Len(s) \in Nat /\ Len(t) \in Nat /\ Len(s \o t) = Len(s) + Len(t)
        /\ \A k \in 1..Len(s) : (s \o t)[k] = s[k]
        /\ \A k \in 1..Len(t) : (s \o t)[Len(s) + k] = t[k]
    OBVIOUS
  <2>4. CASE i \in 1..Len(s)
    <3>1. waiting'[m][i] = old(m)[i] /\ Len(old(m)) # 0
      BY <2>1, <2>2, <2>3, <2>4
    <3>2. CASE m = n
      <4>1. old(m) = Others(n)
        BY <3>2
      <4>2. \E j \in 1..Len(waiting[n]) : Others(n)[i] = waiting[n][j]
        BY <1>3, <2>2, <2>4, <4>1, ItemsOf
      <4> QED BY <1>3, <3>1, <3>2, <4>1, <4>2
    <3>3. CASE m # n
      <4>1. old(m) = waiting[m]
        BY <3>3
      <4>2. i \in 1..Len(waiting[m]) /\ waiting[m] # <<>>
        BY <2>2, <2>4, <3>1, <4>1
      <4> QED BY <3>1, <4>1, <4>2 DEF Queued
    <3> QED BY <3>2, <3>3
  <2>5. CASE i \notin 1..Len(s)
    <3>1. i \in 1..Len(s) + Len(t)
      BY <1>5, <2>1, <2>2, <2>3
    <3>2. i - Len(s) \in 1..Len(t) /\ Len(s) + (i - Len(s)) = i
      BY <2>3, <2>5, <3>1
    <3>3. waiting'[m][i] = new(m)[i - Len(s)]
      BY <2>1, <2>2, <2>3, <3>2
    <3>4. m \in Neighbours(query, n) \ visited' /\ t = <<Item(n) + 1>>
      BY <2>2, <2>3, <3>2
    <3>5. i - Len(s) = 1 /\ t[1] = Item(n) + 1
      BY <3>2, <3>4
    <3>6. waiting'[m][i] = t[1]
      BY <2>2, <3>3, <3>5
    <3> QED BY <1>1, <3>4, <3>5, <3>6
  <2> QED BY <2>4, <2>5
<1>6. ASSUME NEW m \in Queued' \ visited'
      PROVE  IF visited' = {} THEN m = query'.start
             ELSE \E j \in visited' : m \in Neighbours(query, j)'
  <2>1. m \in Nodes /\ m \notin visited /\ m # n /\ waiting'[m] # <<>>
    BY <1>3, <1>6 DEF Queued
  <2>2. waiting'[m] \in Seq(Nat)
    <3>1. PICK s \in Seq(Nat), t \in Seq(Nat) : waiting'[m] = s \o t
      BY <1>3, <2>1
    <3> QED BY <3>1, Appended, Zenon
  <2>3. 1 \in 1..Len(waiting'[m])
    <3>1. \A s \in Seq(Nat) : s # <<>> => 1 \in 1..Len(s)
      OBVIOUS
    <3> QED BY <2>1, <2>2, <3>1
  <2>4. m \in Queued \/ m \in Neighbours(q, n)
    BY <1>5, <2>1, <2>3
  <2>5. CASE m \in Neighbours(q, n)
    <3>1. n \in visited' /\ m \in Neighbours(q, n)'
      BY <1>3, <1>4, <2>5
    <3> QED BY <1>1, <3>1
  <2>6. CASE m \in Queued
    <3>1. IF visited = {} THEN m = q.start ELSE \E j \in visited : m \in Neighbours(q, j)
      BY <1>1, <1>3, <2>1, <2>6 DEF TrailInv, TrailKept
    <3>2. visited = {} => n = q.start
      BY <1>1, <1>3 DEF TrailInv, TrailKept
    <3>3. \E j \in visited' : m \in Neighbours(q, j)'
      BY <1>3, <1>4, <2>1, <3>1, <3>2
    <3> QED BY <1>1, <3>3
  <2> QED BY <2>4, <2>5, <2>6
<1>7. ASSUME NEW m \in Nodes, Admits(query, m)', NEW i \in 1..Len(waiting'[m])
      PROVE  m \in Ball(query, waiting[m][i])'
  <2>1. PICK k : k = waiting'[m][i]
    OBVIOUS
  <2>2. Admits(q, m)
    BY <1>1, <1>7 DEF Admits, Allowed
  <2>3. ASSUME m \in Queued, NEW j \in 1..Len(waiting[m]), k = waiting[m][j]
        PROVE  m \in Ball(q, k)
    BY <1>1, <1>3, <2>2, <2>3 DEF TrailInv, TrailKept
  <2>4. ASSUME m \in Neighbours(q, n), k = Item(n) + 1
        PROVE  m \in Ball(q, k)
    <3>1. \E j \in 1..Len(waiting[n]) : Item(n) = waiting[n][j]
      BY <1>3, ItemsOf
    <3>2. n \in Ball(q, Item(n))
      BY <1>1, <1>3, <3>1 DEF TrailInv, TrailKept
    <3>3. Ball(q, Item(n) + 1) = Grown(q, Ball(q, Item(n)))
      BY <1>3, BallGrows
    <3>4. m \in Grown(q, Ball(q, Item(n)))
      BY <2>2, <2>4, <3>2 DEF Grown
    <3> QED BY <2>4, <3>3, <3>4
  <2>5. m \in Ball(q, k)
    BY <1>5, <2>1, <2>3, <2>4
  <2>6. m \in Ball(q, k)'
    BY <1>4, <2>5
  <2> QED BY <1>1, <2>1, <2>6
<1>8. TrailKept'
  BY <1>2, <1>3, <1>6, <1>7 DEF TrailKept
<1>9. TrailAnswered'
  BY <1>3 DEF TrailAnswered
<1> QED BY <1>8, <1>9, TrailMemoStays DEF TrailInv

LEMMA TrailEnd ==
  ASSUME WalkInv, TrailInv, EndWalk, UNCHANGED <<edges, query, memo>>
  PROVE  TrailInv'
<1> USE DEF EndWalk, Answered
<1>1. TrailKept'
  BY DEF TrailKept
<1>2. PICK q, a : q = query /\ a = [nodes |-> visited, edges |-> crossed, order |-> order]
  OBVIOUS
<1>3. Trail(query, answer)'
  <2>1. Trail(q, a)'
    BY <1>2, TrailFixed DEF TrailInv, TrailKept
  <2> QED BY <1>2, <2>1
<1>4. TrailAnswered'
  BY <1>3 DEF TrailAnswered
<1> QED BY <1>1, <1>4, TrailMemoStays DEF TrailInv

LEMMA TrailRemember ==
  ASSUME NoEmptyLists, WalkInv, TrailInv, Remember
  PROVE  TrailInv'
<1> USE DEF Remember
<1>1. TrailKept'
  BY DEF TrailInv, TrailKept
<1>2. query \in Queries
  BY DEF WalkInv, WalkTypes
<1>3. PICK q, a : q = query /\ a = answer
  OBVIOUS
<1>4. TrailAnswered'
  <2>1. ASSUME query.op = "walk" PROVE Trail(query, answer)'
    <3>1. Trail(q, a)'
      BY <1>3, <2>1, TrailFixed DEF TrailInv, TrailAnswered
    <3> QED BY <1>3, <3>1
  <2> QED BY <2>1 DEF TrailAnswered
<1>5. ASSUME NEW m \in memo', NEW r \in Queries, r.op = "walk", Cacheable(r), m.key = Key(r)
      PROVE  Trail(r, m.answer)'
  <2>1. CASE m \in memo
    BY <1>5, <2>1, TrailFixed DEF TrailInv, TrailRemembered
  <2>2. CASE Cacheable(query) /\ m = [key |-> Key(query), answer |-> answer]
    <3>1. r = query
      BY <1>2, <1>5, <2>2, KeyTellsApart
    <3>2. Trail(r, m.answer)
      BY <1>5, <2>2, <3>1 DEF TrailInv, TrailAnswered
    <3> QED BY <3>2, TrailFixed
  <2> QED BY <2>1, <2>2
<1>6. TrailRemembered'
  BY <1>5 DEF TrailRemembered, Cacheable, Key, Listed
<1> QED BY <1>1, <1>4, <1>6 DEF TrailInv

LEMMA TrailStepKeeps == NoEmptyLists /\ WalkInv /\ TrailInv /\ [Next]_vars => TrailInv'
<1> SUFFICES ASSUME NoEmptyLists, WalkInv, TrailInv, [Next]_vars PROVE TrailInv'
  OBVIOUS
<1>1. ASSUME NEW q \in Queries, Hit(q) PROVE TrailInv'
  BY <1>1, TrailHit
<1>2. ASSUME NEW q \in Queries, Execute(q) PROVE TrailInv'
  BY <1>2, TrailExecute
<1>3. CASE Step
  <2>1. CASE WalkStep
    BY <1>3, <2>1, TrailEnd, TrailSkip, TrailVisit DEF Step, WalkStep
  <2>2. CASE ~WalkStep
    BY <1>3, <2>2, TrailOther DEF Step
  <2> QED BY <2>1, <2>2
<1>4. CASE Remember
  BY <1>4, TrailRemember
<1>5. CASE Return
  <2>1. TrailKept' /\ TrailAnswered'
    BY <1>5 DEF Return, TrailInv, TrailKept, TrailAnswered
  <2> QED BY <1>5, <2>1, TrailMemoStays DEF Return, TrailInv
<1>6. CASE Clear
  BY <1>6 DEF Clear, TrailInv, TrailKept, TrailAnswered, TrailRemembered
<1>7. CASE UNCHANGED vars
  <2>1. PICK q, a, b : /\ q = query /\ b = answer
                       /\ a = [nodes |-> visited, edges |-> crossed, order |-> order]
    OBVIOUS
  <2>2. /\ Trail(q, a)' <=> Trail(q, a)
        /\ Trail(q, b)' <=> Trail(q, b)
        /\ \A k : Ball(q, k)' = Ball(q, k)
        /\ \A m : (Admits(q, m)' <=> Admits(q, m)) /\ Neighbours(q, m)' = Neighbours(q, m)
    BY <1>7, TrailFixed, BallFixed, GraphFixed DEF vars, Admits, Allowed
  <2>3. TrailAnswered'
    BY <1>7, <2>1, <2>2 DEF vars, TrailInv, TrailAnswered
  <2>4. TrailKept'
    <3>1. /\ UNCHANGED <<query, phase, waiting, visited, crossed, order>>
          /\ UNCHANGED Queued
      BY <1>7 DEF vars, Queued
    <3>2. CASE phase = "walk"
      <4>1. Trail(query, [nodes |-> visited, edges |-> crossed, order |-> order])'
        BY <2>1, <2>2, <3>1, <3>2 DEF TrailInv, TrailKept
      <4>2. ASSUME NEW n \in Queued' \ visited'
            PROVE  IF visited' = {} THEN n = query'.start
                   ELSE \E m \in visited' : n \in Neighbours(query, m)'
        <5>1. IF visited = {} THEN n = q.start ELSE \E m \in visited : n \in Neighbours(q, m)'
          BY <2>1, <2>2, <3>1, <3>2, <4>2 DEF TrailInv, TrailKept
        <5> QED BY <2>1, <3>1, <5>1
      <4>3. ASSUME NEW n \in Nodes, Admits(query, n)', NEW i \in 1..Len(waiting'[n])
            PROVE  n \in Ball(query, waiting[n][i])'
        <5>1. n \in Ball(q, waiting[n][i])'
          <6>1. Admits(q, n)
            BY <2>1, <3>1, <4>3 DEF Admits, Allowed
          <6>2. PICK k : k = waiting[n][i] /\ k = waiting'[n][i]
            BY <3>1
          <6>3. n \in Ball(q, k)'
            BY <2>1, <2>2, <3>1, <3>2, <4>3, <6>1, <6>2 DEF TrailInv, TrailKept
          <6> QED BY <6>2, <6>3
        <5> QED BY <2>1, <3>1, <5>1
      <4> QED BY <3>1, <3>2, <4>1, <4>2, <4>3 DEF TrailKept
    <3> QED BY <3>1, <3>2 DEF TrailInv, TrailKept
  <2> QED BY <1>7, <2>3, <2>4, TrailMemoStays DEF vars, TrailInv
<1> QED
  BY <1>1, <1>2, <1>3, <1>4, <1>5, <1>6, <1>7 DEF Next

\* The answer to a walk, bounded or not, breadth-first or depth-first, computed or
\* remembered, agrees with itself: its order lists its nodes once each, from the
\* start on and each next to an earlier one, none of them is further from the start
\* than was asked, and its edges are theirs; as long as no query gives an empty list
\* for an option.
THEOREM WalksAreConsistent ==
  ASSUME NoEmptyLists
  PROVE  Spec => []WalkIsConsistent
<1>1. WalkInv /\ [Next]_vars => WalkInv'
  BY WalkStepKeeps
<1>2. WalkInv /\ TrailInv /\ [Next]_vars => TrailInv'
  BY TrailStepKeeps
<1>3. TrailInv => WalkIsConsistent
  BY DEF TrailInv, TrailAnswered, Trail, WalkIsConsistent, Answers
<1> QED BY <1>1, <1>2, <1>3, WalkInit, TrailInit, PTL DEF Spec
-----------------------------------------------------------------------------
(***************************************************************************)
(* The longest chain of calls.                                             *)
(***************************************************************************)
\* A chain of calls from n.
ChainFrom(n, c) ==
  c \in Seq(Nodes) /\ Len(c) \in Nat \ {0} /\ c[1] = n /\ IsChain(c)

Beats(s, c) == Len(s) > Len(c) \/ (Len(s) = Len(c) /\ Precedes(s, c))
Unbeaten(n, c) == \A s \in Seq(Nodes) : ChainFrom(n, s) => ~Beats(s, c)
UnbeatenOver(n, m, c) == \A s \in Seq(Nodes) : ChainFrom(m, s) => ~Beats(<<n>> \o s, c)

\* A chain from n whose nodes, n and the last excepted, are in S, none twice.
ChainOver(n, c, S) ==
  /\ ChainFrom(n, c)
  /\ \A i, j \in 1..Len(c) - 1 : c[i] = c[j] => i = j
  /\ \A i \in 2..Len(c) - 1 : c[i] \in S

\* What is remembered of a node is a chain over nodes that are remembered too; if
\* calls have no cycle, the best of all.
RememberedChains ==
  \A n \in Remembered :
    /\ ChainOver(n, chains[n], Remembered)
    /\ Acyclic(Calls) => Unbeaten(n, chains[n])

\* Those visited are a path of calls over distinct nodes not remembered yet.
VisitsArePath ==
  /\ \A i \in 1..Len(visits) :
       /\ visits[i].node \in Nodes \ Remembered
       /\ visits[i].follow \subseteq CallsOf(visits[i].node)
  /\ \A i, j \in 1..Len(visits) : visits[i].node = visits[j].node => i = j
  /\ \A i \in 1..Len(visits) - 1 :
       \E e \in Calls : e.from = visits[i].node /\ e.to = visits[i + 1].node

\* The best chain of a visit so far is one; if calls have no cycle, it is the best of
\* those over the calls that have been followed and come back.
BestAt(i) ==
  /\ ChainOver(visits[i].node, visits[i].best, Remembered)
  /\ Acyclic(Calls) => \A e \in CallsOf(visits[i].node) \ visits[i].follow :
       \/ i < Len(visits) /\ e.to = visits[i + 1].node
       \/ UnbeatenOver(visits[i].node, e.to, visits[i].best)

VisitType == [node : Nodes, follow : SUBSET Edges, best : Seq(Nodes)]
ChainTypes ==
  /\ visits \in Seq(VisitType) /\ chains \in [Nodes -> Seq(Nodes) \cup {None}]
  /\ phase # "statistics" => visits = <<>> /\ Remembered = {}

ChainsFound ==
  phase = "statistics" =>
    /\ RememberedChains /\ VisitsArePath
    /\ \A i \in 1..Len(visits) : BestAt(i)

LegalChain(a) ==
  /\ IsChain(a) /\ Distinct(Front(a))
  /\ Acyclic(Calls) =>
       \A k \in 1..Cardinality(Nodes) : \A s \in [1..k -> Nodes] :
         IsChain(s) => \/ Len(s) < Len(a)
                       \/ Len(s) = Len(a) /\ (s[1] = a[1] => ~Precedes(s, a))

ChainsAnswered ==
  phase \in {"answered", "done"} /\ query.op = "statistics" => LegalChain(answer)

ChainsRemembered ==
  \A m \in memo : \A q \in Queries :
    q.op = "statistics" /\ m.key = Key(q) => LegalChain(m.answer)

ChainInv == ChainTypes /\ ChainsFound /\ ChainsAnswered /\ ChainsRemembered

-----------------------------------------------------------------------------
(* The order of chains. *)

LEMMA PlacesAreNumbers ==
  ASSUME NEW s \in Seq(Nodes)
  PROVE  Len(s) \in Nat /\ \A i \in 1..Len(s) : s[i] \in Nodes /\ CodeUnits[s[i]] \in Nat
<1>1. \A n \in Nodes : CodeUnits[n] \in Nat
  BY CodeUnitAssumption
<1>2. Len(s) \in Nat /\ \A i \in 1..Len(s) : s[i] \in Nodes
  OBVIOUS
<1> QED BY <1>1, <1>2

\* Of two chains of one length that differ, one precedes.
LEMMA OnePrecedes ==
  ASSUME NEW s \in Seq(Nodes), NEW t \in Seq(Nodes), Len(s) = Len(t), s # t
  PROVE  Precedes(s, t) \/ Precedes(t, s)
<1> DEFINE Bad == {k \in Nat : k \in 1..Len(s) /\ s[k] # t[k]}
<1>1. /\ Len(s) \in Nat
      /\ \A i \in 1..Len(s) : s[i] \in Nodes /\ t[i] \in Nodes
      /\ \A i \in 1..Len(s) : CodeUnits[s[i]] \in Nat /\ CodeUnits[t[i]] \in Nat
  BY PlacesAreNumbers
<1>2. \E k \in 1..Len(s) : s[k] # t[k]
  <2> SUFFICES ASSUME \A k \in 1..Len(s) : s[k] = t[k] PROVE FALSE
    OBVIOUS
  <2>1. s = [k \in 1..Len(s) |-> s[k]] /\ t = [k \in 1..Len(s) |-> t[k]]
    OBVIOUS
  <2>2. [k \in 1..Len(s) |-> s[k]] = [k \in 1..Len(s) |-> t[k]]
    OBVIOUS
  <2> QED BY <2>1, <2>2
<1>3. Bad \in SUBSET Nat /\ Bad # {}
  <2>1. PICK k \in 1..Len(s) : s[k] # t[k]
    BY <1>2
  <2>2. k \in Nat
    BY <1>1
  <2>3. k \in Bad
    BY <2>1, <2>2
  <2> QED BY <2>3
<1> HIDE DEF Bad
<1>4. PICK i \in Bad : \A k \in Nat : k < i => k \notin Bad
  BY <1>3, LeastNumber
<1>5. i \in 1..Len(s) /\ s[i] # t[i]
  BY <1>4 DEF Bad
<1>6. ASSUME NEW j \in 1..i - 1 PROVE s[j] = t[j]
  <2>1. j \in Nat /\ j \in 1..Len(s) /\ j < i
    BY <1>1, <1>5
  <2>2. j \notin Bad
    BY <1>4, <1>5, <2>1
  <2> QED BY <2>1, <2>2 DEF Bad
<1>7. CodeUnits[s[i]] < CodeUnits[t[i]] \/ CodeUnits[t[i]] < CodeUnits[s[i]]
  <2>1. CodeUnits[s[i]] # CodeUnits[t[i]]
    BY <1>1, <1>5, CodeUnitAssumption
  <2>2. \A x, y \in Nat : x # y => x < y \/ y < x
    OBVIOUS
  <2> QED BY <1>1, <1>5, <2>1, <2>2
<1> QED BY <1>5, <1>6, <1>7 DEF Precedes

LEMMA PrecedesIsStrict ==
  ASSUME NEW s \in Seq(Nodes), NEW t \in Seq(Nodes), Len(s) = Len(t), Precedes(s, t)
  PROVE  ~Precedes(t, s)
<1>1. /\ Len(s) \in Nat
      /\ \A i \in 1..Len(s) : CodeUnits[s[i]] \in Nat /\ CodeUnits[t[i]] \in Nat
  BY PlacesAreNumbers
<1>2. PICK i \in 1..Len(s)  :
    CodeUnits[s[i]] < CodeUnits[t[i]] /\ \A j \in 1..i - 1 : s[j] = t[j]
  BY DEF Precedes
<1> SUFFICES ASSUME NEW k \in 1..Len(s), CodeUnits[t[k]] < CodeUnits[s[k]],
                    \A j \in 1..k - 1 : t[j] = s[j]
             PROVE  FALSE
  BY DEF Precedes
<1>3. \A x, y \in Nat : x < y => ~(y < x) /\ x # y
  OBVIOUS
<1>4. ~(i < k) /\ ~(k < i)
  BY <1>1, <1>2, <1>3
<1>5. i = k
  BY <1>1, <1>4
<1> QED BY <1>1, <1>2, <1>3, <1>5

LEMMA PrecedesIsTransitive ==
  ASSUME NEW s \in Seq(Nodes), NEW t \in Seq(Nodes), NEW u \in Seq(Nodes),
         Len(s) = Len(t), Len(t) = Len(u), Precedes(s, t), Precedes(t, u)
  PROVE  Precedes(s, u)
<1>1. /\ Len(s) \in Nat
      /\ \A i \in 1..Len(s) :
           CodeUnits[s[i]] \in Nat /\ CodeUnits[t[i]] \in Nat /\ CodeUnits[u[i]] \in Nat
  BY PlacesAreNumbers
<1>2. PICK i \in 1..Len(s)  :
    CodeUnits[s[i]] < CodeUnits[t[i]] /\ \A j \in 1..i - 1 : s[j] = t[j]
  BY DEF Precedes
<1>3. PICK k \in 1..Len(s)  :
    CodeUnits[t[k]] < CodeUnits[u[k]] /\ \A j \in 1..k - 1 : t[j] = u[j]
  BY DEF Precedes
<1>4. CASE i < k
  <2>1. i \in 1..k - 1 /\ \A j \in 1..i - 1 : j \in 1..k - 1
    BY <1>1, <1>4
  <2>2. CodeUnits[s[i]] < CodeUnits[u[i]] /\ \A j \in 1..i - 1 : s[j] = u[j]
    BY <1>2, <1>3, <2>1
  <2> QED BY <2>2 DEF Precedes
<1>5. CASE i = k
  <2>1. \A x, y, z \in Nat : x < y /\ y < z => x < z
    OBVIOUS
  <2>2. CodeUnits[s[i]] < CodeUnits[u[i]]
    BY <1>1, <1>2, <1>3, <1>5, <2>1
  <2> QED BY <1>2, <1>3, <1>5, <2>2 DEF Precedes
<1>6. CASE k < i
  <2>1. k \in 1..i - 1 /\ \A j \in 1..k - 1 : j \in 1..i - 1
    BY <1>1, <1>6
  <2>2. CodeUnits[s[k]] < CodeUnits[u[k]] /\ \A j \in 1..k - 1 : s[j] = u[j]
    BY <1>2, <1>3, <2>1
  <2> QED BY <2>2 DEF Precedes
<1> QED BY <1>1, <1>4, <1>5, <1>6

LEMMA BeatsIsStrict ==
  ASSUME NEW s \in Seq(Nodes), NEW t \in Seq(Nodes), Beats(s, t)
  PROVE  ~Beats(t, s)
<1>1. Len(s) \in Nat /\ Len(t) \in Nat
  OBVIOUS
<1>2. CASE Len(s) > Len(t)
  BY <1>1, <1>2 DEF Beats
<1>3. CASE Len(s) = Len(t)
  <2>1. Precedes(s, t)
    BY <1>1, <1>3 DEF Beats
  <2>2. ~Precedes(t, s)
    BY <1>3, <2>1, PrecedesIsStrict
  <2> QED BY <1>1, <1>3, <2>2 DEF Beats
<1> QED BY <1>1, <1>2, <1>3 DEF Beats

\* Not to be beaten passes on.
LEMMA NotToBeat ==
  ASSUME NEW s \in Seq(Nodes), NEW t \in Seq(Nodes), NEW u \in Seq(Nodes),
         ~Beats(s, t), ~Beats(t, u)
  PROVE  ~Beats(s, u)
<1>1. Len(s) \in Nat /\ Len(t) \in Nat /\ Len(u) \in Nat
  OBVIOUS
<1>2. Len(s) <= Len(t) /\ Len(t) <= Len(u)
  BY <1>1 DEF Beats
<1>3. CASE Len(s) = Len(t) /\ Len(t) = Len(u)
  <2>1. ~Precedes(s, t) /\ ~Precedes(t, u)
    BY <1>3 DEF Beats
  <2>2. (s = t \/ Precedes(t, s)) /\ (t = u \/ Precedes(u, t))
    BY <1>3, <2>1, OnePrecedes
  <2>3. CASE s = t
    BY <1>1, <1>3, <2>1, <2>3 DEF Beats
  <2>4. CASE t = u
    BY <1>1, <1>3, <2>1, <2>4 DEF Beats
  <2>5. CASE Precedes(t, s) /\ Precedes(u, t)
    <3>1. Precedes(u, s)
      BY <1>3, <2>5, PrecedesIsTransitive
    <3>2. ~Precedes(s, u)
      BY <1>3, <3>1, PrecedesIsStrict
    <3> QED BY <1>1, <1>3, <3>2 DEF Beats
  <2> QED BY <2>2, <2>3, <2>4, <2>5
<1>4. CASE Len(s) < Len(u)
  BY <1>1, <1>4 DEF Beats
<1> QED BY <1>1, <1>2, <1>3, <1>4

\* The better of two is neither beaten by the other, nor by what beats neither.
LEMMA BetterIsUnbeaten ==
  ASSUME NEW b \in Seq(Nodes), NEW d \in Seq(Nodes)
  PROVE  /\ Better(b, d) \in {b, d}
         /\ \A s \in Seq(Nodes) : ~Beats(s, b) \/ ~Beats(s, d) => ~Beats(s, Better(b, d))
<1>1. Better(b, d) = IF Beats(d, b) THEN d ELSE b
  BY DEF Better, Beats
<1>2. CASE Beats(d, b)
  <2>1. ~Beats(b, d)
    BY <1>2, BeatsIsStrict
  <2> QED BY <1>1, <1>2, <2>1, NotToBeat
<1>3. CASE ~Beats(d, b)
  BY <1>1, <1>3, NotToBeat
<1> QED BY <1>2, <1>3

-----------------------------------------------------------------------------
(* A chain with a node put before it. *)
LEMMA PutBefore ==
  ASSUME NEW n \in Nodes, NEW c \in Seq(Nodes)
  PROVE  LET d == <<n>> \o c IN
         /\ d \in Seq(Nodes) /\ Len(d) = Len(c) + 1 /\ d[1] = n
         /\ \A i \in 1..Len(c) : d[i + 1] = c[i]
         /\ \A i \in 2..Len(c) + 1 : i - 1 \in 1..Len(c) /\ d[i] = c[i - 1]
<1> DEFINE d == <<n>> \o c
<1>1. PICK p \in Seq(Nodes) : p = <<n>> /\ Len(p) = 1 /\ p[1] = n
  <2>1. <<n>> \in Seq(Nodes)
    OBVIOUS
  <2> QED BY <2>1
<1>2. /\ p \o c \in Seq(Nodes) /\ Len(p \o c) = 1 + Len(c)
      /\ \A i \in 1..1 + Len(c) : (p \o c)[i] = IF i <= 1 THEN p[i] ELSE c[i - 1]
  BY <1>1
<1>3. d = p \o c
  BY <1>1
<1> HIDE DEF d
<1>4. Len(c) \in Nat
  OBVIOUS
<1>5. d \in Seq(Nodes) /\ Len(d) = Len(c) + 1
  BY <1>2, <1>3, <1>4
<1>6. \A i \in 1..1 + Len(c) : d[i] = IF i <= 1 THEN p[i] ELSE c[i - 1]
  BY <1>2, <1>3
<1>7. d[1] = n
  BY <1>1, <1>4, <1>6
<1>8. ASSUME NEW i \in 1..Len(c) PROVE d[i + 1] = c[i]
  <2>1. i + 1 \in 1..1 + Len(c) /\ ~(i + 1 <= 1) /\ i + 1 - 1 = i
    BY <1>4
  <2> QED BY <1>6, <2>1
<1>9. ASSUME NEW i \in 2..Len(c) + 1 PROVE i - 1 \in 1..Len(c) /\ d[i] = c[i - 1]
  <2>1. i \in 1..1 + Len(c) /\ ~(i <= 1) /\ i - 1 \in 1..Len(c)
    BY <1>4
  <2> QED BY <1>6, <2>1
<1> QED BY <1>5, <1>7, <1>8, <1>9 DEF d

\* A call continues a chain.
LEMMA CallBefore ==
  ASSUME NEW n \in Nodes, NEW c, NEW e \in Calls, e.from = n, ChainFrom(e.to, c)
  PROVE  ChainFrom(n, <<n>> \o c)
<1> DEFINE d == <<n>> \o c
<1>1. c \in Seq(Nodes) /\ Len(c) \in Nat \ {0} /\ c[1] = e.to /\ IsChain(c)
  BY DEF ChainFrom
<1>2. /\ d \in Seq(Nodes) /\ Len(d) = Len(c) + 1 /\ d[1] = n
      /\ \A i \in 1..Len(c) : d[i + 1] = c[i]
  BY <1>1, PutBefore
<1> HIDE DEF d
<1>3. ASSUME NEW i \in 1..Len(d) - 1
      PROVE  \E f \in Calls : f.from = d[i] /\ f.to = d[i + 1]
  <2>1. i \in 1..Len(c) /\ d[i + 1] = c[i]
    BY <1>1, <1>2
  <2>2. CASE i = 1
    BY <1>1, <1>2, <2>1, <2>2
  <2>3. CASE i # 1
    <3>1. i - 1 \in 1..Len(c) - 1 /\ (i - 1) + 1 = i /\ i - 1 \in 1..Len(c)
      BY <1>1, <2>1, <2>3
    <3>2. PICK f \in Calls : f.from = c[i - 1] /\ f.to = c[(i - 1) + 1]
      BY <1>1, <3>1 DEF IsChain
    <3>3. d[(i - 1) + 1] = c[i - 1]
      BY <1>2, <3>1
    <3> QED BY <2>1, <3>1, <3>2, <3>3
  <2> QED BY <2>2, <2>3
<1>4. IsChain(d)
  BY <1>3 DEF IsChain
<1>5. Len(d) \in Nat \ {0}
  BY <1>1, <1>2
<1> QED BY <1>2, <1>4, <1>5 DEF ChainFrom, d

\* It meets no node twice, unless the last, if the chain is over nodes of a set that
\* n is not in.
LEMMA CallBeforeOver ==
  ASSUME NEW n \in Nodes, NEW c, NEW S, NEW e \in Calls, e.from = n,
         ChainOver(e.to, c, S), Len(c) > 1 => e.to \in S, n \notin S
  PROVE  ChainOver(n, <<n>> \o c, S)
<1> DEFINE d == <<n>> \o c
<1>1. /\ c \in Seq(Nodes) /\ Len(c) \in Nat \ {0} /\ c[1] = e.to /\ ChainFrom(e.to, c)
  BY DEF ChainOver, ChainFrom
<1>2. /\ d \in Seq(Nodes) /\ Len(d) = Len(c) + 1 /\ d[1] = n
      /\ \A i \in 2..Len(c) + 1 : i - 1 \in 1..Len(c) /\ d[i] = c[i - 1]
  BY <1>1, PutBefore
<1>3. ChainFrom(n, d)
  BY <1>1, CallBefore
<1> HIDE DEF d
<1>4. ASSUME NEW i \in 2..Len(d) - 1
      PROVE  i - 1 \in 1..Len(c) - 1 /\ d[i] = c[i - 1] /\ d[i] \in S
  <2>1. i \in 2..Len(c) + 1 /\ i - 1 \in 1..Len(c) - 1 /\ Len(c) > 1
    BY <1>1, <1>2
  <2>2. d[i] = c[i - 1]
    BY <1>2, <2>1
  <2>3. CASE i = 2
    <3>1. i - 1 = 1
      BY <2>3
    <3> QED BY <1>1, <2>1, <2>2, <3>1
  <2>4. CASE i # 2
    <3>1. i - 1 \in 2..Len(c) - 1
      BY <1>1, <2>1, <2>4
    <3> QED BY <2>1, <2>2, <3>1 DEF ChainOver
  <2> QED BY <2>3, <2>4
<1>5. ASSUME NEW i \in 1..Len(d) - 1, NEW j \in 1..Len(d) - 1, d[i] = d[j]
      PROVE  i = j
  <2>1. /\ i = 1 \/ i \in 2..Len(d) - 1
        /\ j = 1 \/ j \in 2..Len(d) - 1
    BY <1>1, <1>2
  <2>2. CASE i = 1 \/ j = 1
    BY <1>2, <1>4, <1>5, <2>1, <2>2
  <2>3. CASE i \in 2..Len(d) - 1 /\ j \in 2..Len(d) - 1
    <3>1. i - 1 \in 1..Len(c) - 1 /\ j - 1 \in 1..Len(c) - 1 /\ c[i - 1] = c[j - 1]
      BY <1>4, <1>5, <2>3
    <3>2. i - 1 = j - 1
      BY <3>1 DEF ChainOver
    <3> QED BY <3>2
  <2> QED BY <2>1, <2>2, <2>3
<1> QED BY <1>3, <1>4, <1>5 DEF ChainOver, d

LEMMA BeatsBehind ==
  ASSUME NEW n \in Nodes, NEW s \in Seq(Nodes), NEW c \in Seq(Nodes), ~Beats(s, c)
  PROVE  ~Beats(<<n>> \o s, <<n>> \o c)
<1> DEFINE t == <<n>> \o s
           d == <<n>> \o c
<1>1. /\ Len(s) \in Nat /\ Len(c) \in Nat /\ Len(t) = Len(s) + 1 /\ Len(d) = Len(c) + 1
      /\ t[1] = n /\ d[1] = n /\ CodeUnits[n] \in Nat
      /\ \A i \in 1..Len(s) : t[i + 1] = s[i]
      /\ \A i \in 1..Len(c) : d[i + 1] = c[i]
  BY PutBefore, CodeUnitAssumption
<1> HIDE DEF t, d
<1>2. Len(s) <= Len(c)
  BY <1>1 DEF Beats
<1>3. ASSUME Len(s) = Len(c), Precedes(t, d) PROVE FALSE
  <2>1. PICK i \in 1..Len(t) :
          CodeUnits[t[i]] < CodeUnits[d[i]] /\ \A j \in 1..i - 1 : t[j] = d[j]
    BY <1>3 DEF Precedes
  <2>2. i # 1
    BY <1>1, <2>1
  <2>3. i - 1 \in 1..Len(s) /\ (i - 1) + 1 = i
    BY <1>1, <2>1, <2>2
  <2>4. t[(i - 1) + 1] = s[i - 1] /\ d[(i - 1) + 1] = c[i - 1]
    BY <1>1, <1>3, <2>3
  <2>5. CodeUnits[s[i - 1]] < CodeUnits[c[i - 1]]
    BY <2>1, <2>3, <2>4
  <2>6. ASSUME NEW j \in 1..(i - 1) - 1 PROVE s[j] = c[j]
    <3>1. j + 1 \in 1..i - 1 /\ j \in 1..Len(s) /\ j \in 1..Len(c)
      BY <1>1, <1>3, <2>3
    <3>2. t[j + 1] = d[j + 1]
      BY <2>1, <3>1
    <3> QED BY <1>1, <3>1, <3>2
  <2>7. Precedes(s, c)
    BY <2>3, <2>5, <2>6 DEF Precedes
  <2> QED BY <1>3, <2>7 DEF Beats
<1>4. ~Beats(t, d)
  BY <1>1, <1>2, <1>3 DEF Beats
<1> QED BY <1>4 DEF t, d

LEMMA UnbeatenBehind ==
  ASSUME NEW n \in Nodes, NEW m, NEW c \in Seq(Nodes), Unbeaten(m, c)
  PROVE  UnbeatenOver(n, m, <<n>> \o c)
BY BeatsBehind DEF Unbeaten, UnbeatenOver

\* What no chain over a call beats, no chain beats.
LEMMA AllFollowed ==
  ASSUME PartsTypes, NEW n \in Nodes, NEW b, ChainFrom(n, b),
         \A e \in CallsOf(n) : UnbeatenOver(n, e.to, b)
  PROVE  Unbeaten(n, b)
<1> SUFFICES ASSUME NEW s \in Seq(Nodes), ChainFrom(n, s) PROVE ~Beats(s, b)
  BY DEF Unbeaten
<1>1. /\ b \in Seq(Nodes) /\ Len(b) \in Nat \ {0} /\ b[1] = n
      /\ Len(s) \in Nat \ {0} /\ s[1] = n /\ IsChain(s) /\ CodeUnits[n] \in Nat
      /\ \A i \in 1..Len(s) : s[i] \in Nodes
  BY CodeUnitAssumption, PlacesAreNumbers DEF ChainFrom
<1>2. CASE Len(s) = 1
  <2>1. \A i \in 1..Len(s) : i = 1
    BY <1>2
  <2>2. ~Precedes(s, b)
    BY <1>1, <2>1 DEF Precedes
  <2> QED BY <1>1, <1>2, <2>2 DEF Beats
<1>3. CASE Len(s) # 1
  <2>0. 1 \in 1..Len(s) - 1 /\ 1 + 1 = 2
    <3>1. \A L \in Nat : L # 0 /\ L # 1 => 1 \in 1..L - 1
      OBVIOUS
    <3>2. Len(s) \in Nat /\ Len(s) # 0
      BY <1>1
    <3>3. 1 \in 1..Len(s) - 1
      BY ONLY <1>3, <3>1, <3>2
    <3>4. 1 + 1 = 2
      OBVIOUS
    <3> QED BY <3>3, <3>4
  <2> DEFINE t == [i \in 1..Len(s) - 1 |-> s[i + 1]]
  <2>1. Len(s) - 1 \in Nat \ {0} /\ \A i \in 1..Len(s) - 1 : i + 1 \in 1..Len(s)
    BY <1>1, <1>3
  <2>2. t \in Seq(Nodes) /\ Len(t) = Len(s) - 1 /\ \A i \in 1..Len(s) - 1 : t[i] = s[i + 1]
    BY <1>1, <2>1
  <2> HIDE DEF t
  <2>3. PICK e \in Calls : e.from = s[1] /\ e.to = s[2]
    BY <1>1, <2>0 DEF IsChain
  <2>4. e \in CallsOf(n)
    BY <1>1, <2>3 DEF CallsOf, Calls
  <2>5. ChainFrom(e.to, t)
    <3>1. ASSUME NEW i \in 1..Len(t) - 1
          PROVE  \E f \in Calls : f.from = t[i] /\ f.to = t[i + 1]
      <4>1. i + 1 \in 1..Len(s) - 1 /\ i \in 1..Len(s) - 1
        BY <2>1, <2>2
      <4>2. PICK f \in Calls : f.from = s[i + 1] /\ f.to = s[(i + 1) + 1]
        BY <1>1, <4>1 DEF IsChain
      <4> QED BY <2>2, <4>1, <4>2
    <3>2. IsChain(t)
      BY <3>1 DEF IsChain
    <3>3. t[1] = s[2] /\ Len(t) \in Nat \ {0}
      BY <2>0, <2>1, <2>2
    <3> QED BY <2>2, <2>3, <3>2, <3>3 DEF ChainFrom
  <2>6. ~Beats(<<n>> \o t, b)
    BY <2>2, <2>4, <2>5 DEF UnbeatenOver
  <2>7. <<n>> \o t = s
    <3> DEFINE d == <<n>> \o t
    <3>1. /\ d \in Seq(Nodes) /\ Len(d) = Len(t) + 1 /\ d[1] = n
          /\ \A i \in 2..Len(t) + 1 : i - 1 \in 1..Len(t) /\ d[i] = t[i - 1]
      BY <2>2, PutBefore
    <3> HIDE DEF d
    <3>2. ASSUME NEW i \in 1..Len(s) PROVE d[i] = s[i]
      <4>1. CASE i = 1
        BY <1>1, <3>1, <4>1
      <4>2. CASE i # 1
        <5>1. i \in 2..Len(t) + 1 /\ i - 1 \in 1..Len(s) - 1 /\ (i - 1) + 1 = i
          BY <1>1, <2>1, <2>2, <4>2
        <5>2. d[i] = t[i - 1] /\ t[i - 1] = s[(i - 1) + 1]
          BY <2>2, <3>1, <5>1
        <5> QED BY <5>1, <5>2
      <4> QED BY <4>1, <4>2
    <3>3. Len(d) = Len(s)
      BY <1>1, <2>2, <3>1
    <3>4. d = [i \in 1..Len(s) |-> d[i]] /\ s = [i \in 1..Len(s) |-> s[i]]
      BY <3>1, <3>3
    <3>5. [i \in 1..Len(s) |-> d[i]] = [i \in 1..Len(s) |-> s[i]]
      BY <3>2
    <3>6. d = s
      BY <3>4, <3>5
    <3> QED BY <3>6 DEF d
  <2> QED BY <2>6, <2>7
<1> QED BY <1>2, <1>3

LEMMA BetterKeeps ==
  ASSUME NEW n \in Nodes, NEW b, NEW d, NEW S, ChainOver(n, b, S), ChainOver(n, d, S)
  PROVE  /\ ChainOver(n, Better(b, d), S) /\ Better(b, d) \in Seq(Nodes)
         /\ \A m : UnbeatenOver(n, m, b) \/ UnbeatenOver(n, m, d) =>
              UnbeatenOver(n, m, Better(b, d))
<1>1. b \in Seq(Nodes) /\ d \in Seq(Nodes)
  BY DEF ChainOver, ChainFrom
<1>2. /\ Better(b, d) \in {b, d}
      /\ \A s \in Seq(Nodes) : ~Beats(s, b) \/ ~Beats(s, d) => ~Beats(s, Better(b, d))
  BY <1>1, BetterIsUnbeaten
<1>3. \A s \in Seq(Nodes) : <<n>> \o s \in Seq(Nodes)
  BY PutBefore
<1>4. ASSUME NEW m, UnbeatenOver(n, m, b) \/ UnbeatenOver(n, m, d)
      PROVE  UnbeatenOver(n, m, Better(b, d))
  BY <1>2, <1>3, <1>4 DEF UnbeatenOver
<1>5. ChainOver(n, Better(b, d), S) /\ Better(b, d) \in Seq(Nodes)
  BY <1>1, <1>2
<1> QED BY <1>4, <1>5

-----------------------------------------------------------------------------
(* The graph stays as it is, and so do its chains. *)
LEMMA ChainsFixed ==
  ASSUME UNCHANGED edges
  PROVE  /\ Calls' = Calls /\ (Acyclic(Calls)' <=> Acyclic(Calls))
         /\ \A n : CallsOf(n)' = CallsOf(n)
         /\ \A n, c : /\ ChainFrom(n, c)' <=> ChainFrom(n, c)
                      /\ Unbeaten(n, c)' <=> Unbeaten(n, c)
         /\ \A n, m, c : UnbeatenOver(n, m, c)' <=> UnbeatenOver(n, m, c)
         /\ \A n, c, S : ChainOver(n, c, S)' <=> ChainOver(n, c, S)
         /\ \A a : LegalChain(a)' <=> LegalChain(a)
<1>1. Calls' = Calls /\ \A n : CallsOf(n)' = CallsOf(n)
  BY DEF Calls, CallsOf
<1>2. Acyclic(Calls)' <=> Acyclic(Calls)
  BY <1>1 DEF Acyclic
<1>3. \A c : IsChain(c)' <=> IsChain(c)
  BY <1>1 DEF IsChain
<1>4. \A n, c : ChainFrom(n, c)' <=> ChainFrom(n, c)
  BY <1>3 DEF ChainFrom
<1>5. \A n, c : Unbeaten(n, c)' <=> Unbeaten(n, c)
  BY <1>4 DEF Unbeaten
<1>6. \A n, m, c : UnbeatenOver(n, m, c)' <=> UnbeatenOver(n, m, c)
  BY <1>4 DEF UnbeatenOver
<1>7. \A n, c, S : ChainOver(n, c, S)' <=> ChainOver(n, c, S)
  BY <1>4 DEF ChainOver
<1>8. \A a : LegalChain(a)' <=> LegalChain(a)
  BY <1>2, <1>3 DEF LegalChain
<1> QED BY <1>1, <1>2, <1>4, <1>5, <1>6, <1>7, <1>8

LEMMA ChainMemoStays ==
  ASSUME ChainsRemembered, UNCHANGED <<edges, memo>>
  PROVE  ChainsRemembered'
<1>1. ASSUME NEW m \in memo', NEW q \in Queries, q.op = "statistics", m.key = Key(q)
      PROVE  LegalChain(m.answer)'
  BY <1>1, ChainsFixed DEF ChainsRemembered
<1> QED BY <1>1 DEF ChainsRemembered, Key, Listed

LEMMA ChainInit == Init => ChainInv
<1> SUFFICES ASSUME Init PROVE ChainInv
  OBVIOUS
<1>1. visits = <<>> /\ chains = [n \in Nodes |-> None] /\ memo = {} /\ phase = "idle"
  BY DEF Init, NoChain
<1>2. ChainTypes
  BY <1>1 DEF ChainTypes, Remembered
<1> QED BY <1>1, <1>2 DEF ChainInv, ChainsFound, ChainsAnswered, ChainsRemembered

\* Out of the statistics nothing is visited or remembered.
LEMMA OutOfChains ==
  ASSUME ChainTypes, phase # "statistics", phase' # "statistics", UNCHANGED chainVars
  PROVE  ChainTypes' /\ ChainsFound'
BY DEF ChainTypes, ChainsFound, Remembered

-----------------------------------------------------------------------------
(* The stack of visits. *)
LEMMA PlaceSet ==
  ASSUME NEW v \in Seq(VisitType), NEW k \in 1..Len(v), NEW x \in VisitType
  PROVE  LET u == [v EXCEPT ![k] = x] IN
         /\ u \in Seq(VisitType) /\ Len(u) = Len(v) /\ Len(v) \in Nat
         /\ u[k] = x /\ \A i \in 1..Len(v) : i # k => u[i] = v[i]
OBVIOUS

LEMMA FollowSet ==
  ASSUME NEW w \in VisitType, NEW e
  PROVE  \E x \in VisitType :
           /\ x = [w EXCEPT !.follow = @ \ {e}]
           /\ x.node = w.node /\ x.best = w.best /\ x.follow = w.follow \ {e}
<1>1. [w EXCEPT !.follow = @ \ {e}] \in VisitType
  BY DEF VisitType
<1>2. PICK x \in VisitType : x = [w EXCEPT !.follow = @ \ {e}]
  BY <1>1
<1>3. x.node = w.node /\ x.best = w.best /\ x.follow = w.follow \ {e}
  BY <1>2 DEF VisitType
<1> QED BY <1>2, <1>3

LEMMA BestSet ==
  ASSUME NEW v \in Seq(VisitType), NEW k \in 1..Len(v), NEW b \in Seq(Nodes)
  PROVE  LET u == [v EXCEPT ![k].best = b] IN
         /\ u \in Seq(VisitType) /\ Len(u) = Len(v) /\ Len(v) \in Nat
         /\ \A i \in 1..Len(v) : i # k => u[i] = v[i]
         /\ u[k].node = v[k].node /\ u[k].follow = v[k].follow /\ u[k].best = b
<1> DEFINE u == [v EXCEPT ![k].best = b]
<1>1. PICK w \in VisitType : w = v[k]
  OBVIOUS
<1>2. [w EXCEPT !.best = b] \in VisitType
  BY DEF VisitType
<1>3. /\ u = [v EXCEPT ![k] = [w EXCEPT !.best = b]]
  BY <1>1
<1>4. PICK x \in VisitType : x = [w EXCEPT !.best = b]
  BY <1>2
<1>5. x.node = w.node /\ x.follow = w.follow /\ x.best = b
  BY <1>4 DEF VisitType
<1>6. u = [v EXCEPT ![k] = x]
  BY <1>3, <1>4
<1> HIDE DEF u
<1>7. u \in Seq(VisitType) /\ Len(u) = Len(v) /\ Len(v) \in Nat
      /\ u[k] = x /\ \A i \in 1..Len(v) : i # k => u[i] = v[i]
  BY <1>6
<1> QED BY <1>1, <1>5, <1>7 DEF u

LEMMA VisitAppended ==
  ASSUME PartsTypes, NEW v \in Seq(VisitType), NEW n \in Nodes
  PROVE  LET u == Append(v, Visit(n)) IN
         /\ u \in Seq(VisitType) /\ Len(u) = Len(v) + 1 /\ Len(v) \in Nat
         /\ \A i \in 1..Len(v) : u[i] = v[i]
         /\ u[Len(v) + 1].node = n /\ u[Len(v) + 1].follow = CallsOf(n)
         /\ u[Len(v) + 1].best = <<n>>
<1>1. CallsOf(n) \in SUBSET Edges /\ <<n>> \in Seq(Nodes)
  BY DEF CallsOf, PartsTypes
<1>2. Visit(n) \in VisitType
  BY <1>1 DEF Visit, VisitType
<1>3. PICK x \in VisitType : x = Visit(n)
  BY <1>2
<1>4. x.node = n /\ x.follow = CallsOf(n) /\ x.best = <<n>>
  BY <1>3 DEF Visit
<1>5. /\ Append(v, x) \in Seq(VisitType) /\ Len(Append(v, x)) = Len(v) + 1 /\ Len(v) \in Nat
      /\ \A i \in 1..Len(v) : Append(v, x)[i] = v[i]
      /\ Append(v, x)[Len(v) + 1] = x
  OBVIOUS
<1> QED BY <1>3, <1>4, <1>5

LEMMA VisitLeft ==
  ASSUME NEW v \in Seq(VisitType), v # <<>>
  PROVE  /\ Front(v) \in Seq(VisitType) /\ Len(v) \in Nat \ {0}
         /\ Len(Front(v)) = Len(v) - 1 /\ Len(v) - 1 \in Nat
         /\ \A i \in 1..Len(v) - 1 : Front(v)[i] = v[i]
<1>1. Len(v) \in Nat \ {0} /\ \A i \in 1..Len(v) : v[i] \in VisitType
  OBVIOUS
<1>2. Front(v) = [i \in 1..Len(v) - 1 |-> v[i]] /\ Len(v) - 1 \in Nat
  BY <1>1 DEF Front
<1>3. \A i \in 1..Len(v) - 1 : v[i] \in VisitType
  BY <1>1
<1> QED BY <1>1, <1>2, <1>3

LEMMA VisitParts ==
  ASSUME NEW v \in Seq(VisitType), NEW i \in 1..Len(v)
  PROVE  /\ v[i] \in VisitType /\ v[i].node \in Nodes /\ v[i].best \in Seq(Nodes)
         /\ v[i].follow \in SUBSET Edges
<1>1. PICK w \in VisitType : w = v[i]
  OBVIOUS
<1>2. w.node \in Nodes /\ w.best \in Seq(Nodes) /\ w.follow \in SUBSET Edges
  BY DEF VisitType
<1> QED BY <1>1, <1>2

-----------------------------------------------------------------------------
\* What there is while a chain is looked for.
LEMMA InChains ==
  ASSUME PartsTypes, ChainInv, phase = "statistics"
  PROVE  /\ visits \in Seq(VisitType) /\ chains \in [Nodes -> Seq(Nodes) \cup {None}]
         /\ RememberedChains /\ VisitsArePath /\ \A i \in 1..Len(visits) : BestAt(i)
         /\ query.op = "statistics"
         /\ \A e \in Calls : e \in edges /\ e \in Edges /\ e.from \in Nodes /\ e.to \in Nodes
<1>1. \A e \in Calls : e \in edges /\ e \in Edges /\ e.from \in Nodes /\ e.to \in Nodes
  BY DEF Calls, PartsTypes, Edges
<1> QED BY <1>1 DEF ChainInv, ChainsFound, ChainTypes, PartsTypes

\* A step of the search keeps the invariant if it keeps the search's.
LEMMA WithinChains ==
  ASSUME PartsTypes, ChainInv, phase = "statistics", phase' = phase,
         UNCHANGED <<edges, query, memo>>,
         visits' \in Seq(VisitType), chains' \in [Nodes -> Seq(Nodes) \cup {None}],
         RememberedChains', VisitsArePath', \A i \in 1..Len(visits') : BestAt(i)'
  PROVE  ChainInv'
<1>1. ChainTypes' /\ ChainsFound' /\ ChainsAnswered'
  BY DEF ChainTypes, ChainsFound, ChainsAnswered, VisitType, Edges
<1> QED BY <1>1, ChainMemoStays DEF ChainInv

\* While nothing new is remembered, what is remembered stays as good.
LEMMA ChainsStay ==
  ASSUME UNCHANGED <<edges, chains>>, RememberedChains
  PROVE  RememberedChains' /\ Remembered' = Remembered
<1>1. Remembered' = Remembered
  BY DEF Remembered
<1> QED BY <1>1, ChainsFixed DEF RememberedChains

\* A visit whose record stays is as good as it was while more is remembered, if the
\* visit around which it is stays, or if its call has come back.
LEMMA BestStays ==
  ASSUME UNCHANGED edges, Remembered \subseteq Remembered',
         NEW i \in 1..Len(visits), i \in 1..Len(visits'), BestAt(i), visits'[i] = visits[i],
         i < Len(visits) => i < Len(visits') /\ visits'[i + 1].node = visits[i + 1].node
  PROVE  BestAt(i)'
<1> DEFINE v == visits[i]
<1>1. ChainOver(v.node, v.best, Remembered) => ChainOver(v.node, v.best, Remembered')
  BY DEF ChainOver
<1>2. ChainOver(visits'[i].node, visits'[i].best, Remembered')
  BY <1>1 DEF BestAt
<1>3. ChainOver(visits[i].node, visits[i].best, Remembered)'
  BY <1>2, ChainsFixed
<1>4. /\ Acyclic(Calls)' <=> Acyclic(Calls)
      /\ CallsOf(visits[i].node)' = CallsOf(visits[i].node)
      /\ \A m : UnbeatenOver(visits[i].node, m, visits[i].best)'
                  <=> UnbeatenOver(visits[i].node, m, visits[i].best)
  BY ChainsFixed DEF CallsOf, UnbeatenOver, ChainFrom, IsChain, Calls
<1> QED BY <1>3, <1>4 DEF BestAt

-----------------------------------------------------------------------------
LEMMA FreshVisit ==
  ASSUME PartsTypes, NEW n \in Nodes, NEW S, NEW b, b = <<n>>
  PROVE  ChainOver(n, b, S)
<1>1. b \in Seq(Nodes) /\ Len(b) = 1 /\ b[1] = n
  OBVIOUS
<1>2. 1..Len(b) - 1 = {} /\ 2..Len(b) - 1 = {} /\ Len(b) \in Nat \ {0}
  BY <1>1
<1>3. IsChain(b)
  BY <1>2 DEF IsChain
<1> QED BY <1>1, <1>2, <1>3 DEF ChainOver, ChainFrom

LEMMA StartChainKeeps ==
  ASSUME PartsTypes, ChainInv, StartChain, UNCHANGED <<edges, query, memo>>
  PROVE  ChainInv'
<1>0. /\ phase = "statistics" /\ phase' = phase /\ visits = <<>>
      /\ visits' = <<Visit(First(Nodes \ Remembered))>>
      /\ UNCHANGED <<answer, chains>> /\ Remembered # Nodes
  BY DEF StartChain
<1>2. /\ RememberedChains /\ chains \in [Nodes -> Seq(Nodes) \cup {None}]
      /\ visits \in Seq(VisitType)
  BY <1>0, InChains
<1>3. PICK n \in Nodes \ Remembered : n = First(Nodes \ Remembered)
  <2>1. \E m \in Nodes \ Remembered : IsFirst(m, Nodes \ Remembered)
    BY <1>0, LeastOfAny DEF Remembered
  <2> QED BY <2>1 DEF First, IsFirst
<1>1. /\ phase = "statistics" /\ phase' = phase /\ visits = <<>> /\ visits' = <<Visit(n)>>
      /\ UNCHANGED <<answer, chains>> /\ Remembered # Nodes
  BY <1>0, <1>3
<1>4. RememberedChains' /\ Remembered' = Remembered
  BY <1>1, <1>2, ChainsStay
<1>5. /\ visits' \in Seq(VisitType) /\ Len(visits') = 1
      /\ visits'[1].node = n /\ visits'[1].follow = CallsOf(n) /\ visits'[1].best = <<n>>
  <2>1. PICK v \in Seq(VisitType) : v = <<>> /\ Len(v) = 0
    BY <1>1, <1>2
  <2>2. visits' = Append(v, Visit(n))
    BY <1>1, <2>1
  <2>3. LET u == Append(v, Visit(n)) IN
          /\ u \in Seq(VisitType) /\ Len(u) = Len(v) + 1
          /\ u[Len(v) + 1].node = n /\ u[Len(v) + 1].follow = CallsOf(n)
          /\ u[Len(v) + 1].best = <<n>>
    BY <1>3, VisitAppended
  <2> QED BY <2>1, <2>2, <2>3
<1>6. \A i \in 1..Len(visits') : i = 1
  BY <1>5
<1>7. CallsOf(n)' = CallsOf(n)
  BY DEF CallsOf
<1>8. VisitsArePath'
  <2>1. 1..Len(visits') - 1 = {}
    BY <1>5
  <2>2. \A i, j \in 1..Len(visits') : i = j
    BY <1>6
  <2>3. CallsOf(visits[1].node)' = CallsOf(n)
    BY <1>5 DEF CallsOf
  <2>4. \A i \in 1..Len(visits') : /\ visits'[i].node \in Nodes \ Remembered'
                                   /\ visits'[i].follow \subseteq CallsOf(visits[i].node)'
    BY <1>3, <1>4, <1>5, <1>6, <2>3
  <2> QED BY <2>1, <2>2, <2>4 DEF VisitsArePath
<1>9. ASSUME NEW i \in 1..Len(visits') PROVE BestAt(i)'
  <2>1. i = 1
    BY <1>6
  <2>2. ChainOver(visits'[1].node, visits'[1].best, Remembered')
    BY <1>3, <1>5, FreshVisit
  <2>3. ChainOver(visits[1].node, visits[1].best, Remembered)'
    BY <2>2, ChainsFixed
  <2>4. CallsOf(visits[1].node)' \ visits'[1].follow = {}
    BY <1>5 DEF CallsOf
  <2> QED BY <2>1, <2>3, <2>4 DEF BestAt
<1> QED BY <1>1, <1>2, <1>4, <1>5, <1>8, <1>9, WithinChains

\* If calls have no cycle, no call leads to a node being visited.
LEMMA NoCallBack ==
  ASSUME PartsTypes, ChainInv, phase = "statistics", visits # <<>>,
         NEW e \in Calls, e.from = visits[Len(visits)].node, e.to \in BeingVisited
  PROVE  ~Acyclic(Calls)
<1>1. visits \in Seq(VisitType) /\ VisitsArePath
  BY InChains
<1>2. Len(visits) \in Nat \ {0} /\ DOMAIN visits = 1..Len(visits)
      /\ \A i \in 1..Len(visits) : visits[i].node \in Nodes
  BY <1>1 DEF VisitsArePath
<1> DEFINE s == [i \in 1..Len(visits) |-> visits[i].node]
<1>3. s \in Seq(Nodes) /\ Len(s) = Len(visits) /\ \A i \in 1..Len(visits) : s[i] = visits[i].node
  BY <1>2
<1> HIDE DEF s
<1>4. s # <<>> /\ Distinct(s)
  BY <1>1, <1>2, <1>3 DEF VisitsArePath, Distinct
<1>5. \A i \in 1..Len(s) - 1 : \E d \in Calls : d.from = s[i] /\ d.to = s[i + 1]
  <2> TAKE i \in 1..Len(s) - 1
  <2>1. i \in 1..Len(visits) - 1 /\ i \in 1..Len(visits) /\ i + 1 \in 1..Len(visits)
    BY <1>2, <1>3
  <2> QED BY <1>1, <1>3, <2>1 DEF VisitsArePath
<1>6. PICK k \in 1..Len(s) : e.to = s[k]
  BY <1>2, <1>3 DEF BeingVisited
<1>7. e.from = s[Len(s)]
  BY <1>2, <1>3
<1>8. IsCycle(Calls, SubSeq(s, k, Len(s)))
  BY <1>3, <1>4, <1>5, <1>6, <1>7, CycleIsFound
<1> QED BY <1>8, CycleRefutes

\* A call that ends a chain, or is continued by one remembered.
LEMMA TakeChain ==
  ASSUME PartsTypes, ChainInv, phase = "statistics", phase' = phase,
         UNCHANGED <<edges, query, memo, chains>>, visits # <<>>,
         NEW e \in Calls, e.from = visits[Len(visits)].node,
         NEW c, ChainOver(e.to, c, Remembered), Len(c) > 1 => e.to \in Remembered,
         Acyclic(Calls) => Unbeaten(e.to, c),
         visits' \in Seq(VisitType), Len(visits') = Len(visits),
         \A i \in 1..Len(visits) - 1 : visits'[i] = visits[i],
         LET v == visits[Len(visits)]
             w == visits'[Len(visits)]
         IN  /\ w.node = v.node /\ w.follow = v.follow \ {e}
             /\ w.best = Better(v.best, <<v.node>> \o c)
  PROVE  ChainInv'
<1>1. /\ visits \in Seq(VisitType) /\ RememberedChains /\ VisitsArePath
      /\ \A i \in 1..Len(visits) : BestAt(i)
      /\ chains \in [Nodes -> Seq(Nodes) \cup {None}]
  BY InChains
<1>2. PICK top \in Nat \ {0} :
        /\ top = Len(visits) /\ top \in 1..Len(visits) /\ top \in 1..Len(visits')
        /\ \A i \in 1..Len(visits) : i # top => i \in 1..Len(visits) - 1
  BY <1>1
<1>0. PICK v, w, d : v = visits[top] /\ w = visits'[top] /\ d = <<v.node>> \o c
  OBVIOUS
<1>3. RememberedChains' /\ Remembered' = Remembered
  BY <1>1, ChainsStay
<1>4. /\ w.node = v.node /\ w.follow = v.follow \ {e} /\ w.best = Better(v.best, d)
      /\ e.from = v.node
  BY <1>0, <1>2
<1>5. v.node \in Nodes /\ v.node \notin Remembered /\ v.follow \subseteq CallsOf(v.node)
  BY <1>0, <1>1, <1>2 DEF VisitsArePath
<1>6. ChainOver(v.node, d, Remembered)
  BY <1>0, <1>4, <1>5, CallBeforeOver
<1>7. c \in Seq(Nodes)
  BY DEF ChainOver, ChainFrom
<1>8. /\ ChainOver(v.node, v.best, Remembered)
      /\ Acyclic(Calls) => \A f \in CallsOf(v.node) \ v.follow : UnbeatenOver(v.node, f.to, v.best)
  BY <1>0, <1>1, <1>2 DEF BestAt
<1>9. Acyclic(Calls) => UnbeatenOver(v.node, e.to, d)
  BY <1>0, <1>5, <1>7, UnbeatenBehind
<1>10. /\ ChainOver(v.node, w.best, Remembered)
       /\ \A m : UnbeatenOver(v.node, m, v.best) \/ UnbeatenOver(v.node, m, d) =>
            UnbeatenOver(v.node, m, w.best)
  BY <1>4, <1>5, <1>6, <1>8, BetterKeeps
<1>11. Acyclic(Calls) =>
         \A f \in CallsOf(w.node) \ w.follow : UnbeatenOver(w.node, f.to, w.best)
  BY <1>4, <1>8, <1>9, <1>10
<1>12. BestAt(top)'
  <2>1. ChainOver(w.node, w.best, Remembered')
    BY <1>3, <1>4, <1>10
  <2>2. ChainOver(visits[top].node, visits[top].best, Remembered)'
    BY <1>0, <2>1, ChainsFixed
  <2>3. /\ Acyclic(Calls)' <=> Acyclic(Calls)
        /\ CallsOf(visits[top].node)' = CallsOf(w.node)
        /\ \A m : UnbeatenOver(visits[top].node, m, visits[top].best)'
                    <=> UnbeatenOver(w.node, m, w.best)
    BY <1>0, ChainsFixed DEF CallsOf, UnbeatenOver, ChainFrom, IsChain, Calls
  <2> QED
    BY <1>0, <1>11, <2>2, <2>3 DEF BestAt
<1>13. ASSUME NEW i \in 1..Len(visits'), i # top PROVE BestAt(i)'
  <2>1. i \in 1..Len(visits) /\ i \in 1..Len(visits) - 1 /\ i + 1 \in 1..Len(visits)
        /\ (i + 1 # top => i + 1 \in 1..Len(visits) - 1)
    BY <1>2, <1>13
  <2>2. visits'[i] = visits[i] /\ visits'[i + 1].node = visits[i + 1].node
    BY <1>0, <1>2, <1>4, <2>1
  <2> QED BY <1>1, <1>3, <2>1, <2>2, BestStays
<1>14. VisitsArePath'
  <2>1. \A i \in 1..Len(visits) : visits'[i].node = visits[i].node
                                  /\ visits'[i].follow \subseteq visits[i].follow
    BY <1>0, <1>2, <1>4
  <2>2. \A i \in 1..Len(visits') : CallsOf(visits[i].node)' = CallsOf(visits[i].node)
    BY <2>1, ChainsFixed DEF CallsOf
  <2>3. \A i \in 1..Len(visits') : /\ visits'[i].node \in Nodes \ Remembered'
                                   /\ visits'[i].follow \subseteq CallsOf(visits[i].node)'
    <3> TAKE i \in 1..Len(visits')
    <3>1. /\ visits[i].node \in Nodes \ Remembered
          /\ visits[i].follow \subseteq CallsOf(visits[i].node)
      BY <1>1 DEF VisitsArePath
    <3> QED BY <1>3, <2>1, <2>2, <3>1
  <2>4. \A i, j \in 1..Len(visits') : visits'[i].node = visits'[j].node => i = j
    BY <1>1, <2>1 DEF VisitsArePath
  <2>5. ASSUME NEW i \in 1..Len(visits') - 1
        PROVE  \E f \in Calls' : f.from = visits'[i].node /\ f.to = visits'[i + 1].node
    <3>1. i \in 1..Len(visits) - 1 /\ i \in 1..Len(visits) /\ i + 1 \in 1..Len(visits)
      BY <1>2
    <3> QED BY <1>1, <2>1, <3>1, ChainsFixed DEF VisitsArePath
  <2> QED BY <2>3, <2>4, <2>5 DEF VisitsArePath
<1>15. \A i \in 1..Len(visits') : BestAt(i)'
  BY <1>12, <1>13
<1>16. chains' \in [Nodes -> Seq(Nodes) \cup {None}]
  BY <1>1
<1> QED BY <1>3, <1>14, <1>15, <1>16, WithinChains

LEMMA FollowCallKeeps ==
  ASSUME PartsTypes, ChainInv, NEW e \in edges, FollowCall(e), UNCHANGED <<edges, query, memo>>
  PROVE  ChainInv'
<1>0. /\ phase = "statistics" /\ phase' = phase /\ visits # <<>> /\ e \in Current.follow
      /\ UNCHANGED chains
  BY DEF FollowCall
<1>1. /\ visits \in Seq(VisitType) /\ RememberedChains /\ VisitsArePath
      /\ \A i \in 1..Len(visits) : BestAt(i)
      /\ chains \in [Nodes -> Seq(Nodes) \cup {None}]
      /\ \A f \in Calls : f \in edges /\ f \in Edges /\ f.from \in Nodes /\ f.to \in Nodes
  BY <1>0, InChains
<1>2. PICK top \in Nat \ {0} :
        /\ top = Len(visits) /\ top \in 1..Len(visits) /\ DOMAIN visits = 1..Len(visits)
        /\ \A i \in 1..Len(visits) : i # top => i \in 1..Len(visits) - 1
  BY <1>0, <1>1
<1>3. PICK v \in VisitType : v = visits[top] /\ v = Current
  BY <1>1, <1>2 DEF Current, Last
<1>4. /\ v.node \in Nodes /\ v.node \notin Remembered /\ v.follow \in SUBSET Edges
      /\ v.follow \subseteq CallsOf(v.node) /\ v.best \in Seq(Nodes) /\ e \in v.follow
  BY <1>0, <1>1, <1>2, <1>3, VisitParts DEF VisitsArePath
<1>5. e \in Calls /\ e.from = v.node /\ e.to \in Nodes
  BY <1>1, <1>4 DEF CallsOf, Calls
<1>6. PICK F \in SUBSET Edges : F = v.follow \ {e}
  BY <1>4
<1>7. PICK left : left = [visits EXCEPT ![top].follow = @ \ {e}]
  OBVIOUS
<1>8. /\ left \in Seq(VisitType) /\ Len(left) = top
      /\ \A i \in 1..top : i # top => left[i] = visits[i]
      /\ left[top].node = v.node /\ left[top].best = v.best /\ left[top].follow = F
  <2>1. /\ left \in Seq(VisitType) /\ Len(left) = Len(visits)
        /\ \A i \in 1..Len(visits) : i # top => left[i] = visits[i]
        /\ left[top].node = visits[top].node /\ left[top].best = visits[top].best
        /\ left[top].follow = visits[top].follow \ {e}
    <3>1. PICK x \in VisitType :
            /\ x = [v EXCEPT !.follow = @ \ {e}]
            /\ x.node = v.node /\ x.best = v.best /\ x.follow = v.follow \ {e}
      BY FollowSet
    <3>2. left = [visits EXCEPT ![top] = x]
      BY <1>3, <1>7, <3>1
    <3>3. /\ left \in Seq(VisitType) /\ Len(left) = Len(visits)
          /\ left[top] = x /\ \A i \in 1..Len(visits) : i # top => left[i] = visits[i]
      BY <1>1, <1>2, <3>2, PlaceSet
    <3> QED BY <1>3, <3>1, <3>3
  <2> QED BY <1>2, <1>3, <1>6, <2>1
<1>9. ASSUME NEW c \in Seq(Nodes),
             visits' = [left EXCEPT ![top].best = Better(@, <<v.node>> \o c)],
             ChainOver(e.to, c, Remembered), Len(c) > 1 => e.to \in Remembered,
             Acyclic(Calls) => Unbeaten(e.to, c)
      PROVE  ChainInv'
  <2>1. PICK b \in Seq(Nodes) : b = Better(v.best, <<v.node>> \o c)
    <3>1. <<v.node>> \o c \in Seq(Nodes)
      BY <1>4, PutBefore
    <3> QED BY <1>4, <3>1 DEF Better
  <2>2. visits' = [left EXCEPT ![top].best = b]
    BY <1>2, <1>8, <1>9, <2>1
  <2>3. /\ visits' \in Seq(VisitType) /\ Len(visits') = top
        /\ \A i \in 1..top : i # top => visits'[i] = left[i]
        /\ visits'[top].node = v.node /\ visits'[top].follow = F /\ visits'[top].best = b
    BY <1>2, <1>8, <2>2, BestSet
  <2>4. \A i \in 1..Len(visits) - 1 : visits'[i] = visits[i]
    <3> TAKE i \in 1..Len(visits) - 1
    <3>1. i \in 1..top /\ i # top
      BY <1>2
    <3> QED BY <1>8, <2>3, <3>1
  <2>5. LET x == visits[Len(visits)]
            y == visits'[Len(visits)]
        IN  /\ y.node = x.node /\ y.follow = x.follow \ {e}
            /\ y.best = Better(x.best, <<x.node>> \o c)
    BY <1>2, <1>3, <1>6, <2>1, <2>3
  <2>6. e.from = visits[Len(visits)].node /\ Len(visits') = Len(visits)
    BY <1>2, <1>3, <1>5, <2>3
  <2> QED BY <1>0, <1>5, <1>9, <2>3, <2>4, <2>5, <2>6, TakeChain
<1>10. /\ e.to \in BeingVisited =>
            visits' = [left EXCEPT ![top].best = Better(@, <<v.node>> \o <<e.to>>)]
       /\ e.to \notin BeingVisited /\ e.to \in Remembered =>
            visits' = [left EXCEPT ![top].best = Better(@, <<v.node>> \o chains[e.to])]
       /\ e.to \notin BeingVisited /\ e.to \notin Remembered =>
            visits' = Append(left, Visit(e.to))
  <2>1. left = [visits EXCEPT ![Len(visits)].follow = @ \ {e}]
    BY <1>2, <1>7
  <2>2. Current.node = v.node
    BY <1>3
  <2>3. visits' = IF e.to \in BeingVisited
                  THEN [left EXCEPT ![top].best = Better(@, <<Current.node>> \o <<e.to>>)]
                  ELSE IF e.to \in Remembered
                  THEN [left EXCEPT ![top].best = Better(@, <<Current.node>> \o chains[e.to])]
                  ELSE Append(left, Visit(e.to))
    BY <1>2, <2>1 DEF FollowCall
  <2> QED BY <2>2, <2>3
<1>11. CASE e.to \in BeingVisited
  <2>0. PICK n \in Nodes : n = e.to
    BY <1>5
  <2>1. PICK c \in Seq(Nodes) : c = <<n>> /\ Len(c) = 1
    <3>1. <<n>> \in Seq(Nodes) /\ Len(<<n>>) = 1
      OBVIOUS
    <3> QED BY <3>1
  <2>2. ChainOver(e.to, c, Remembered)
    BY <2>0, <2>1, FreshVisit
  <2>3. ~Acyclic(Calls)
    BY <1>0, <1>2, <1>3, <1>5, <1>11, NoCallBack
  <2>4. ~(Len(c) > 1)
    BY <2>1
  <2>5. visits' = [left EXCEPT ![top].best = Better(@, <<v.node>> \o c)]
    BY <1>10, <1>11, <2>0, <2>1
  <2> QED BY <1>9, <2>2, <2>3, <2>4, <2>5
<1>12. CASE e.to \notin BeingVisited /\ e.to \in Remembered
  <2>1. PICK c : c = chains[e.to]
    OBVIOUS
  <2>2. ChainOver(e.to, c, Remembered) /\ (Acyclic(Calls) => Unbeaten(e.to, c))
    BY <1>1, <1>12, <2>1 DEF RememberedChains
  <2>3. c \in Seq(Nodes)
    BY <2>2 DEF ChainOver, ChainFrom
  <2>4. visits' = [left EXCEPT ![top].best = Better(@, <<v.node>> \o c)]
    BY <1>10, <1>12, <2>1
  <2> QED BY <1>9, <1>12, <2>2, <2>3, <2>4
<1>13. CASE e.to \notin BeingVisited /\ e.to \notin Remembered
  <2>1. PICK n \in Nodes : n = e.to /\ n \notin Remembered
    BY <1>5, <1>13
  <2>2. /\ visits' \in Seq(VisitType) /\ Len(visits') = top + 1
        /\ \A i \in 1..top : visits'[i] = left[i]
        /\ visits'[top + 1].node = n /\ visits'[top + 1].follow = CallsOf(n)
        /\ visits'[top + 1].best = <<n>>
    <3>1. LET u == Append(left, Visit(n)) IN
          /\ u \in Seq(VisitType) /\ Len(u) = Len(left) + 1 /\ Len(left) \in Nat
          /\ \A i \in 1..Len(left) : u[i] = left[i]
          /\ u[Len(left) + 1].node = n /\ u[Len(left) + 1].follow = CallsOf(n)
          /\ u[Len(left) + 1].best = <<n>>
      BY <1>8, VisitAppended
    <3>2. visits' = Append(left, Visit(n))
      BY <1>10, <1>13, <2>1
    <3> QED BY <1>8, <3>1, <3>2
  <2>3. RememberedChains' /\ Remembered' = Remembered
    BY <1>0, <1>1, ChainsStay
  <2>4. /\ \A i \in 1..top : visits'[i].node = visits[i].node
                             /\ visits'[i].follow \subseteq visits[i].follow
        /\ \A i \in 1..top - 1 : visits'[i] = visits[i]
    <3>1. /\ visits'[top].node = visits[top].node
          /\ visits'[top].follow \subseteq visits[top].follow
      BY <1>2, <1>3, <1>6, <1>8, <2>2
    <3>2. ASSUME NEW i \in 1..top, i # top PROVE visits'[i] = visits[i]
      BY <1>2, <1>8, <2>2, <3>2
    <3>3. \A i \in 1..top - 1 : i \in 1..top /\ i # top
      BY <1>2
    <3> QED BY <3>1, <3>2, <3>3
  <2>5. \A i \in 1..top : visits[i].node # n
    BY <1>2, <1>13, <2>1 DEF BeingVisited
  <2>6. VisitsArePath'
    <3>1. \A i \in 1..Len(visits') : i \in 1..top \/ i = top + 1
      BY <1>2, <2>2
    <3>2. ASSUME NEW i \in 1..Len(visits')
          PROVE  /\ visits'[i].node \in Nodes \ Remembered'
                 /\ visits'[i].follow \subseteq CallsOf(visits[i].node)'
      <4>1. CallsOf(visits[i].node)' = CallsOf(visits'[i].node)
        BY DEF CallsOf
      <4>2. CASE i \in 1..top
        <5>1. visits[i].node \in Nodes \ Remembered
              /\ visits[i].follow \subseteq CallsOf(visits[i].node)
          BY <1>1, <1>2, <4>2 DEF VisitsArePath
        <5> QED BY <2>3, <2>4, <4>1, <4>2, <5>1
      <4>3. CASE i = top + 1
        BY <2>1, <2>2, <2>3, <4>1, <4>3
      <4> QED BY <3>1, <4>2, <4>3
    <3>3. ASSUME NEW i \in 1..Len(visits'), NEW j \in 1..Len(visits'),
                 visits'[i].node = visits'[j].node
          PROVE  i = j
      <4>1. CASE i \in 1..top /\ j \in 1..top
        <5>1. visits[i].node = visits[j].node
          BY <2>4, <3>3, <4>1
        <5> QED BY <1>1, <1>2, <4>1, <5>1 DEF VisitsArePath
      <4>2. CASE i = top + 1 \/ j = top + 1
        BY <2>2, <2>4, <2>5, <3>1, <3>3, <4>2
      <4> QED BY <3>1, <4>1, <4>2
    <3>4. ASSUME NEW i \in 1..Len(visits') - 1
          PROVE  \E f \in Calls' : f.from = visits'[i].node /\ f.to = visits'[i + 1].node
      <4>1. i \in 1..top /\ (i # top => i \in 1..Len(visits) - 1 /\ i + 1 \in 1..top)
        BY <1>2, <2>2
      <4>2. CASE i = top
        BY <1>3, <1>5, <2>1, <2>2, <2>4, <4>1, <4>2, ChainsFixed
      <4>3. CASE i # top
        <5>1. PICK f \in Calls : f.from = visits[i].node /\ f.to = visits[i + 1].node
          BY <1>1, <4>1, <4>3 DEF VisitsArePath
        <5> QED BY <2>4, <4>1, <4>3, <5>1, ChainsFixed
      <4> QED BY <4>2, <4>3
    <3> QED BY <3>2, <3>3, <3>4 DEF VisitsArePath
  <2>7. ASSUME NEW i \in 1..Len(visits') PROVE BestAt(i)'
    <3>1. CASE i \in 1..top - 1
      <4>1. /\ i \in 1..Len(visits) /\ i + 1 \in 1..top /\ i < Len(visits')
            /\ i \in 1..Len(visits')
        BY <1>2, <2>2, <3>1
      <4>2. visits'[i] = visits[i] /\ visits'[i + 1].node = visits[i + 1].node
        BY <2>4, <3>1, <4>1
      <4> QED BY <1>1, <2>3, <4>1, <4>2, BestStays
    <3>2. CASE i = top
      <4>1. /\ ChainOver(v.node, v.best, Remembered)
            /\ Acyclic(Calls) =>
                 \A f \in CallsOf(v.node) \ v.follow : UnbeatenOver(v.node, f.to, v.best)
        <5>1. BestAt(top) /\ ~(top < Len(visits))
          BY <1>1, <1>2
        <5>2. /\ ChainOver(visits[top].node, visits[top].best, Remembered)
              /\ Acyclic(Calls) => \A f \in CallsOf(visits[top].node) \ visits[top].follow :
                   UnbeatenOver(visits[top].node, f.to, visits[top].best)
          BY <5>1 DEF BestAt
        <5> QED BY <1>3, <5>2
      <4>2. PICK w : w = visits'[top] /\ w.node = v.node /\ w.best = v.best /\ w.follow = F
        BY <1>2, <1>8, <2>2
      <4>3. ChainOver(visits[i].node, visits[i].best, Remembered)'
        BY <2>3, <3>2, <4>1, <4>2, ChainsFixed
      <4>4. Acyclic(Calls) => \A f \in CallsOf(w.node) \ w.follow :
              f.to = n \/ UnbeatenOver(w.node, f.to, w.best)
        BY <1>6, <2>1, <4>1, <4>2
      <4>5. /\ Acyclic(Calls)' <=> Acyclic(Calls)
            /\ CallsOf(visits[top].node)' = CallsOf(w.node)
            /\ \A m : UnbeatenOver(visits[top].node, m, visits[top].best)'
                        <=> UnbeatenOver(w.node, m, w.best)
        BY <4>2, ChainsFixed DEF CallsOf, UnbeatenOver, ChainFrom, IsChain, Calls
      <4>6. top < Len(visits') /\ visits'[top + 1].node = n
        BY <2>2
      <4> QED BY <3>2, <4>2, <4>3, <4>4, <4>5, <4>6 DEF BestAt
    <3>3. CASE i = top + 1
      <4>1. ChainOver(n, visits'[i].best, Remembered')
        BY <2>1, <2>2, <3>3, FreshVisit
      <4>2. ChainOver(visits[i].node, visits[i].best, Remembered)'
        BY <2>2, <3>3, <4>1, ChainsFixed
      <4>3. CallsOf(visits[i].node)' \ visits'[i].follow = {}
        <5>1. CallsOf(visits[i].node)' = CallsOf(n)
          BY <2>2, <3>3 DEF CallsOf
        <5> QED BY <2>2, <3>3, <5>1
      <4> QED BY <4>2, <4>3 DEF BestAt
    <3>4. i \in 1..top - 1 \/ i = top \/ i = top + 1
      BY <1>2, <2>2
    <3> QED BY <3>1, <3>2, <3>3, <3>4
  <2>8. chains' \in [Nodes -> Seq(Nodes) \cup {None}]
    BY <1>0, <1>1
  <2> QED BY <1>0, <2>2, <2>3, <2>6, <2>7, <2>8, WithinChains
<1> QED BY <1>11, <1>12, <1>13

LEMMA OverMore ==
  ASSUME NEW n, NEW c, NEW S, NEW R, ChainOver(n, c, S), S \subseteq R
  PROVE  ChainOver(n, c, R)
BY DEF ChainOver

\* A visit that ends leaves the best of all chains of its node, and gives it to the
\* visit around it.
LEMMA EndVisitKeeps ==
  ASSUME PartsTypes, ChainInv, EndVisit, UNCHANGED <<edges, query, memo>>
  PROVE  ChainInv'
<1>0. phase = "statistics" /\ phase' = phase /\ visits # <<>>
  BY DEF EndVisit
<1>1. /\ visits \in Seq(VisitType) /\ RememberedChains /\ VisitsArePath
      /\ \A i \in 1..Len(visits) : BestAt(i)
      /\ chains \in [Nodes -> Seq(Nodes) \cup {None}]
  BY <1>0, InChains
<1>2. PICK top \in Nat \ {0} :
        /\ top = Len(visits) /\ top \in 1..Len(visits)
        /\ \A i \in 1..Len(visits) : i # top => i \in 1..Len(visits) - 1
  BY <1>0, <1>1
<1>3. PICK v \in VisitType : v = visits[top] /\ v = Current
  BY <1>1, <1>2 DEF Current, Last
<1>4. /\ v.node \in Nodes /\ v.node \notin Remembered /\ v.best \in Seq(Nodes) /\ v.follow = {}
      /\ chains' = [chains EXCEPT ![v.node] = v.best]
  BY <1>0, <1>1, <1>2, <1>3, VisitParts DEF VisitsArePath, EndVisit
<1>5. /\ ChainOver(v.node, v.best, Remembered)
      /\ Acyclic(Calls) => \A f \in CallsOf(v.node) : UnbeatenOver(v.node, f.to, v.best)
  <2>1. BestAt(top) /\ ~(top < Len(visits))
    BY <1>1, <1>2
  <2>2. /\ ChainOver(visits[top].node, visits[top].best, Remembered)
        /\ Acyclic(Calls) => \A f \in CallsOf(visits[top].node) \ visits[top].follow :
             UnbeatenOver(visits[top].node, f.to, visits[top].best)
    BY <2>1 DEF BestAt
  <2> QED BY <1>3, <1>4, <2>2
<1>6. Acyclic(Calls) => Unbeaten(v.node, v.best)
  BY <1>4, <1>5, AllFollowed DEF ChainOver
<1>7. /\ chains' \in [Nodes -> Seq(Nodes) \cup {None}] /\ chains'[v.node] = v.best
      /\ \A n \in Nodes : n # v.node => chains'[n] = chains[n]
  BY <1>1, <1>4
<1>8. Remembered' = Remembered \cup {v.node}
  BY <1>4, <1>7, SentinelAssumption DEF Remembered
<1>9. RememberedChains'
  <2>1. ASSUME NEW n \in Remembered'
        PROVE  /\ ChainOver(n, chains'[n], Remembered')
               /\ Acyclic(Calls) => Unbeaten(n, chains'[n])
    <3>1. CASE n = v.node
      <4>1. ChainOver(v.node, v.best, Remembered')
        BY <1>5, <1>8, OverMore
      <4> QED BY <1>6, <1>7, <3>1, <4>1
    <3>2. CASE n # v.node
      <4>1. n \in Remembered /\ n \in Nodes /\ chains'[n] = chains[n]
        BY <1>7, <1>8, <3>2 DEF Remembered
      <4>2. ChainOver(n, chains[n], Remembered) /\ (Acyclic(Calls) => Unbeaten(n, chains[n]))
        BY <1>1, <4>1 DEF RememberedChains
      <4>3. ChainOver(n, chains[n], Remembered')
        BY <1>8, <4>2, OverMore
      <4> QED BY <4>1, <4>2, <4>3
    <3> QED BY <3>1, <3>2
  <2> QED BY <2>1, ChainsFixed DEF RememberedChains
<1>10. CASE top = 1
  <2>1. visits' = <<>>
    BY <1>2, <1>10 DEF EndVisit
  <2>2. visits' \in Seq(VisitType) /\ 1..Len(visits') = {} /\ 1..Len(visits') - 1 = {}
    BY <2>1
  <2>3. VisitsArePath' /\ \A i \in 1..Len(visits') : BestAt(i)'
    BY <2>2 DEF VisitsArePath
  <2> QED BY <1>0, <1>7, <1>9, <2>2, <2>3, WithinChains
<1>11. CASE top # 1
  <2>1. PICK out \in Nat \ {0} :
          /\ out = top - 1 /\ out \in 1..Len(visits) /\ out \in 1..Len(visits) - 1
          /\ out < Len(visits) /\ out + 1 = top
    <3>1. Len(visits) \in Nat /\ top = Len(visits) /\ top \in Nat \ {0} /\ top # 1
      BY <1>1, <1>2, <1>11
    <3>2. /\ top - 1 \in Nat \ {0} /\ top - 1 \in 1..Len(visits) /\ top - 1 \in 1..Len(visits) - 1
          /\ top - 1 < Len(visits) /\ (top - 1) + 1 = top
      BY <3>1
    <3> QED BY <3>2
  <2>2. PICK o \in VisitType : o = visits[out]
    BY <1>1, <2>1
  <2>3. /\ o.node \in Nodes /\ o.node \notin Remembered /\ o.best \in Seq(Nodes)
        /\ o.follow \subseteq CallsOf(o.node) /\ o.node # v.node
    <3>1. /\ visits[out].node \in Nodes \ Remembered /\ visits[out].best \in Seq(Nodes)
          /\ visits[out].follow \subseteq CallsOf(visits[out].node)
      BY <1>1, <2>1, VisitParts DEF VisitsArePath
    <3>2. out # top
      BY <2>1
    <3>3. visits[out].node # visits[top].node
      BY <1>1, <1>2, <2>1, <3>2 DEF VisitsArePath
    <3> QED BY <1>3, <2>2, <3>1, <3>3
  <2>4. PICK d \in Seq(Nodes) : d = <<o.node>> \o v.best
    BY <1>4, <2>3, PutBefore
  <2>5. PICK e \in Calls : e.from = o.node /\ e.to = v.node
    <3>1. \E e \in Calls : e.from = visits[out].node /\ e.to = visits[out + 1].node
      BY <1>1, <2>1 DEF VisitsArePath
    <3> QED BY <1>3, <2>1, <2>2, <3>1
  <2>6. ChainOver(o.node, d, Remembered')
    <3>1. ChainOver(e.to, v.best, Remembered')
      BY <1>5, <1>8, <2>5, OverMore
    <3>2. e.to \in Remembered' /\ o.node \notin Remembered'
      BY <1>8, <2>3, <2>5
    <3> QED BY <2>3, <2>4, <2>5, <3>1, <3>2, CallBeforeOver
  <2>7. /\ ChainOver(o.node, o.best, Remembered')
        /\ Acyclic(Calls) => \A f \in CallsOf(o.node) \ o.follow :
             f.to = v.node \/ UnbeatenOver(o.node, f.to, o.best)
    <3>1. BestAt(out)
      BY <1>1, <2>1
    <3>2. /\ ChainOver(visits[out].node, visits[out].best, Remembered)
          /\ Acyclic(Calls) => \A f \in CallsOf(visits[out].node) \ visits[out].follow :
               \/ f.to = visits[out + 1].node
               \/ UnbeatenOver(visits[out].node, f.to, visits[out].best)
      BY <3>1 DEF BestAt
    <3>3. ChainOver(o.node, o.best, Remembered')
      BY <1>8, <2>2, <3>2, OverMore
    <3> QED BY <1>3, <2>1, <2>2, <3>2, <3>3
  <2>8. Acyclic(Calls) => UnbeatenOver(o.node, v.node, d)
    BY <1>4, <1>6, <2>3, <2>4, UnbeatenBehind
  <2>9. PICK b \in Seq(Nodes) :
          /\ b = Better(o.best, d) /\ ChainOver(o.node, b, Remembered')
          /\ \A m : UnbeatenOver(o.node, m, o.best) \/ UnbeatenOver(o.node, m, d) =>
               UnbeatenOver(o.node, m, b)
    <3>1. /\ ChainOver(o.node, Better(o.best, d), Remembered') /\ Better(o.best, d) \in Seq(Nodes)
          /\ \A m : UnbeatenOver(o.node, m, o.best) \/ UnbeatenOver(o.node, m, d) =>
               UnbeatenOver(o.node, m, Better(o.best, d))
      BY <2>3, <2>6, <2>7, BetterKeeps
    <3> QED BY <3>1
  <2>10. PICK u \in Seq(VisitType) :
           /\ u = Front(visits) /\ Len(u) = out /\ \A i \in 1..out : u[i] = visits[i]
    BY <1>0, <1>1, <1>2, <2>1, VisitLeft
  <2>11. visits' = [u EXCEPT ![out].best = b]
    <3>1. visits' = [Front(visits) EXCEPT ![Len(visits) - 1].best =
                       Better(@, <<visits[Len(visits) - 1].node>> \o Current.best)]
      BY <1>2, <1>11 DEF EndVisit
    <3>2. visits' = [u EXCEPT ![out].best = Better(@, <<o.node>> \o v.best)]
      BY <1>2, <1>3, <2>1, <2>2, <2>10, <3>1
    <3>3. u[out].best = o.best
      BY <2>1, <2>2, <2>10
    <3> QED BY <2>4, <2>9, <3>2, <3>3
  <2>12. /\ visits' \in Seq(VisitType) /\ Len(visits') = out
         /\ \A i \in 1..out : i # out => visits'[i] = u[i]
         /\ visits'[out].node = u[out].node /\ visits'[out].follow = u[out].follow
         /\ visits'[out].best = b
    BY <2>1, <2>10, <2>11, BestSet
  <2>13. PICK w : /\ w = visits'[out] /\ w.node = o.node /\ w.follow = o.follow /\ w.best = b
    BY <2>1, <2>2, <2>10, <2>12
  <2>14. /\ \A i \in 1..out : visits'[i].node = visits[i].node
                              /\ visits'[i].follow = visits[i].follow
         /\ \A i \in 1..out - 1 : visits'[i] = visits[i]
    <3>1. visits'[out].node = visits[out].node /\ visits'[out].follow = visits[out].follow
      BY <2>2, <2>13
    <3>2. ASSUME NEW i \in 1..out, i # out PROVE visits'[i] = visits[i]
      BY <2>10, <2>12, <3>2
    <3>3. \A i \in 1..out - 1 : i \in 1..out /\ i # out
      BY <2>1
    <3> QED BY <3>1, <3>2, <3>3
  <2>15. VisitsArePath'
    <3>1. ASSUME NEW i \in 1..Len(visits')
          PROVE  /\ visits'[i].node \in Nodes \ Remembered'
                 /\ visits'[i].follow \subseteq CallsOf(visits[i].node)'
      <4>1. CallsOf(visits[i].node)' = CallsOf(visits'[i].node)
        BY DEF CallsOf
      <4>2. i \in 1..out /\ i \in 1..Len(visits) /\ i # top
        BY <1>2, <2>1, <2>12
      <4>3. visits[i].node \in Nodes \ Remembered /\ visits[i].node # v.node
            /\ visits[i].follow \subseteq CallsOf(visits[i].node)
        BY <1>1, <1>2, <1>3, <4>2 DEF VisitsArePath
      <4> QED BY <1>8, <2>14, <4>1, <4>2, <4>3
    <3>2. ASSUME NEW i \in 1..Len(visits'), NEW j \in 1..Len(visits'),
                 visits'[i].node = visits'[j].node
          PROVE  i = j
      <4>1. i \in 1..out /\ j \in 1..out /\ i \in 1..Len(visits) /\ j \in 1..Len(visits)
        BY <1>2, <2>1, <2>12
      <4>2. visits[i].node = visits[j].node
        BY <2>14, <3>2, <4>1
      <4> QED BY <1>1, <4>1, <4>2 DEF VisitsArePath
    <3>3. ASSUME NEW i \in 1..Len(visits') - 1
          PROVE  \E f \in Calls' : f.from = visits'[i].node /\ f.to = visits'[i + 1].node
      <4>1. i \in 1..out /\ i + 1 \in 1..out /\ i \in 1..Len(visits) - 1
        BY <1>2, <2>1, <2>12
      <4>2. PICK f \in Calls : f.from = visits[i].node /\ f.to = visits[i + 1].node
        BY <1>1, <4>1 DEF VisitsArePath
      <4> QED BY <2>14, <4>1, <4>2, ChainsFixed
    <3> QED BY <3>1, <3>2, <3>3 DEF VisitsArePath
  <2>16. ASSUME NEW i \in 1..Len(visits') PROVE BestAt(i)'
    <3>1. CASE i # out
      <4>1. /\ i \in 1..Len(visits) /\ i \in 1..out - 1 /\ i + 1 \in 1..out /\ i < Len(visits')
        <5>1. i \in 1..out
          BY <2>12
        <5>2. i \in 1..out - 1 /\ i + 1 \in 1..out /\ i < out
          BY <2>1, <3>1, <5>1
        <5> QED BY <1>2, <2>1, <2>12, <5>1, <5>2
      <4>2. visits'[i] = visits[i] /\ visits'[i + 1].node = visits[i + 1].node
        BY <2>14, <4>1
      <4>3. Remembered \subseteq Remembered'
        BY <1>8
      <4> QED BY <1>1, <4>1, <4>2, <4>3, BestStays
    <3>2. CASE i = out
      <4>1. ChainOver(w.node, w.best, Remembered')
        BY <2>9, <2>13
      <4>2. ChainOver(visits[i].node, visits[i].best, Remembered)'
        BY <2>13, <3>2, <4>1, ChainsFixed
      <4>3. Acyclic(Calls) => \A f \in CallsOf(w.node) \ w.follow :
              UnbeatenOver(w.node, f.to, w.best)
        BY <2>7, <2>8, <2>9, <2>13
      <4>4. /\ Acyclic(Calls)' <=> Acyclic(Calls)
            /\ CallsOf(visits[out].node)' = CallsOf(w.node)
            /\ \A m : UnbeatenOver(visits[out].node, m, visits[out].best)'
                        <=> UnbeatenOver(w.node, m, w.best)
        BY <2>13, ChainsFixed DEF CallsOf, UnbeatenOver, ChainFrom, IsChain, Calls
      <4> QED BY <2>13, <3>2, <4>2, <4>3, <4>4 DEF BestAt
    <3> QED BY <3>1, <3>2
  <2> QED BY <1>0, <1>7, <1>9, <2>12, <2>15, <2>16, WithinChains
<1> QED BY <1>10, <1>11

-----------------------------------------------------------------------------
LEMMA NoChainIsLegal ==
  ASSUME Nodes = {}
  PROVE  LegalChain(<<>>)
<1>0. <<>> \in Seq(Nodes) /\ Len(<<>>) = 0
  OBVIOUS
<1>1. PICK s \in Seq(Nodes) : s = <<>> /\ Len(s) = 0
  BY <1>0
<1>2. 1..Len(s) - 1 = {}
  BY <1>1
<1>3. IsChain(s)
  BY <1>2 DEF IsChain
<1>4. Distinct(Front(s))
  <2>1. Front(s) = <<>>
    BY <1>1 DEF Front
  <2>2. 1..Len(Front(s)) = {}
    BY <2>1
  <2> QED BY <2>2 DEF Distinct
<1>5. \A k \in 1..Cardinality(Nodes) : \A t \in [1..k -> Nodes] : FALSE
  <2> SUFFICES ASSUME NEW k \in 1..Cardinality(Nodes), NEW t \in [1..k -> Nodes] PROVE FALSE
    OBVIOUS
  <2>1. Cardinality(Nodes) \in Nat
    BY FS_CardinalityType, NodeAssumption
  <2>2. 1 \in 1..k
    BY <2>1
  <2>3. t[1] \in Nodes
    BY <2>2
  <2> QED BY <2>3
<1> QED BY <1>1, <1>3, <1>4, <1>5 DEF LegalChain

LEMMA LongestIsLegal ==
  ASSUME RememberedChains, Remembered = Nodes, NEW n \in Nodes,
         \A m \in Nodes : Len(chains[m]) <= Len(chains[n])
  PROVE  LegalChain(chains[n])
<1>1. \A m \in Nodes : /\ ChainOver(m, chains[m], Remembered) /\ chains[m] \in Seq(Nodes)
                       /\ Acyclic(Calls) => Unbeaten(m, chains[m])
  BY DEF RememberedChains, ChainOver, ChainFrom
<1>2. PICK c \in Seq(Nodes) : c = chains[n]
  BY <1>1
<1>3. ChainOver(n, c, Remembered) /\ Len(c) \in Nat \ {0} /\ IsChain(c)
  BY <1>1, <1>2 DEF ChainOver, ChainFrom
<1>4. Distinct(Front(c))
  <2>1. Front(c) = [i \in 1..Len(c) - 1 |-> c[i]] /\ Len(c) - 1 \in Nat
    BY <1>3 DEF Front
  <2>2. Len(Front(c)) = Len(c) - 1 /\ \A i \in 1..Len(c) - 1 : Front(c)[i] = c[i]
    BY <2>1
  <2> QED BY <1>3, <2>2 DEF Distinct, ChainOver
<1>5. c[1] = n /\ \A m \in Nodes : Len(chains[m]) <= Len(c)
  BY <1>2, <1>3 DEF ChainOver, ChainFrom
<1>6. ASSUME Acyclic(Calls), NEW k \in 1..Cardinality(Nodes), NEW s \in [1..k -> Nodes],
             IsChain(s)
      PROVE  Len(s) < Len(c) \/ (Len(s) = Len(c) /\ (s[1] = c[1] => ~Precedes(s, c)))
  <2>1. k \in Nat \ {0}
    BY FS_CardinalityType, NodeAssumption
  <2>2. s \in Seq(Nodes) /\ Len(s) = k /\ 1 \in 1..k
    BY <2>1
  <2>3. PICK m \in Nodes : m = s[1]
    BY <2>2
  <2>4. ChainFrom(m, s)
    BY <1>6, <2>1, <2>2, <2>3 DEF ChainFrom
  <2>5. ~Beats(s, chains[m]) /\ chains[m] \in Seq(Nodes)
    BY <1>1, <1>6, <2>2, <2>4 DEF Unbeaten
  <2>6. Len(s) <= Len(chains[m]) /\ Len(chains[m]) \in Nat /\ Len(chains[m]) <= Len(c)
    BY <1>5, <2>1, <2>2, <2>5 DEF Beats
  <2>7. ASSUME s[1] = c[1], Len(s) = Len(c) PROVE ~Precedes(s, c)
    <3>1. chains[m] = c
      BY <1>2, <1>5, <2>3, <2>7
    <3> QED BY <2>5, <2>7, <3>1 DEF Beats
  <2> QED BY <1>3, <2>1, <2>2, <2>6, <2>7
<1>7. LegalChain(c)
  BY <1>3, <1>4, <1>6 DEF LegalChain
<1> QED BY <1>2, <1>7

LEMMA EndChainKeeps ==
  ASSUME PartsTypes, ChainInv, EndChain, UNCHANGED <<edges, query, memo>>
  PROVE  ChainInv'
<1>0. /\ phase = "statistics" /\ phase' = "answered" /\ visits' = <<>> /\ Remembered = Nodes
      /\ chains' = [n \in Nodes |-> None]
  BY DEF EndChain, DropChain, Answered
<1>1. RememberedChains
  BY <1>0, InChains
<1>2. LegalChain(answer')
  <2>1. CASE Nodes = {} /\ Answered(<<>>)
    BY <2>1, NoChainIsLegal DEF Answered
  <2>2. ASSUME NEW n \in Nodes, \A m \in Nodes : Len(chains[m]) <= Len(chains[n]),
               Answered(chains[n])
        PROVE  LegalChain(answer')
    <3>1. LegalChain(chains[n])
      BY <1>0, <1>1, <2>2, LongestIsLegal
    <3> QED BY <2>2, <3>1 DEF Answered
  <2> QED BY <2>1, <2>2 DEF EndChain
<1>3. LegalChain(answer)'
  <2>1. PICK a : a = answer'
    OBVIOUS
  <2> QED BY <1>2, <2>1, ChainsFixed DEF LegalChain, Calls, Acyclic, IsChain
<1>4. ChainTypes' /\ ChainsFound' /\ ChainsAnswered'
  BY <1>0, <1>3 DEF ChainTypes, ChainsFound, ChainsAnswered, Remembered
<1> QED BY <1>4, ChainMemoStays DEF ChainInv

LEMMA ChainRemember ==
  ASSUME PartsTypes, ChainInv, Remember
  PROVE  ChainInv'
<1> USE DEF Remember
<1>0. ChainTypes /\ ChainsAnswered /\ ChainsRemembered /\ UNCHANGED <<edges, answer, chainVars>>
  BY DEF ChainInv
<1>1. ChainTypes' /\ ChainsFound'
  BY <1>0, OutOfChains
<1>2. LegalChain(answer)' <=> LegalChain(answer)
  BY <1>0, ChainsFixed DEF LegalChain, Calls, Acyclic, IsChain
<1>3. ChainsAnswered'
  BY <1>0, <1>2 DEF ChainsAnswered
<1>4. ASSUME NEW m \in memo', NEW q \in Queries, q.op = "statistics", m.key = Key(q)
      PROVE  LegalChain(m.answer)
  <2>1. CASE m \in memo
    BY <1>0, <1>4, <2>1 DEF ChainsRemembered
  <2>2. CASE m = [key |-> Key(query), answer |-> answer]
    <3>1. query.op = "statistics"
      BY <1>4, <2>2 DEF Key
    <3> QED BY <1>0, <2>2, <3>1 DEF ChainsAnswered
  <2> QED BY <2>1, <2>2
<1>5. ChainsRemembered'
  <2>1. ASSUME NEW m \in memo', NEW q \in Queries, q.op = "statistics", m.key = Key(q)
        PROVE  LegalChain(m.answer)'
    <3>1. PICK a : a = m.answer
      OBVIOUS
    <3>2. LegalChain(a)
      BY <1>4, <2>1, <3>1
    <3> QED BY <1>0, <3>1, <3>2, ChainsFixed
  <2> QED BY <2>1 DEF ChainsRemembered, Key, Listed
<1> QED BY <1>1, <1>3, <1>5 DEF ChainInv

LEMMA ChainOtherStep ==
  ASSUME PartsTypes, ChainInv, UNCHANGED <<edges, query, memo, chainVars>>,
         WalkStep \/ PathStep \/ ComponentStep \/ SortStep \/ CycleStep
  PROVE  ChainInv'
<1>1. phase # "statistics" /\ phase' # "statistics" /\ phase # "done"
      /\ (phase' = "answered" => query.op # "statistics") /\ phase' # "done"
  <2>1. CASE PathStep
    BY <2>1 DEF PartsTypes, PathStep, NotFound, StepBack, BackAtStart, Expand, Found, Answered
  <2>2. CASE WalkStep
    BY <2>2 DEF PartsTypes, WalkStep, EndWalk, SkipItem, VisitNode, Answered
  <2>3. CASE ComponentStep
    BY <2>3 DEF PartsTypes, ComponentStep, StartComponent, Gather, EndComponent, EndComponents,
                Answered
  <2>4. CASE SortStep
    BY <2>4 DEF PartsTypes, SortStep, EndSort, Emit, Answered
  <2>5. CASE CycleStep
    BY <2>5 DEF PartsTypes, CycleStep, VisitRoot, Enter, FollowEdge, LeaveNode, EndCycles, Answered
  <2> QED BY <2>1, <2>2, <2>3, <2>4, <2>5
<1>2. ChainTypes' /\ ChainsFound'
  BY <1>1, OutOfChains DEF ChainInv
<1>3. ChainsAnswered'
  BY <1>1 DEF ChainsAnswered
<1> QED BY <1>2, <1>3, ChainMemoStays DEF ChainInv

LEMMA ChainExecute ==
  ASSUME PartsTypes, ChainInv, NEW q \in Queries, Execute(q)
  PROVE  ChainInv'
<1>1. /\ UNCHANGED <<edges, memo, chainVars>> /\ query' = q /\ phase = "idle"
      /\ phase' # "done" /\ (phase' = "answered" => q.op # "statistics")
  <2>1. CASE BeginSort(q)
    BY <2>1 DEF Execute, BeginSort, BeginWalk, BeginPath, BeginComponents, BeginCycles, BeginChain,
                Answered
  <2>2. CASE BeginChain(q)
    BY <2>2 DEF Execute, BeginChain
  <2>3. CASE ~BeginSort(q) /\ ~BeginChain(q)
    BY <2>3 DEF Execute, BeginWalk, BeginPath, BeginComponents, BeginCycles, Answered
  <2> QED BY <2>1, <2>2, <2>3
<1>2. visits' = <<>> /\ Remembered' = {}
  BY <1>1 DEF ChainInv, ChainTypes, Remembered
<1>3. ChainTypes' /\ ChainsAnswered'
  BY <1>1, <1>2 DEF ChainInv, ChainTypes, ChainsAnswered
<1>4. RememberedChains' /\ VisitsArePath' /\ \A i \in 1..Len(visits') : BestAt(i)'
  <2>1. 1..Len(visits') = {} /\ 1..Len(visits') - 1 = {}
    BY <1>2
  <2> QED BY <1>2, <2>1 DEF RememberedChains, VisitsArePath
<1>5. ChainsFound'
  BY <1>4 DEF ChainsFound
<1> QED BY <1>1, <1>3, <1>5, ChainMemoStays DEF ChainInv

LEMMA ChainHit ==
  ASSUME PartsTypes, ChainInv, NEW q \in Queries, Hit(q)
  PROVE  ChainInv'
<1>1. /\ phase = "idle" /\ phase' = "done" /\ query' = q
      /\ UNCHANGED <<edges, memo, chainVars>>
  BY DEF Hit
<1>2. ChainTypes' /\ ChainsFound'
  BY <1>1, OutOfChains DEF ChainInv
<1>3. q.op = "statistics" => LegalChain(answer')
  BY DEF Hit, ChainInv, ChainsRemembered, Entries
<1>4. LegalChain(answer)' <=> LegalChain(answer')
  BY <1>1, ChainsFixed DEF LegalChain, Calls, Acyclic, IsChain
<1>5. ChainsAnswered'
  BY <1>1, <1>3, <1>4 DEF ChainsAnswered
<1> QED BY <1>1, <1>2, <1>5, ChainMemoStays DEF ChainInv

LEMMA ChainStepKeeps == PartsInv /\ ChainInv /\ [Next]_vars => ChainInv'
<1> SUFFICES ASSUME PartsInv, ChainInv, [Next]_vars PROVE ChainInv'
  OBVIOUS
<1>0. PartsTypes
  BY DEF PartsInv
<1>1. ASSUME NEW q \in Queries, Hit(q) PROVE ChainInv'
  BY <1>0, <1>1, ChainHit
<1>2. ASSUME NEW q \in Queries, Execute(q) PROVE ChainInv'
  BY <1>0, <1>2, ChainExecute
<1>3. CASE Step
  <2>1. CASE ChainStep
    BY <1>0, <1>3, <2>1, StartChainKeeps, FollowCallKeeps, EndVisitKeeps, EndChainKeeps
       DEF Step, ChainStep
  <2>2. CASE ~ChainStep
    BY <1>0, <1>3, <2>2, ChainOtherStep DEF Step
  <2> QED BY <2>1, <2>2
<1>4. CASE Remember
  BY <1>0, <1>4, ChainRemember
<1>5. CASE Return
  <2>1. /\ phase = "done" /\ phase' = "idle" /\ UNCHANGED <<edges, memo, chainVars>>
    BY <1>5 DEF Return
  <2>2. ChainTypes' /\ ChainsFound'
    BY <2>1, OutOfChains DEF ChainInv
  <2> QED BY <2>1, <2>2, ChainMemoStays DEF ChainInv, ChainsAnswered
<1>6. CASE Clear
  <2>1. /\ phase = "idle" /\ phase' = "idle" /\ memo' = {} /\ UNCHANGED <<edges, chainVars>>
    BY <1>6 DEF Clear
  <2>2. ChainTypes' /\ ChainsFound'
    BY <2>1, OutOfChains DEF ChainInv
  <2> QED BY <2>1, <2>2 DEF ChainInv, ChainsRemembered, ChainsAnswered
<1>7. CASE UNCHANGED vars
  <2>0. UNCHANGED <<edges, query, phase, answer, memo, visits, chains>>
    BY <1>7 DEF vars
  <2>1. ChainTypes'
    BY <2>0 DEF ChainInv, ChainTypes, Remembered, VisitType, Edges
  <2>2. ChainsAnswered'
    <3>1. LegalChain(answer)' <=> LegalChain(answer)
      BY <2>0, ChainsFixed DEF LegalChain, Calls, Acyclic, IsChain
    <3> QED BY <2>0, <3>1 DEF ChainInv, ChainsAnswered
  <2>3. ASSUME phase = "statistics" PROVE ChainInv'
    <3>1. /\ visits \in Seq(VisitType) /\ chains \in [Nodes -> Seq(Nodes) \cup {None}]
          /\ RememberedChains /\ VisitsArePath /\ \A i \in 1..Len(visits) : BestAt(i)
      BY <1>0, <2>3, InChains
    <3>2. RememberedChains' /\ Remembered' = Remembered
      BY <2>0, <3>1, ChainsStay
    <3>3. VisitsArePath'
      BY <2>0, <3>1, <3>2 DEF VisitsArePath, Calls, CallsOf
    <3>4. \A i \in 1..Len(visits') : BestAt(i)'
      BY <2>0, <3>1, <3>2, BestStays
    <3> QED BY <1>0, <2>0, <2>3, <3>1, <3>2, <3>3, <3>4, WithinChains
  <2>4. CASE phase # "statistics"
    <3>1. ChainsFound'
      BY <2>0, <2>4 DEF ChainsFound
    <3> QED BY <2>0, <2>1, <2>2, <3>1, ChainMemoStays DEF ChainInv
  <2> QED BY <2>3, <2>4
<1> QED
  BY <1>1, <1>2, <1>3, <1>4, <1>5, <1>6, <1>7 DEF Next

\* The longest call chain that the statistics report is a chain of calls over distinct
\* nodes (the last may be one of them again), and if calls have no cycle, the longest there
\* is and of those from its first node the first by code units, on every graph, computed
\* or answered by the cache.
THEOREM ChainsAreLongest == Spec => []ChainIsLongest
<1>1. PartsInv /\ [Next]_vars => PartsInv'
  BY PartsStepKeeps
<1>2. PartsInv /\ ChainInv /\ [Next]_vars => ChainInv'
  BY ChainStepKeeps
<1>3. ChainInv => ChainIsLongest
  BY DEF ChainInv, ChainsAnswered, ChainIsLongest, Answers, LegalChain
<1> QED BY <1>1, <1>2, <1>3, PartsInit, ChainInit, PTL DEF Spec
=============================================================================
