----------------------- MODULE QueryEngineProperties -----------------------
(***************************************************************************)
(* What is claimed of the answers of a query engine, whether an algorithm  *)
(* computed them or the cache gave them.                                   *)
(***************************************************************************)
EXTENDS QueryEngine

ASSUME NodeAssumption == Nodes \subseteq Nat /\ IsFiniteSet(Nodes)
ASSUME CodeUnitAssumption ==
  /\ CodeUnits \in [Nodes -> Nat]
  /\ \A m, n \in Nodes : CodeUnits[m] = CodeUnits[n] => m = n
ASSUME GraphAssumption == Graphs \subseteq SUBSET Edges /\ \A g \in Graphs : IsFiniteSet(g)

ASSUME QueryAssumption ==
  /\ Nodes \subseteq Ids
  /\ Queries \subseteq
       [op : {"walk", "path", "components", "topological", "cycles", "statistics"},
        start : Ids, target : Ids,
        direction : {"inbound", "outbound", "both"},
        strategy : {"breadth-first", "depth-first"},
        depth : Nat \cup {Infinity},
        relationships : {Undefined} \cup SUBSET Types,
        nodeTypes : {Undefined} \cup SUBSET Nodes,
        predicate : {Undefined} \cup SUBSET Nodes]

ASSUME SentinelAssumption ==
  /\ None \notin Queries /\ Infinity \notin Nat
  /\ Thrown \notin Seq(Nodes) /\ None \notin Seq(Nodes)
  /\ NoPath \notin [nodes : Seq(Nodes), edges : Seq(Edges)]
  /\ None \notin [node : Nodes, edge : Edges]
  /\ \A S \in (SUBSET Types) \cup (SUBSET Nodes) : S # Undefined

-----------------------------------------------------------------------------
Answers(op) == phase = "done" /\ query.op = op

\* The nodes that every set holds which holds the start node and is closed
\* under the admitted neighbours of its nodes.
ClosedUnder(q, S) ==
  /\ q.start \in Nodes /\ Admits(q, q.start) => q.start \in S
  /\ \A n \in S : \A m \in Neighbours(q, n) : Admits(q, m) => m \in S

Reached(q) ==
  {n \in Nodes : \A S \in SUBSET Nodes : ClosedUnder(q, S) => n \in S}

\* The nodes at most k steps from the start.
Ball(q, k) ==
  LET ball[i \in 0..k] ==
        IF i = 0 THEN {n \in Nodes : n = q.start /\ Admits(q, n)}
        ELSE ball[i - 1] \cup
             {m \in UNION {Neighbours(q, n) : n \in ball[i - 1]} : Admits(q, m)}
  IN ball[k]

Unfiltered(q) == [q EXCEPT !.nodeTypes = Undefined, !.predicate = Undefined]

\* Some set of nodes holds for each of them an edge from another of them (or
\* itself) exactly if there is a cycle.
Acyclic(E) ==
  \A S \in (SUBSET Nodes) \ {{}} : \E n \in S : \A e \in E : e.to = n => e.from \notin S

Distinct(s) == \A i, j \in 1..Len(s) : s[i] = s[j] => i = j

-----------------------------------------------------------------------------
\* An unbounded walk (ancestors, descendants) finds the admitted nodes that
\* the start reaches, all of them and no others: whichever way the queue is
\* sorted, "strategy affects traversal order, not result set".
WalkIsReachability ==
  Answers("walk") /\ query.depth = Infinity => answer.nodes = Reached(query)

\* The parts of a walk agree: the order lists the nodes without repetition,
\* each but the first next to an earlier one and none beyond the depth asked
\* for, and the edges are those the nodes have in the direction of the walk.
WalkIsConsistent ==
  Answers("walk") =>
    LET order_ == answer.order IN
    /\ ToSet(order_) = answer.nodes /\ Distinct(order_)
    /\ \A i \in 1..Len(order_) :
         IF i = 1 THEN order_[i] = query.start
         ELSE \E j \in 1..i - 1 : order_[i] \in Neighbours(query, order_[j])
    /\ query.depth # Infinity => answer.nodes \subseteq Ball(query, query.depth)
    /\ answer.edges = UNION {AdjacentEdges(query, n) : n \in answer.nodes}

\* shortestPath finds a path exactly if there is one, and what it finds is a
\* path from the start to the target that repeats no node, with an edge that
\* leads from each node to the next.
PathIsReal ==
  Answers("path") =>
    IF answer = NoPath THEN query.target \notin Reached(Unfiltered(query))
    ELSE /\ answer.nodes[1] = query.start
         /\ Last(answer.nodes) = query.target
         /\ Distinct(answer.nodes)
         /\ Len(answer.nodes) = Len(answer.edges) + 1
         /\ \A i \in 1..Len(answer.edges) :
              /\ answer.edges[i] \in AdjacentEdges(query, answer.nodes[i])
              /\ answer.nodes[i + 1] \in
                   NextNodes(query, answer.edges[i], answer.nodes[i])

\* topologicalSort throws exactly on a cycle; otherwise it arranges all the
\* nodes so that every edge leads from an earlier to a later one.
SortIsLegal ==
  Answers("topological") =>
    IF answer = Thrown THEN ~Acyclic(EdgesOf(query))
    ELSE /\ ToSet(answer) = Nodes /\ Distinct(answer)
         /\ \A e \in EdgesOf(query) : \A i, j \in 1..Len(answer) :
              answer[i] = e.from /\ answer[j] = e.to => i < j

\* Every cycle detectCycles reports is one, none is reported twice, and some
\* are reported exactly if there are any (hasCycle).
CyclesAreReal ==
  Answers("cycles") =>
    /\ \A c \in answer :
         /\ c # <<>> /\ Distinct(c)
         /\ \A i \in 1..Len(c) : \E e \in EdgesOf(query) :
              e.from = c[i] /\ e.to = c[(i % Len(c)) + 1]
         /\ \A d \in answer : d \in Rotations(c) => d = c
    /\ answer = {} <=> Acyclic(EdgesOf(query))

\* connectedComponents partitions the nodes by undirected reachability.
ComponentsPartition ==
  Answers("components") =>
    answer = {Reached([Facing(Unfiltered(query), "both") EXCEPT !.start = n]) :
                n \in Nodes}

\* The longest call chain of the statistics is a chain of calls that visits no
\* node twice, but may end where it has been; and if calls have no cycle, no chain
\* is longer, and of the longest from its first node it is the first by code units,
\* though what is remembered of a node was found in the middle of other visits.
Calls == {e \in edges : e.type = CallType}

IsChain(s) ==
  \A i \in 1..Len(s) - 1 : \E e \in Calls : e.from = s[i] /\ e.to = s[i + 1]

ChainIsLongest ==
  Answers("statistics") =>
    /\ IsChain(answer) /\ Distinct(Front(answer))
    /\ Acyclic(Calls) =>
         \A k \in 1..Cardinality(Nodes) : \A s \in [1..k -> Nodes] :
           IsChain(s) => \/ Len(s) < Len(answer)
                         \/ /\ Len(s) = Len(answer)
                            /\ s[1] = answer[1] => ~Precedes(s, answer)

\* Every query that begins is answered.
QueriesEnd == query # None ~> phase = "done"

-----------------------------------------------------------------------------
\* rfcs/0003-query-engine.md, of the default path semantics: "Breadth-first
\* shortest path by edge count."
PathIsShortest ==
  Answers("path") /\ answer # NoPath =>
    \A k \in 0..Len(answer.edges) - 1 : query.target \notin Ball(query, k)

-----------------------------------------------------------------------------
(***************************************************************************)
(* The strengthening under which WalkIsReachability is inductive.          *)
(***************************************************************************)

\* No query gives an empty list for an option, which would read like none.
NoEmptyLists == \A q \in Queries : q.relationships # {} /\ q.nodeTypes # {}

WalkTypes ==
  /\ edges \subseteq Edges
  /\ waiting \in [Nodes -> Seq(Nat)] /\ visited \subseteq Nodes
  /\ query \in Queries \cup {None} /\ (query = None <=> phase = "idle")

\* Each algorithm runs for its own queries.
WalkPhases ==
  /\ phase \in {"idle", "walk", "path", "back", "components", "topological",
               "cycles", "statistics", "answered", "done"}
  /\ phase = "walk" => query.op = "walk"
  /\ phase \in {"path", "back"} => query.op = "path"
  /\ phase \in {"components", "topological", "cycles", "statistics"} => query.op = phase
  /\ phase # "walk" => visited = {}

\* What has been visited or waits to be.
Discovered(n) == n \in visited \/ waiting[n] # <<>>

\* An unbounded walk under way has found the start and the neighbours of what
\* it has visited, so that nothing is missed, and what it has found and admits
\* is in every closed set, so that nothing is too much.
WalkProgress ==
  phase = "walk" /\ query.depth = Infinity =>
    /\ query.start \in Nodes /\ Admits(query, query.start) => Discovered(query.start)
    /\ \A n \in visited : \A m \in Neighbours(query, n) :
         Admits(query, m) => Discovered(m)
    /\ \A S \in SUBSET Nodes : ClosedUnder(query, S) =>
         \A n \in Nodes : Discovered(n) /\ Admits(query, n) => n \in S
    /\ \A n \in visited : Admits(query, n)

\* An answer to an unbounded walk, given or remembered.
WalkAnswered ==
  phase \in {"answered", "done"} /\ query.op = "walk" /\ query.depth = Infinity
    => answer.nodes = Reached(query)

WalkRemembered ==
  \A m \in memo : \A q \in Queries :
    /\ q.op = "walk" /\ q.depth = Infinity /\ Cacheable(q)
    /\ m.key = Key(q)
    => m.answer.nodes = Reached(q)

WalkInv == WalkTypes /\ WalkPhases /\ WalkProgress /\ WalkAnswered /\ WalkRemembered
=============================================================================
