----------------------------- MODULE GraphWalk -----------------------------
(***************************************************************************)
(* performWalk: the traversal behind walk, trace, dependencies, ancestors, *)
(* descendants and neighborhood.                                           *)
(*                                                                         *)
(* The queue is sorted by node id at the end of every iteration, and the   *)
(* sort is stable.  So it is kept per node, as the depths its items carry, *)
(* in the order they arrived: a breadth-first walk takes the smallest node *)
(* and its first item, a depth-first one, which sorts the other way around *)
(* and pops, the smallest node and its last item.                          *)
(***************************************************************************)
EXTENDS QueryGraph, SequencesExt

VARIABLES
  waiting,   \* per node, the depths of its items in the queue
  visited,   \* visitedNodes
  crossed,   \* visitedEdges
  order      \* the nodes in the order they were visited

walkVars == <<waiting, visited, crossed, order>>

NoWalk == /\ waiting = [n \in Nodes |-> <<>>]
          /\ visited = {} /\ crossed = {} /\ order = <<>>

-----------------------------------------------------------------------------
\* An unknown start node ends the walk before it begins.
BeginWalk(q) ==
  /\ q.op = "walk"
  /\ phase' = "walk"
  /\ waiting' = [n \in Nodes |-> IF n = q.start THEN <<0>> ELSE <<>>]
  /\ UNCHANGED <<answer, visited, crossed, order>>

Queued == {n \in Nodes : waiting[n] # <<>>}

Item(n) == IF query.strategy = "depth-first" THEN Last(waiting[n])
                                             ELSE Head(waiting[n])

Others(n) == IF query.strategy = "depth-first" THEN Front(waiting[n])
                                               ELSE Tail(waiting[n])

Within(depth) == query.depth # Infinity => depth <= query.depth

\* Variant: a walk ignores its node kinds and predicate.
UnfilteredVisits(n) == Within(Item(n)) /\ n \notin visited

Visits(n) == Within(Item(n)) /\ n \notin visited /\ Admits(query, n)

\* The three continues of the loop.
SkipItem(n) ==
  /\ phase = "walk"
  /\ IsFirst(n, Queued)
  /\ ~Visits(n)
  /\ waiting' = [waiting EXCEPT ![n] = Others(n)]
  /\ UNCHANGED <<phase, answer, visited, crossed, order>>

\* A node is visited and its neighbours are pushed, those already visited
\* excepted.  A node that several edges lead to is pushed once: its further
\* items would be equal, and skipped like it.
VisitNode(n) ==
  /\ phase = "walk"
  /\ IsFirst(n, Queued)
  /\ Visits(n)
  /\ visited' = visited \cup {n}
  /\ order' = Append(order, n)
  /\ crossed' = crossed \cup AdjacentEdges(query, n)
  /\ waiting' = [m \in Nodes |->
       (IF m = n THEN Others(n) ELSE waiting[m])
         \o (IF m \in Neighbours(query, n) \ visited' THEN <<Item(n) + 1>>
                                                      ELSE <<>>)]
  /\ UNCHANGED <<phase, answer>>

EndWalk ==
  /\ phase = "walk"
  /\ Queued = {}
  /\ Answered([nodes |-> visited, edges |-> crossed, order |-> order])
  /\ visited' = {} /\ crossed' = {} /\ order' = <<>>
  /\ UNCHANGED waiting

WalkStep == EndWalk \/ \E n \in Nodes : SkipItem(n) \/ VisitNode(n)
=============================================================================
