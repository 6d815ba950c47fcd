----------------------------- MODULE QueryGraph -----------------------------
(***************************************************************************)
(* The indexed graph a query engine is created for, and the query it is    *)
(* executing.  Node ids are numbers, for the engine orders nodes by id,    *)
(* and it does so in two ways: the order of numbers is that of             *)
(* localeCompare, and CodeUnits has the place of each id by code units,    *)
(* which is how sort() and < compare.  Edge ids end in a hash and order    *)
(* edges arbitrarily; nothing is assumed of their order.                   *)
(***************************************************************************)
EXTENDS Naturals, FiniteSets

CONSTANTS
  Nodes,      \* node ids
  CodeUnits,  \* the place of each node id by code units
  Ids,        \* what a caller may ask for as a node id
  Types,      \* relationship types
  Graphs,     \* the sets of edges the runs start from
  Queries,    \* the queries that are asked
  Undefined,  \* an option that is not given
  Infinity,   \* Number.POSITIVE_INFINITY, a depth
  NoPath,     \* shortestPath found none
  Thrown,     \* topologicalSort threw
  None        \* no query, or no answer yet

VARIABLES
  edges,      \* the edges of the graph
  query,      \* the query being executed, or None
  phase,      \* what the engine is doing
  answer      \* its answer, or None

Edges == [from : Nodes, type : Types, to : Nodes]

-----------------------------------------------------------------------------
Considered(q) == IF q.relationships = Undefined THEN Types ELSE q.relationships

\* adjacentEdges, out of the indexes built by buildQueryIndexes.
AdjacentEdges(q, n) ==
  {e \in edges : /\ e.type \in Considered(q)
                 /\ \/ q.direction # "inbound" /\ e.from = n
                    \/ q.direction # "outbound" /\ e.to = n}

\* nextNodeIds; in both directions, a node is not next to itself.
NextNodes(q, e, n) ==
  CASE q.direction = "inbound"  -> {e.from}
    [] q.direction = "outbound" -> {e.to}
    [] OTHER                    -> {e.from, e.to} \ {n}

Neighbours(q, n) == UNION {NextNodes(q, e, n) : e \in AdjacentEdges(q, n)}

\* A query whose direction the engine fixes.
Facing(q, direction) == [q EXCEPT !.direction = direction]

\* The nodes an option of a walk names, its node kinds or its predicate.
Allowed(option) == IF option = Undefined THEN Nodes ELSE option

Admits(q, n) == n \in Allowed(q.nodeTypes) \cap Allowed(q.predicate)

IsFirst(n, S) == n \in S /\ \A m \in S : n <= m

\* sort() without a comparison function.
IsFirstByCode(n, S) == n \in S /\ \A m \in S : CodeUnits[n] <= CodeUnits[m]

First(S) == CHOOSE n \in S : IsFirst(n, S)

Answered(a) == phase' = "answered" /\ answer' = a
=============================================================================
