--------------------------- MODULE MCQueryEngine ---------------------------
(* Small instances of the query engine. *)
EXTENDS CapabilityProperties

CONSTANTS Missing,   \* an id no node has
          Width      \* bound on the edges of the larger graphs

MCNodes == 1..5
\* Ids of mixed case: 2 is before 1 by code units, and 4 before 3.
MCCodeUnits == [n \in MCNodes |-> <<2, 1, 4, 3, 5>>[n]]
MCIds   == MCNodes \cup {Missing, None}
Call(m, n) == [from |-> m, type |-> "calls", to |-> n]
Create(m, n) == [from |-> m, type |-> "creates", to |-> n]
Contain(m, n) == [from |-> m, type |-> "contains", to |-> n]

CallsAmong(S) == {Call(m, n) : m, n \in S}
Forward(S) == {e \in CallsAmong(S) : e.from < e.to}

\* From 1 to 5 over 2, or over 3 and 4.
TwoWays == {Call(1, 2), Call(2, 5), Call(1, 3), Call(3, 4), Call(4, 5)}

\* Every graph of three nodes and one type; of four nodes, the graphs with few
\* edges and those whose edges lead to larger ids, with or without one that leads
\* back from the last to the first; and some with edges of a second type, parallel
\* to those of the first or closing cycles with them.
MCGraphs ==
  (SUBSET CallsAmong(1..3))
  \cup (UNION {kSubset(k, CallsAmong(1..4)) : k \in 0..Width})
  \cup (SUBSET Forward(1..4)) \cup {g \cup {Call(4, 1)} : g \in SUBSET Forward(1..4)}
  \cup {g \cup {Contain(1, 3), Contain(2, 3)} : g \in SUBSET CallsAmong({1, 3})}
  \cup {{Create(1, 2), Call(3, 1), Contain(4, 1)}, TwoWays, TwoWays \cup {Call(5, 5)}}

Asking(op) ==
  [op |-> op, start |-> None, target |-> None, direction |-> "outbound",
   strategy |-> "breadth-first", depth |-> Infinity,
   relationships |-> Undefined, nodeTypes |-> Undefined, predicate |-> Undefined]

Directions == {"inbound", "outbound", "both"}

Walks == {[Asking("walk") EXCEPT !.start = n, !.direction = d, !.strategy = s, !.depth = k] :
            n \in {1, 2}, d \in Directions, s \in {"breadth-first", "depth-first"},
            k \in {1, 2, Infinity}}

CallWalks ==
  {[Asking("walk") EXCEPT !.start = 1, !.direction = d, !.depth = k, !.relationships = {"calls"}] :
     d \in {"outbound", "both"}, k \in {1, Infinity}}

FilteredWalks ==
  {[Asking("walk") EXCEPT !.start = 1, !.nodeTypes = t, !.predicate = p] :
     t \in {Undefined, {1, 3}}, p \in {Undefined, {1, 2}}}

Paths == {[Asking("path") EXCEPT !.start = m, !.target = n, !.direction = d] :
            m \in {1, 2}, n \in {1, 3, Missing}, d \in Directions}

MCQueries == Walks \cup CallWalks \cup FilteredWalks \cup Paths
             \cup {[Asking("walk") EXCEPT !.start = Missing]}
             \cup {Asking("topological"), Asking("cycles"), Asking("components"),
                   Asking("statistics")}
             \cup {[Asking("topological") EXCEPT !.relationships = {"calls"}],
                   [Asking("cycles") EXCEPT !.relationships = {"calls"}]}

-----------------------------------------------------------------------------
\* Of these graphs some for the capabilities: those whose edges lead upwards,
\* cycles, a self-loop, edges of both types.
MCSurveyed ==
  (SUBSET Forward(1..4))
  \cup {{Call(1, 2), Call(2, 4), Call(4, 1)}, {Call(1, 1), Call(1, 2)},
        {Call(1, 2), Call(2, 3), Call(3, 4), Call(4, 1)},
        {Call(1, 3), Contain(1, 3), Contain(2, 3)},
        {Create(1, 2), Call(3, 1), Contain(4, 1)}, TwoWays, TwoWays \cup {Call(5, 5)}}

Calling(op, seeds, mode) ==
  [op |-> op, seeds |-> seeds, mode |-> mode, depth |-> Undefined, maxDepth |-> Undefined,
   maxNodes |-> Undefined, maxEdges |-> Undefined, maxEvidence |-> Undefined]

MCAsks ==
  {Calling("impact", <<>>, "direct"), Calling("impact", <<1>>, "direct"),
   Calling("impact", <<3>>, "blast-radius"),
   [Calling("impact", <<1>>, "blast-radius") EXCEPT !.depth = 9],
   [Calling("impact", <<2>>, "blast-radius") EXCEPT !.maxDepth = 0],
   [Calling("impact", <<1>>, "blast-radius") EXCEPT !.maxNodes = 2],
   Calling("plan", <<>>, Undefined), Calling("plan", <<2, 1>>, Undefined),
   [Calling("plan", <<1, 3, 2>>, Undefined) EXCEPT !.maxEdges = 2],
   [Calling("plan", <<1>>, Undefined) EXCEPT !.maxEvidence = 1],
   [Calling("plan", <<3, 1>>, Undefined) EXCEPT !.maxNodes = 1],
   [Calling("plan", <<1>>, Undefined) EXCEPT !.maxEvidence = 5],
   Calling("touchpoints", <<4, 1, 2>>, Undefined),
   [Calling("touchpoints", <<1, 2>>, Undefined) EXCEPT !.maxNodes = 1]}

\* The settings of the code, scaled down.
MCSettings ==
  [mode \in {"direct", "blast-radius"} |->
     IF mode = "direct" THEN [depth |-> 1, nodeLimit |-> 3, edgeLimit |-> 4]
                        ELSE [depth |-> 3, nodeLimit |-> 9, edgeLimit |-> 14]]

MCDefaults ==
  [op \in {"impact", "plan", "touchpoints"} |->
     [maxNodes |-> 4, maxEdges |-> 6, maxDepth |-> 2, maxEvidence |-> 3,
      perNodeEdges |-> IF op = "impact" THEN 3 ELSE 2]]

MCMost == [maxNodes |-> 9, maxEdges |-> 14, maxDepth |-> 4, maxEvidence |-> 4]

-----------------------------------------------------------------------------
\* Graphs of five nodes whose edges lead from smaller to larger ids.
ForkNodes   == 1..5
ForkCodeUnits == [n \in ForkNodes |-> n]
ForkIds     == ForkNodes \cup {None}
ForkGraphs  == SUBSET Forward(ForkNodes)
ForkQueries == {[Asking("path") EXCEPT !.start = 1, !.target = 5]}
=============================================================================
