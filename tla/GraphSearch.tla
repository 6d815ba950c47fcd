---------------------------- MODULE GraphSearch ----------------------------
(***************************************************************************)
(* performShortestPath with reconstructPath, and                           *)
(* performConnectedComponents.  A node enters either queue once, when it   *)
(* is first seen, and both queues are kept as sets: the search for a path  *)
(* sorts its queue by code units after every node, and the order in which a        *)
(* component is gathered does not show.                                    *)
(***************************************************************************)
EXTENDS QueryGraph, SequencesExt

VARIABLES
  frontier,   \* the queue
  seen,
  previous,   \* per node, the node and the edge it was seen from, or None
  path,       \* the path being reconstructed: its nodes from some node on
  trail,      \* and its edges
  component,  \* the component being gathered
  components  \* the finished ones

searchVars == <<frontier, seen, previous, path, trail, component, components>>

NoSearch == /\ frontier = {} /\ seen = {}
            /\ previous = [n \in Nodes |-> None]
            /\ path = <<>> /\ trail = <<>>
            /\ component = {} /\ components = {}

\* The search is over, and what it held is gone.
DropSearch == /\ frontier' = {} /\ seen' = {}
              /\ previous' = [n \in Nodes |-> None]
              /\ path' = <<>> /\ trail' = <<>>
              /\ component' = {} /\ components' = {}

-----------------------------------------------------------------------------
\* Between nodes the graph does not have there is no path.
BeginPath(q) ==
  /\ q.op = "path"
  /\ \/ /\ q.start \notin Nodes \/ q.target \notin Nodes
        /\ Answered(NoPath)
        /\ UNCHANGED searchVars
     \/ /\ q.start \in Nodes /\ q.target \in Nodes
        /\ phase' = "path"
        /\ frontier' = {q.start} /\ seen' = {q.start}
        /\ UNCHANGED <<answer, previous, path, trail, component, components>>

\* The neighbours not seen before are seen from n, each over one of the edges
\* that lead there, whichever comes first.
Expand(n) ==
  /\ phase = "path"
  /\ IsFirstByCode(n, frontier) /\ n # query.target
  /\ LET new == Neighbours(query, n) \ seen IN
     /\ frontier' = (frontier \ {n}) \cup new
     /\ seen' = seen \cup new
     /\ \E via \in [new -> AdjacentEdges(query, n)] :
          /\ \A m \in new : m \in NextNodes(query, via[m], n)
          /\ previous' = [m \in Nodes |->
               IF m \in new THEN [node |-> n, edge |-> via[m]] ELSE previous[m]]
  /\ UNCHANGED <<phase, answer, path, trail, component, components>>

NotFound ==
  /\ phase = "path"
  /\ frontier = {}
  /\ Answered(NoPath)
  /\ DropSearch

Found(n) ==
  /\ phase = "path"
  /\ IsFirstByCode(n, frontier) /\ n = query.target
  /\ phase' = "back"
  /\ path' = <<n>>
  /\ UNCHANGED <<answer, frontier, seen, previous, trail, component, components>>

\* Variant: the edges are left in the order they were found.
StepBackUnreversed ==
  /\ phase = "back"
  /\ Head(path) # query.start
  /\ previous[Head(path)] # None
  /\ path' = <<previous[Head(path)].node>> \o path
  /\ trail' = Append(trail, previous[Head(path)].edge)
  /\ UNCHANGED <<phase, answer, frontier, seen, previous, component, components>>

\* reconstructPath, one step towards the start; without an entry to follow
\* there is no path after all.
StepBack ==
  /\ phase = "back"
  /\ Head(path) # query.start
  /\ previous[Head(path)] # None
  /\ path' = <<previous[Head(path)].node>> \o path
  /\ trail' = <<previous[Head(path)].edge>> \o trail
  /\ UNCHANGED <<phase, answer, frontier, seen, previous, component, components>>

BackAtStart ==
  /\ phase = "back"
  /\ \/ /\ Head(path) = query.start
        /\ Answered([nodes |-> path, edges |-> trail])
     \/ /\ Head(path) # query.start /\ previous[Head(path)] = None
        /\ Answered(NoPath)
  /\ DropSearch

PathStep == \/ NotFound \/ StepBack \/ BackAtStart
            \/ \E n \in Nodes : Expand(n) \/ Found(n)

-----------------------------------------------------------------------------
BeginComponents(q) ==
  /\ q.op = "components"
  /\ phase' = "components"
  /\ UNCHANGED <<answer, searchVars>>

\* The smallest node not seen yet starts a component.
StartComponent ==
  /\ phase = "components"
  /\ frontier = {} /\ component = {} /\ seen # Nodes
  /\ LET n == First(Nodes \ seen) IN
     /\ frontier' = {n}
     /\ seen' = seen \cup {n}
  /\ UNCHANGED <<phase, answer, previous, path, trail, component, components>>

\* Variant: edges are followed from their source only.
GatherForward(n) ==
  /\ phase = "components"
  /\ n \in frontier
  /\ LET new == {e.to : e \in {d \in AdjacentEdges(Facing(query, "both"), n) :
                                 d.from = n}} \ seen IN
     /\ frontier' = (frontier \ {n}) \cup new
     /\ seen' = seen \cup new
  /\ component' = component \cup {n}
  /\ UNCHANGED <<phase, answer, previous, path, trail, components>>

Gather(n) ==
  /\ phase = "components"
  /\ n \in frontier
  /\ LET new == Neighbours(Facing(query, "both"), n) \ seen IN
     /\ frontier' = (frontier \ {n}) \cup new
     /\ seen' = seen \cup new
  /\ component' = component \cup {n}
  /\ UNCHANGED <<phase, answer, previous, path, trail, components>>

EndComponent ==
  /\ phase = "components"
  /\ frontier = {} /\ component # {}
  /\ components' = components \cup {component}
  /\ component' = {}
  /\ UNCHANGED <<phase, answer, frontier, seen, previous, path, trail>>

EndComponents ==
  /\ phase = "components"
  /\ frontier = {} /\ component = {} /\ seen = Nodes
  /\ Answered(components)
  /\ DropSearch

ComponentStep == \/ StartComponent \/ EndComponent \/ EndComponents
                 \/ \E n \in Nodes : Gather(n)
=============================================================================
