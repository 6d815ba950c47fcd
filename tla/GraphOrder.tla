----------------------------- MODULE GraphOrder -----------------------------
(***************************************************************************)
(* performTopologicalSort and performDetectCycles.  Both look at the       *)
(* relationships asked for, along their direction.                         *)
(***************************************************************************)
EXTENDS QueryGraph, SequencesExt

VARIABLES
  incoming,  \* incomingCount, per node
  ready,     \* the nodes that wait for nothing, sorted by code units
  sorted,    \* the nodes sorted so far
  stack,     \* the nodes being visited, outermost first
  todo,      \* per node on the stack, the edges still to follow
  done,      \* the nodes that have been visited
  cycles     \* the cycles found

orderVars == <<incoming, ready, sorted, stack, todo, done, cycles>>

NoOrder == /\ incoming = [n \in Nodes |-> 0] /\ ready = {} /\ sorted = <<>>
           /\ stack = <<>> /\ todo = [n \in Nodes |-> {}] /\ done = {}
           /\ cycles = {}

\* The query is over, and what it held is gone.
DropOrder == /\ incoming' = [n \in Nodes |-> 0] /\ ready' = {} /\ sorted' = <<>>
             /\ stack' = <<>> /\ todo' = [n \in Nodes |-> {}] /\ done' = {}
             /\ cycles' = {}

EdgesOf(q) == {e \in edges : e.type \in Considered(q)}

-----------------------------------------------------------------------------
\* Every edge counts, parallel ones too.
BeginSort(q) ==
  /\ q.op = "topological"
  /\ phase' = "topological"
  /\ incoming' = [n \in Nodes |-> Cardinality({e \in EdgesOf(q) : e.to = n})]
  /\ ready' = {n \in Nodes : incoming'[n] = 0}
  /\ UNCHANGED <<answer, sorted, stack, todo, done, cycles>>

\* Variant: the first edge into a node makes it ready.
EmitEager(n) ==
  /\ phase = "topological"
  /\ IsFirstByCode(n, ready)
  /\ sorted' = Append(sorted, n)
  /\ incoming' = [m \in Nodes |->
       IF \E e \in EdgesOf(query) : e.from = n /\ e.to = m THEN 0 ELSE incoming[m]]
  /\ ready' = (ready \ {n}) \cup {m \in Nodes : incoming[m] # 0 /\ incoming'[m] = 0}
  /\ UNCHANGED <<phase, answer, stack, todo, done, cycles>>

\* The first ready node is sorted; a node becomes ready with the last edge
\* that leads to it.
Emit(n) ==
  /\ phase = "topological"
  /\ IsFirstByCode(n, ready)
  /\ sorted' = Append(sorted, n)
  /\ incoming' = [m \in Nodes |->
       incoming[m] - Cardinality({e \in EdgesOf(query) : e.from = n /\ e.to = m})]
  /\ ready' = (ready \ {n}) \cup {m \in Nodes : incoming[m] # 0 /\ incoming'[m] = 0}
  /\ UNCHANGED <<phase, answer, stack, todo, done, cycles>>

\* A sort that leaves nodes out throws.
EndSort ==
  /\ phase = "topological"
  /\ ready = {}
  /\ \/ Len(sorted) = Cardinality(Nodes) /\ Answered(sorted)
     \/ Len(sorted) # Cardinality(Nodes) /\ Answered(Thrown)
  /\ DropOrder

SortStep == EndSort \/ \E n \in Nodes : Emit(n)

-----------------------------------------------------------------------------
BeginCycles(q) ==
  /\ q.op = "cycles"
  /\ phase' = "cycles"
  /\ UNCHANGED <<answer, orderVars>>

Top == Last(stack)

\* visit of a node that is neither being visited nor visited.
Enter(n) == /\ stack' = Append(stack, n)
            /\ todo' = [todo EXCEPT ![n] =
                          {e \in EdgesOf(query) : e.from = n}]

VisitRoot ==
  /\ phase = "cycles"
  /\ stack = <<>> /\ done # Nodes
  /\ Enter(First(Nodes \ done))
  /\ UNCHANGED <<phase, answer, incoming, ready, sorted, done, cycles>>

\* canonicalCycleKey: the rotations of a cycle have one key.
Rotations(c) ==
  {SubSeq(c, i, Len(c)) \o SubSeq(c, 1, i - 1) : i \in 1..Len(c)}

\* Variant: the nodes that lead to the cycle are taken for part of it.
WholeStack(n) == stack

CycleTo(n) == SubSeq(stack, CHOOSE i \in 1..Len(stack) : stack[i] = n, Len(stack))

\* An edge back into the stack closes a cycle, one to a visited node is passed
\* over, any other one is descended.  A cycle replaces the one of its key.
FollowEdge(e) ==
  /\ phase = "cycles"
  /\ stack # <<>> /\ e \in todo[Top]
  /\ \/ /\ e.to \in ToSet(stack)
        /\ LET found == CycleTo(e.to) IN
             cycles' = {c \in cycles : c \notin Rotations(found)} \cup {found}
        /\ todo' = [todo EXCEPT ![Top] = @ \ {e}]
        /\ UNCHANGED <<stack, done>>
     \/ /\ e.to \in done
        /\ todo' = [todo EXCEPT ![Top] = @ \ {e}]
        /\ UNCHANGED <<stack, done, cycles>>
     \/ /\ e.to \notin ToSet(stack) \cup done
        /\ stack' = Append(stack, e.to)
        /\ todo' = [todo EXCEPT ![Top] = @ \ {e},
                                ![e.to] = {d \in EdgesOf(query) : d.from = e.to}]
        /\ UNCHANGED <<done, cycles>>
  /\ UNCHANGED <<phase, answer, incoming, ready, sorted>>

\* Variant: the node is not marked as visited.
LeaveUnmarked ==
  /\ phase = "cycles"
  /\ stack # <<>> /\ todo[Top] = {}
  /\ stack' = Front(stack)
  /\ UNCHANGED <<phase, answer, incoming, ready, sorted, todo, done, cycles>>

LeaveNode ==
  /\ phase = "cycles"
  /\ stack # <<>> /\ todo[Top] = {}
  /\ stack' = Front(stack)
  /\ done' = done \cup {Top}
  /\ UNCHANGED <<phase, answer, incoming, ready, sorted, todo, cycles>>

EndCycles ==
  /\ phase = "cycles"
  /\ stack = <<>> /\ done = Nodes
  /\ Answered(cycles)
  /\ DropOrder

CycleStep == VisitRoot \/ LeaveNode \/ EndCycles
             \/ \E e \in edges : FollowEdge(e)
=============================================================================
