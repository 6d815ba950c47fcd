---------------------------- MODULE GraphChains ----------------------------
(***************************************************************************)
(* longestCallChain, which graphStatistics reports.  A chain is followed   *)
(* along calls down to a node that calls nothing, or to one that is being  *)
(* visited already; the best chain of a node is remembered when its visit  *)
(* ends, whatever was being visited around it.                             *)
(***************************************************************************)
EXTENDS QueryGraph, SequencesExt

CONSTANT CallType   \* the relationship CALLS

VARIABLES
  visits,    \* the nodes being visited, outermost first: [node, follow, best]
  chains     \* memo: per node, the chain remembered, or None

chainVars == <<visits, chains>>

NoChain == visits = <<>> /\ chains = [n \in Nodes |-> None]
DropChain == visits' = <<>> /\ chains' = [n \in Nodes |-> None]

CallsOf(n) == {e \in edges : e.type = CallType /\ e.from = n}
Visit(n) == [node |-> n, follow |-> CallsOf(n), best |-> <<n>>]
Current == Last(visits)
BeingVisited == {visits[i].node : i \in DOMAIN visits}
Remembered == {n \in Nodes : chains[n] # None}

-----------------------------------------------------------------------------
\* Of two chains of one length the one whose ids, joined by NUL, are less by
\* code units.
Precedes(s, t) ==
  \E i \in 1..Len(s) : /\ CodeUnits[s[i]] < CodeUnits[t[i]]
                       /\ \A j \in 1..i - 1 : s[j] = t[j]

\* Variant: chains of one length are not compared.
LongerOf(best, candidate) == IF Len(candidate) > Len(best) THEN candidate ELSE best

Better(best, candidate) ==
  IF \/ Len(candidate) > Len(best)
     \/ Len(candidate) = Len(best) /\ Precedes(candidate, best)
  THEN candidate ELSE best

BeginChain(q) ==
  /\ q.op = "statistics"
  /\ phase' = "statistics"
  /\ UNCHANGED <<answer, chainVars>>

\* Every node is visited in the order of ids, unless its chain is remembered.
StartChain ==
  /\ phase = "statistics"
  /\ visits = <<>> /\ Remembered # Nodes
  /\ visits' = <<Visit(First(Nodes \ Remembered))>>
  /\ UNCHANGED <<phase, answer, chains>>

\* A node that is being visited ends the chain, a remembered chain continues it,
\* and any other node is visited first.
FollowCall(e) ==
  /\ phase = "statistics"
  /\ visits # <<>> /\ e \in Current.follow
  /\ LET top == Len(visits)
         left == [visits EXCEPT ![top].follow = @ \ {e}]
         Taking(chain) ==
           [left EXCEPT ![top].best = Better(@, <<Current.node>> \o chain)]
     IN visits' = IF e.to \in BeingVisited THEN Taking(<<e.to>>)
                  ELSE IF e.to \in Remembered THEN Taking(chains[e.to])
                  ELSE Append(left, Visit(e.to))
  /\ UNCHANGED <<phase, answer, chains>>

\* The visit returns its best chain to the one around it.
EndVisit ==
  /\ phase = "statistics"
  /\ visits # <<>> /\ Current.follow = {}
  /\ chains' = [chains EXCEPT ![Current.node] = Current.best]
  /\ visits' = IF Len(visits) = 1 THEN <<>>
               ELSE LET outer == Len(visits) - 1 IN
                    [Front(visits) EXCEPT ![outer].best =
                       Better(@, <<visits[outer].node>> \o Current.best)]
  /\ UNCHANGED <<phase, answer>>

\* The longest of all.  Which of those is the first by localeCompare of the
\* joined ids does not follow from the order of the ids: NUL counts for
\* nothing there.
EndChain ==
  /\ phase = "statistics"
  /\ visits = <<>> /\ Remembered = Nodes
  /\ \/ Nodes = {} /\ Answered(<<>>)
     \/ \E n \in Nodes :
          /\ \A m \in Nodes : Len(chains[m]) <= Len(chains[n])
          /\ Answered(chains[n])
  /\ DropChain

ChainStep == StartChain \/ EndVisit \/ EndChain \/ \E e \in edges : FollowCall(e)
=============================================================================
