---------------------------- MODULE QueryEngine ----------------------------
(***************************************************************************)
(* createQueryEngine: the queries on one graph, one after the other, and   *)
(* the cache of their answers.  The algorithms are in GraphWalk,           *)
(* GraphSearch, GraphOrder and GraphChains.                                *)
(***************************************************************************)
EXTENDS GraphWalk, GraphSearch, GraphOrder, GraphChains

CONSTANT MaxExecuted   \* bound on queries that are not answered by the cache

VARIABLES
  memo,      \* the entries of the query cache
  executed   \* how much of MaxExecuted is used

algorithms == <<walkVars, searchVars, orderVars, chainVars>>
vars == <<edges, query, phase, answer, algorithms, memo, executed>>

-----------------------------------------------------------------------------
\* In the key of a walk or a path an option that is not given and an empty
\* list read the same.
Listed(option) == IF option = Undefined THEN {} ELSE option

\* Variant: the direction is not part of the key.
KeyWithoutDirection(q) ==
  [op |-> q.op, start |-> q.start, target |-> q.target,
   direction |-> "outbound", strategy |-> q.strategy, depth |-> q.depth,
   relationships |-> q.relationships, nodeTypes |-> Listed(q.nodeTypes)]

\* The keys given to memo.  stableWalkKey names the options of a walk or path
\* query, its predicate excepted; the others are told apart by their
\* relationships only.
Key(q) ==
  [op |-> q.op, start |-> q.start, target |-> q.target,
   direction |-> q.direction, strategy |-> q.strategy, depth |-> q.depth,
   relationships |-> IF q.op \in {"walk", "path"} THEN Listed(q.relationships)
                                                  ELSE q.relationships,
   nodeTypes |-> Listed(q.nodeTypes)]

\* A walk with a predicate is neither looked up nor remembered.
Cacheable(q) == q.op # "walk" \/ q.predicate = Undefined

Entries(q) == {m \in memo : m.key = Key(q)}

Init ==
  /\ edges \in Graphs
  /\ query = None /\ phase = "idle" /\ answer = None
  /\ NoWalk /\ NoSearch /\ NoOrder /\ NoChain
  /\ memo = {} /\ executed = 0

\* memo: a query whose key has an entry is answered by it.  (A path that was
\* not found is an entry that does not answer, for its value is undefined.)
Hit(q) ==
  /\ phase = "idle"
  /\ Cacheable(q)
  /\ \E m \in Entries(q) :
       /\ m.answer # NoPath
       /\ answer' = m.answer
  /\ query' = q /\ phase' = "done"
  /\ UNCHANGED <<edges, algorithms, memo, executed>>

Execute(q) ==
  /\ phase = "idle"
  /\ Cacheable(q) => \A m \in Entries(q) : m.answer = NoPath
  /\ executed < MaxExecuted
  /\ executed' = executed + 1
  /\ query' = q
  /\ \/ BeginWalk(q) /\ UNCHANGED <<searchVars, orderVars, chainVars>>
     \/ BeginPath(q) /\ UNCHANGED <<walkVars, orderVars, chainVars>>
     \/ BeginComponents(q) /\ UNCHANGED <<walkVars, orderVars, chainVars>>
     \/ BeginSort(q) /\ UNCHANGED <<walkVars, searchVars, chainVars>>
     \/ BeginCycles(q) /\ UNCHANGED <<walkVars, searchVars, chainVars>>
     \/ BeginChain(q) /\ UNCHANGED <<walkVars, searchVars, orderVars>>
  /\ UNCHANGED <<edges, memo>>

\* One step of the algorithm under way.
Step ==
  /\ \/ WalkStep /\ UNCHANGED <<searchVars, orderVars, chainVars>>
     \/ (PathStep \/ ComponentStep) /\ UNCHANGED <<walkVars, orderVars, chainVars>>
     \/ (SortStep \/ CycleStep) /\ UNCHANGED <<walkVars, searchVars, chainVars>>
     \/ ChainStep /\ UNCHANGED <<walkVars, searchVars, orderVars>>
  /\ UNCHANGED <<edges, query, memo, executed>>

\* What create() returned is remembered; if it threw, nothing is.
Remember ==
  /\ phase = "answered"
  /\ phase' = "done"
  /\ memo' = IF Cacheable(query) /\ answer # Thrown
               THEN memo \cup {[key |-> Key(query), answer |-> answer]}
               ELSE memo
  /\ UNCHANGED <<edges, query, answer, algorithms, executed>>

\* The caller has its answer.
Return ==
  /\ phase = "done"
  /\ phase' = "idle" /\ query' = None /\ answer' = None
  /\ UNCHANGED <<edges, algorithms, memo, executed>>

\* cache.clear()
Clear ==
  /\ phase = "idle"
  /\ memo # {}
  /\ memo' = {}
  /\ UNCHANGED <<edges, query, phase, answer, algorithms, executed>>

Next == \/ \E q \in Queries : Hit(q) \/ Execute(q)
        \/ Step \/ Remember \/ Return \/ Clear

Spec == Init /\ [][Next]_vars

\* A query that has begun is computed to its end, synchronously.
Fairness == WF_vars(Step \/ Remember)

FairSpec == Spec /\ Fairness
=============================================================================
