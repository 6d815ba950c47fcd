-------------------------- MODULE SnapshotRegister --------------------------
(***************************************************************************)
(* What the snapshot cache promises: it behaves as one register that holds *)
(* a whole snapshot.  A commit replaces the snapshot in one step, a lookup *)
(* looks at the register once, and what it answers later, if it answers at *)
(* all, is the snapshot it saw then: never the graph of one commit with    *)
(* the products of another, never part of a commit that did not finish.    *)
(***************************************************************************)
CONSTANTS Builds, Snapshots, None

VARIABLES
  store,   \* the snapshot last committed
  asked,   \* per build, the snapshot its lookup saw
  answer   \* per build, what its lookup answered

regVars == <<store, asked, answer>>

Held(s) == [graph |-> s.graph, products |-> s.products,
                sources |-> s.sources, config |-> s.config]

Init == /\ store = None
        /\ asked = [b \in Builds |-> None]
        /\ answer = [b \in Builds |-> None]

Commit == /\ store' \in Snapshots
          /\ UNCHANGED <<asked, answer>>

Ask(b) == /\ answer[b] = None
          /\ asked' = [asked EXCEPT ![b] = store]
          /\ UNCHANGED <<store, answer>>

Reply(b) == /\ asked[b] # None /\ answer[b] = None
            /\ answer' = [answer EXCEPT ![b] = Held(asked[b])]
            /\ UNCHANGED <<store, asked>>

Forget(b) == /\ asked' = [asked EXCEPT ![b] = None]
             /\ answer' = [answer EXCEPT ![b] = None]
             /\ UNCHANGED store

Next == Commit \/ \E b \in Builds : Ask(b) \/ Reply(b) \/ Forget(b)

Spec == Init /\ [][Next]_regVars
=============================================================================
