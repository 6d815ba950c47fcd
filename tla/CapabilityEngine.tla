-------------------------- MODULE CapabilityEngine --------------------------
(***************************************************************************)
(* The callers of one process: queries to a query engine, and capabilities,*)
(* which read the same graph through an engine of their own and use        *)
(* nothing that it caches.  Every call is synchronous.                     *)
(***************************************************************************)
EXTENDS QueryEngine, CapabilityWalks

CONSTANT Surveyed   \* bound: the graphs that capabilities are asked about

allVars == <<vars, capabilityVars>>

EngineInit == Init /\ NoCapability

\* Bound: a capability is asked before any query, for queries leave nothing
\* behind that it would see.
AskCapability ==
  /\ phase = "idle" /\ executed = 0 /\ edges \in Surveyed
  /\ \E a \in Asks : Ask(a)
  /\ UNCHANGED vars

EngineNext ==
  \/ Next /\ ask = None /\ UNCHANGED capabilityVars
  \/ AskCapability
  \/ CapabilityStep /\ UNCHANGED vars

EngineSpec == EngineInit /\ [][EngineNext]_allVars

FairEngine == EngineSpec /\ Fairness
=============================================================================
