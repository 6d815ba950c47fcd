----------------------------- MODULE EnhancerPlan -----------------------------
(***************************************************************************)
(* createEnhancerExecutionPlan: from the enhancers a call selects and the  *)
(* artifacts its registry already holds, the levels in which they run.     *)
(* An enhancer is known by a natural number, in the order of               *)
(* compareEnhancers.  A name in `dependencies()` is an enhancer's id or    *)
(* else an artifact's: here no name is both.                               *)
(*                                                                         *)
(* The plan is built the way executionLevels builds it, one level to a     *)
(* step, so that what is said of the levels can be proved by induction.    *)
(***************************************************************************)
EXTENDS Integers, FiniteSets, Sequences

CONSTANTS
  Enhancers,     \* every enhancer there is
  Artifacts,     \* every artifact id but SoftwareGraph, which is always there
  Requires,      \* per enhancer: the artifacts it requires
  Optional,      \* per enhancer: the artifacts it requires as optional
  DependsOn,     \* per enhancer: the enhancers that dependencies() names
  Awaits,        \* per enhancer: the artifacts that dependencies() names
  Produces       \* per enhancer: the artifacts of its results

ASSUME PlanAssumption ==
  /\ Enhancers \subseteq Nat /\ IsFiniteSet(Enhancers)
  /\ Requires \in [Enhancers -> SUBSET Artifacts]
  /\ Optional \in [Enhancers -> SUBSET Artifacts]
  /\ Produces \in [Enhancers -> SUBSET Artifacts]
  /\ DependsOn \in [Enhancers -> SUBSET Enhancers]
  /\ Awaits \in [Enhancers -> SUBSET Artifacts]

VARIABLES
  chosen,     \* options.enhancers
  existing,   \* the ids in existingArtifacts when the plan is made
  planning,   \* "none", "levels", "made" or "refused": where the plan is
  remaining,  \* the enhancers no level holds yet
  levels      \* the levels so far

planVars == <<chosen, existing, planning, remaining, levels>>

-----------------------------------------------------------------------------
Inputs(e) == Requires[e] \cup Optional[e]

Producers(S, a) == {e \in S : a \in Produces[e]}

\* validateEnhancers: an artifact that two enhancers produce.
DuplicateProducer(S) ==
  \E a \in Artifacts : \E e, f \in Producers(S, a) : e # f

\* A dependency that neither an id nor an output answers, or a required
\* artifact that neither the registry nor an output answers.
NotFound(S, have) ==
  \E e \in S :
    \/ ~(DependsOn[e] \subseteq S)
    \/ \E a \in Awaits[e] : Producers(S, a) = {}
    \/ \E a \in Requires[e] \ have : Producers(S, a) = {}

\* Variant: an optional input does not order.
EdgeOfRequired(have, f, t) ==
  \/ f \in DependsOn[t]
  \/ Produces[f] \cap (Awaits[t] \cup (Requires[t] \ have)) # {}

\* An artifact that exists already adds no edge to the one that rewrites it.
Edge(have, f, t) ==
  \/ f \in DependsOn[t]
  \/ Produces[f] \cap (Awaits[t] \cup (Inputs(t) \ have)) # {}

Incoming(t) == {f \in chosen : Edge(existing, f, t)}

\* Variant: one dependency that has been placed is enough.
ReadyAfterOne == {t \in remaining : Incoming(t) = {} \/ Incoming(t) \ remaining # {}}

\* executionLevels: those that wait for none of the remaining.
Ready == {t \in remaining : Incoming(t) \cap remaining = {}}

-----------------------------------------------------------------------------
PlanInit ==
  /\ chosen = {} /\ existing = {} /\ remaining = {}
  /\ planning = "none" /\ levels = <<>>

StartPlan(S, have) ==
  /\ chosen' = S /\ existing' = have
  /\ levels' = <<>>
  /\ remaining' = S
  /\ planning' = IF DuplicateProducer(S) \/ NotFound(S, have) THEN "refused" ELSE "levels"

PlaceLevel ==
  /\ planning = "levels" /\ Ready # {}
  /\ levels' = Append(levels, Ready)
  /\ remaining' = remaining \ Ready
  /\ UNCHANGED <<chosen, existing, planning>>

\* ENHANCER_PIPELINE_CYCLE
RefuseCycle ==
  /\ planning = "levels" /\ remaining # {} /\ Ready = {}
  /\ planning' = "refused"
  /\ levels' = <<>>
  /\ UNCHANGED <<chosen, existing, remaining>>

EndPlan ==
  /\ planning = "levels" /\ remaining = {}
  /\ planning' = "made"
  /\ UNCHANGED <<chosen, existing, remaining, levels>>
=============================================================================
