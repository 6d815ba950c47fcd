------------------------------ MODULE PassOrder ------------------------------
(***************************************************************************)
(* createPassManager: the declared passes are checked and put in one order *)
(* by Kahn's algorithm, which takes the first of the ready passes by stage *)
(* and then by id.                                                         *)
(*                                                                         *)
(* A pass id is a number: localeCompare orders ids as < orders numbers.    *)
(***************************************************************************)
EXTENDS Naturals, Sequences, FiniteSets

CONSTANTS
  PassIds,       \* the ids a declaration can use or refer to
  Declarations   \* the arrays of passes a build may be given

COMPILER_STAGE_IDS == <<
  "invocation", "context-initialization", "configuration-loading",
  "repository-discovery", "source-inventory",
  "cache-loading-and-compatibility", "change-detection-and-invalidation",
  "frontend-planning", "frontend-parsing", "fact-normalization",
  "symbol-and-reference-resolution", "core-compiler-passes",
  "diagnostics-pipeline", "graph-construction", "optimization-passes",
  "graph-validation", "serialization-planning", "serialization",
  "artifact-commit" >>

StageCount == 19
StageIds == {COMPILER_STAGE_IDS[i] : i \in 1..StageCount}

\* A stage that is not one of the list may be declared: it is rejected.
CompilerPass == [id : PassIds, stage : STRING, requires : SUBSET PassIds,
                 after : SUBSET PassIds, before : SUBSET PassIds]

ASSUME PassOrderAssumption ==
  /\ PassIds \subseteq Nat
  /\ Declarations \subseteq Seq(CompilerPass)

VARIABLES
  passes,    \* the array createPassManager is given
  phase,     \* where orderPasses is, or how it ended
  incoming,  \* incomingCount
  ready,     \* ready, which the code keeps sorted
  sorted     \* the ids in the order they were taken

orderVars == <<passes, phase, incoming, ready, sorted>>

-----------------------------------------------------------------------------
Ids == {passes[i].id : i \in 1..Len(passes)}
PassOf(id) == passes[CHOOSE i \in 1..Len(passes) : passes[i].id = id]
Rank(id) == CHOOSE i \in 1..StageCount : COMPILER_STAGE_IDS[i] = PassOf(id).stage

\* validatePasses.  Which of its errors is thrown makes no difference here.
Invalid ==
  \/ \E i, j \in 1..Len(passes) : i # j /\ passes[i].id = passes[j].id
  \/ \E i \in 1..Len(passes) : passes[i].stage \notin StageIds
  \/ \E i \in 1..Len(passes) :
       ~ (passes[i].requires \cup passes[i].before \cup passes[i].after \subseteq Ids)

\* Variant: `before` is not an ordering edge.
EdgeWithoutBefore(f, t) == f \in PassOf(t).requires \cup PassOf(t).after

\* Whether edges.get(f) has t.
Edge(f, t) ==
  \/ f \in PassOf(t).requires \cup PassOf(t).after
  \/ t \in PassOf(f).before

\* Variant: an edge counts as often as it is declared.
IncomingDeclarations(t) ==
  Cardinality({f \in Ids : f \in PassOf(t).requires})
    + Cardinality({f \in Ids : f \in PassOf(t).after})
    + Cardinality({f \in Ids : t \in PassOf(f).before})

\* The edges are sets of ids: one declared twice counts once.
Incoming(t) == Cardinality({f \in Ids : Edge(f, t)})

\* comparePassIds(left, right) <= 0.
Precedes(left, right) ==
  \/ Rank(left) < Rank(right)
  \/ Rank(left) = Rank(right) /\ left <= right

-----------------------------------------------------------------------------
OrderInit ==
  /\ passes \in Declarations
  /\ phase = "validating"
  /\ incoming = <<>>
  /\ ready = {}
  /\ sorted = <<>>

\* validatePasses throws.
RejectInvalid ==
  /\ phase = "validating" /\ Invalid
  /\ phase' = "invalid"
  /\ UNCHANGED <<passes, incoming, ready, sorted>>

StartSort ==
  /\ phase = "validating" /\ ~Invalid
  /\ phase' = "sorting"
  /\ incoming' = [t \in Ids |-> Incoming(t)]
  /\ ready' = {t \in Ids : Incoming(t) = 0}
  /\ UNCHANGED <<passes, sorted>>

\* One turn of the loop, with the inner loop over the targets of `id`.
Take(id) ==
  /\ sorted' = Append(sorted, id)
  /\ incoming' = [t \in Ids |-> IF Edge(id, t) THEN incoming[t] - 1 ELSE incoming[t]]
  /\ ready' = (ready \ {id}) \cup {t \in Ids : Edge(id, t) /\ incoming[t] = 1}

TakeFirst ==
  /\ phase = "sorting"
  /\ \E id \in ready : (\A other \in ready : Precedes(id, other)) /\ Take(id)
  /\ UNCHANGED <<passes, phase>>

\* Nothing is ready: every pass is sorted, or what is left has a cycle.
FinishSort ==
  /\ phase = "sorting" /\ ready = {}
  /\ phase' = IF Len(sorted) = Cardinality(Ids) THEN "ordered" ELSE "cyclic"
  /\ UNCHANGED <<passes, incoming, ready, sorted>>

OrderNext == RejectInvalid \/ StartSort \/ TakeFirst \/ FinishSort

OrderSpec == OrderInit /\ [][OrderNext]_orderVars
=============================================================================
