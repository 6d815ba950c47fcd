----------------------------- MODULE EnhancerProofs -----------------------------
(***************************************************************************)
(* PlansAreSound, InputsAreSettled, EntriesAreReproducible and             *)
(* DeliveryIsReproducible for any enhancers, calls and cache.  PlanInv is  *)
(* about the levels as they are built, RunInv about how far each enhancer  *)
(* of a level may be, CacheInv about keys, results and entries, and        *)
(* DeliveryInv about the registry.                                         *)
(***************************************************************************)
EXTENDS EnhancerProperties, SequenceTheorems, FiniteSetTheorems, WellFoundedInduction, TLAPS

\* Every enhancer that is not remaining has one level, after its inputs'.
Placed ==
  /\ \A i \in DOMAIN levels : levels[i] \subseteq chosen \ remaining
  /\ \A e \in chosen \ remaining : \E i \in DOMAIN levels : e \in levels[i]
  /\ \A i, j \in DOMAIN levels : \A e \in levels[i] : e \in levels[j] => j = i
  /\ \A i \in DOMAIN levels : \A e \in levels[i] : \A f \in Incoming(e) :
       \E j \in DOMAIN levels : j < i /\ f \in levels[j]

Reason ==
  \/ DuplicateProducer(chosen) \/ NotFound(chosen, existing)
  \/ \E T \in SUBSET chosen : T # {} /\ \A e \in T : \E f \in T : WaitsFor(e, f)

PlanInv ==
  /\ chosen \subseteq Enhancers /\ existing \subseteq {Index} /\ remaining \subseteq chosen
  /\ levels \in Seq(SUBSET Enhancers)
  /\ planning \in {"none", "levels", "made", "refused"}
  /\ planning \in {"none", "refused"} => levels = <<>>
  /\ planning \in {"levels", "made"} => Placed
  /\ planning = "made" => remaining = {}
  /\ planning = "refused" => Reason

\* An enhancer that has begun is of the turn's level or an earlier one; all of
\* the earlier ones have returned.
Stages == InFlight \cup Over \cup {"waiting", "thrown"}
RunInv ==
  /\ turn \in Nat \ {0}
  /\ stage \in [Enhancers -> Stages]
  /\ phase \in {"idle", "planning"} => \A e \in Enhancers : stage[e] = "waiting"
  /\ phase = "planning" => turn = 1
  /\ phase \in {"running", "delivered"} => planning = "made"
  /\ \A e \in Enhancers : stage[e] # "waiting" =>
       planning = "made" /\ \E j \in DOMAIN levels : j <= turn /\ e \in levels[j]
  /\ phase # "idle" => \A j \in DOMAIN levels : j < turn =>
       \A e \in levels[j] : stage[e] \in Over

\* What is remembered, on file or in flight is what its key says.  The key of
\* an enhancer that has yet to compute names what the registry still has; what
\* is not written to disk is only found by those that run after it was made.
CacheInv ==
  /\ commits \in Nat
  /\ key = [e \in Enhancers |-> key[e]] /\ result = [e \in Enhancers |-> result[e]]
  /\ \A p \in memory : IsWhatItsKeySays(p)
  /\ file # Torn => \A p \in file : IsWhatItsKeySays(p) /\ ~SkipsDisk(p[2])
  /\ phase # "idle" => \A e \in Enhancers : stage[e] = "waiting" =>
       \A p \in memory : p[1].enhancer = e => ~SkipsDisk(p[2])
  /\ \A e \in Enhancers :
       /\ stage[e] \in InFlight => key[e].enhancer = e
       /\ stage[e] = "missed" =>
            key[e].graph = call.graph /\ key[e].inputs = Seen(e, registry)
       /\ stage[e] \in InFlight \ {"missed"} => IsWhatItsKeySays(<<key[e], result[e]>>)
       /\ stage[e] = "hit" => ~SkipsDisk(result[e])

-----------------------------------------------------------------------------
(* The plan. *)

\* The edges of the plan are what an enhancer waits for.
LEMMA EdgesAreWaits ==
  ASSUME NEW e, NEW f PROVE Edge(existing, f, e) <=> WaitsFor(e, f)
  BY DEF Edge, WaitsFor, Inputs

LEMMA StartPlanKeeps ==
  ASSUME PlanInv, NEW S \in SUBSET Enhancers, NEW have \in SUBSET {Index},
         StartPlan(S, have)
  PROVE  PlanInv'
<1>1. levels' = <<>> /\ <<>> \in Seq(SUBSET Enhancers) /\ DOMAIN <<>> = {}
  BY EmptySeq DEF StartPlan
<1>2. planning' = "levels" => Placed'
  BY <1>1 DEF StartPlan, Placed
<1>3. planning' = "refused" => Reason'
  BY DEF StartPlan, Reason, DuplicateProducer, NotFound, Producers
<1> QED
  BY <1>1, <1>2, <1>3 DEF StartPlan, PlanInv

LEMMA PlaceLevelKeeps == ASSUME PlanInv, PlaceLevel PROVE PlanInv'
<1> DEFINE n == Len(levels)
<1>1. /\ levels \in Seq(SUBSET Enhancers) /\ Ready \in SUBSET Enhancers
      /\ Ready \subseteq remaining /\ remaining \subseteq chosen /\ Placed
  BY DEF PlanInv, PlaceLevel, Ready
<1>2. /\ levels' \in Seq(SUBSET Enhancers) /\ n \in Nat
      /\ DOMAIN levels = 1..n /\ DOMAIN levels' = 1..(n + 1)
      /\ levels'[n + 1] = Ready /\ \A i \in 1..n : levels'[i] = levels[i]
  <2>1. levels' = Append(levels, Ready)
    BY DEF PlaceLevel
  <2>2. Len(levels') = n + 1 /\ levels' \in Seq(SUBSET Enhancers)
    BY <1>1, <2>1, AppendProperties
  <2>3. n \in Nat /\ DOMAIN levels = 1..n /\ DOMAIN levels' = 1..(n + 1)
    BY <1>1, <2>2, LenProperties
  <2>4. levels'[n + 1] = Ready /\ \A i \in 1..n : levels'[i] = levels[i]
    BY <1>1, <2>1, AppendProperties
  <2> QED
    BY <2>2, <2>3, <2>4
<1> HIDE DEF n
<1>3. /\ remaining' = remaining \ Ready /\ chosen' = chosen /\ existing' = existing
      /\ planning = "levels" /\ planning' = "levels"
  BY DEF PlaceLevel
<1>4. \A e : Incoming(e)' = Incoming(e)
  BY <1>3 DEF Incoming, Edge
<1>5. Placed'
  <2>1. \A i \in DOMAIN levels' : levels'[i] \subseteq chosen' \ remaining'
    BY <1>1, <1>2, <1>3 DEF Placed
  <2>2. \A e \in chosen' \ remaining' : \E i \in DOMAIN levels' : e \in levels'[i]
    <3> SUFFICES ASSUME NEW e \in chosen \ (remaining \ Ready)
                 PROVE  \E i \in DOMAIN levels' : e \in levels'[i]
      BY <1>3
    <3>1. CASE e \in Ready
      BY <1>2, <3>1
    <3>2. CASE e \notin Ready
      <4>1. PICK i \in DOMAIN levels : e \in levels[i]
        BY <1>1, <3>2 DEF Placed
      <4> QED
        BY <1>2, <4>1
    <3> QED
      BY <3>1, <3>2
  <2>3. \A i \in DOMAIN levels : levels[i] \cap Ready = {}
    BY <1>1 DEF Placed
  <2>4. \A i, j \in DOMAIN levels' : \A e \in levels'[i] : e \in levels'[j] => j = i
    BY <1>1, <1>2, <2>3 DEF Placed
  <2>5. \A i \in DOMAIN levels' : \A e \in levels'[i] : \A f \in Incoming(e) :
          \E j \in DOMAIN levels' : j < i /\ f \in levels'[j]
    <3> SUFFICES ASSUME NEW i \in 1..(n + 1), NEW e \in levels'[i], NEW f \in Incoming(e)
                 PROVE  \E j \in 1..(n + 1) : j < i /\ f \in levels'[j]
      BY <1>2
    <3>1. CASE i \in 1..n
      <4>1. PICK j \in DOMAIN levels : j < i /\ f \in levels[j]
        BY <1>1, <1>2, <3>1 DEF Placed
      <4> QED
        BY <1>2, <4>1
    <3>2. CASE i = n + 1
      <4>1. f \in chosen \ remaining
        BY <1>2, <3>2 DEF Ready, Incoming
      <4>2. PICK j \in DOMAIN levels : f \in levels[j]
        BY <1>1, <4>1 DEF Placed
      <4> QED
        BY <1>2, <3>2, <4>2
    <3> QED
      BY <1>2, <3>1, <3>2
  <2> QED
    BY <1>4, <2>1, <2>2, <2>4, <2>5 DEF Placed
<1> QED
  BY <1>1, <1>2, <1>3, <1>5 DEF PlanInv

LEMMA RefuseCycleKeeps == ASSUME PlanInv, RefuseCycle PROVE PlanInv'
<1>1. \A e \in remaining : \E f \in remaining : WaitsFor(e, f)
  BY EdgesAreWaits DEF RefuseCycle, Ready, Incoming
<1>2. Reason'
  BY <1>1 DEF RefuseCycle, PlanInv, Reason, WaitsFor
<1>3. levels' = <<>> /\ <<>> \in Seq(SUBSET Enhancers)
  BY EmptySeq DEF RefuseCycle
<1> QED
  BY <1>2, <1>3 DEF RefuseCycle, PlanInv

LEMMA EndPlanKeeps == ASSUME PlanInv, EndPlan PROVE PlanInv'
  BY DEF EndPlan, PlanInv, Placed, Incoming, Edge

LEMMA UnchangedPlan == ASSUME PlanInv, UNCHANGED planVars PROVE PlanInv'
<1>1. /\ chosen' = chosen /\ existing' = existing /\ planning' = planning
      /\ remaining' = remaining /\ levels' = levels
  BY DEF planVars
<1>3. Placed => Placed'
  BY <1>1 DEF Placed, Incoming, Edge
<1>4. \A e, f : WaitsFor(e, f)' <=> WaitsFor(e, f)
  BY <1>1 DEF WaitsFor
<1>5. Reason' <=> Reason
  <2>1. DuplicateProducer(chosen)' <=> DuplicateProducer(chosen)
    BY <1>1 DEF DuplicateProducer, Producers
  <2>2. NotFound(chosen, existing)' <=> NotFound(chosen, existing)
    BY <1>1 DEF NotFound, Producers
  <2> QED
    BY <1>1, <1>4, <2>1, <2>2 DEF Reason
<1> QED
  BY <1>1, <1>3, <1>5 DEF PlanInv

\* What PlanInv says of a plan that is made or refused.
LEMMA SoundPlans == ASSUME PlanInv PROVE PlansAreSound
<1>1. CASE planning = "made"
  <2>1. Placed /\ remaining = {}
    BY <1>1 DEF PlanInv
  <2>2. OneLevelEach
    BY <2>1 DEF Placed, OneLevelEach
  <2>3. AfterItsInputs
    <3> SUFFICES ASSUME NEW i \in DOMAIN levels, NEW j \in DOMAIN levels,
                        NEW e \in levels[i], NEW f \in levels[j], WaitsFor(e, f)
                 PROVE  j < i
      BY DEF AfterItsInputs
    <3>1. f \in Incoming(e)
      BY <2>1, EdgesAreWaits DEF Placed, Incoming
    <3> QED
      BY <2>1, <3>1 DEF Placed
  <2> QED
    BY <1>1, <2>2, <2>3 DEF PlansAreSound
<1>2. CASE planning # "made"
  BY <1>2 DEF PlanInv, Reason, PlansAreSound
<1> QED
  BY <1>1, <1>2

-----------------------------------------------------------------------------
(* The run. *)

LEMMA BegunHasTheIndex ==
  ASSUME NEW g, NEW b \in BOOLEAN PROVE Ids(InitialRegistry(g, b)) \in SUBSET {Index}
  BY DEF Ids, InitialRegistry

\* What StartCall does to the plan is what StartPlan does.
LEMMA CallStarts ==
  ASSUME NEW c \in Calls, NEW g \in Graphs, StartCall(c, g)
  PROVE  /\ c.chosen \in SUBSET Enhancers /\ c.preloads \in BOOLEAN
         /\ c.parallel \in BOOLEAN /\ c.incremental \in BOOLEAN
         /\ Ids(InitialRegistry(g, c.preloads)) \in SUBSET {Index}
         /\ StartPlan(c.chosen, Ids(InitialRegistry(g, c.preloads)))
<1>1. /\ c.chosen \in SUBSET Enhancers /\ c.preloads \in BOOLEAN
      /\ c.parallel \in BOOLEAN /\ c.incremental \in BOOLEAN
  BY PipelineAssumption
<1> QED
  BY <1>1, BegunHasTheIndex DEF StartCall

LEMMA CallKeepsRun ==
  ASSUME NEW c \in Calls, NEW g \in Graphs, StartCall(c, g) PROVE RunInv'
<1>1. /\ stage' = [e \in Enhancers |-> "waiting"] /\ phase' = "planning" /\ turn' = 1
      /\ levels' = <<>>
  BY DEF StartCall, StartPlan
<1> QED
  BY <1>1 DEF RunInv, Stages, InFlight, Over

\* An enhancer in flight goes on.
LEMMA GoingOnKeepsRun ==
  ASSUME RunInv, UNCHANGED planVars, turn' = turn, phase' \in {phase, "rejected"},
         NEW e \in Enhancers, stage[e] \in InFlight,
         NEW s \in Stages \ {"waiting"}, stage' = [stage EXCEPT ![e] = s]
  PROVE  RunInv'
<1>1. /\ levels' = levels /\ planning' = planning
  BY DEF planVars
<1>2. /\ stage' \in [Enhancers -> Stages] /\ stage'[e] = s
      /\ \A f \in Enhancers \ {e} : stage'[f] = stage[f]
  BY DEF RunInv
<1>3. stage[e] \notin Over /\ stage[e] # "waiting" /\ phase \notin {"idle", "planning"}
  BY DEF RunInv, InFlight, Over
<1>4. \A f \in Enhancers : stage'[f] # "waiting" =>
        planning' = "made" /\ \E j \in DOMAIN levels' : j <= turn' /\ f \in levels'[j]
  BY <1>1, <1>2, <1>3 DEF RunInv
<1>5. \A j \in DOMAIN levels' : j < turn' => \A f \in levels'[j] : stage'[f] \in Over
  <2> SUFFICES ASSUME NEW j \in DOMAIN levels, j < turn, NEW f \in levels[j]
               PROVE  stage'[f] \in Over
    BY <1>1
  <2>1. stage[f] \in Over /\ f # e
    BY <1>3 DEF RunInv
  <2> QED
    BY <2>1 DEF RunInv
<1> QED
  BY <1>1, <1>2, <1>3, <1>4, <1>5 DEF RunInv

\* Enhancers of the level begin.
LEMMA StartingKeepsRun ==
  ASSUME PlanInv, RunInv, phase = "running", NEW es \in SUBSET Waiting, Starting(es)
  PROVE  RunInv'
<1>1. /\ levels' = levels /\ planning' = planning /\ turn' = turn /\ phase' = phase
      /\ planning = "made"
  BY DEF Starting, planVars, RunInv
<1>2. \A e \in es : stage[e] = "waiting" /\ turn \in DOMAIN levels /\ e \in levels[turn]
  BY DEF Waiting, Level
<1>3. \A e : FirstStage(e) \in {"failed", "hit", "missed"}
  BY DEF FirstStage
<1>4. stage' = [e \in Enhancers |-> IF e \in es THEN FirstStage(e) ELSE stage[e]]
  BY DEF Starting
<1>5. stage' \in [Enhancers -> Stages]
  BY <1>3, <1>4 DEF RunInv, Stages, InFlight, Over
<1>6. \A e \in Enhancers : stage'[e] # "waiting" =>
        \E j \in DOMAIN levels : j <= turn /\ e \in levels[j]
  BY <1>2, <1>4 DEF RunInv
<1>7. \A j \in DOMAIN levels : j < turn => \A e \in levels[j] : stage'[e] \in Over
  <2> SUFFICES ASSUME NEW j \in DOMAIN levels, j < turn, NEW e \in levels[j]
               PROVE  stage'[e] \in Over
    OBVIOUS
  <2>1. stage[e] \in Over /\ e \notin es
    BY <1>2 DEF RunInv, Over
  <2>2. e \in Enhancers
    BY ElementOfSeq, LenProperties DEF PlanInv
  <2> QED
    BY <1>4, <2>1, <2>2
<1> QED
  BY <1>1, <1>5, <1>6, <1>7 DEF RunInv

LEMMA PlanStepKeepsRun == ASSUME RunInv, PlanInv', PlanStep PROVE RunInv'
<1>1. /\ phase = "planning" /\ phase' = phase /\ turn' = turn /\ stage' = stage
      /\ turn = 1 /\ turn \in Nat \ {0} /\ stage \in [Enhancers -> Stages]
      /\ \A e \in Enhancers : stage[e] = "waiting"
  BY DEF PlanStep, runVars, RunInv
<1>2. \A j \in DOMAIN levels' : ~(j < turn')
  <2>1. DOMAIN levels' = 1..Len(levels') /\ Len(levels') \in Nat
    BY LenProperties DEF PlanInv
  <2> QED
    BY <1>1, <2>1
<1> QED
  BY <1>1, <1>2 DEF RunInv

LEMMA EndLevelKeepsRun == ASSUME PlanInv, RunInv, EndLevel PROVE RunInv'
<1>1. /\ levels' = levels /\ planning' = planning /\ stage' = stage /\ phase' = phase
      /\ turn' = turn + 1 /\ phase = "running" /\ \A e \in Level : stage[e] \in Over
  BY DEF EndLevel, planVars
<1>2. turn \in Nat \ {0} /\ DOMAIN levels \subseteq Nat
  BY LenProperties DEF PlanInv, RunInv
<1>3. \A j \in DOMAIN levels : j < turn + 1 => \A e \in levels[j] : stage[e] \in Over
  <2> SUFFICES ASSUME NEW j \in DOMAIN levels, j < turn + 1, NEW e \in levels[j]
               PROVE  stage[e] \in Over
    OBVIOUS
  <2>1. CASE j = turn
    BY <1>1, <2>1 DEF Level
  <2>2. CASE j < turn
    BY <1>1, <2>2 DEF RunInv
  <2> QED
    BY <1>2, <2>1, <2>2
<1>4. \A e \in Enhancers : stage[e] # "waiting" =>
        planning = "made" /\ \E j \in DOMAIN levels : j <= turn + 1 /\ e \in levels[j]
  <2> SUFFICES ASSUME NEW e \in Enhancers, stage[e] # "waiting"
               PROVE  planning = "made"
                      /\ \E j \in DOMAIN levels : j <= turn + 1 /\ e \in levels[j]
    OBVIOUS
  <2>1. PICK j \in DOMAIN levels : j <= turn /\ e \in levels[j]
    BY DEF RunInv
  <2>2. j <= turn + 1
    BY <1>2, <2>1
  <2> QED
    BY <2>1, <2>2 DEF RunInv
<1> QED
  BY <1>1, <1>2, <1>3, <1>4 DEF RunInv

LEMMA KillKeepsRun == ASSUME RunInv, Kill PROVE RunInv'
  BY DEF Kill, RunInv, Stages, InFlight, Over, planVars

\* The steps that touch neither the plan nor the stages.
LEMMA QuietKeepsRun ==
  ASSUME RunInv, UNCHANGED <<planVars, turn, stage>>,
         \/ phase' = phase
         \/ Refuse \/ Run \/ Deliver
  PROVE  RunInv'
<1>1. levels' = levels /\ planning' = planning /\ turn' = turn /\ stage' = stage
  BY DEF planVars
<1>2. CASE phase' = phase
  BY <1>1, <1>2 DEF RunInv
<1>3. CASE Refuse \/ Run \/ Deliver
  <2>1. /\ phase' \in {"rejected", "running", "delivered"} /\ phase # "idle"
        /\ phase' # "rejected" => planning = "made"
    BY <1>3 DEF Refuse, Run, Deliver, RunInv
  <2> QED
    BY <1>1, <2>1 DEF RunInv
<1> QED
  BY <1>2, <1>3

\* What a step does to the plan: it starts one, continues it or leaves it.
LEMMA NextKeepsPlan == ASSUME PlanInv, [Next]_vars PROVE PlanInv'
<1>1. CASE \E c \in Calls, g \in Graphs : StartCall(c, g)
  BY <1>1, CallStarts, StartPlanKeeps
<1>2. CASE PlanStep
  BY <1>2, PlaceLevelKeeps, RefuseCycleKeeps, EndPlanKeeps DEF PlanStep
<1>3. CASE UNCHANGED planVars
  BY <1>3, UnchangedPlan
<1>4. CASE Refuse \/ Run \/ StartLevel \/ EndLevel \/ Deliver \/ Commit \/ Kill
  BY <1>3, <1>4 DEF Refuse, Run, StartLevel, Starting, EndLevel, Deliver, Commit, Kill
<1>5. CASE \E e \in Enhancers : RunOne(e)
  BY <1>3, <1>5 DEF RunOne, StartOne, Starting, Restore, Compute, Throw, Store, Remember, EndWrite
<1>6. CASE UNCHANGED vars
  BY <1>3, <1>6 DEF vars
<1> QED
  BY <1>1, <1>2, <1>4, <1>5, <1>6 DEF Next, Pipeline

LEMMA RunOneKeepsRun ==
  ASSUME PlanInv, RunInv, NEW e \in Enhancers, RunOne(e) PROVE RunInv'
<1>1. CASE StartOne(e)
  BY <1>1, StartingKeepsRun DEF StartOne
<1>2. CASE Restore(e) \/ Compute(e) \/ Throw(e) \/ Store(e) \/ Remember(e) \/ EndWrite(e)
  <2>1. /\ UNCHANGED planVars /\ turn' = turn /\ phase' \in {phase, "rejected"}
        /\ stage[e] \in InFlight
        /\ \E s \in {"cached", "computed", "thrown", "stored", "executed", "writing"} :
             stage' = [stage EXCEPT ![e] = s]
    BY <1>2 DEF Restore, Compute, Throw, Store, Remember, EndWrite, InFlight
  <2> QED
    BY <2>1, GoingOnKeepsRun DEF Stages, InFlight, Over
<1> QED
  BY <1>1, <1>2 DEF RunOne

LEMMA NextKeepsRun == ASSUME PlanInv, PlanInv', RunInv, [Next]_vars PROVE RunInv'
<1>1. CASE \E c \in Calls, g \in Graphs : StartCall(c, g)
  BY <1>1, CallKeepsRun
<1>2. CASE PlanStep
  BY <1>2, PlanStepKeepsRun
<1>3. CASE Refuse \/ Run \/ Deliver \/ Commit \/ UNCHANGED vars
  <2>1. UNCHANGED <<planVars, turn, stage>>
    BY <1>3 DEF Refuse, Run, Deliver, Commit, vars, runVars
  <2>2. phase' = phase \/ Refuse \/ Run \/ Deliver
    BY <1>3 DEF Commit, vars
  <2> QED
    BY <2>1, <2>2, QuietKeepsRun
<1>4. CASE StartLevel
  BY <1>4, StartingKeepsRun DEF StartLevel
<1>5. CASE EndLevel
  BY <1>5, EndLevelKeepsRun
<1>6. CASE Kill
  BY <1>6, KillKeepsRun
<1>7. CASE \E e \in Enhancers : RunOne(e)
  BY <1>7, RunOneKeepsRun
<1> QED
  BY <1>1, <1>2, <1>3, <1>4, <1>5, <1>6, <1>7 DEF Next, Pipeline

LEMMA SettledInputs == ASSUME PlanInv, RunInv PROVE InputsAreSettled
<1> SUFFICES ASSUME NEW e \in chosen, NEW f \in chosen, WaitsFor(e, f), stage[e] # "waiting"
             PROVE  stage[f] \in {"cached", "executed", "failed"}
  BY DEF InputsAreSettled
<1>1. /\ planning = "made" /\ phase # "idle" /\ e \in Enhancers /\ f \in Enhancers
      /\ AfterItsInputs /\ OneLevelEach
  BY SoundPlans DEF PlanInv, RunInv, PlansAreSound
<1>2. PICK j \in DOMAIN levels : j <= turn /\ e \in levels[j]
  BY <1>1 DEF RunInv
<1>3. PICK i \in DOMAIN levels : f \in levels[i]
  BY <1>1 DEF OneLevelEach
<1>4. i < j
  BY <1>1, <1>2, <1>3 DEF AfterItsInputs
<1>5. i \in Nat /\ j \in Nat /\ turn \in Nat
  BY LenProperties DEF PlanInv, RunInv
<1>6. i < turn
  BY <1>2, <1>4, <1>5
<1> QED
  BY <1>1, <1>3, <1>6 DEF RunInv, Over

LEMMA InitHolds == ASSUME Init PROVE PlanInv /\ RunInv
<1>1. levels = <<>> /\ <<>> \in Seq(SUBSET Enhancers)
  BY EmptySeq DEF Init, PlanInit
<1>2. PlanInv
  BY <1>1 DEF Init, PlanInit, PlanInv
<1>3. RunInv
  BY <1>1 DEF Init, PlanInit, RunInv, Stages, InFlight, Over
<1> QED
  BY <1>2, <1>3

LEMMA PlanAndRun == Spec => [](PlanInv /\ RunInv)
<1>1. Init => PlanInv /\ RunInv
  BY InitHolds
<1>2. PlanInv /\ RunInv /\ [Next]_vars => (PlanInv /\ RunInv)'
  BY NextKeepsPlan, NextKeepsRun
<1> QED
  BY <1>1, <1>2, PTL DEF Spec

-----------------------------------------------------------------------------
(* The cache. *)

LEMMA OutputIds == ASSUME NEW e, NEW g, NEW h, NEW s PROVE Ids(Output(e, g, h, s)) = Produces[e]
<1> DEFINE made(a) == [artifact |-> a, by |-> e, graph |-> g,
                       outside |-> IF e \in Impure THEN h ELSE 0, seen |-> s]
<1>1. \A a \in Produces[e] : made(a) \in Output(e, g, h, s) /\ made(a).artifact = a
  BY DEF Output
<1>2. \A v \in Output(e, g, h, s) : v.artifact \in Produces[e]
  BY DEF Output
<1> QED
  BY <1>1, <1>2 DEF Ids

LEMMA PutKeepsSeen ==
  ASSUME NEW e, NEW reg, NEW artifacts, Ids(artifacts) \cap Inputs(e) = {}
  PROVE  Seen(e, Put(reg, artifacts)) = Seen(e, reg)
<1>1. \A v \in artifacts : v.artifact \in Ids(artifacts)
  BY DEF Ids
<1> QED
  BY <1>1 DEF Seen, Put

\* More commits leave it what its key says.
LEMMA StillWhatItsKeySays ==
  ASSUME commits \in Nat, commits' \in {commits, commits + 1}, NEW p, IsWhatItsKeySays(p)
  PROVE  IsWhatItsKeySays(p)'
<1>1. PICK h \in 0..commits : p[2] = Output(p[1].enhancer, p[1].graph, h, p[1].inputs)
  BY DEF IsWhatItsKeySays
<1>2. h \in 0..commits'
  BY <1>1
<1> QED
  BY <1>1, <1>2 DEF IsWhatItsKeySays, Output

\* Two enhancers of a level: one writes what the other reads only if it
\* rewrites what was preloaded.
LEMMA LevelMates ==
  ASSUME PlanInv, RunInv, NEW e \in Enhancers, NEW f \in Enhancers,
         stage[e] \in InFlight, stage[f] \in InFlight
  PROVE  e \in Level /\ f \in Level /\ Produces[f] \cap Inputs(e) \subseteq {Index}
<1>1. /\ planning = "made" /\ phase # "idle" /\ Placed /\ turn \in Nat
      /\ DOMAIN levels \subseteq Nat /\ existing \subseteq {Index}
  BY LenProperties DEF PlanInv, RunInv, InFlight
<1>2. \A x \in Enhancers : stage[x] \in InFlight => turn \in DOMAIN levels /\ x \in levels[turn]
  <2> SUFFICES ASSUME NEW x \in Enhancers, stage[x] \in InFlight
               PROVE  turn \in DOMAIN levels /\ x \in levels[turn]
    OBVIOUS
  <2>1. stage[x] # "waiting" /\ stage[x] \notin Over
    BY DEF InFlight, Over
  <2>2. PICK j \in DOMAIN levels : j <= turn /\ x \in levels[j]
    BY <2>1 DEF RunInv
  <2>3. ~(j < turn)
    BY <1>1, <2>1, <2>2 DEF RunInv
  <2> QED
    BY <1>1, <2>2, <2>3
<1>3. f \notin Incoming(e)
  BY <1>1, <1>2 DEF Placed
<1>4. f \in chosen
  BY <1>1, <1>2 DEF Placed
<1>5. Produces[f] \cap (Inputs(e) \ existing) = {}
  BY <1>3, <1>4 DEF Incoming, Edge
<1> QED
  BY <1>1, <1>2, <1>5 DEF Level

\* What an enhancer puts is not what another has yet to read.
LEMMA PutsWhatNoneReads ==
  ASSUME PlanInv, RunInv, CacheInv, NEW e \in Enhancers, NEW f \in Enhancers,
         stage[e] = "missed", stage[f] \in {"hit", "computed"},
         stage[f] = "computed" => \A x \in Level : stage[x] = "missed" => x \notin Prompt
  PROVE  Ids(result[f]) \cap Inputs(e) = {}
<1>1. stage[e] \in InFlight /\ stage[f] \in InFlight \ {"missed"}
  BY DEF InFlight
<1>2. e \in Level /\ Produces[f] \cap Inputs(e) \subseteq {Index}
  BY <1>1, LevelMates
<1>3. Ids(result[f]) = Produces[f]
  <2>1. key[f].enhancer = f /\ IsWhatItsKeySays(<<key[f], result[f]>>)
    BY <1>1 DEF CacheInv
  <2>2. PICK h \in 0..commits : result[f] = Output(f, key[f].graph, h, key[f].inputs)
    BY <2>1 DEF IsWhatItsKeySays
  <2> QED
    BY <2>2, OutputIds
<1>4. ASSUME Index \in Produces[f], Index \in Inputs(e) PROVE FALSE
  <2>1. e \in Prompt /\ Produces[f] \cap DiskExcluded # {}
    BY <1>4, RewriteAssumption
  <2>2. stage[f] # "computed"
    BY <1>2, <2>1
  <2>3. ~SkipsDisk(result[f])
    BY <2>2 DEF CacheInv
  <2> QED
    BY <1>3, <2>1, <2>3 DEF SkipsDisk
<1> QED
  BY <1>2, <1>3, <1>4

LEMMA CallKeepsCache ==
  ASSUME CacheInv, NEW c \in Calls, NEW g \in Graphs, StartCall(c, g) PROVE CacheInv'
<1>1. /\ stage' = [e \in Enhancers |-> "waiting"] /\ commits' = commits /\ file' = file
      /\ key' = [e \in Enhancers |-> CacheKey(e, g, {})]
      /\ result' = [e \in Enhancers |-> {}]
      /\ memory' = {} \/ (file # Torn /\ memory' = file)
  BY DEF StartCall
<1>2. commits \in Nat /\ \A p : IsWhatItsKeySays(p) => IsWhatItsKeySays(p)'
  BY <1>1, StillWhatItsKeySays DEF CacheInv
<1>3. \A p \in memory' : IsWhatItsKeySays(p)' /\ ~SkipsDisk(p[2])
  BY <1>1, <1>2 DEF CacheInv
<1>4. file' # Torn => \A p \in file' : IsWhatItsKeySays(p)' /\ ~SkipsDisk(p[2])
  BY <1>1, <1>2 DEF CacheInv
<1>5. \A e \in Enhancers : stage'[e] = "waiting" /\ stage'[e] \notin InFlight
  BY <1>1 DEF InFlight
<1>6. /\ key' = [e \in Enhancers |-> key'[e]]
      /\ result' = [e \in Enhancers |-> result'[e]]
  BY <1>1
<1> QED
  BY <1>1, <1>2, <1>3, <1>4, <1>5, <1>6 DEF CacheInv

\* The steps after which every enhancer and every entry is what it was.
LEMMA QuietKeepsCache ==
  ASSUME CacheInv, UNCHANGED <<call, key, result, registry, memory, stage, file>>,
         commits' \in {commits, commits + 1}, phase' = phase \/ phase # "idle"
  PROVE  CacheInv'
<1>1. commits' \in Nat /\ \A p : IsWhatItsKeySays(p) => IsWhatItsKeySays(p)'
  BY StillWhatItsKeySays DEF CacheInv
<1>2. file' # Torn => \A p \in file' : IsWhatItsKeySays(p)' /\ ~SkipsDisk(p[2])
  BY <1>1 DEF CacheInv
<1>3. \A e \in Enhancers :
        stage'[e] \in InFlight \ {"missed"} => IsWhatItsKeySays(<<key[e], result[e]>>)'
  <2>1. \A e \in Enhancers :
          stage[e] \in InFlight \ {"missed"} => IsWhatItsKeySays(<<key[e], result[e]>>)
    BY DEF CacheInv
  <2> QED
    BY <1>1, <2>1
<1> QED
  BY <1>1, <1>2, <1>3 DEF CacheInv

LEMMA KillKeepsCache == ASSUME CacheInv, Kill PROVE CacheInv'
<1>1. /\ stage' = [e \in Enhancers |-> "waiting"] /\ phase' = "idle"
      /\ UNCHANGED <<call, key, result, registry, memory, file, commits>>
  BY DEF Kill
<1>2. \A p : IsWhatItsKeySays(p)' <=> IsWhatItsKeySays(p)
  BY <1>1 DEF IsWhatItsKeySays, Output
<1>3. \A e \in Enhancers : stage'[e] \notin InFlight /\ stage'[e] = "waiting"
  BY <1>1 DEF InFlight
<1>4. file' # Torn => \A p \in file' : IsWhatItsKeySays(p)' /\ ~SkipsDisk(p[2])
  BY <1>1, <1>2 DEF CacheInv
<1> QED
  BY <1>1, <1>2, <1>3, <1>4 DEF CacheInv, InFlight

LEMMA StartingKeepsCache ==
  ASSUME RunInv, CacheInv, phase = "running", NEW es \in SUBSET Waiting, Starting(es)
  PROVE  CacheInv'
<1> DEFINE K(e) == CacheKey(e, call.graph, registry)
<1>1. /\ UNCHANGED <<phase, call, registry, memory, file, commits>>
      /\ stage' = [e \in Enhancers |-> IF e \in es THEN FirstStage(e) ELSE stage[e]]
      /\ key' = [e \in Enhancers |-> IF e \in es THEN K(e) ELSE key[e]]
      /\ result' = [e \in Enhancers |->
                      IF e \in es /\ FirstStage(e) = "hit"
                      THEN (CHOOSE p \in Cached(K(e)) : TRUE)[2] ELSE result[e]]
  BY DEF Starting
<1>2. \A p : IsWhatItsKeySays(p)' <=> IsWhatItsKeySays(p)
  BY <1>1 DEF IsWhatItsKeySays, Output
<1>3. \A e \in Enhancers : e \in es => /\ stage[e] = "waiting"
                                        /\ FirstStage(e) \in {"failed", "hit", "missed"}
  BY DEF Waiting, FirstStage
<1>4. \A e : /\ K(e).enhancer = e /\ K(e).graph = call.graph
             /\ K(e).inputs = Seen(e, registry)
  BY DEF CacheKey
<1>5. ASSUME NEW e \in Enhancers, e \in es, FirstStage(e) = "hit"
      PROVE  /\ IsWhatItsKeySays(<<key'[e], result'[e]>>) /\ ~SkipsDisk(result'[e])
  <2> DEFINE p == CHOOSE p \in Cached(K(e)) : TRUE
  <2>1. Cached(K(e)) # {}
    BY <1>5 DEF FirstStage
  <2>2. p \in memory /\ p[1] = K(e)
    BY <2>1 DEF Cached
  <2>3. key'[e] = p[1] /\ result'[e] = p[2]
    BY <1>1, <1>5, <2>2
  <2> HIDE DEF p
  <2>4. IsWhatItsKeySays(p) /\ p[1].enhancer = e
    BY <1>4, <2>2 DEF CacheInv
  <2>5. ~SkipsDisk(p[2])
    BY <1>3, <1>5, <2>2, <2>4 DEF CacheInv
  <2>6. IsWhatItsKeySays(<<p[1], p[2]>>)
    BY <2>4 DEF IsWhatItsKeySays
  <2> QED
    BY <2>3, <2>5, <2>6
<1> HIDE DEF K
<1>6. \A e \in Enhancers :
        /\ stage'[e] \in InFlight => key'[e].enhancer = e
        /\ stage'[e] = "missed" =>
             key'[e].graph = call'.graph /\ key'[e].inputs = Seen(e, registry')
        /\ stage'[e] \in InFlight \ {"missed"} => IsWhatItsKeySays(<<key'[e], result'[e]>>)
        /\ stage'[e] = "hit" => ~SkipsDisk(result'[e])
  <2> TAKE e \in Enhancers
  <2>1. CASE e \notin es
    BY <1>1, <2>1 DEF CacheInv
  <2>2. CASE e \in es
    BY <1>1, <1>3, <1>4, <1>5, <2>2 DEF InFlight
  <2> QED
    BY <2>1, <2>2
<1>7. phase' # "idle" => \A e \in Enhancers : stage'[e] = "waiting" =>
        \A p \in memory' : p[1].enhancer = e => ~SkipsDisk(p[2])
  BY <1>1, <1>3 DEF CacheInv
<1>8. file' # Torn => \A p \in file' : IsWhatItsKeySays(p)' /\ ~SkipsDisk(p[2])
  BY <1>1, <1>2 DEF CacheInv
<1>9. /\ key' = [e \in Enhancers |-> key'[e]]
      /\ result' = [e \in Enhancers |-> result'[e]]
  BY <1>1
<1> QED
  BY <1>1, <1>2, <1>6, <1>7, <1>8, <1>9 DEF CacheInv

\* One enhancer goes on, and what it leaves behind is no other's.
LEMMA OneGoesOn ==
  ASSUME RunInv, CacheInv, NEW e \in Enhancers, stage[e] \in InFlight,
         NEW s \in Stages \ {"waiting", "missed", "hit"}, stage' = [stage EXCEPT ![e] = s],
         UNCHANGED <<call, key, commits>>, phase' \in {phase, "rejected"},
         NEW r, result' = [result EXCEPT ![e] = r],
         s \in InFlight => IsWhatItsKeySays(<<key[e], r>>),
         \A f \in Enhancers \ {e} :
           stage[f] = "missed" => Seen(f, registry') = Seen(f, registry),
         \A p \in memory' : IsWhatItsKeySays(p) /\ (p \in memory \/ p[1].enhancer = e),
         file' # Torn => \A p \in file' : IsWhatItsKeySays(p) /\ ~SkipsDisk(p[2])
  PROVE  CacheInv'
<1>1. /\ stage'[e] = s /\ \A f \in Enhancers \ {e} : stage'[f] = stage[f]
  BY DEF RunInv
<1>2. result = [f \in Enhancers |-> result[f]]
  BY DEF CacheInv
<1>3. /\ result' = [f \in Enhancers |-> result'[f]] /\ result'[e] = r
      /\ \A f \in Enhancers \ {e} : result'[f] = result[f]
  <2> DEFINE old == [f \in Enhancers |-> result[f]]
  <2>1. result' = [old EXCEPT ![e] = r]
    BY <1>2
  <2> QED
    BY <2>1
<1>4. \A p : IsWhatItsKeySays(p)' <=> IsWhatItsKeySays(p)
  BY DEF IsWhatItsKeySays, Output
<1>5. phase # "idle"
  BY DEF RunInv, InFlight
<1>6. \A f \in Enhancers :
        /\ stage'[f] \in InFlight => key[f].enhancer = f
        /\ stage'[f] = "missed" =>
             key[f].graph = call.graph /\ key[f].inputs = Seen(f, registry')
        /\ stage'[f] \in InFlight \ {"missed"} => IsWhatItsKeySays(<<key[f], result'[f]>>)
        /\ stage'[f] = "hit" => ~SkipsDisk(result'[f])
  <2> TAKE f \in Enhancers
  <2>1. CASE f = e
    <3>1. key[e].enhancer = e
      BY DEF CacheInv
    <3> QED
      BY <1>1, <1>3, <2>1, <3>1
  <2>2. CASE f # e
    BY <1>1, <1>3, <2>2 DEF CacheInv
  <2> QED
    BY <2>1, <2>2
<1>7. \A f \in Enhancers : stage'[f] = "waiting" =>
        \A p \in memory' : p[1].enhancer = f => ~SkipsDisk(p[2])
  BY <1>1, <1>5 DEF CacheInv
<1>8. \A f \in Enhancers :
        stage'[f] \in InFlight \ {"missed"} => IsWhatItsKeySays(<<key[f], result[f]>>)'
  BY <1>4, <1>6
<1>9. \A p \in memory' : IsWhatItsKeySays(p)'
  BY <1>4
<1>10. file' # Torn => \A p \in file' : IsWhatItsKeySays(p)' /\ ~SkipsDisk(p[2])
  BY <1>4
<1> QED
  BY <1>3, <1>6, <1>7, <1>8, <1>9, <1>10 DEF CacheInv

LEMMA NoResultLost == ASSUME CacheInv, NEW e \in Enhancers PROVE result = [result EXCEPT ![e] = result[e]]
<1>1. result = [f \in Enhancers |-> result[f]]
  BY DEF CacheInv
<1> DEFINE old == [f \in Enhancers |-> result[f]]
<1>2. old = [old EXCEPT ![e] = old[e]]
  OBVIOUS
<1> QED
  BY <1>1, <1>2

LEMMA RestoreKeepsCache ==
  ASSUME PlanInv, RunInv, CacheInv, NEW e \in Enhancers, Restore(e) PROVE CacheInv'
<1>1. /\ stage[e] = "hit" /\ stage' = [stage EXCEPT ![e] = "cached"]
      /\ registry' = Put(registry, result[e])
      /\ UNCHANGED <<phase, call, key, result, memory, file, commits>>
  BY DEF Restore
<1>2. \A f \in Enhancers \ {e} :
        stage[f] = "missed" => Seen(f, registry') = Seen(f, registry)
  BY <1>1, PutsWhatNoneReads, PutKeepsSeen
<1>3. result' = [result EXCEPT ![e] = result[e]]
  BY <1>1, NoResultLost
<1>4. "cached" \in Stages \ {"waiting", "missed", "hit"} /\ "cached" \notin InFlight
  BY DEF Stages, Over, InFlight
<1>5. stage[e] \in InFlight
  BY <1>1 DEF InFlight
<1>9. /\ \A p \in memory : IsWhatItsKeySays(p)
      /\ file # Torn => \A p \in file : IsWhatItsKeySays(p) /\ ~SkipsDisk(p[2])
  BY DEF CacheInv
<1> QED
  BY <1>1, <1>2, <1>3, <1>4, <1>5, <1>9, OneGoesOn

LEMMA ComputeKeepsCache ==
  ASSUME RunInv, CacheInv, NEW e \in Enhancers, Compute(e) PROVE CacheInv'
<1> DEFINE r == Output(e, call.graph, commits, Seen(e, registry))
<1>1. /\ stage[e] = "missed" /\ stage' = [stage EXCEPT ![e] = "computed"]
      /\ result' = [result EXCEPT ![e] = r]
      /\ UNCHANGED <<phase, call, key, registry, memory, file, commits>>
  BY DEF Compute
<1>2. "computed" \in Stages \ {"waiting", "missed", "hit"} /\ stage[e] \in InFlight
  BY <1>1 DEF Stages, InFlight
<1>3. /\ key[e].enhancer = e /\ key[e].graph = call.graph /\ commits \in Nat
      /\ key[e].inputs = Seen(e, registry)
  BY <1>1, <1>2 DEF CacheInv
<1>4. IsWhatItsKeySays(<<key[e], r>>)
  BY <1>3 DEF IsWhatItsKeySays
<1> HIDE DEF r
<1>9. /\ \A p \in memory : IsWhatItsKeySays(p)
      /\ file # Torn => \A p \in file : IsWhatItsKeySays(p) /\ ~SkipsDisk(p[2])
  BY DEF CacheInv
<1> QED
  BY <1>1, <1>2, <1>4, <1>9, OneGoesOn

LEMMA ThrowKeepsCache ==
  ASSUME RunInv, CacheInv, NEW e \in Enhancers, Throw(e) PROVE CacheInv'
<1>1. /\ stage[e] = "missed" /\ stage' = [stage EXCEPT ![e] = "thrown"] /\ phase' = "rejected"
      /\ UNCHANGED <<call, key, result, registry, memory, file, commits>>
  BY DEF Throw
<1>2. result' = [result EXCEPT ![e] = result[e]]
  BY <1>1, NoResultLost
<1>3. /\ "thrown" \in Stages \ {"waiting", "missed", "hit"} /\ "thrown" \notin InFlight
      /\ stage[e] \in InFlight
  BY <1>1 DEF Stages, Over, InFlight
<1>9. /\ \A p \in memory : IsWhatItsKeySays(p)
      /\ file # Torn => \A p \in file : IsWhatItsKeySays(p) /\ ~SkipsDisk(p[2])
  BY DEF CacheInv
<1> QED
  BY <1>1, <1>2, <1>3, <1>9, OneGoesOn

LEMMA StoreKeepsCache ==
  ASSUME PlanInv, RunInv, CacheInv, NEW e \in Enhancers, Store(e) PROVE CacheInv'
<1>1. /\ stage[e] = "computed" /\ stage' = [stage EXCEPT ![e] = "stored"]
      /\ \A f \in Level : stage[f] = "missed" => f \notin Prompt
      /\ registry' = Put(registry, result[e])
      /\ UNCHANGED <<phase, call, key, result, memory, file, commits>>
  BY DEF Store
<1>2. \A f \in Enhancers \ {e} :
        stage[f] = "missed" => Seen(f, registry') = Seen(f, registry)
  BY <1>1, PutsWhatNoneReads, PutKeepsSeen
<1>3. result' = [result EXCEPT ![e] = result[e]]
  BY <1>1, NoResultLost
<1>4. /\ "stored" \in Stages \ {"waiting", "missed", "hit"}
      /\ stage[e] \in InFlight \ {"missed"}
  BY <1>1 DEF Stages, InFlight
<1>5. IsWhatItsKeySays(<<key[e], result[e]>>)
  BY <1>4 DEF CacheInv
<1>9. /\ \A p \in memory : IsWhatItsKeySays(p)
      /\ file # Torn => \A p \in file : IsWhatItsKeySays(p) /\ ~SkipsDisk(p[2])
  BY DEF CacheInv
<1> QED
  BY <1>1, <1>2, <1>3, <1>4, <1>5, <1>9, OneGoesOn

LEMMA RememberKeepsCache ==
  ASSUME RunInv, CacheInv, NEW e \in Enhancers, Remember(e) PROVE CacheInv'
<1>1. /\ stage[e] = "stored"
      /\ memory' = (memory \ Cached(key[e])) \cup {<<key[e], result[e]>>}
      /\ UNCHANGED <<phase, call, key, result, registry, commits>>
  BY DEF Remember
<1>2. PICK s \in {"executed", "writing"} :
        stage' = [stage EXCEPT ![e] = s] /\ (file' = file \/ file' = Torn)
  BY DEF Remember
<1>3. result' = [result EXCEPT ![e] = result[e]]
  BY <1>1, NoResultLost
<1>4. /\ s \in Stages \ {"waiting", "missed", "hit"} /\ stage[e] \in InFlight \ {"missed"}
  BY <1>1, <1>2 DEF Stages, Over, InFlight
<1>5. IsWhatItsKeySays(<<key[e], result[e]>>) /\ key[e].enhancer = e
  BY <1>4 DEF CacheInv
<1>6. \A p \in memory' : IsWhatItsKeySays(p) /\ (p \in memory \/ p[1].enhancer = e)
  BY <1>1, <1>5 DEF CacheInv
<1>7. file' # Torn => \A p \in file' : IsWhatItsKeySays(p) /\ ~SkipsDisk(p[2])
  BY <1>2 DEF CacheInv
<1>8. stage' = [stage EXCEPT ![e] = s] /\ phase' \in {phase, "rejected"}
  BY <1>1, <1>2
<1> QED
  BY <1>1, <1>3, <1>4, <1>5, <1>6, <1>7, <1>8, OneGoesOn

LEMMA EndWriteKeepsCache ==
  ASSUME RunInv, CacheInv, NEW e \in Enhancers, EndWrite(e) PROVE CacheInv'
<1>1. /\ stage[e] = "writing" /\ stage' = [stage EXCEPT ![e] = "executed"]
      /\ file' = file \/ file' = Entries \/ file' = Torn
      /\ UNCHANGED <<phase, call, key, result, registry, memory, commits>>
  BY DEF EndWrite
<1>2. result' = [result EXCEPT ![e] = result[e]]
  BY <1>1, NoResultLost
<1>3. /\ "executed" \in Stages \ {"waiting", "missed", "hit"} /\ "executed" \notin InFlight
      /\ stage[e] \in InFlight
  BY <1>1 DEF Stages, Over, InFlight
<1>4. file' # Torn => \A p \in file' : IsWhatItsKeySays(p) /\ ~SkipsDisk(p[2])
  BY <1>1 DEF CacheInv, Entries
<1>9. /\ \A p \in memory : IsWhatItsKeySays(p)
      /\ file # Torn => \A p \in file : IsWhatItsKeySays(p) /\ ~SkipsDisk(p[2])
  BY DEF CacheInv
<1> QED
  BY <1>1, <1>2, <1>3, <1>4, <1>9, OneGoesOn

LEMMA NextKeepsCache ==
  ASSUME PlanInv, RunInv, CacheInv, [Next]_vars PROVE CacheInv'
<1>1. CASE \E c \in Calls, g \in Graphs : StartCall(c, g)
  BY <1>1, CallKeepsCache
<1>2. CASE PlanStep \/ Refuse \/ Run \/ EndLevel \/ Deliver \/ Commit \/ UNCHANGED vars
  <2>1. /\ UNCHANGED <<call, key, result, registry, memory, stage, file>>
        /\ phase' = phase \/ phase # "idle"
    BY <1>2 DEF PlanStep, Refuse, Run, EndLevel, Deliver, Commit, vars, runVars
  <2>2. commits' \in {commits, commits + 1}
    BY <1>2 DEF PlanStep, Refuse, Run, EndLevel, Deliver, Commit, vars
  <2> QED
    BY <2>1, <2>2, QuietKeepsCache
<1>3. CASE StartLevel
  BY <1>3, StartingKeepsCache DEF StartLevel
<1>4. CASE Kill
  BY <1>4, KillKeepsCache
<1>5. CASE \E e \in Enhancers : RunOne(e)
  <2> SUFFICES ASSUME NEW e \in Enhancers, RunOne(e) PROVE CacheInv'
    BY <1>5
  <2>1. CASE StartOne(e)
    BY <2>1, StartingKeepsCache DEF StartOne
  <2> QED
    BY <2>1, RestoreKeepsCache, ComputeKeepsCache, ThrowKeepsCache, StoreKeepsCache,
       RememberKeepsCache, EndWriteKeepsCache DEF RunOne
<1> QED
  BY <1>1, <1>2, <1>3, <1>4, <1>5 DEF Next, Pipeline

LEMMA CacheBegins == ASSUME Init PROVE CacheInv
  BY DEF Init, CacheInv, InFlight

-----------------------------------------------------------------------------
(* What a call delivers. *)

\* Of any numbers there is a least.
LEMMA LeastNumber ==
  ASSUME NEW S \in SUBSET Nat, S # {}
  PROVE  \E n \in S : \A m \in Nat : m < n => m \notin S
<1> DEFINE less == OpToRel(<, Nat)
<1>1. PICK n \in S : \A m \in S : <<m, n>> \notin less
  BY NatLessThanWellFounded, WFMin
<1>2. ASSUME NEW m \in S, m < n PROVE FALSE
  BY <1>1, <1>2 DEF OpToRel
<1> QED BY <1>2

\* What an enhancer makes of a registry at a moment of the history.
Make(e, g, h, reg) == IF Fails(e, reg) THEN {} ELSE Output(e, g, h, Seen(e, reg))
AllMake(L, g, h, reg) == UNION {Make(e, g, h, reg) : e \in L}

\* Two registries that differ in what is made from the history only.
Owned(reg) == \A v \in reg : v.by \in Impure => v.artifact \in Produces[v.by]
Twins(r, s) == Pure(r) = Pure(s) /\ Ids(r) = Ids(s) /\ Owned(r) /\ Owned(s)

LEMMA TwinsCompose ==
  ASSUME NEW r, NEW s, NEW t
  PROVE  /\ Owned(r) => Twins(r, r)
         /\ Twins(r, s) => Twins(s, r) /\ Owned(r) /\ Owned(s)
         /\ Twins(r, s) /\ Twins(s, t) => Twins(r, t)
BY DEF Twins

LEMMA PutTwins ==
  ASSUME NEW r, NEW s, NEW a, NEW b, Twins(r, s), Twins(a, b)
  PROVE  Twins(Put(r, a), Put(s, b))
<1>1. ASSUME NEW x, NEW y, Owned(x), Owned(y) PROVE Owned(Put(x, y))
  BY <1>1 DEF Owned, Put
<1>2. \A x, y : Ids(Put(x, y)) = Ids(x) \cup Ids(y)
  <2>1. ASSUME NEW x, NEW y, NEW i PROVE i \in Ids(Put(x, y)) <=> i \in Ids(x) \cup Ids(y)
    BY DEF Ids, Put
  <2> QED BY <2>1
<1>3. \A x, y : Pure(Put(x, y)) = {v \in Pure(x) : v.artifact \notin Ids(y)} \cup Pure(y)
  BY DEF Pure, Put
<1>4. /\ Pure(r) = Pure(s) /\ Pure(a) = Pure(b) /\ Ids(r) = Ids(s) /\ Ids(a) = Ids(b)
      /\ Owned(r) /\ Owned(s) /\ Owned(a) /\ Owned(b)
  BY DEF Twins
<1>5. Owned(Put(r, a)) /\ Owned(Put(s, b))
  BY <1>1, <1>4
<1>6. Pure(Put(r, a)) = Pure(Put(s, b)) /\ Ids(Put(r, a)) = Ids(Put(s, b))
  <2>1. /\ Pure(Put(r, a)) = {v \in Pure(r) : v.artifact \notin Ids(a)} \cup Pure(a)
        /\ Pure(Put(s, b)) = {v \in Pure(s) : v.artifact \notin Ids(b)} \cup Pure(b)
    BY <1>3
  <2>2. Ids(Put(r, a)) = Ids(r) \cup Ids(a) /\ Ids(Put(s, b)) = Ids(s) \cup Ids(b)
    BY <1>2
  <2>3. Pure(Put(r, a)) = Pure(Put(s, b))
    BY <1>4, <2>1, ZenonT(30)
  <2> QED BY <1>4, <2>2, <2>3
<1> QED BY <1>5, <1>6 DEF Twins

LEMMA TwinsAreSeen ==
  ASSUME NEW r, NEW s, Twins(r, s), NEW e \in Enhancers
  PROVE  Seen(e, r) = Seen(e, s) /\ (Fails(e, r) <=> Fails(e, s))
<1>1. ASSUME NEW x, Owned(x) PROVE Seen(e, x) = {v \in Pure(x) : v.artifact \in Inputs(e)}
  BY <1>1, HistoryAssumption, PipelineAssumption DEF Owned, Seen, Pure
<1> QED BY <1>1 DEF Twins, Fails

\* What is made at two moments of the history, of registries that are twins.
LEMMA OutputTwins ==
  ASSUME NEW e, NEW g, NEW h, NEW i, NEW s
  PROVE  Twins(Output(e, g, h, s), Output(e, g, i, s))
<1>1. \A j : Ids(Output(e, g, j, s)) = Produces[e]
  BY OutputIds
<1>2. \A j : Owned(Output(e, g, j, s))
  BY DEF Owned, Output
<1>3. CASE e \in Impure
  <2>1. \A j : Pure(Output(e, g, j, s)) = {}
    BY <1>3 DEF Pure, Output
  <2> QED BY <1>1, <1>2, <2>1 DEF Twins
<1>4. CASE e \notin Impure
  <2>1. Output(e, g, h, s) = Output(e, g, i, s)
    BY <1>4 DEF Output
  <2> QED BY <1>2, <2>1 DEF Twins
<1> QED BY <1>3, <1>4

LEMMA NothingIsTwins == Twins({}, {}) /\ \A r : Put(r, {}) = r
BY DEF Twins, Owned, Put, Ids

LEMMA MakeTwins ==
  ASSUME NEW e \in Enhancers, NEW g, NEW h, NEW i, NEW r, NEW s, Twins(r, s)
  PROVE  Twins(Make(e, g, h, r), Make(e, g, i, s))
<1>1. Seen(e, r) = Seen(e, s) /\ (Fails(e, r) <=> Fails(e, s))
  BY TwinsAreSeen
<1>2. CASE Fails(e, r)
  BY <1>1, <1>2, NothingIsTwins DEF Make
<1>3. CASE ~Fails(e, r)
  BY <1>1, <1>3, OutputTwins DEF Make
<1> QED BY <1>2, <1>3

LEMMA AllMakeTwins ==
  ASSUME NEW L \in SUBSET Enhancers, NEW g, NEW h, NEW i, NEW r, NEW s, Twins(r, s)
  PROVE  Twins(AllMake(L, g, h, r), AllMake(L, g, i, s))
<1>1. ASSUME NEW e \in L PROVE Twins(Make(e, g, h, r), Make(e, g, i, s))
  BY MakeTwins
<1>2. \A j, x : Pure(AllMake(L, g, j, x)) = UNION {Pure(Make(e, g, j, x)) : e \in L}
  BY DEF Pure, AllMake
<1>3. \A j, x : Ids(AllMake(L, g, j, x)) = UNION {Ids(Make(e, g, j, x)) : e \in L}
  <2>1. ASSUME NEW j, NEW x, NEW a
        PROVE  a \in Ids(AllMake(L, g, j, x)) <=> \E e \in L : a \in Ids(Make(e, g, j, x))
    BY DEF Ids, AllMake
  <2> QED BY <2>1
<1>4. Owned(AllMake(L, g, h, r)) /\ Owned(AllMake(L, g, i, s))
  <2>1. \A e \in L : Owned(Make(e, g, h, r)) /\ Owned(Make(e, g, i, s))
    BY <1>1 DEF Twins
  <2> QED BY <2>1 DEF Owned, AllMake
<1>5. Pure(AllMake(L, g, h, r)) = Pure(AllMake(L, g, i, s))
  <2>1. \A e \in L : Pure(Make(e, g, h, r)) = Pure(Make(e, g, i, s))
    BY <1>1 DEF Twins
  <2>2. \A v : (\E e \in L : v \in Pure(Make(e, g, h, r))) <=> \E e \in L : v \in Pure(Make(e, g, i, s))
    BY <2>1
  <2>3. UNION {Pure(Make(e, g, h, r)) : e \in L} = UNION {Pure(Make(e, g, i, s)) : e \in L}
    BY <2>2
  <2> QED BY <1>2, <2>3
<1>6. Ids(AllMake(L, g, h, r)) = Ids(AllMake(L, g, i, s))
  <2>1. \A e \in L : Ids(Make(e, g, h, r)) = Ids(Make(e, g, i, s))
    BY <1>1 DEF Twins
  <2>2. \A v : (\E e \in L : v \in Ids(Make(e, g, h, r))) <=> \E e \in L : v \in Ids(Make(e, g, i, s))
    BY <2>1
  <2>3. UNION {Ids(Make(e, g, h, r)) : e \in L} = UNION {Ids(Make(e, g, i, s)) : e \in L}
    BY <2>2
  <2> QED BY <1>3, <2>3
<1> QED BY <1>4, <1>5, <1>6 DEF Twins

\* One enhancer after the other: what A says of a set is the registry after the
\* enhancers of that set.
Top(S) == CHOOSE e \in S : \A f \in S : f <= e
Passes(A, L, g, h, begin) ==
  \A S \in SUBSET L :
    A[S] = IF S = {} THEN begin
           ELSE Put(A[S \ {Top(S)}], Make(Top(S), g, h, A[S \ {Top(S)}]))

LEMMA TopOf ==
  ASSUME NEW S \in SUBSET Nat, NEW e \in S, \A f \in S : f <= e
  PROVE  Top(S) = e
<1>1. \A f \in S : (\A x \in S : x <= f) => f = e
  OBVIOUS
<1> QED BY <1>1 DEF Top

LEMMA SmallerByOne ==
  ASSUME NEW S, IsFiniteSet(S), NEW e \in S
  PROVE  /\ IsFiniteSet(S \ {e}) /\ Cardinality(S) \in Nat /\ Cardinality(S \ {e}) \in Nat
         /\ Cardinality(S \ {e}) < Cardinality(S)
<1>1. IsFiniteSet(S \ {e}) /\ Cardinality(S \ {e}) = Cardinality(S) - 1
  BY FS_RemoveElement
<1>2. Cardinality(S) \in Nat /\ Cardinality(S \ {e}) \in Nat
  BY <1>1, FS_CardinalityType
<1> QED BY <1>1, <1>2

LEMMA TopIsThere ==
  ASSUME NEW S \in SUBSET Nat, IsFiniteSet(S), S # {}
  PROVE  Top(S) \in S /\ \A f \in S : f <= Top(S)
<1> DEFINE Greatest(T, e) == e \in T /\ \A f \in T : f <= e
           Bad == {c \in Nat : \E T \in SUBSET Nat :
                     /\ IsFiniteSet(T) /\ T # {} /\ Cardinality(T) = c
                     /\ ~\E e : Greatest(T, e)}
<1>1. ASSUME Bad # {} PROVE FALSE
  <2>1. PICK c \in Bad : \A m \in Nat : m < c => m \notin Bad
    <3>1. Bad \in SUBSET Nat
      OBVIOUS
    <3> HIDE DEF Bad
    <3> QED BY <1>1, <3>1, LeastNumber
  <2>2. PICK T \in SUBSET Nat :
          IsFiniteSet(T) /\ T # {} /\ Cardinality(T) = c /\ ~\E e : Greatest(T, e)
    OBVIOUS
  <2>3. PICK x \in T : TRUE
    BY <2>2
  <2>4. /\ IsFiniteSet(T \ {x}) /\ Cardinality(T \ {x}) \in Nat /\ Cardinality(T \ {x}) < c
        /\ T \ {x} \in SUBSET Nat /\ x \in Nat
    BY <2>2, <2>3, SmallerByOne
  <2>5. CASE T \ {x} = {}
    <3>1. Greatest(T, x)
      BY <2>3, <2>4, <2>5
    <3> QED BY <2>2, <3>1
  <2>6. CASE T \ {x} # {}
    <3>1. \E e : Greatest(T \ {x}, e)
      BY <2>1, <2>4, <2>6
    <3>2. PICK e : Greatest(T \ {x}, e)
      BY <3>1
    <3>3. e \in Nat /\ e \in T
      BY <3>2
    <3>4. Greatest(T, e) \/ Greatest(T, x)
      BY <2>3, <2>4, <3>2, <3>3
    <3> QED BY <2>2, <3>4
  <2> QED BY <2>5, <2>6
<1>2. Cardinality(S) \in Nat
  BY FS_CardinalityType
<1>3. PICK e : Greatest(S, e)
  BY <1>1, <1>2
<1>4. Top(S) = e
  BY <1>3, TopOf
<1> QED BY <1>3, <1>4

\* M has one enhancer more than L, and it comes after all others.
OneMore(L, e, M) ==
  L \in SUBSET Nat /\ e \in Nat /\ (\A f \in L : f < e) /\ M = L \cup {e}

LEMMA PassOneMore ==
  ASSUME NEW L, NEW e, NEW M, OneMore(L, e, M),
         NEW g, NEW h, NEW begin, NEW A, Passes(A, L, g, h, begin)
  PROVE  \E B : Passes(B, M, g, h, begin) /\ B[M] = Put(A[L], Make(e, g, h, A[L]))
<1> DEFINE Now(S) == Put(A[S \ {e}], Make(e, g, h, A[S \ {e}]))
           B == [S \in SUBSET M |-> IF e \in S THEN Now(S) ELSE A[S]]
<1>0. /\ L \in SUBSET Nat /\ e \in Nat /\ (\A f \in L : f < e) /\ e \notin L
      /\ M = L \cup {e}
  BY DEF OneMore
<1>1. /\ \A S \in SUBSET M : e \in S => B[S] = Now(S)
      /\ \A S \in SUBSET L : B[S] = A[S]
  BY <1>0
<1>2. ASSUME NEW S \in SUBSET M
      PROVE  B[S] = IF S = {} THEN begin
                    ELSE Put(B[S \ {Top(S)}], Make(Top(S), g, h, B[S \ {Top(S)}]))
  <2>1. CASE e \in S
    <3>1. Top(S) = e
      <4>1. S \in SUBSET Nat /\ \A f \in S : f <= e
        BY <1>0
      <4> QED BY <2>1, <4>1, TopOf
    <3>2. S \ {e} \in SUBSET L
      BY <1>0
    <3>3. B[S \ {e}] = A[S \ {e}] /\ B[S] = Now(S)
      BY <1>1, <2>1, <3>2
    <3> HIDE DEF B
    <3> QED BY <2>1, <3>1, <3>3
  <2>2. CASE e \notin S
    <3>1. S \in SUBSET L /\ S \ {Top(S)} \in SUBSET L
      BY <1>0, <2>2
    <3>2. B[S] = A[S] /\ B[S \ {Top(S)}] = A[S \ {Top(S)}]
      BY <1>1, <3>1
    <3>3. A[S] = IF S = {} THEN begin
                 ELSE Put(A[S \ {Top(S)}], Make(Top(S), g, h, A[S \ {Top(S)}]))
      BY <3>1 DEF Passes
    <3> HIDE DEF B
    <3> QED BY <3>2, <3>3
  <2> QED BY <2>1, <2>2
<1>3. B[M] = Put(A[L], Make(e, g, h, A[L]))
  <2>1. M \in SUBSET M /\ e \in M /\ M \ {e} = L
    BY <1>0
  <2>2. B[M] = Now(M)
    BY <1>1, <2>1
  <2> QED BY <2>1, <2>2
<1> HIDE DEF B
<1>4. Passes(B, M, g, h, begin)
  BY <1>2 DEF Passes
<1> QED BY <1>3, <1>4

LEMMA PassesExist ==
  ASSUME NEW L \in SUBSET Nat, IsFiniteSet(L), NEW g, NEW h, NEW begin
  PROVE  \E A : Passes(A, L, g, h, begin)
<1> DEFINE Bad == {c \in Nat : \E T \in SUBSET Nat :
                     /\ IsFiniteSet(T) /\ Cardinality(T) = c
                     /\ ~\E A : Passes(A, T, g, h, begin)}
<1>1. ASSUME Bad # {} PROVE FALSE
  <2>1. PICK c \in Bad : \A m \in Nat : m < c => m \notin Bad
    <3>1. Bad \in SUBSET Nat
      OBVIOUS
    <3> HIDE DEF Bad
    <3> QED BY <1>1, <3>1, LeastNumber
  <2>2. PICK T \in SUBSET Nat :
          IsFiniteSet(T) /\ Cardinality(T) = c /\ ~\E A : Passes(A, T, g, h, begin)
    OBVIOUS
  <2>3. CASE T = {}
    <3>1. Passes([S \in {{}} |-> begin], T, g, h, begin)
      BY <2>3 DEF Passes
    <3> QED BY <2>2, <3>1
  <2>4. CASE T # {}
    <3>1. PICK e \in T : e \in Nat /\ \A f \in T : f <= e
      BY <2>2, <2>4, TopIsThere
    <3>2. /\ IsFiniteSet(T \ {e}) /\ Cardinality(T \ {e}) \in Nat /\ Cardinality(T \ {e}) < c
          /\ T \ {e} \in SUBSET Nat
      BY <2>2, SmallerByOne
    <3>3. \E A : Passes(A, T \ {e}, g, h, begin)
      BY <2>1, <3>2
    <3>4. PICK A : Passes(A, T \ {e}, g, h, begin)
      BY <3>3
    <3>5. OneMore(T \ {e}, e, T)
      BY <3>1, <3>2 DEF OneMore
    <3>6. \E B : Passes(B, T, g, h, begin)
      BY <3>4, <3>5, PassOneMore
    <3> QED BY <2>2, <3>6
  <2> QED BY <2>3, <2>4
<1>2. Cardinality(L) \in Nat
  BY FS_CardinalityType
<1> QED BY <1>1, <1>2

\* Passes that begin with twins have twins all along.
LEMMA PassesAreTwins ==
  ASSUME NEW L \in SUBSET Enhancers, NEW g, NEW h, NEW i, NEW r, NEW s, Twins(r, s),
         NEW A, NEW B, Passes(A, L, g, h, r), Passes(B, L, g, i, s)
  PROVE  Twins(A[L], B[L])
<1>0. L \in SUBSET Nat /\ IsFiniteSet(L)
  BY PlanAssumption, FS_Subset
<1> DEFINE Bad == {c \in Nat : \E T \in SUBSET L : Cardinality(T) = c /\ ~Twins(A[T], B[T])}
<1>1. ASSUME Bad # {} PROVE FALSE
  <2>1. PICK c \in Bad : \A m \in Nat : m < c => m \notin Bad
    <3>1. Bad \in SUBSET Nat
      OBVIOUS
    <3> HIDE DEF Bad
    <3> QED BY <1>1, <3>1, LeastNumber
  <2>2. PICK T \in SUBSET L : Cardinality(T) = c /\ ~Twins(A[T], B[T])
    OBVIOUS
  <2>3. IsFiniteSet(T) /\ T \in SUBSET Nat
    BY <1>0, FS_Subset
  <2>4. CASE T = {}
    <3>1. A[T] = r /\ B[T] = s
      BY <2>4 DEF Passes
    <3> QED BY <2>2, <3>1
  <2>5. CASE T # {}
    <3>1. PICK e \in T : e = Top(T)
      BY <2>3, <2>5, TopIsThere
    <3>2. /\ Cardinality(T \ {e}) \in Nat /\ Cardinality(T \ {e}) < c /\ T \ {e} \in SUBSET L
      BY <2>2, <2>3, SmallerByOne
    <3>3. Twins(A[T \ {e}], B[T \ {e}])
      BY <2>1, <3>2
    <3>4. Twins(Make(e, g, h, A[T \ {e}]), Make(e, g, i, B[T \ {e}]))
      BY <3>3, MakeTwins
    <3>5. Twins(Put(A[T \ {e}], Make(e, g, h, A[T \ {e}])),
                Put(B[T \ {e}], Make(e, g, i, B[T \ {e}])))
      BY <3>3, <3>4, PutTwins
    <3>6. /\ A[T] = Put(A[T \ {e}], Make(e, g, h, A[T \ {e}]))
          /\ B[T] = Put(B[T \ {e}], Make(e, g, i, B[T \ {e}]))
      BY <2>5, <3>1 DEF Passes
    <3> QED BY <2>2, <3>5, <3>6
  <2> QED BY <2>4, <2>5
<1>2. Cardinality(L) \in Nat
  BY <1>0, FS_CardinalityType
<1> QED BY <1>1, <1>2

\* The pass by which the property is defined.
LEMMA InTurnPasses ==
  ASSUME NEW L \in SUBSET Enhancers, NEW begin
  PROVE  \E A : Passes(A, L, call.graph, commits, begin) /\ InTurn(L, begin) = A[L]
<1> DEFINE Body(after, S) ==
             IF S = {} THEN begin
             ELSE LET last == CHOOSE e \in S : \A f \in S : f <= e
                      reg == after[S \ {last}]
                  IN Put(reg, Made(last, reg))
           Is(after) == after = [S \in SUBSET L |-> Body(after, S)]
<1>0. L \in SUBSET Nat /\ IsFiniteSet(L)
  BY PlanAssumption, FS_Subset
<1>1. \A after, S : Body(after, S) =
        IF S = {} THEN begin
        ELSE Put(after[S \ {Top(S)}], Make(Top(S), call.graph, commits, after[S \ {Top(S)}]))
  BY DEF Top, Made, Make
<1>2. \E after : Is(after)
  <2>1. PICK A : Passes(A, L, call.graph, commits, begin)
    BY <1>0, PassesExist
  <2> DEFINE B == [S \in SUBSET L |-> A[S]]
  <2>2. \A S \in SUBSET L : B[S] = A[S] /\ B[S \ {Top(S)}] = A[S \ {Top(S)}]
    OBVIOUS
  <2>3. ASSUME NEW S \in SUBSET L PROVE B[S] = Body(B, S)
    <3>1. B[S] = A[S] /\ B[S \ {Top(S)}] = A[S \ {Top(S)}]
      BY <2>2
    <3>2. A[S] = IF S = {} THEN begin
                 ELSE Put(A[S \ {Top(S)}],
                          Make(Top(S), call.graph, commits, A[S \ {Top(S)}]))
      BY <2>1 DEF Passes
    <3>3. Body(B, S) = IF S = {} THEN begin
                       ELSE Put(B[S \ {Top(S)}],
                                Make(Top(S), call.graph, commits, B[S \ {Top(S)}]))
      BY <1>1
    <3> HIDE DEF B, Body
    <3> QED BY <3>1, <3>2, <3>3
  <2>4. B = [S \in SUBSET L |-> B[S]]
    OBVIOUS
  <2> HIDE DEF B, Body
  <2>5. Is(B)
    BY <2>3, <2>4
  <2> QED BY <2>5
<1>3. InTurn(L, begin) = (CHOOSE after : Is(after))[L]
  BY DEF InTurn
<1>4. PICK A : A = (CHOOSE after : Is(after)) /\ Is(A)
  BY <1>2
<1>5. \A S \in SUBSET L : A[S] = Body(A, S)
  <2> HIDE DEF Body
  <2> QED BY <1>4
<1>6. Passes(A, L, call.graph, commits, begin)
  <2> HIDE DEF Body
  <2> QED BY <1>1, <1>5 DEF Passes
<1> QED BY <1>3, <1>4, <1>6

\* The registry that begins a level and the one after it, made at one moment of the
\* history: what each makes of the first, or one enhancer after the other.
InOrder(L, g, begin, end) == \E A : Passes(A, L, g, 0, begin) /\ Twins(end, A[L])
LevelRuns(L, begin, end) ==
  IF call.parallel THEN Twins(end, Put(begin, AllMake(L, call.graph, 0, begin)))
  ELSE InOrder(L, call.graph, begin, end)

\* F has the registry after each level that is over.
Follows(F) ==
  /\ F[0] = Begun
  /\ \A k \in 1..turn - 1 : LevelRuns(levels[k], F[k - 1], F[k])

\* Of this level, those whose artifacts are in the registry, and those whose are not.
PutStages == {"cached", "executed", "failed", "stored", "writing"}
HasPut == {e \in Level : stage[e] \in PutStages}
Unput == {"hit", "missed", "computed"}

\* What has begun and not put has the key of what it began with.
KeysNameInputs(open) ==
  \A e \in Level : stage[e] \in Unput =>
    IF call.parallel THEN ~Fails(e, open) /\ key[e] = CacheKey(e, call.graph, open)
    ELSE ~Fails(e, registry) /\ key[e] = CacheKey(e, call.graph, registry)

OneByOne ==
  \A e, f \in Level : e < f => stage[e] \in PutStages \/ stage[f] = "waiting"

DeliveryInv ==
  phase \in {"planning", "running", "delivered"} =>
    /\ planning \in {"levels", "made"} => ~DuplicateProducer(chosen)
    /\ turn - 1 <= Len(levels) /\ (phase = "delivered" => turn > Len(levels))
    /\ \A e \in Enhancers : stage[e] # "thrown"
    /\ ~call.parallel => OneByOne
    /\ \E F : /\ Follows(F) /\ LevelRuns(HasPut, F[turn - 1], registry)
              /\ KeysNameInputs(F[turn - 1])

-----------------------------------------------------------------------------
LEMMA LevelsOfEnhancers ==
  ASSUME PlanInv
  PROVE  /\ Len(levels) \in Nat /\ DOMAIN levels = 1..Len(levels)
         /\ \A k \in 1..Len(levels) : levels[k] \in SUBSET Enhancers
         /\ Level \in SUBSET Enhancers
<1>1. levels \in Seq(SUBSET Enhancers)
  BY DEF PlanInv
<1>2. Len(levels) \in Nat /\ DOMAIN levels = 1..Len(levels)
  BY <1>1, LenProperties
<1>3. \A k \in 1..Len(levels) : levels[k] \in SUBSET Enhancers
  BY <1>1, <1>2, ElementOfSeq
<1> QED BY <1>2, <1>3 DEF Level

\* The functions by which the property is defined, in parallel or in sequence.
RunsTo(p, n, reg) ==
  IF p THEN Put(reg, UNION {Made(e, reg) : e \in levels[n]}) ELSE InTurn(levels[n], reg)
RunAll(p, k, f) ==
  f = [n \in 0..k |-> IF n = 0 THEN Begun ELSE RunsTo(p, n, f[n - 1])]

LEMMA RunsExist ==
  ASSUME NEW p
  PROVE  \A k \in Nat : \E f : RunAll(p, k, f)
<1> DEFINE Bad == {k \in Nat : ~\E f : RunAll(p, k, f)}
<1>1. SUFFICES ASSUME Bad # {} PROVE FALSE
  OBVIOUS
<1>2. PICK k \in Bad : \A m \in Nat : m < k => m \notin Bad
  <2>1. Bad \in SUBSET Nat
    OBVIOUS
  <2> HIDE DEF Bad
  <2> QED BY <1>1, <2>1, LeastNumber
<1>3. CASE k = 0
  <2>1. RunAll(p, 0, [n \in 0..0 |-> Begun])
    BY DEF RunAll
  <2> QED BY <1>3, <2>1
<1>4. CASE k # 0
  <2>1. k \in Nat /\ k - 1 \in Nat /\ k - 1 < k
    BY <1>4
  <2>2. PICK f : RunAll(p, k - 1, f)
    BY <1>2, <2>1
  <2> DEFINE g == [n \in 0..k |-> IF n = k THEN RunsTo(p, k, f[k - 1]) ELSE f[n]]
  <2>3. ASSUME NEW n \in 0..k
        PROVE  g[n] = IF n = 0 THEN Begun ELSE RunsTo(p, n, g[n - 1])
    <3>1. CASE n = k
      <4>1. k - 1 \in 0..k /\ k - 1 # k
        BY <2>1
      <4>2. g[k - 1] = f[k - 1]
        BY <4>1
      <4> QED BY <1>4, <3>1, <4>2
    <3>2. CASE n # k
      <4>1. n \in 0..k - 1 /\ g[n] = f[n]
        BY <2>1, <3>2
      <4>2. f[n] = IF n = 0 THEN Begun ELSE RunsTo(p, n, f[n - 1])
        BY <2>2, <4>1 DEF RunAll
      <4>3. n # 0 => n - 1 \in 0..k /\ n - 1 # k
        BY <2>1, <3>2
      <4>4. n # 0 => g[n - 1] = f[n - 1]
        BY <4>3
      <4> QED BY <4>1, <4>2, <4>4
    <3> QED BY <3>1, <3>2
  <2>4. g = [n \in 0..k |-> g[n]]
    OBVIOUS
  <2> HIDE DEF g
  <2>5. RunAll(p, k, g)
    BY <2>3, <2>4 DEF RunAll
  <2> QED BY <2>5
<1> QED BY <1>3, <1>4

\* One level: a registry that follows and the one that the property computes.
LEMMA LevelsAreTwins ==
  ASSUME NEW n, levels[n] \in SUBSET Enhancers, NEW p \in BOOLEAN, p <=> call.parallel,
         NEW r, NEW s, NEW end, Twins(r, s), LevelRuns(levels[n], r, end)
  PROVE  Twins(end, RunsTo(p, n, s))
<1>1. CASE call.parallel
  <2>1. Twins(end, Put(r, AllMake(levels[n], call.graph, 0, r)))
    BY <1>1 DEF LevelRuns
  <2>2. Twins(AllMake(levels[n], call.graph, 0, r), AllMake(levels[n], call.graph, commits, s))
    BY AllMakeTwins
  <2>3. Twins(end, Put(s, AllMake(levels[n], call.graph, commits, s)))
    BY <2>1, <2>2, PutTwins, TwinsCompose
  <2>4. AllMake(levels[n], call.graph, commits, s) = UNION {Made(e, s) : e \in levels[n]}
    BY DEF AllMake, Make, Made
  <2> QED BY <1>1, <2>3, <2>4 DEF RunsTo
<1>2. CASE ~call.parallel
  <2>1. PICK A : Passes(A, levels[n], call.graph, 0, r) /\ Twins(end, A[levels[n]])
    BY <1>2 DEF LevelRuns, InOrder
  <2>2. PICK B : Passes(B, levels[n], call.graph, commits, s) /\ InTurn(levels[n], s) = B[levels[n]]
    BY InTurnPasses
  <2>3. Twins(A[levels[n]], B[levels[n]])
    BY <2>1, <2>2, PassesAreTwins
  <2>4. Twins(end, InTurn(levels[n], s))
    BY <2>1, <2>2, <2>3, TwinsCompose
  <2> QED BY <1>2, <2>4 DEF RunsTo
<1> QED BY <1>1, <1>2

LEMMA BegunIsOwned == ASSUME NEW g, NEW b PROVE Owned(InitialRegistry(g, b))
BY HistoryAssumption DEF Owned, InitialRegistry

\* All of them.
LEMMA RunsAreTwins ==
  ASSUME PlanInv, NEW p \in BOOLEAN, p <=> call.parallel, turn \in Nat, turn - 1 = Len(levels),
         NEW F, Follows(F), NEW f, RunAll(p, Len(levels), f)
  PROVE  Twins(F[Len(levels)], f[Len(levels)])
<1>0. /\ Len(levels) \in Nat /\ \A k \in 1..Len(levels) : levels[k] \in SUBSET Enhancers
  BY LevelsOfEnhancers
<1> DEFINE Bad == {k \in Nat : k <= Len(levels) /\ ~Twins(F[k], f[k])}
<1>1. SUFFICES ASSUME Bad # {} PROVE FALSE
  BY <1>0
<1>2. PICK k \in Bad : \A m \in Nat : m < k => m \notin Bad
  <2>1. Bad \in SUBSET Nat
    OBVIOUS
  <2> HIDE DEF Bad
  <2> QED BY <1>1, <2>1, LeastNumber
<1>3. k \in 0..Len(levels) /\ ~Twins(F[k], f[k])
  BY <1>0
<1>4. f[k] = IF k = 0 THEN Begun ELSE RunsTo(p, k, f[k - 1])
  BY <1>3 DEF RunAll
<1>5. CASE k = 0
  <2>1. F[k] = Begun /\ f[k] = Begun
    BY <1>4, <1>5 DEF Follows
  <2> QED BY <1>3, <2>1, BegunIsOwned, TwinsCompose DEF Begun
<1>6. CASE k # 0
  <2>1. k \in 1..turn - 1 /\ k \in 1..Len(levels) /\ k - 1 \in Nat /\ k - 1 < k /\ k - 1 <= Len(levels)
    BY <1>0, <1>3, <1>6
  <2>2. LevelRuns(levels[k], F[k - 1], F[k])
    BY <2>1 DEF Follows
  <2>3. Twins(F[k - 1], f[k - 1])
    BY <1>2, <2>1
  <2>4. Twins(F[k], RunsTo(p, k, f[k - 1]))
    BY <1>0, <2>1, <2>2, <2>3, LevelsAreTwins
  <2> QED BY <1>3, <1>4, <1>6, <2>4
<1> QED BY <1>5, <1>6

LEMMA DeliveredAgree ==
  ASSUME PlanInv, RunInv, DeliveryInv PROVE DeliveryIsReproducible
<1> SUFFICES ASSUME phase = "delivered"
             PROVE  Pure(registry) = Pure(IF call.parallel THEN AfterLevelAtOnce[Len(levels)]
                                          ELSE AfterLevelInTurn[Len(levels)])
  BY DEF DeliveryIsReproducible
<1>1. Len(levels) \in Nat /\ turn \in Nat \ {0} /\ DOMAIN levels = 1..Len(levels)
  BY LevelsOfEnhancers DEF RunInv
<1>2. /\ turn - 1 <= Len(levels) /\ turn > Len(levels)
      /\ \E F : Follows(F) /\ LevelRuns(HasPut, F[turn - 1], registry)
  BY DEF DeliveryInv
<1>3. PICK F : Follows(F) /\ LevelRuns(HasPut, F[turn - 1], registry)
  BY <1>2
<1>4. turn - 1 = Len(levels) /\ turn \notin DOMAIN levels
  BY <1>1, <1>2
<1>5. HasPut = {}
  BY <1>4 DEF HasPut, Level
<1>6. Twins(registry, F[Len(levels)])
  <2>1. CASE call.parallel
    <3>1. AllMake({}, call.graph, 0, F[turn - 1]) = {}
      BY DEF AllMake
    <3> QED BY <1>3, <1>4, <1>5, <2>1, <3>1, NothingIsTwins DEF LevelRuns
  <2>2. CASE ~call.parallel
    <3>1. PICK A : Passes(A, {}, call.graph, 0, F[turn - 1]) /\ Twins(registry, A[{}])
      BY <1>3, <1>5, <2>2 DEF LevelRuns, InOrder
    <3>2. A[{}] = F[turn - 1]
      BY <3>1 DEF Passes
    <3> QED BY <1>4, <3>1, <3>2
  <2> QED BY <2>1, <2>2
<1>7. ASSUME NEW p \in BOOLEAN, p <=> call.parallel, NEW f, RunAll(p, Len(levels), f)
      PROVE  Pure(registry) = Pure(f[Len(levels)])
  <2>1. Twins(F[Len(levels)], f[Len(levels)])
    BY <1>1, <1>3, <1>4, <1>7, RunsAreTwins
  <2> QED BY <1>6, <2>1 DEF Twins
<1>8. CASE call.parallel
  <2>1. AfterLevelAtOnce = CHOOSE f : RunAll(TRUE, Len(levels), f)
    BY DEF AfterLevelAtOnce, RunAll, RunsTo
  <2>2. RunAll(TRUE, Len(levels), AfterLevelAtOnce)
    BY <1>1, <2>1, RunsExist
  <2> QED BY <1>7, <1>8, <2>2
<1>9. CASE ~call.parallel
  <2>1. AfterLevelInTurn = CHOOSE f : RunAll(FALSE, Len(levels), f)
    BY DEF AfterLevelInTurn, RunAll, RunsTo
  <2>2. RunAll(FALSE, Len(levels), AfterLevelInTurn)
    BY <1>1, <2>1, RunsExist
  <2> QED BY <1>7, <1>9, <2>2
<1> QED BY <1>8, <1>9

\* A step of a level keeps the invariant if what it leaves is as the invariant says.
LEMMA LevelGoesOn ==
  ASSUME PlanInv, DeliveryInv, UNCHANGED <<planVars, call, turn>>,
         phase \in {"planning", "running", "delivered"},
         phase' = phase \/ (phase' = "delivered" /\ turn > Len(levels)) \/ phase' = "running",
         \A e \in Enhancers : stage'[e] # "thrown",
         ~call.parallel => \A e, f \in Level :
           e < f => stage'[e] \in PutStages \/ stage'[f] = "waiting",
         NEW F, Follows(F),
         LevelRuns({e \in Level : stage'[e] \in PutStages}, F[turn - 1], registry'),
         \A e \in Level : stage'[e] \in Unput =>
           IF call.parallel THEN ~Fails(e, F[turn - 1]) /\ key'[e] = CacheKey(e, call.graph, F[turn - 1])
           ELSE ~Fails(e, registry') /\ key'[e] = CacheKey(e, call.graph, registry')
  PROVE  DeliveryInv'
<1>1. /\ levels' = levels /\ turn' = turn /\ call' = call /\ planning' = planning
      /\ chosen' = chosen /\ Level' = Level
  BY DEF planVars, Level
<1>2. Follows(F)'
  BY <1>1 DEF Follows, Begun, LevelRuns, InOrder
<1>3. LevelRuns(HasPut, F[turn - 1], registry)'
  BY <1>1 DEF LevelRuns, InOrder, HasPut
<1>4. KeysNameInputs(F[turn - 1])'
  BY <1>1 DEF KeysNameInputs
<1>5. ~call'.parallel => OneByOne'
  BY <1>1 DEF OneByOne
<1>6. /\ planning' \in {"levels", "made"} => ~DuplicateProducer(chosen)'
      /\ turn' - 1 <= Len(levels') /\ (phase' = "delivered" => turn' > Len(levels'))
  BY <1>1 DEF DeliveryInv, DuplicateProducer, Producers
<1>7. \E G : /\ Follows(G)' /\ LevelRuns(HasPut, G[turn - 1], registry)'
             /\ KeysNameInputs(G[turn - 1])'
  BY <1>2, <1>3, <1>4
<1> QED BY <1>5, <1>6, <1>7 DEF DeliveryInv

\* What the invariant says of a call that has not been rejected.
LEMMA DeliveryParts ==
  ASSUME PlanInv, DeliveryInv, phase \in {"planning", "running", "delivered"}
  PROVE  /\ planning \in {"levels", "made"} => ~DuplicateProducer(chosen)
         /\ turn - 1 <= Len(levels) /\ (phase = "delivered" => turn > Len(levels))
         /\ \A e \in Enhancers : stage[e] # "thrown"
         /\ ~call.parallel => OneByOne
         /\ \E F : /\ Follows(F) /\ LevelRuns(HasPut, F[turn - 1], registry)
                   /\ KeysNameInputs(F[turn - 1])
BY DEF DeliveryInv

\* Steps after which the same enhancers have put, and the same have not.
LEMMA NothingPut ==
  ASSUME PlanInv, RunInv, DeliveryInv, UNCHANGED <<planVars, call, turn, registry, key>>,
         phase' = phase \/ (phase' = "delivered" /\ phase = "running" /\ turn > Len(levels))
           \/ (phase' = "running" /\ phase = "planning") \/ phase' \in {"idle", "rejected"},
         \A e \in Enhancers :
           /\ stage'[e] # "thrown"
           /\ stage'[e] \in PutStages <=> stage[e] \in PutStages
           /\ stage'[e] \in Unput <=> stage[e] \in Unput
           /\ stage[e] = "waiting" => stage'[e] = "waiting"
  PROVE  DeliveryInv'
<1>1. CASE phase' \in {"idle", "rejected"} \/ phase \notin {"planning", "running", "delivered"}
  BY <1>1 DEF DeliveryInv
<1>2. CASE phase' \notin {"idle", "rejected"} /\ phase \in {"planning", "running", "delivered"}
  <2>1. PICK F : /\ Follows(F) /\ LevelRuns(HasPut, F[turn - 1], registry)
                 /\ KeysNameInputs(F[turn - 1])
    BY <1>2, DeliveryParts
  <2>2. Level \in SUBSET Enhancers
    BY LevelsOfEnhancers
  <2>3. {e \in Level : stage'[e] \in PutStages} = HasPut
    BY <2>2 DEF HasPut
  <2>4. LevelRuns({e \in Level : stage'[e] \in PutStages}, F[turn - 1], registry')
    BY <2>1, <2>3
  <2>5. \A e \in Level : stage'[e] \in Unput =>
          IF call.parallel THEN ~Fails(e, F[turn - 1]) /\ key'[e] = CacheKey(e, call.graph, F[turn - 1])
          ELSE ~Fails(e, registry') /\ key'[e] = CacheKey(e, call.graph, registry')
    BY <2>1, <2>2 DEF KeysNameInputs
  <2>6. ~call.parallel => \A e, f \in Level :
          e < f => stage'[e] \in PutStages \/ stage'[f] = "waiting"
    BY <1>2, <2>2, DeliveryParts DEF OneByOne
  <2> QED BY <1>2, <2>1, <2>4, <2>5, <2>6, LevelGoesOn
<1> QED BY <1>1, <1>2

\* What two of a level make are different artifacts.
LEMMA OverwritesNone ==
  ASSUME ~DuplicateProducer(chosen), chosen \subseteq Enhancers,
         NEW D \in SUBSET chosen, NEW e \in chosen, e \notin D, NEW g, NEW o
  PROVE  Put(Put(o, AllMake(D, g, 0, o)), Make(e, g, 0, o)) = Put(o, AllMake(D \cup {e}, g, 0, o))
<1> DEFINE U == AllMake(D, g, 0, o)
           M == Make(e, g, 0, o)
<1>1. \A f : Ids(Make(f, g, 0, o)) \subseteq Produces[f]
  <2>1. \A f : Ids(Output(f, g, 0, Seen(f, o))) = Produces[f]
    BY OutputIds
  <2> QED BY <2>1 DEF Make, Ids
<1>2. \A f \in D : Produces[f] \cap Produces[e] = {}
  <2> SUFFICES ASSUME NEW f \in D, NEW a \in Produces[f], a \in Produces[e] PROVE FALSE
    OBVIOUS
  <2>1. a \in Artifacts /\ f \in chosen /\ f # e
    BY PlanAssumption
  <2>2. f \in Producers(chosen, a) /\ e \in Producers(chosen, a)
    BY <2>1 DEF Producers
  <2> QED BY <2>1, <2>2 DEF DuplicateProducer
<1>3. \A v \in U : v.artifact \in Ids(U) /\ v.artifact \notin Ids(M)
  <2> SUFFICES ASSUME NEW f \in D, NEW v \in Make(f, g, 0, o)
               PROVE  v.artifact \in Ids(U) /\ v.artifact \notin Ids(M)
    BY DEF AllMake
  <2>1. v \in U
    BY DEF AllMake
  <2>2. v.artifact \in Ids(U) /\ v.artifact \in Ids(Make(f, g, 0, o))
    <3> HIDE DEF U
    <3> QED BY <2>1 DEF Ids
  <2>3. v.artifact \in Produces[f]
    BY <1>1, <2>2
  <2>4. Ids(M) \subseteq Produces[e]
    BY <1>1
  <2> HIDE DEF U, M
  <2> QED BY <1>2, <2>2, <2>3, <2>4
<1>4. AllMake(D \cup {e}, g, 0, o) = U \cup M
  BY DEF AllMake
<1> HIDE DEF U, M
<1>5. \A i : i \in Ids(U \cup M) <=> i \in Ids(U) \/ i \in Ids(M)
  BY DEF Ids
<1>6. Put(Put(o, U), M) = Put(o, U \cup M)
  <2>1. ASSUME NEW v PROVE v \in Put(Put(o, U), M) <=> v \in Put(o, U \cup M)
    BY <1>3, <1>5 DEF Put
  <2> QED BY <2>1
<1> QED BY <1>4, <1>6 DEF U, M

\* What comes from the cache or was computed is what its enhancer makes of the
\* registry that its key was made of.
LEMMA ResultIsTwin ==
  ASSUME CacheInv, NEW e \in Enhancers, stage[e] \in {"hit", "computed"}, NEW at,
         ~Fails(e, at), key[e] = CacheKey(e, call.graph, at)
  PROVE  Twins(result[e], Make(e, call.graph, 0, at))
<1>1. stage[e] \in InFlight \ {"missed"}
  BY DEF InFlight
<1>2. IsWhatItsKeySays(<<key[e], result[e]>>)
  BY <1>1 DEF CacheInv
<1>3. PICK h : result[e] = Output(e, call.graph, h, Seen(e, at))
  BY <1>2 DEF IsWhatItsKeySays, CacheKey
<1>4. Make(e, call.graph, 0, at) = Output(e, call.graph, 0, Seen(e, at))
  BY DEF Make
<1> QED BY <1>3, <1>4, OutputTwins

LEMMA LevelChosen ==
  ASSUME PlanInv, DeliveryInv, planning = "made", phase \in {"planning", "running", "delivered"}
  PROVE  /\ Level \subseteq chosen /\ chosen \subseteq Enhancers /\ Level \in SUBSET Nat
         /\ ~DuplicateProducer(chosen)
BY PlanAssumption, DeliveryParts DEF PlanInv, Placed, Level

\* One of a level puts its artifacts.
LEMMA PuttingKeeps ==
  ASSUME PlanInv, RunInv, CacheInv, DeliveryInv, NEW e \in Enhancers,
         stage[e] \in {"hit", "computed"}, NEW s \in {"cached", "stored"},
         stage' = [stage EXCEPT ![e] = s], registry' = Put(registry, result[e]),
         UNCHANGED <<planVars, phase, call, turn, key>>
  PROVE  DeliveryInv'
<1>1. CASE phase \notin {"planning", "running", "delivered"}
  BY <1>1 DEF DeliveryInv
<1>2. CASE phase \in {"planning", "running", "delivered"}
  <2>1. PICK F : /\ Follows(F) /\ LevelRuns(HasPut, F[turn - 1], registry)
                 /\ KeysNameInputs(F[turn - 1])
    BY <1>2, DeliveryParts
  <2>2. e \in Level /\ planning = "made"
    BY LevelMates DEF InFlight, RunInv
  <2>3. /\ Level \subseteq chosen /\ chosen \subseteq Enhancers /\ Level \in SUBSET Nat
        /\ ~DuplicateProducer(chosen)
    BY <1>2, <2>2, LevelChosen
  <2>4. /\ stage'[e] = s /\ \A f \in Enhancers \ {e} : stage'[f] = stage[f]
        /\ s \in PutStages /\ s \notin Unput /\ s # "thrown"
        /\ stage[e] \in Unput /\ stage[e] \notin PutStages /\ stage[e] # "waiting"
    BY DEF RunInv, PutStages, Unput
  <2>5. HasPut \subseteq Level /\ e \notin HasPut
    BY <2>4 DEF HasPut
  <2>6. {f \in Level : stage'[f] \in PutStages} = HasPut \cup {e}
    BY <2>2, <2>3, <2>4 DEF HasPut
  <2>7. \A f \in Enhancers : stage'[f] # "thrown"
    BY <1>2, <2>4, DeliveryParts
  <2>8. CASE call.parallel
    <3>1. PICK o : o = F[turn - 1]
      OBVIOUS
    <3>2. ~Fails(e, o) /\ key[e] = CacheKey(e, call.graph, o)
      BY <2>1, <2>2, <2>4, <2>8, <3>1 DEF KeysNameInputs
    <3>3. Twins(result[e], Make(e, call.graph, 0, o))
      BY <3>2, ResultIsTwin
    <3>4. Twins(registry, Put(o, AllMake(HasPut, call.graph, 0, o)))
      BY <2>1, <2>8, <3>1 DEF LevelRuns
    <3>5. Twins(Put(registry, result[e]),
                Put(Put(o, AllMake(HasPut, call.graph, 0, o)), Make(e, call.graph, 0, o)))
      BY <3>3, <3>4, PutTwins
    <3>6. Put(Put(o, AllMake(HasPut, call.graph, 0, o)), Make(e, call.graph, 0, o))
            = Put(o, AllMake(HasPut \cup {e}, call.graph, 0, o))
      BY <2>2, <2>3, <2>5, OverwritesNone
    <3>7. LevelRuns(HasPut \cup {e}, o, registry')
      BY <2>8, <3>5, <3>6 DEF LevelRuns
    <3>8. \A f \in Level : stage'[f] \in Unput =>
            ~Fails(f, o) /\ key'[f] = CacheKey(f, call.graph, o)
      BY <2>1, <2>3, <2>4, <2>8, <3>1 DEF KeysNameInputs
    <3> QED BY <1>2, <2>1, <2>6, <2>7, <2>8, <3>1, <3>7, <3>8, LevelGoesOn
  <2>9. CASE ~call.parallel
    <3>1. OneByOne
      BY <1>2, <2>9, DeliveryParts
    <3>2. ~Fails(e, registry) /\ key[e] = CacheKey(e, call.graph, registry)
      BY <2>1, <2>2, <2>4, <2>9 DEF KeysNameInputs
    <3>3. Twins(result[e], Make(e, call.graph, 0, registry))
      BY <3>2, ResultIsTwin
    <3>4. PICK A : /\ Passes(A, HasPut, call.graph, 0, F[turn - 1])
                   /\ Twins(registry, A[HasPut])
      BY <2>1, <2>9 DEF LevelRuns, InOrder
    <3>5. \A f \in HasPut : f < e
      <4> SUFFICES ASSUME NEW f \in HasPut PROVE f < e
        OBVIOUS
      <4>1. f \in Nat /\ e \in Nat /\ f # e /\ f \in Level /\ stage[f] \in PutStages
        BY <2>2, <2>3, <2>5 DEF HasPut
      <4>2. ~(e < f)
        BY <2>2, <2>4, <3>1, <4>1 DEF OneByOne, PutStages
      <4> QED BY <4>1, <4>2
    <3>6. PICK B : /\ Passes(B, HasPut \cup {e}, call.graph, 0, F[turn - 1])
                   /\ B[HasPut \cup {e}] = Put(A[HasPut], Make(e, call.graph, 0, A[HasPut]))
      <4>1. OneMore(HasPut, e, HasPut \cup {e})
        BY <2>2, <2>3, <2>5, <3>5 DEF OneMore
      <4> QED BY <3>4, <4>1, PassOneMore
    <3>7. Twins(Make(e, call.graph, 0, registry), Make(e, call.graph, 0, A[HasPut]))
      BY <3>4, MakeTwins
    <3>8. Twins(Put(registry, result[e]), B[HasPut \cup {e}])
      <4>1. B[HasPut \cup {e}] = Put(A[HasPut], Make(e, call.graph, 0, A[HasPut]))
        BY <3>6
      <4>2. Twins(result[e], Make(e, call.graph, 0, A[HasPut]))
        BY <3>3, <3>7, TwinsCompose
      <4> QED BY <3>4, <4>1, <4>2, PutTwins
    <3>9. LevelRuns(HasPut \cup {e}, F[turn - 1], registry')
      BY <2>9, <3>6, <3>8 DEF LevelRuns, InOrder
    <3>10. \A f \in Level : stage'[f] \notin Unput
      <4> SUFFICES ASSUME NEW f \in Level, f # e, stage[f] \in Unput PROVE FALSE
        BY <2>3, <2>4
      <4>1. f \in Nat /\ e \in Nat
        BY <2>2, <2>3
      <4>2. e < f \/ f < e
        BY <4>1
      <4> QED BY <2>2, <2>4, <3>1, <4>2 DEF OneByOne, PutStages, Unput
    <3>11. \A a, b \in Level : a < b => stage'[a] \in PutStages \/ stage'[b] = "waiting"
      <4> SUFFICES ASSUME NEW a \in Level, NEW b \in Level, a < b
                   PROVE  stage'[a] \in PutStages \/ stage'[b] = "waiting"
        OBVIOUS
      <4>1. stage[a] \in PutStages \/ stage[b] = "waiting"
        BY <3>1 DEF OneByOne
      <4>2. CASE a = e
        BY <2>4, <4>2
      <4>3. CASE a # e
        <5>1. stage'[a] = stage[a]
          BY <2>3, <2>4, <4>3
        <5>2. stage[b] = "waiting" => b # e /\ stage'[b] = stage[b]
          BY <2>3, <2>4
        <5> QED BY <4>1, <5>1, <5>2
      <4> QED BY <4>2, <4>3
    <3> QED BY <1>2, <2>1, <2>6, <2>7, <2>9, <3>9, <3>10, <3>11, LevelGoesOn
  <2> QED BY <2>8, <2>9
<1> QED BY <1>1, <1>2

\* What an enhancer that begins has.
LEMMA BeginsWith ==
  ASSUME RunInv, NEW es \in SUBSET Waiting, Level \in SUBSET Enhancers, Starting(es)
  PROVE  /\ \A e \in es : /\ stage'[e] = IF Fails(e, registry) THEN "failed" ELSE stage'[e]
                          /\ ~Fails(e, registry) => stage'[e] \in {"hit", "missed"}
                          /\ key'[e] = CacheKey(e, call.graph, registry)
         /\ \A e \in Enhancers \ es : stage'[e] = stage[e] /\ key'[e] = key[e]
         /\ registry' = registry /\ UNCHANGED <<planVars, phase, call, turn>>
         /\ es \subseteq Enhancers
<1>1. es \subseteq Enhancers
  BY DEF Waiting
<1>2. \A e : /\ Fails(e, registry) => FirstStage(e) = "failed"
             /\ ~Fails(e, registry) => FirstStage(e) \in {"hit", "missed"}
  BY DEF FirstStage
<1>3. /\ \A e \in es : stage'[e] = FirstStage(e) /\ key'[e] = CacheKey(e, call.graph, registry)
      /\ \A e \in Enhancers \ es : stage'[e] = stage[e] /\ key'[e] = key[e]
  BY <1>1 DEF Starting
<1>4. registry' = registry /\ UNCHANGED <<planVars, phase, call, turn>>
  BY DEF Starting
<1> QED BY <1>1, <1>2, <1>3, <1>4

LEMMA StartLevelKeeps ==
  ASSUME PlanInv, RunInv, DeliveryInv, StartLevel PROVE DeliveryInv'
<1>0. phase = "running" /\ call.parallel /\ Waiting = Level /\ Starting(Level)
      /\ Level \in SUBSET Enhancers
  BY LevelsOfEnhancers DEF StartLevel
<1>1. /\ \A e \in Level : /\ stage'[e] = IF Fails(e, registry) THEN "failed" ELSE stage'[e]
                          /\ ~Fails(e, registry) => stage'[e] \in {"hit", "missed"}
                          /\ key'[e] = CacheKey(e, call.graph, registry)
      /\ \A e \in Enhancers \ Level : stage'[e] = stage[e] /\ key'[e] = key[e]
      /\ registry' = registry /\ UNCHANGED <<planVars, phase, call, turn>>
  BY <1>0, BeginsWith
<1>2. PICK F : Follows(F) /\ LevelRuns(HasPut, F[turn - 1], registry)
  BY <1>0, DeliveryParts
<1>3. PICK o : o = F[turn - 1]
  OBVIOUS
<1>4. HasPut = {}
  BY <1>0 DEF HasPut, Waiting, PutStages
<1>5. \A D : AllMake({}, call.graph, 0, D) = {}
  BY DEF AllMake
<1>6. Twins(registry, o)
  BY <1>0, <1>2, <1>3, <1>4, <1>5, NothingIsTwins DEF LevelRuns
<1>7. \A e \in Level : Seen(e, registry) = Seen(e, o) /\ (Fails(e, registry) <=> Fails(e, o))
  BY <1>0, <1>6, TwinsAreSeen
<1>8. \A e \in Level : /\ stage'[e] \in PutStages => Fails(e, o)
                       /\ stage'[e] \in Unput => ~Fails(e, o)
                       /\ stage'[e] # "thrown"
                       /\ key'[e] = CacheKey(e, call.graph, o)
  BY <1>1, <1>7 DEF PutStages, Unput, CacheKey
<1>9. LevelRuns({e \in Level : stage'[e] \in PutStages}, o, registry')
  <2>1. AllMake({e \in Level : stage'[e] \in PutStages}, call.graph, 0, o) = {}
    BY <1>8 DEF AllMake, Make
  <2> QED BY <1>0, <1>1, <1>6, <2>1, NothingIsTwins DEF LevelRuns
<1>10. \A e \in Enhancers : stage'[e] # "thrown"
  BY <1>0, <1>1, <1>8, DeliveryParts
<1> QED BY <1>0, <1>1, <1>2, <1>3, <1>8, <1>9, <1>10, LevelGoesOn

LEMMA StartOneKeeps ==
  ASSUME PlanInv, RunInv, DeliveryInv, NEW e \in Enhancers, StartOne(e) PROVE DeliveryInv'
<1>0. /\ phase = "running" /\ ~call.parallel /\ Active = {} /\ e \in Waiting
      /\ (\A f \in Waiting : e <= f) /\ Starting({e}) /\ planning = "made"
  BY DEF StartOne, RunInv
<1>1. /\ stage'[e] = IF Fails(e, registry) THEN "failed" ELSE stage'[e]
      /\ ~Fails(e, registry) => stage'[e] \in {"hit", "missed"}
      /\ key'[e] = CacheKey(e, call.graph, registry)
      /\ \A f \in Enhancers \ {e} : stage'[f] = stage[f] /\ key'[f] = key[f]
      /\ registry' = registry /\ UNCHANGED <<planVars, phase, call, turn>>
  BY <1>0, LevelsOfEnhancers, BeginsWith
<1>2. PICK F : Follows(F) /\ LevelRuns(HasPut, F[turn - 1], registry)
  BY <1>0, DeliveryParts
<1>3. /\ e \in Level /\ stage[e] = "waiting" /\ Level \subseteq chosen /\ chosen \subseteq Enhancers
      /\ Level \in SUBSET Nat
  BY <1>0, LevelChosen DEF Waiting
<1>4. OneByOne /\ \A f \in Enhancers : stage[f] # "thrown"
  BY <1>0, DeliveryParts
<1>5. \A f \in Level : stage[f] # "waiting" => stage[f] \in PutStages /\ stage[f] \notin Unput
  <2> SUFFICES ASSUME NEW f \in Level, stage[f] # "waiting"
               PROVE  stage[f] \in PutStages /\ stage[f] \notin Unput
    OBVIOUS
  <2>1. f \in Enhancers /\ stage[f] \in Stages /\ stage[f] \notin InFlight
    BY <1>0, <1>3 DEF RunInv, Active
  <2> QED BY <1>4, <2>1 DEF Stages, InFlight, Over, PutStages, Unput
<1>6. stage'[e] \in {"failed", "hit", "missed"} /\ (stage'[e] = "failed" <=> Fails(e, registry))
  BY <1>1
<1>7. PICK A : Passes(A, HasPut, call.graph, 0, F[turn - 1]) /\ Twins(registry, A[HasPut])
  BY <1>0, <1>2 DEF LevelRuns, InOrder
<1>8. LevelRuns({f \in Level : stage'[f] \in PutStages}, F[turn - 1], registry')
  <2>1. CASE ~Fails(e, registry)
    <3>1. {f \in Level : stage'[f] \in PutStages} = HasPut
      BY <1>1, <1>3, <2>1 DEF HasPut, PutStages
    <3> QED BY <1>1, <1>2, <3>1
  <2>2. CASE Fails(e, registry)
    <3>1. {f \in Level : stage'[f] \in PutStages} = HasPut \cup {e}
      BY <1>1, <1>3, <2>2 DEF HasPut, PutStages
    <3>2. OneMore(HasPut, e, HasPut \cup {e})
      <4>1. \A f \in HasPut : f < e
        <5> SUFFICES ASSUME NEW f \in Level, stage[f] \in PutStages PROVE f < e
          BY DEF HasPut
        <5>1. f \in Nat /\ e \in Nat /\ f # e /\ stage[f] # "waiting"
          BY <1>3 DEF PutStages
        <5>2. ~(e < f)
          BY <1>3, <1>4, <5>1 DEF OneByOne, PutStages
        <5> QED BY <5>1, <5>2
      <4> QED BY <1>3, <4>1 DEF OneMore, HasPut
    <3>3. PICK B : /\ Passes(B, HasPut \cup {e}, call.graph, 0, F[turn - 1])
                   /\ B[HasPut \cup {e}] = Put(A[HasPut], Make(e, call.graph, 0, A[HasPut]))
      BY <1>7, <3>2, PassOneMore
    <3>4. Make(e, call.graph, 0, A[HasPut]) = {}
      BY <1>7, <2>2, TwinsAreSeen DEF Make
    <3>5. Twins(registry', B[HasPut \cup {e}])
      BY <1>1, <1>7, <3>3, <3>4, NothingIsTwins
    <3> QED BY <1>0, <3>1, <3>3, <3>5 DEF LevelRuns, InOrder
  <2> QED BY <2>1, <2>2
<1>9. \A f \in Level : stage'[f] \in Unput =>
        ~Fails(f, registry') /\ key'[f] = CacheKey(f, call.graph, registry')
  <2> SUFFICES ASSUME NEW f \in Level, stage'[f] \in Unput
               PROVE  ~Fails(f, registry') /\ key'[f] = CacheKey(f, call.graph, registry')
    OBVIOUS
  <2>1. f = e
    BY <1>1, <1>3, <1>5 DEF Unput
  <2> QED BY <1>1, <2>1 DEF Unput
<1>10. \A a, b \in Level : a < b => stage'[a] \in PutStages \/ stage'[b] = "waiting"
  <2> SUFFICES ASSUME NEW a \in Level, NEW b \in Level, a < b
               PROVE  stage'[a] \in PutStages \/ stage'[b] = "waiting"
    OBVIOUS
  <2>0. a \in Nat /\ b \in Nat /\ e \in Nat
    BY <1>3
  <2>1. CASE b = e
    <3>1. a # e /\ a \notin Waiting
      BY <1>0, <2>0, <2>1
    <3>2. stage[a] \in PutStages /\ stage'[a] = stage[a]
      BY <1>1, <1>3, <1>5, <3>1 DEF Waiting
    <3> QED BY <3>2
  <2>2. CASE b # e
    <3>1. stage'[b] = stage[b] /\ (stage[a] \in PutStages \/ stage[b] = "waiting")
      BY <1>1, <1>3, <1>4, <2>2 DEF OneByOne
    <3>2. stage[a] \in PutStages => stage'[a] = stage[a]
      BY <1>1, <1>3 DEF PutStages
    <3> QED BY <3>1, <3>2
  <2> QED BY <2>1, <2>2
<1>11. \A f \in Enhancers : stage'[f] # "thrown"
  BY <1>1, <1>4, <1>6
<1> QED BY <1>0, <1>1, <1>2, <1>8, <1>9, <1>10, <1>11, LevelGoesOn

\* A level of which nothing has begun: its registry is the one that the last level left.
LEMMA NobodyHasBegun ==
  ASSUME phase' # "delivered", planning' \in {"levels", "made"} => ~DuplicateProducer(chosen)',
         turn' - 1 <= Len(levels'), \A e \in Enhancers : stage'[e] # "thrown",
         \A e \in Level' : stage'[e] = "waiting",
         NEW F, Follows(F)', NEW begin, begin = F[turn' - 1], Twins(registry', begin)
  PROVE  DeliveryInv'
<1>1. HasPut' = {} /\ \A e \in Level' : stage'[e] \notin Unput
  BY DEF HasPut, PutStages, Unput
<1>2. LevelRuns(HasPut, F[turn - 1], registry)'
  <2>1. AllMake({}, call'.graph, 0, begin) = {}
    BY DEF AllMake
  <2>2. CASE call'.parallel
    <3>1. Twins(registry', Put(begin, AllMake({}, call'.graph, 0, begin)))
      BY <2>1, NothingIsTwins
    <3> QED BY <1>1, <2>2, <3>1 DEF LevelRuns
  <2>3. CASE ~call'.parallel
    <3>1. Passes([S \in {{}} |-> begin], {}, call'.graph, 0, begin)
      BY DEF Passes
    <3>2. InOrder({}, call'.graph, begin, registry')
      BY <3>1 DEF InOrder
    <3> QED BY <1>1, <2>3, <3>2 DEF LevelRuns
  <2> QED BY <2>2, <2>3
<1>3. KeysNameInputs(F[turn - 1])' /\ OneByOne'
  BY <1>1 DEF KeysNameInputs, OneByOne
<1>4. \E G : /\ Follows(G)' /\ LevelRuns(HasPut, G[turn - 1], registry)'
             /\ KeysNameInputs(G[turn - 1])'
  BY <1>2, <1>3
<1> QED BY <1>3, <1>4 DEF DeliveryInv

LEMMA CallKeepsDelivery ==
  ASSUME NEW c \in Calls, NEW g \in Graphs, StartCall(c, g) PROVE DeliveryInv'
<1>1. /\ levels' = <<>> /\ turn' = 1 /\ phase' = "planning" /\ chosen' = c.chosen
      /\ stage' = [e \in Enhancers |-> "waiting"]
      /\ registry' = InitialRegistry(g, c.preloads)
      /\ call'.graph = g /\ call'.preloads = c.preloads
      /\ planning' \in {"levels", "made"} => ~DuplicateProducer(c.chosen)
  BY DEF StartCall, StartPlan
<1>2. Level' = {} /\ turn' - 1 = 0 /\ Len(levels') = 0 /\ 1..turn' - 1 = {}
  BY <1>1 DEF Level
<1>3. ~DuplicateProducer(chosen)' <=> ~DuplicateProducer(c.chosen)
  BY <1>1 DEF DuplicateProducer, Producers
<1>4. PICK F : F = [k \in {0} |-> InitialRegistry(g, c.preloads)]
  OBVIOUS
<1>5. F[0] = InitialRegistry(g, c.preloads)
  BY <1>4
<1>6. Follows(F)'
  BY <1>1, <1>2, <1>5 DEF Follows, Begun
<1>7. Twins(registry', F[0])
  BY <1>1, <1>5, BegunIsOwned, TwinsCompose
<1>8. \A e \in Enhancers : stage'[e] # "thrown"
  BY <1>1
<1> QED BY <1>1, <1>2, <1>3, <1>5, <1>6, <1>7, <1>8, NobodyHasBegun

\* A registry in which nothing of the level has been put.
LEMMA NothingHasBeenPut ==
  ASSUME NEW begin, LevelRuns({}, begin, registry) PROVE Twins(registry, begin)
<1>1. CASE call.parallel
  <2>1. AllMake({}, call.graph, 0, begin) = {}
    BY DEF AllMake
  <2> QED BY <1>1, <2>1, NothingIsTwins DEF LevelRuns
<1>2. CASE ~call.parallel
  <2>1. PICK A : Passes(A, {}, call.graph, 0, begin) /\ Twins(registry, A[{}])
    BY <1>2 DEF LevelRuns, InOrder
  <2>2. A[{}] = begin
    BY <2>1 DEF Passes
  <2> QED BY <2>1, <2>2
<1> QED BY <1>1, <1>2

LEMMA PlanStepKeepsDelivery ==
  ASSUME PlanInv, PlanInv', RunInv, DeliveryInv, PlanStep PROVE DeliveryInv'
<1>1. /\ phase = "planning" /\ phase' = phase /\ turn = 1 /\ turn' = turn /\ call' = call
      /\ chosen' = chosen /\ stage' = stage /\ registry' = registry
      /\ planning' \in {"levels", "made"} => planning \in {"levels", "made"}
      /\ \A e \in Enhancers : stage[e] = "waiting"
  BY DEF PlanStep, runVars, RunInv, PlaceLevel, RefuseCycle, EndPlan
<1>2. Len(levels') \in Nat /\ Level' \in SUBSET Enhancers
  <2>1. levels' \in Seq(SUBSET Enhancers)
    BY DEF PlanInv
  <2>2. Len(levels') \in Nat /\ DOMAIN levels' = 1..Len(levels')
    BY <2>1, LenProperties
  <2>3. \A k \in 1..Len(levels') : levels'[k] \in SUBSET Enhancers
    BY <2>1, <2>2, ElementOfSeq
  <2> QED BY <2>2, <2>3 DEF Level
<1>3. PICK F : Follows(F) /\ LevelRuns(HasPut, F[turn - 1], registry)
  BY <1>1, DeliveryParts
<1>4. HasPut = {}
  BY <1>1, LevelsOfEnhancers DEF HasPut, PutStages
<1>5. Twins(registry', F[turn' - 1])
  BY <1>1, <1>3, <1>4, NothingHasBeenPut
<1>6. turn' - 1 = 0 /\ 1..turn' - 1 = {} /\ turn' - 1 <= Len(levels')
  BY <1>1, <1>2
<1>7. Follows(F)'
  BY <1>1, <1>3, <1>6 DEF Follows, Begun
<1>8. planning' \in {"levels", "made"} => ~DuplicateProducer(chosen)'
  BY <1>1, DeliveryParts DEF DuplicateProducer, Producers
<1>9. (\A e \in Enhancers : stage'[e] # "thrown") /\ \A e \in Level' : stage'[e] = "waiting"
  BY <1>1, <1>2
<1> QED BY <1>1, <1>5, <1>6, <1>7, <1>8, <1>9, NobodyHasBegun

\* A level is over: F goes on with the registry that it leaves.
LEMMA EndLevelKeepsDelivery ==
  ASSUME PlanInv, RunInv, DeliveryInv, EndLevel PROVE DeliveryInv'
<1>1. /\ phase = "running" /\ phase' = phase /\ turn <= Len(levels) /\ turn' = turn + 1
      /\ levels' = levels /\ chosen' = chosen /\ planning' = planning /\ call' = call
      /\ stage' = stage /\ registry' = registry /\ \A e \in Level : stage[e] \in Over
  BY DEF EndLevel, planVars
<1>2. /\ turn \in Nat \ {0} /\ Len(levels) \in Nat /\ DOMAIN levels = 1..Len(levels)
      /\ planning = "made" /\ Placed
  BY <1>1, LevelsOfEnhancers DEF RunInv, PlanInv
<1>3. /\ turn \in DOMAIN levels /\ turn \in 1..turn /\ Level = levels[turn]
      /\ turn' - 1 = turn /\ turn' \in Nat
  BY <1>1, <1>2 DEF Level
<1>4. PICK F : Follows(F) /\ LevelRuns(HasPut, F[turn - 1], registry)
  BY <1>1, DeliveryParts
<1>5. HasPut = levels[turn]
  BY <1>1, <1>3 DEF HasPut, Over, PutStages
<1>6. PICK G : G = [k \in 0..turn |-> IF k = turn THEN registry ELSE F[k]]
  OBVIOUS
<1>7. G[turn] = registry /\ (\A k \in 0..turn - 1 : G[k] = F[k]) /\ G[0] = F[0]
  BY <1>2, <1>6
<1>8. \A k \in 1..turn : LevelRuns(levels[k], G[k - 1], G[k])
  <2> SUFFICES ASSUME NEW k \in 1..turn PROVE LevelRuns(levels[k], G[k - 1], G[k])
    OBVIOUS
  <2>1. CASE k = turn
    <3>1. k - 1 \in 0..turn - 1
      BY <1>2, <2>1
    <3>2. G[k - 1] = F[turn - 1] /\ G[k] = registry
      BY <1>7, <2>1, <3>1
    <3> QED BY <1>4, <1>5, <2>1, <3>2
  <2>2. CASE k # turn
    <3>1. k \in 1..turn - 1 /\ k - 1 \in 0..turn - 1 /\ k \in 0..turn - 1
      BY <1>2, <2>2
    <3>2. G[k - 1] = F[k - 1] /\ G[k] = F[k]
      BY <1>7, <3>1
    <3> QED BY <1>4, <3>1, <3>2 DEF Follows
  <2> QED BY <2>1, <2>2
<1>9. Follows(G)'
  <2>1. G[0] = Begun
    BY <1>4, <1>7 DEF Follows
  <2> QED BY <1>1, <1>3, <1>8, <2>1 DEF Follows, Begun, LevelRuns, InOrder
<1>10. Owned(registry)
  <2>1. CASE call.parallel
    BY <1>4, <2>1, TwinsCompose DEF LevelRuns
  <2>2. CASE ~call.parallel
    BY <1>4, <2>2, TwinsCompose DEF LevelRuns, InOrder
  <2> QED BY <2>1, <2>2
<1>11. Twins(registry', G[turn' - 1])
  BY <1>1, <1>3, <1>7, <1>10, TwinsCompose
<1>12. \A e \in Level' : stage'[e] = "waiting"
  <2> SUFFICES ASSUME NEW e \in Level', stage[e] # "waiting" PROVE FALSE
    BY <1>1
  <2>1. turn + 1 \in DOMAIN levels /\ e \in levels[turn + 1]
    BY <1>1 DEF Level
  <2>2. e \in Enhancers
    BY <1>2, <2>1, LevelsOfEnhancers
  <2>3. PICK j \in DOMAIN levels : j <= turn /\ e \in levels[j]
    BY <2>2 DEF RunInv
  <2>4. j = turn + 1
    BY <1>2, <2>1, <2>3 DEF Placed
  <2> QED BY <1>2, <2>3, <2>4
<1>13. /\ \A e \in Enhancers : stage'[e] # "thrown"
       /\ planning' \in {"levels", "made"} => ~DuplicateProducer(chosen)'
  BY <1>1, DeliveryParts DEF DuplicateProducer, Producers
<1>14. turn' - 1 <= Len(levels') /\ phase' # "delivered"
  BY <1>1, <1>3
<1> QED BY <1>9, <1>11, <1>12, <1>13, <1>14, NobodyHasBegun

LEMMA RunOneKeepsDelivery ==
  ASSUME PlanInv, RunInv, CacheInv, DeliveryInv, NEW e \in Enhancers, RunOne(e)
  PROVE  DeliveryInv'
<1>1. CASE StartOne(e)
  BY <1>1, StartOneKeeps
<1>2. CASE Restore(e) \/ Store(e)
  <2>1. /\ stage[e] \in {"hit", "computed"} /\ registry' = Put(registry, result[e])
        /\ UNCHANGED <<planVars, phase, call, turn, key>>
        /\ \E s \in {"cached", "stored"} : stage' = [stage EXCEPT ![e] = s]
    BY <1>2 DEF Restore, Store
  <2> QED BY <2>1, PuttingKeeps
<1>3. CASE Throw(e)
  BY <1>3 DEF Throw, DeliveryInv
<1>4. CASE phase \notin {"planning", "running", "delivered"} /\ phase' = phase
  BY <1>4 DEF DeliveryInv
<1>5. CASE /\ phase \in {"planning", "running", "delivered"}
           /\ Compute(e) \/ Remember(e) \/ EndWrite(e)
  <2>1. /\ UNCHANGED <<planVars, call, turn, registry, key>> /\ phase' = phase
        /\ \/ stage[e] = "missed" /\ stage' = [stage EXCEPT ![e] = "computed"]
           \/ /\ stage[e] \in {"stored", "writing"}
              /\ \E s \in {"executed", "writing"} : stage' = [stage EXCEPT ![e] = s]
    BY <1>5 DEF Compute, Remember, EndWrite
  <2>2. \A f \in Enhancers : stage[f] # "thrown"
    BY <1>5, DeliveryParts
  <2>3. \A f \in Enhancers :
          /\ stage'[f] # "thrown"
          /\ stage'[f] \in PutStages <=> stage[f] \in PutStages
          /\ stage'[f] \in Unput <=> stage[f] \in Unput
          /\ stage[f] = "waiting" => stage'[f] = "waiting"
    BY <2>1, <2>2 DEF RunInv, PutStages, Unput
  <2> QED BY <2>1, <2>3, NothingPut
<1>6. Compute(e) \/ Remember(e) \/ EndWrite(e) => phase' = phase
  BY DEF Compute, Remember, EndWrite
<1> QED BY <1>1, <1>2, <1>3, <1>4, <1>5, <1>6 DEF RunOne

LEMMA NextKeepsDelivery ==
  ASSUME PlanInv, PlanInv', RunInv, CacheInv, DeliveryInv, [Next]_vars PROVE DeliveryInv'
<1>1. CASE \E c \in Calls, g \in Graphs : StartCall(c, g)
  BY <1>1, CallKeepsDelivery
<1>2. CASE PlanStep
  BY <1>2, PlanStepKeepsDelivery
<1>3. CASE Refuse \/ Run \/ Deliver \/ Commit \/ UNCHANGED vars
  <2>1. /\ UNCHANGED <<planVars, call, turn, registry, key, stage>>
        /\ \/ phase' = phase \/ phase' = "rejected"
           \/ phase' = "delivered" /\ phase = "running" /\ turn > Len(levels)
           \/ phase' = "running" /\ phase = "planning"
    BY <1>3 DEF Refuse, Run, Deliver, Commit, vars, runVars
  <2>2. CASE phase \notin {"planning", "running", "delivered"}
    BY <2>1, <2>2 DEF DeliveryInv
  <2>3. CASE phase \in {"planning", "running", "delivered"}
    <3>1. \A e \in Enhancers : stage'[e] # "thrown" /\ stage'[e] = stage[e]
      BY <2>1, <2>3, DeliveryParts
    <3> QED BY <2>1, <3>1, NothingPut
  <2> QED BY <2>2, <2>3
<1>4. CASE StartLevel
  BY <1>4, StartLevelKeeps
<1>5. CASE EndLevel
  BY <1>5, EndLevelKeepsDelivery
<1>6. CASE Kill
  BY <1>6 DEF Kill, DeliveryInv
<1>7. CASE \E e \in Enhancers : RunOne(e)
  BY <1>7, RunOneKeepsDelivery
<1> QED BY <1>1, <1>2, <1>3, <1>4, <1>5, <1>6, <1>7 DEF Next, Pipeline

-----------------------------------------------------------------------------
\* Plans have every enhancer once, after what it waits for, or a reason to be
\* refused (createEnhancerExecutionPlan): for any enhancers and selections.
THEOREM SoundPlan == Spec => []PlansAreSound
  BY PlanAndRun, SoundPlans, PTL

\* No enhancer begins before its inputs have returned (runEnhancerPipeline),
\* whatever fails, throws, is killed or restored.
THEOREM SettledBeforeUse == Spec => []InputsAreSettled
  BY PlanAndRun, SettledInputs, PTL

\* An entry of the enhancers' cache is what its enhancer makes of the graph and
\* the artifacts its key names, in the process and in the file
\* (defaultEnhancerCacheKey, createFileEnhancerCache).
THEOREM ReproducibleEntries == Spec => []EntriesAreReproducible
<1>1. Init => CacheInv
  BY CacheBegins
<1>2. PlanInv /\ RunInv /\ CacheInv /\ [Next]_vars => CacheInv'
  BY NextKeepsCache
<1>3. CacheInv => EntriesAreReproducible
  BY DEF CacheInv, EntriesAreReproducible
<1> QED
  BY <1>1, <1>2, <1>3, PlanAndRun, PTL DEF Spec

\* A call that delivers has what the same call would have delivered alone and
\* with no cache, in parallel or in sequence (runEnhancerPipeline,
\* docs/enhancers.md), whatever came from the cache and in whichever order the
\* enhancers of a level went on; what is made from the Git history is left aside.
THEOREM DeliveriesAreReproducible == Spec => []DeliveryIsReproducible
<1>1. Init => CacheInv /\ DeliveryInv
  BY CacheBegins DEF Init, DeliveryInv
<1>2. /\ PlanInv /\ RunInv /\ CacheInv /\ [Next]_vars => CacheInv'
      /\ PlanInv /\ PlanInv' /\ RunInv /\ CacheInv /\ DeliveryInv /\ [Next]_vars => DeliveryInv'
  BY NextKeepsCache, NextKeepsDelivery
<1>3. PlanInv /\ RunInv /\ DeliveryInv => DeliveryIsReproducible
  BY DeliveredAgree
<1> QED
  BY <1>1, <1>2, <1>3, PlanAndRun, PTL DEF Spec
=============================================================================
