------------------------- MODULE WatchSessionProofs -------------------------
(***************************************************************************)
(* Proofs of the safety claims about a watch session, for any set of       *)
(* builds and any bounds.                                                  *)
(***************************************************************************)
EXTENDS WatchSessionProperties, TLAPS

USE DEF user, control, build, results

-----------------------------------------------------------------------------
LEMMA SessionInit == Init => SessionInv
<1> SUFFICES ASSUME Init PROVE SessionInv
  OBVIOUS
<1> USE BoundAssumption DEF Init
<1>1. config \in ConfigValues /\ versions \in 0..MaxConfigs
  BY DEF ConfigValues
<1>2. 1 \in Sources /\ failures \in 0..MaxFailures
  BY DEF Sources
<1>3. /\ pc \in [Builds -> Phases] /\ used \in [Builds -> ConfigValues]
      /\ read \in [Builds -> Sources \cup {0}]
      /\ sinceBegin \in [Builds -> SUBSET ConfigValues]
      /\ ahead \in [Builds -> Sources \cup {0}]
  BY DEF Phases, ConfigValues
<1>4. TypeOK
  BY <1>1, <1>2, <1>3 DEF TypeOK, Paths, ConfigValues
<1>5. ClosedIsDisarmed /\ ReadIsFresh
  BY DEF ClosedIsDisarmed, ReadIsFresh
<1> QED BY <1>4, <1>5 DEF SessionInv

\* Changed adds a path, or nothing.
LEMMA ChangedType ==
  ASSUME TypeOK, NEW p \in Paths, Changed(p)
  PROVE  notices' \subseteq Paths
BY DEF TypeOK, Changed

\* A build that ends is idle and keeps nothing.
LEMMA EndedFacts ==
  ASSUME SessionInv, NEW b \in Builds, Ended(b)
  PROVE  /\ pc' \in [Builds -> Phases]
         /\ used' \in [Builds -> ConfigValues]
         /\ read' \in [Builds -> Sources \cup {0}]
         /\ sinceBegin' \in [Builds -> SUBSET ConfigValues]
         /\ ahead' \in [Builds -> Sources \cup {0}]
         /\ pc'[b] = "idle" /\ read'[b] = 0 /\ ahead'[b] = 0
         /\ \A c \in Builds \ {b} : pc'[c] = pc[c] /\ read'[c] = read[c] /\ ahead'[c] = ahead[c]
BY DEF SessionInv, TypeOK, Ended, Phases, ConfigValues

LEMMA SessionStep == SessionInv /\ [Next]_vars => SessionInv'
<1> SUFFICES ASSUME SessionInv, [Next]_vars PROVE SessionInv'
  OBVIOUS
<1> USE BoundAssumption
<1> USE DEF SessionInv, Sources
<1>0. CASE UNCHANGED vars
  BY <1>0 DEF vars, TypeOK, ClosedIsDisarmed, ReadIsFresh
<1>1. CASE EditSource
  BY <1>1, ChangedType
     DEF EditSource, TypeOK, ClosedIsDisarmed, ReadIsFresh, Paths
<1>2. CASE EditConfig
  <2>1. config' \in ConfigValues /\ versions' \in 0..MaxConfigs
    BY <1>2 DEF EditConfig, TypeOK, ConfigValues
  <2>2. sinceBegin' \in [Builds -> SUBSET ConfigValues]
    BY <1>2, <2>1 DEF EditConfig, TypeOK
  <2> QED
    BY <1>2, <2>1, <2>2, ChangedType
       DEF EditConfig, TypeOK, ClosedIsDisarmed, ReadIsFresh, Paths
<1>3. CASE Close
  BY <1>3 DEF Close, TypeOK, ClosedIsDisarmed, ReadIsFresh
<1>4. ASSUME NEW p \in Paths, Notify(p) PROVE SessionInv'
  BY <1>4
     DEF Notify, runBuild, TypeOK, ClosedIsDisarmed, ReadIsFresh
<1>5. ASSUME NEW b \in Builds, Fire(b) PROVE SessionInv'
  <2>1. TypeOK' /\ ClosedIsDisarmed'
    BY <1>5 DEF Fire, TypeOK, ClosedIsDisarmed, Phases, ConfigValues
  <2>2. ReadIsFresh'
    BY <1>5 DEF Fire, TypeOK, ReadIsFresh
  <2> QED BY <2>1, <2>2
<1>6. ASSUME NEW b \in Builds, LoadConfig(b) PROVE SessionInv'
  <2>1. loaded' \in ConfigValues /\ used' \in [Builds -> ConfigValues]
    BY <1>6 DEF LoadConfig, TypeOK, ConfigValues
  <2>2. TypeOK' /\ ClosedIsDisarmed'
    BY <1>6, <2>1 DEF LoadConfig, TypeOK, ClosedIsDisarmed, Phases
  <2>3. ReadIsFresh'
    BY <1>6 DEF LoadConfig, TypeOK, ReadIsFresh
  <2> QED BY <2>2, <2>3
<1>7. ASSUME NEW b \in Builds, ReadSources(b) PROVE SessionInv'
  <2>1. TypeOK' /\ ClosedIsDisarmed'
    BY <1>7 DEF ReadSources, TypeOK, ClosedIsDisarmed, Phases
  <2>2. ReadIsFresh'
    BY <1>7 DEF ReadSources, TypeOK, ReadIsFresh
  <2> QED BY <2>1, <2>2
<1>8. ASSUME NEW b \in Builds, WriteOutput(b) PROVE SessionInv'
  <2>1. TypeOK' /\ ClosedIsDisarmed'
    BY <1>8, ChangedType
       DEF WriteOutput, TypeOK, ClosedIsDisarmed, Phases, Paths
  <2>2. ReadIsFresh'
    BY <1>8 DEF WriteOutput, TypeOK, ReadIsFresh
  <2> QED BY <2>1, <2>2
<1>9. ASSUME NEW b \in Builds, Fails(b) PROVE SessionInv'
  <2>1. /\ pc' \in [Builds -> Phases] /\ pc'[b] \in {"resolved", "rejected"}
        /\ pc'[b] = "resolved" => pc[b] = "write"
        /\ \A c \in Builds \ {b} : pc'[c] = pc[c]
        /\ pc[b] # "idle"
    BY <1>9 DEF Fails, TypeOK, Phases
  <2>2. output' \in {output, 0, read[b]} /\ notices' \subseteq Paths
    BY <1>9, ChangedType DEF Fails, TypeOK, Paths
  <2>3. /\ UNCHANGED <<user, control, loaded, used, read, shown, begun,
                       overlapped, sinceBegin, ahead>>
        /\ failures' \in 0..MaxFailures
    BY <1>9 DEF Fails, TypeOK
  <2>4. TypeOK' /\ ClosedIsDisarmed'
    BY <2>1, <2>2, <2>3 DEF TypeOK, ClosedIsDisarmed
  <2>5. ReadIsFresh'
    BY <2>1, <2>2, <2>3 DEF TypeOK, ReadIsFresh
  <2> QED BY <2>4, <2>5
<1>10. ASSUME NEW b \in Builds, OnBuild(b) PROVE SessionInv'
  <2>1. TypeOK' /\ ClosedIsDisarmed'
    BY <1>10, EndedFacts DEF OnBuild, TypeOK, ClosedIsDisarmed
  <2>2. ReadIsFresh'
    BY <1>10, EndedFacts DEF OnBuild, TypeOK, ReadIsFresh
  <2> QED BY <2>1, <2>2
<1>11. ASSUME NEW b \in Builds, OnError(b) PROVE SessionInv'
  BY <1>11, EndedFacts
     DEF OnError, TypeOK, ClosedIsDisarmed, ReadIsFresh
<1> QED
  BY <1>0, <1>1, <1>2, <1>3, <1>4, <1>5, <1>6, <1>7, <1>8, <1>9, <1>10, <1>11
     DEF Next, Progress, Run

LEMMA SessionInvariant == Spec => []SessionInv
BY SessionInit, SessionStep, PTL DEF Spec

-----------------------------------------------------------------------------
\* The variables of a session hold values of their kinds.
THEOREM TypeCorrect == Spec => []TypeOK
<1>1. SessionInv => TypeOK
  BY DEF SessionInv
<1> QED BY <1>1, SessionInvariant, PTL

\* After close() no build begins, whatever was armed or on its way.
THEOREM NoBuildAfterClose == Spec => CloseStopsBuilds
<1>1. SessionInv /\ [Next]_vars
        => [closed => \A b \in Builds : pc[b] = "idle" => pc'[b] = "idle"]_vars
  <2> SUFFICES ASSUME SessionInv, Next, closed, NEW b \in Builds, pc[b] = "idle"
               PROVE  pc'[b] = "idle"
    OBVIOUS
  <2>1. ~armed
    BY DEF SessionInv, ClosedIsDisarmed
  <2>2. ASSUME NEW c \in Builds, Run(c) \/ Fails(c) PROVE pc'[b] = "idle"
    <3>1. CASE c = b
      BY <2>2, <3>1 DEF Run, LoadConfig, ReadSources, WriteOutput, OnBuild,
                        OnError, Fails
    <3>2. CASE c # b
      BY <2>2, <3>2 DEF Run, LoadConfig, ReadSources, WriteOutput, OnBuild,
                        OnError, Fails, Ended, SessionInv, TypeOK
    <3> QED BY <3>1, <3>2
  <2>3. CASE EditSource \/ EditConfig \/ Close \/ \E p \in Paths : Notify(p)
    BY <2>3 DEF EditSource, EditConfig, Close, Notify
  <2> QED BY <2>1, <2>2, <2>3 DEF Next, Progress, Fire
<1> QED BY <1>1, SessionInvariant, PTL DEF Spec, CloseStopsBuilds

\* Neither outputDir nor the caller of the watch is taken back behind a graph
\* that was out when the build began, however builds overlap.
THEOREM ResultsAreInOrder == Spec => ResultsInOrder
<1> DEFINE InOrder(b) ==
       /\ pc[b] = "write" /\ pc'[b] = "resolved" /\ output' # output
            => output' >= ahead[b]
       /\ pc[b] = "resolved" /\ pc'[b] = "idle" => shown' >= ahead[b]
<1>1. SessionInv /\ [Next]_vars => [\A b \in Builds : InOrder(b)]_vars
  <2> SUFFICES ASSUME SessionInv, Next, NEW b \in Builds PROVE InOrder(b)
    OBVIOUS
  <2> USE BoundAssumption DEF SessionInv, TypeOK, Sources
  <2>1. CASE WriteOutput(b)
    BY <2>1 DEF WriteOutput, ReadIsFresh
  <2>2. CASE OnBuild(b)
    BY <2>2 DEF OnBuild, ReadIsFresh
  <2>3. CASE Fails(b)
    BY <2>3 DEF Fails
  <2>4. CASE LoadConfig(b) \/ ReadSources(b) \/ OnError(b) \/ Fire(b)
    BY <2>4 DEF LoadConfig, ReadSources, OnError, Fire
  <2>5. CASE EditSource \/ EditConfig \/ Close \/ \E p \in Paths : Notify(p)
    BY <2>5 DEF EditSource, EditConfig, Close, Notify
  <2>6. ASSUME NEW c \in Builds \ {b}, Run(c) \/ Fails(c) \/ Fire(c)
        PROVE  pc'[b] = pc[b]
    BY <2>6 DEF Run, LoadConfig, ReadSources, WriteOutput, OnBuild, OnError,
                Ended, Fails, Fire
  <2> QED
    BY <2>1, <2>2, <2>3, <2>4, <2>5, <2>6 DEF Next, Progress, Run
<1> QED BY <1>1, SessionInvariant, PTL DEF Spec, ResultsInOrder
=============================================================================
