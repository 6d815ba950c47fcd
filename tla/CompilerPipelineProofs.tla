------------------------ MODULE CompilerPipelineProofs ------------------------
(* Proofs about the order of the passes and about the builds that follow it. *)
EXTENDS CompilerPipelineProperties, FiniteSetTheorems, WellFoundedInduction, TLAPS

LEMMA ImageIsFinite ==
  ASSUME NEW n \in Nat, NEW f
  PROVE  IsFiniteSet({f[i] : i \in 1..n})
<1> DEFINE S == {f[i] : i \in 1..n}
           g == [i \in 1..n |-> f[i]]
<1>1. g \in Surjection(1..n, S)
  BY DEF Surjection
<1>2. IsFiniteSet(1..n)
  BY FS_Interval
<1> QED BY <1>1, <1>2, FS_Surjection

LEMMA IdsAreFinite ==
  ASSUME passes \in Seq(CompilerPass)
  PROVE  IsFiniteSet(Ids)
<1> DEFINE f == [i \in 1..Len(passes) |-> passes[i].id]
<1>1. Len(passes) \in Nat
  OBVIOUS
<1>2. IsFiniteSet({f[i] : i \in 1..Len(passes)})
  BY <1>1, ImageIsFinite
<1>3. Ids = {f[i] : i \in 1..Len(passes)}
  BY DEF Ids
<1> QED BY <1>2, <1>3

\* Appending to a sequence adds its new element to the range.
LEMMA RangeOfAppend ==
  ASSUME NEW S, NEW s \in Seq(S), NEW x \in S
  PROVE  RangeOf(Append(s, x)) = RangeOf(s) \cup {x}
<1>1. \A i \in 1..Len(s) : Append(s, x)[i] = s[i]
  OBVIOUS
<1>2. Append(s, x)[Len(s) + 1] = x
  OBVIOUS
<1>3. 1..Len(Append(s, x)) = 1..Len(s) \cup {Len(s) + 1}
  OBVIOUS
<1>4. RangeOf(Append(s, x)) \subseteq RangeOf(s) \cup {x}
  BY <1>1, <1>2, <1>3 DEF RangeOf
<1>5. RangeOf(s) \subseteq RangeOf(Append(s, x))
  BY <1>1, <1>3 DEF RangeOf
<1>6. x \in RangeOf(Append(s, x))
  BY <1>2, <1>3 DEF RangeOf
<1> QED BY <1>4, <1>5, <1>6

LEMMA RangeOfSeq ==
  ASSUME NEW S, NEW s \in Seq(S)
  PROVE  RangeOf(s) \subseteq S
  BY DEF RangeOf

\* Whatever names a declared pass, PassOf finds that pass.
LEMMA PassOfId ==
  ASSUME passes \in Seq(CompilerPass), Unique, NEW p \in RangeOf(passes)
  PROVE  p.id \in Ids /\ PassOf(p.id) = p
<1>1. PICK i \in 1..Len(passes) : p = passes[i]
  BY DEF RangeOf
<1>2. \A j \in 1..Len(passes) : passes[j].id = p.id => j = i
  BY <1>1 DEF Unique
<1>3. (CHOOSE j \in 1..Len(passes) : passes[j].id = p.id) = i
  BY <1>1, <1>2
<1> QED BY <1>1, <1>3 DEF Ids, PassOf

-----------------------------------------------------------------------------
LEMMA OrderInitial == PassOrderAssumption /\ OrderInit => OrderInv
  BY DEF PassOrderAssumption, OrderInit, OrderInv

\* The names that depend on the passes alone keep their meaning.
LEMMA PassesKept ==
  ASSUME passes' = passes
  PROVE  /\ Ids' = Ids
         /\ \A f, t : Edge(f, t)' <=> Edge(f, t)
         /\ (Unique' <=> Unique) /\ (StagesKnown' <=> StagesKnown)
         /\ \A S : KnownIn(S)' <=> KnownIn(S)
  BY DEF Ids, Edge, PassOf, Unique, StagesKnown, KnownIn

LEMMA StartKeepsOrder ==
  ASSUME OrderInv, StartSort
  PROVE  OrderInv'
<1> USE DEF StartSort
<1>1. sorted = <<>> /\ RangeOf(sorted) = {} /\ sorted' = sorted
  BY DEF OrderInv, RangeOf
<1>2. \A t : Missing(t) = {f \in Ids : Edge(f, t)}
  BY <1>1 DEF Missing
<1>3. \A t : Missing(t)' = Missing(t)
  BY <1>1, PassesKept DEF Missing, RangeOf
<1>4. incoming' = [t \in Ids |-> Cardinality(Missing(t))]
  BY <1>2 DEF Incoming
<1>5. \A t \in Ids : Incoming(t) = 0 <=> Missing(t) = {}
  <2> TAKE t \in Ids
  <2>1. IsFiniteSet(Missing(t))
    BY IdsAreFinite, FS_Subset, <1>2 DEF OrderInv
  <2> QED BY <2>1, <1>2, FS_EmptySet DEF Incoming
<1>6. ready' = {t \in Ids \ RangeOf(sorted) : Missing(t) = {}}
  BY <1>1, <1>5
<1>7. Counts'
  BY <1>1, <1>3, <1>4, <1>6, PassesKept DEF Counts, RangeOf
<1>8. Unique /\ KnownIn(Ids) /\ StagesKnown
  <2>1. \A p \in RangeOf(passes) : p.requires \cup p.before \cup p.after \subseteq Ids
    BY DEF Invalid, RangeOf
  <2> QED BY <2>1 DEF Invalid, Unique, KnownIn, StagesKnown, RangeOf
<1>9. NoRepeat' /\ Closed' /\ sorted' \in Seq(Ids) /\ Len(sorted') = Cardinality(RangeOf(sorted'))
  BY <1>1, FS_EmptySet DEF NoRepeat, Closed, RangeOf
<1> QED BY <1>7, <1>8, <1>9, PassesKept DEF OrderInv

LEMMA TakeKeepsOrder ==
  ASSUME OrderInv, TakeFirst
  PROVE  OrderInv'
<1>1. PICK id \in ready : Take(id)
  BY DEF TakeFirst
<1>2. phase = "sorting" /\ phase' = phase /\ passes' = passes
  BY DEF TakeFirst
<1>3. /\ passes \in Seq(CompilerPass) /\ Unique /\ KnownIn(Ids) /\ StagesKnown
      /\ sorted \in Seq(Ids) /\ Len(sorted) = Cardinality(RangeOf(sorted))
      /\ NoRepeat /\ Closed /\ Counts
  BY <1>2 DEF OrderInv
<1>4. id \in Ids /\ id \notin RangeOf(sorted) /\ Missing(id) = {}
  BY <1>1, <1>3 DEF Counts
<1>5. sorted' = Append(sorted, id) /\ sorted' \in Seq(Ids)
  BY <1>1, <1>3, <1>4 DEF Take
<1>6. RangeOf(sorted') = RangeOf(sorted) \cup {id}
  BY <1>3, <1>4, <1>5, RangeOfAppend
<1>7. Len(sorted') = Cardinality(RangeOf(sorted'))
  <2>1. RangeOf(sorted) \subseteq Ids
    BY <1>3, RangeOfSeq
  <2>2. IsFiniteSet(RangeOf(sorted))
    BY <2>1, <1>3, IdsAreFinite, FS_Subset
  <2>3. Cardinality(RangeOf(sorted) \cup {id}) = Cardinality(RangeOf(sorted)) + 1
    BY <2>2, <1>4, FS_AddElement
  <2> QED BY <2>3, <1>3, <1>4, <1>5, <1>6
<1>8. Closed'
  <2> SUFFICES ASSUME NEW j \in 1..Len(sorted'), NEW f \in Ids, Edge(f, sorted'[j])
               PROVE  \E i \in 1..j - 1 : sorted'[i] = f
    BY <1>2, PassesKept DEF Closed
  <2>1. CASE j \in 1..Len(sorted)
    <3>1. sorted'[j] = sorted[j]
      BY <2>1, <1>3, <1>4, <1>5
    <3>2. PICK i \in 1..j - 1 : sorted[i] = f
      BY <2>1, <3>1, <1>3 DEF Closed
    <3>3. sorted'[i] = sorted[i]
      BY <2>1, <1>3, <1>4, <1>5
    <3> QED BY <3>2, <3>3
  <2>2. CASE j = Len(sorted) + 1
    <3>1. sorted'[j] = id
      BY <2>2, <1>3, <1>4, <1>5
    <3>2. f \in RangeOf(sorted)
      BY <3>1, <1>4 DEF Missing
    <3>3. PICK i \in 1..Len(sorted) : sorted[i] = f
      BY <3>2 DEF RangeOf
    <3>4. sorted'[i] = f
      BY <3>3, <1>3, <1>4, <1>5
    <3> QED BY <2>2, <3>3, <3>4, <1>3
  <2> QED BY <2>1, <2>2, <1>3, <1>4, <1>5
<1>9. \A t : Missing(t)' = Missing(t) \ {id}
  BY <1>2, <1>6, PassesKept DEF Missing
<1>10. \A t \in Ids :
         /\ IsFiniteSet(Missing(t)) /\ Cardinality(Missing(t)) \in Nat
         /\ Edge(id, t) => id \in Missing(t) /\ Cardinality(Missing(t) \ {id}) = Cardinality(Missing(t)) - 1
         /\ ~Edge(id, t) => Missing(t) \ {id} = Missing(t)
  <2> TAKE t \in Ids
  <2>1. IsFiniteSet(Missing(t))
    BY <1>3, IdsAreFinite, FS_Subset DEF Missing
  <2>2. Cardinality(Missing(t)) \in Nat
    BY <2>1, FS_CardinalityType
  <2>3. Edge(id, t) => id \in Missing(t)
    BY <1>4 DEF Missing
  <2>4. ~Edge(id, t) => id \notin Missing(t)
    BY DEF Missing
  <2>5. id \in Missing(t) => Cardinality(Missing(t) \ {id}) = Cardinality(Missing(t)) - 1
    BY <2>1, FS_RemoveElement
  <2> QED BY <2>1, <2>2, <2>3, <2>4, <2>5
<1>11. incoming' = [t \in Ids |-> Cardinality(Missing(t) \ {id})]
  BY <1>1, <1>3, <1>10 DEF Take, Counts
<1>12. \A t \in Ids : Edge(id, t) => (incoming[t] = 1 <=> Missing(t) \ {id} = {})
  <2> SUFFICES ASSUME NEW t \in Ids, Edge(id, t)
               PROVE  incoming[t] = 1 <=> Missing(t) \ {id} = {}
    OBVIOUS
  <2>1. incoming[t] = Cardinality(Missing(t))
    BY <1>3 DEF Counts
  <2>2. Cardinality(Missing(t) \ {id}) = 0 <=> Missing(t) \ {id} = {}
    BY <1>10, FS_RemoveElement, FS_EmptySet
  <2> QED BY <2>1, <2>2, <1>10
<1>13. \A t \in RangeOf(sorted) : ~Edge(id, t)
  <2> SUFFICES ASSUME NEW j \in 1..Len(sorted), Edge(id, sorted[j])
               PROVE  FALSE
    BY DEF RangeOf
  <2>1. PICK i \in 1..j - 1 : sorted[i] = id
    BY <1>3, <1>4 DEF Closed
  <2>2. i \in 1..Len(sorted)
    BY <1>3
  <2> QED BY <2>1, <2>2, <1>4 DEF RangeOf
<1>14. ready' = {t \in Ids \ RangeOf(sorted') : Missing(t) \ {id} = {}}
  <2>1. ready = {t \in Ids \ RangeOf(sorted) : Missing(t) = {}}
    BY <1>3 DEF Counts
  <2>2. ready' = (ready \ {id}) \cup {t \in Ids : Edge(id, t) /\ incoming[t] = 1}
    BY <1>1 DEF Take
  <2>3. ~Edge(id, id)
    BY <1>4 DEF Missing
  <2>4. ASSUME NEW t \in Ids
        PROVE  t \in ready' <=> t \notin RangeOf(sorted') /\ Missing(t) \ {id} = {}
    <3>1. CASE Edge(id, t)
      <4>1. t # id /\ t \notin RangeOf(sorted)
        BY <3>1, <2>3, <1>13
      <4>2. t \notin ready
        BY <3>1, <2>1, <1>10
      <4> QED BY <4>1, <4>2, <3>1, <2>2, <1>6, <1>12
    <3>2. CASE ~Edge(id, t)
      BY <3>2, <2>1, <2>2, <1>6, <1>10
    <3> QED BY <3>1, <3>2
  <2>5. ready' \subseteq Ids
    BY <2>1, <2>2
  <2> QED BY <2>4, <2>5
<1>15. Counts'
  BY <1>2, <1>9, <1>11, <1>14, PassesKept DEF Counts
<1>16. NoRepeat'
  <2>1. \A i \in 1..Len(sorted) : sorted'[i] = sorted[i]
    BY <1>3, <1>4, <1>5
  <2>3. \A i \in 1..Len(sorted) : sorted[i] # id
    BY <1>4 DEF RangeOf
  <2>2. sorted'[Len(sorted) + 1] = id /\ Len(sorted') = Len(sorted) + 1
    BY <1>3, <1>4, <1>5
  <2> QED BY <2>1, <2>2, <2>3, <1>3 DEF NoRepeat
<1> QED BY <1>2, <1>3, <1>5, <1>7, <1>8, <1>15, <1>16, PassesKept DEF OrderInv

LEMMA OrderStep ==
  ASSUME OrderInv, [OrderNext]_orderVars
  PROVE  OrderInv'
<1>1. CASE RejectInvalid
  BY <1>1 DEF RejectInvalid, OrderInv
<1>2. CASE StartSort
  BY <1>2, StartKeepsOrder
<1>3. CASE TakeFirst
  BY <1>3, TakeKeepsOrder
<1>4. ASSUME passes' = passes, sorted' = sorted, incoming' = incoming, ready' = ready
      PROVE  /\ (NoRepeat' <=> NoRepeat) /\ (Closed' <=> Closed) /\ (Counts' <=> Counts)
             /\ RangeOf(sorted)' = RangeOf(sorted)
  <2>1. \A t : Missing(t)' = Missing(t)
    BY <1>4, PassesKept DEF Missing, RangeOf
  <2>2. Closed' <=> Closed
    BY <1>4, PassesKept DEF Closed
  <2> QED BY <2>1, <2>2, <1>4, PassesKept DEF NoRepeat, Counts, RangeOf
<1>5. CASE FinishSort
  BY <1>5, <1>4, PassesKept DEF FinishSort, OrderInv
<1>6. CASE UNCHANGED orderVars
  BY <1>6, <1>4, PassesKept DEF orderVars, OrderInv
<1> QED BY <1>1, <1>2, <1>3, <1>5, <1>6 DEF OrderNext

\* A build leaves the pass manager alone.
LEMMA PipelineStep == [Next]_vars => [OrderNext]_orderVars
  BY DEF Next, vars, orderVars, OrderPasses, StartBuild, SkipStage, EnterStage, RunPass,
         PassFails, HitCache, MissCache, ConstructGraph, ValidateGraph, CommitArtifacts,
         CommitFails, EndPlainStage, EndBuild, EndStage

LEMMA OrderInvariant == Spec => []OrderInv
<1>1. Init => OrderInv
  BY PassOrderAssumption, OrderInitial DEF Init
<1>2. OrderInv /\ [Next]_vars => OrderInv'
  BY PipelineStep, OrderStep
<1> QED BY <1>1, <1>2, PTL DEF Spec

\* A sequence without repetition that is as long as there are ids has them all.
LEMMA AllSorted ==
  ASSUME OrderInv, phase \in {"ordered", "cyclic"}
  PROVE  RangeOf(sorted) \subseteq Ids /\ (RangeOf(sorted) = Ids <=> Len(sorted) = Cardinality(Ids))
<1>1. RangeOf(sorted) \subseteq Ids
  BY RangeOfSeq DEF OrderInv
<1>2. IsFiniteSet(Ids)
  BY IdsAreFinite DEF OrderInv
<1> QED BY <1>1, <1>2, FS_Subset DEF OrderInv

LEMMA EdgesAreKept ==
  ASSUME OrderInv, phase = "ordered"
  PROVE  \A f, t \in Ids : Edge(f, t) => Before(f, t)
<1> SUFFICES ASSUME NEW f \in Ids, NEW t \in Ids, Edge(f, t)
             PROVE  Before(f, t)
  OBVIOUS
<1>1. RangeOf(sorted) = Ids /\ Closed
  BY AllSorted DEF OrderInv
<1>2. PICK j \in 1..Len(sorted) : sorted[j] = t
  BY <1>1 DEF RangeOf
<1>3. PICK i \in 1..j - 1 : sorted[i] = f
  BY <1>1, <1>2 DEF Closed
<1> QED BY <1>2, <1>3 DEF Before

-----------------------------------------------------------------------------
\* orderPasses returns every pass once, after what it requires or comes after
\* and before what it comes before.
THEOREM OrderIsLegal == Spec => []EveryEdgeIsHonoured
<1>1. OrderInv => EveryEdgeIsHonoured
  <2> SUFFICES ASSUME OrderInv, phase = "ordered", NEW p \in RangeOf(passes)
               PROVE  /\ Sorted(p.id)
                      /\ \A q \in p.requires \cup p.after : Before(q, p.id)
                      /\ \A q \in p.before : Before(p.id, q)
    BY DEF EveryEdgeIsHonoured
  <2>1. passes \in Seq(CompilerPass) /\ Unique /\ KnownIn(Ids) /\ Closed /\ sorted \in Seq(Ids)
    BY DEF OrderInv
  <2>2. RangeOf(sorted) = Ids
    BY AllSorted DEF OrderInv
  <2>3. p.id \in Ids /\ PassOf(p.id) = p
    BY <2>1, PassOfId
  <2>4. \A f, t \in Ids : Edge(f, t) => Before(f, t)
    BY EdgesAreKept
  <2>5. p.requires \cup p.after \cup p.before \subseteq Ids
    BY <2>1 DEF KnownIn
  <2>6. \A q \in p.requires \cup p.after : Edge(q, p.id)
    BY <2>3 DEF Edge
  <2>7. \A q \in p.before : Edge(p.id, q)
    BY <2>3 DEF Edge
  <2> QED BY <2>2, <2>3, <2>4, <2>5, <2>6, <2>7 DEF Sorted
<1> QED BY <1>1, OrderInvariant, PTL

\* A set of passes is rejected as cyclic only if it is.
THEOREM RejectedAreCyclic == Spec => []RejectedPassesAreCyclic
<1>1. OrderInv => RejectedPassesAreCyclic
  <2> SUFFICES ASSUME OrderInv, phase = "cyclic"
               PROVE  \E ids \in SUBSET Ids :
                        ids # {} /\ \A t \in ids : \E f \in ids : Edge(f, t)
    BY DEF RejectedPassesAreCyclic
  <2> DEFINE left == Ids \ RangeOf(sorted)
  <2>1. left # {}
    BY AllSorted DEF OrderInv
  <2>2. \A t \in left : Missing(t) # {}
    BY DEF OrderInv, Counts
  <2>3. \A t \in left : \E f \in left : Edge(f, t)
    BY <2>2 DEF Missing
  <2> QED BY <2>1, <2>3
<1> QED BY <1>1, OrderInvariant, PTL
-----------------------------------------------------------------------------
LEMMA StagePlaces ==
  /\ COMPILER_STAGE_IDS[16] = "graph-validation"
  /\ \A i \in 1..StageCount : COMPILER_STAGE_IDS[i] = "artifact-commit" => i > 16
  /\ \A i \in 1..StageCount :
       COMPILER_STAGE_IDS[i] \in {"cache-loading-and-compatibility", "graph-construction"} => i < 16
  /\ "graph-validation" \notin CACHEABLE_STAGE_IDS
  BY DEF COMPILER_STAGE_IDS, StageCount, CACHEABLE_STAGE_IDS

\* Ending a stage that keeps the verdicts keeps the invariant, except at the
\* stage that validates.
LEMMA EndStageKeeps ==
  ASSUME ValidatedInv, step = "passes", NEW changed, EndStage(changed),
         DOMAIN changed = DOMAIN state, changed.fatal = state.fatal,
         changed.validation = state.validation, at > 16 => changed.graph = state.graph,
         Stage # "graph-validation"
  PROVE  ValidatedInv'
<1>1. at \in 1..StageCount /\ at # 16 /\ ~state.fatal /\ at' = at + 1
  BY StagePlaces DEF ValidatedInv, EndStage, Stage, StageCount
<1>2. DOMAIN state' = DOMAIN InitialPipelineState
  BY DEF EndStage, Merged, ValidatedInv
<1>3. /\ state'.fatal = state.fatal /\ state'.validation = state.validation
      /\ at > 16 => state'.graph = state.graph
  BY DEF EndStage, Merged, ValidatedInv, InitialPipelineState
<1>4. Validated /\ at > 16 => Validated'
  BY <1>3 DEF Validated, Dangling
<1> QED BY <1>1, <1>2, <1>3, <1>4 DEF ValidatedInv, EndStage, StageCount, InitialPipelineState

LEMMA ValidatedStep ==
  ASSUME ValidatedInv, [Next]_vars
  PROVE  ValidatedInv'
<1> USE DEF StageCount
<1>0. ASSUME state' = state, step' \in {step, "done", "failed"}, at' = at
      PROVE  ValidatedInv'
  BY <1>0 DEF ValidatedInv, Validated, Dangling, InitialPipelineState
<1>1. CASE OrderPasses \/ RunPass \/ PassFails \/ CommitFails \/ EndBuild \/ UNCHANGED vars
  BY <1>0, <1>1 DEF OrderPasses, RunPass, PassFails, CommitFails, EndBuild, vars, buildVars
<1>2. CASE StartBuild
  BY <1>2 DEF StartBuild, ValidatedInv, InitialPipelineState
<1>3. CASE SkipStage
  <2>1. at # 16
    BY <1>3, StagePlaces DEF SkipStage, Skipped, Stage
  <2> QED BY <1>3, <2>1 DEF SkipStage, ValidatedInv, Validated, Dangling, InitialPipelineState
<1>4. CASE EnterStage
  BY <1>4 DEF EnterStage, ValidatedInv, Validated, Dangling, InitialPipelineState
<1>5. CASE HitCache
  <2> DEFINE changed == [state EXCEPT !.hit = TRUE, !.graph = snapshot.graph,
                                      !.products = @ \cup snapshot.products]
  <2>1. EndStage(changed) /\ step = "passes" /\ Stage = "cache-loading-and-compatibility"
    BY <1>5 DEF HitCache, AtEndOf
  <2>2. DOMAIN changed = DOMAIN state /\ changed.fatal = state.fatal
        /\ changed.validation = state.validation
    BY DEF ValidatedInv, InitialPipelineState
  <2>3. ~ (at > 16)
    BY <2>1, StagePlaces DEF Stage, ValidatedInv
  <2> QED BY <2>1, <2>2, <2>3, EndStageKeeps
<1>6. CASE MissCache \/ EndPlainStage
  <2>1. EndStage(state) /\ step = "passes" /\ Stage # "graph-validation"
    BY <1>6 DEF MissCache, EndPlainStage, AtEndOf
  <2> QED BY <2>1, EndStageKeeps
<1>7. CASE ConstructGraph
  <2> DEFINE changed == [state EXCEPT !.graph = BuiltGraph(state.results \o records)]
  <2>1. EndStage(changed) /\ step = "passes" /\ Stage = "graph-construction"
    BY <1>7 DEF ConstructGraph, AtEndOf
  <2>2. DOMAIN changed = DOMAIN state /\ changed.fatal = state.fatal
        /\ changed.validation = state.validation
    BY DEF ValidatedInv, InitialPipelineState
  <2>3. ~ (at > 16)
    BY <2>1, StagePlaces DEF Stage, ValidatedInv
  <2> QED BY <2>1, <2>2, <2>3, EndStageKeeps
<1>8. CASE ValidateGraph
  <2>1. PICK ok \in BOOLEAN :
          /\ EndStage([state EXCEPT !.validation = IF ok THEN "ok" ELSE "rejected", !.fatal = ~ok])
          /\ Dangling(state.graph) # {} => ~ok
    BY <1>8 DEF ValidateGraph, Accepts
  <2>2. step = "passes" /\ step' = "next" /\ at' = at + 1
    BY <1>8, <2>1 DEF ValidateGraph, AtEndOf, EndStage
  <2>3. DOMAIN state' = DOMAIN InitialPipelineState /\ state'.fatal \in BOOLEAN
    BY <2>1 DEF EndStage, Merged, ValidatedInv, InitialPipelineState
  <2>4. ~state'.fatal => Validated'
    <3>1. /\ state'.graph = state.graph /\ state'.fatal = ~ok
          /\ state'.validation = IF ok THEN "ok" ELSE "rejected"
      BY <2>1 DEF EndStage, Merged, ValidatedInv, InitialPipelineState
    <3> QED BY <2>1, <3>1 DEF Validated, Dangling
  <2>5. at \in 1..StageCount
    BY <2>2 DEF ValidatedInv
  <2> QED BY <2>2, <2>3, <2>4, <2>5 DEF ValidatedInv
<1>9. CASE CommitArtifacts
  <2> DEFINE changed == [state EXCEPT !.artifacts = IF invocation.write THEN state.graph ELSE None]
  <2>1. EndStage(changed) /\ step = "passes" /\ Stage = "artifact-commit"
    BY <1>9 DEF CommitArtifacts, AtEndOf
  <2>2. DOMAIN changed = DOMAIN state /\ changed.fatal = state.fatal
        /\ changed.validation = state.validation /\ changed.graph = state.graph
    BY DEF ValidatedInv, InitialPipelineState
  <2> QED BY <2>1, <2>2, EndStageKeeps
<1> QED BY <1>1, <1>2, <1>3, <1>4, <1>5, <1>6, <1>7, <1>8, <1>9 DEF Next

\* Nothing is committed that the build that commits it has not validated.
THEOREM OnlyValidatedIsCommitted == Spec => CommittedGraphsAreValidated
<1>1. Init => ValidatedInv
  BY DEF Init, ValidatedInv, InitialPipelineState, StageCount
<1>2. ValidatedInv /\ [Next]_vars => ValidatedInv'
  BY ValidatedStep
<1>3. ASSUME ValidatedInv, [Next]_vars
      PROVE  [CommitsValidated]_vars
  <2> SUFFICES CommitsValidated
    OBVIOUS
  <2>1. CASE CommitArtifacts \/ CommitFails
    <3>1. step = "passes" /\ Stage = "artifact-commit"
      BY <2>1 DEF CommitArtifacts, CommitFails, AtEndOf
    <3>2. at \in 1..StageCount /\ ~state.fatal
      BY <1>3, <3>1 DEF ValidatedInv, StageCount
    <3>3. at > 16
      BY <3>1, <3>2, StagePlaces DEF Stage
    <3>4. Validated
      BY <1>3, <3>1, <3>2, <3>3 DEF ValidatedInv
    <3>5. state'.artifacts \in {None, state.artifacts, state.graph}
      <4>1. CASE CommitArtifacts
        BY <1>3, <4>1 DEF CommitArtifacts, EndStage, Merged, ValidatedInv, InitialPipelineState
      <4>2. CASE CommitFails
        BY <4>2 DEF CommitFails
      <4> QED BY <2>1, <4>1, <4>2
    <3>6. snapshot' \in {None, snapshot, Snapshot}
      BY <2>1 DEF CommitArtifacts, CommitFails
    <3> QED BY <3>4, <3>5, <3>6 DEF CommitsValidated, Snapshot
  <2>2. CASE StartBuild
    BY <2>2 DEF StartBuild, InitialPipelineState, CommitsValidated
  <2>3. CASE OrderPasses \/ SkipStage \/ EnterStage \/ RunPass \/ PassFails \/ EndBuild
             \/ UNCHANGED vars
    BY <2>3 DEF OrderPasses, SkipStage, EnterStage, RunPass, PassFails, EndBuild, vars,
                buildVars, CommitsValidated
  <2>4. CASE HitCache \/ MissCache \/ ConstructGraph \/ ValidateGraph \/ EndPlainStage
    <3>1. snapshot' = snapshot
      BY <2>4 DEF HitCache, MissCache, ConstructGraph, ValidateGraph, EndPlainStage
    <3>2. PICK changed : EndStage(changed) /\ changed.artifacts = state.artifacts
                         /\ "artifacts" \in DOMAIN changed
      <4> USE <1>3 DEF ValidatedInv, InitialPipelineState
      <4>1. CASE HitCache
        <5> DEFINE c == [state EXCEPT !.hit = TRUE, !.graph = snapshot.graph,
                                      !.products = @ \cup snapshot.products]
        <5>1. EndStage(c)
          BY <4>1 DEF HitCache
        <5>2. c.artifacts = state.artifacts /\ "artifacts" \in DOMAIN c
          OBVIOUS
        <5> QED BY <5>1, <5>2
      <4>2. CASE MissCache \/ EndPlainStage
        BY <4>2 DEF MissCache, EndPlainStage
      <4>3. CASE ConstructGraph
        BY <4>3 DEF ConstructGraph
      <4>4. CASE ValidateGraph
        <5>1. PICK ok \in BOOLEAN :
                EndStage([state EXCEPT !.validation = IF ok THEN "ok" ELSE "rejected",
                                       !.fatal = ~ok])
          BY <4>4 DEF ValidateGraph
        <5> DEFINE c == [state EXCEPT !.validation = IF ok THEN "ok" ELSE "rejected",
                                      !.fatal = ~ok]
        <5>2. c.artifacts = state.artifacts /\ "artifacts" \in DOMAIN c
          OBVIOUS
        <5> QED BY <5>1, <5>2
      <4> QED BY <2>4, <4>1, <4>2, <4>3, <4>4
    <3>3. state'.artifacts = state.artifacts
      BY <3>2 DEF EndStage, Merged
    <3> QED BY <3>1, <3>3 DEF CommitsValidated
  <2> QED BY <1>3, <2>1, <2>2, <2>3, <2>4 DEF Next
<1> QED BY <1>1, <1>2, <1>3, PTL DEF Spec, CommittedGraphsAreValidated

-----------------------------------------------------------------------------
(* Warm builds end as clean ones do. *)

\* The stages are nineteen, and eight of them, side by side, are cacheable.
LEMMA StageNumbers ==
  /\ \A i, j \in 1..StageCount : COMPILER_STAGE_IDS[i] = COMPILER_STAGE_IDS[j] => i = j
  /\ \A i \in 1..StageCount : COMPILER_STAGE_IDS[i] \in CACHEABLE_STAGE_IDS <=> i \in 8..15
  /\ COMPILER_STAGE_IDS[6] = "cache-loading-and-compatibility"
  /\ COMPILER_STAGE_IDS[14] = "graph-construction"
  /\ COMPILER_STAGE_IDS[16] = "graph-validation"
  /\ COMPILER_STAGE_IDS[19] = "artifact-commit"
<1> USE DEF COMPILER_STAGE_IDS, StageCount
<1>1. \A i, j \in 1..StageCount : COMPILER_STAGE_IDS[i] = COMPILER_STAGE_IDS[j] => i = j
  OBVIOUS
<1>2. \A i \in 1..StageCount : COMPILER_STAGE_IDS[i] \in CACHEABLE_STAGE_IDS <=> i \in 8..15
  BY DEF CACHEABLE_STAGE_IDS
<1> QED BY <1>1, <1>2

\* A set of numbers up to n that is not empty has a largest.
LEMMA LargestOf ==
  ASSUME NEW n \in Nat, NEW S \in SUBSET (1..n), S # {}
  PROVE  \E i \in S : \A j \in S : j <= i
<1> DEFINE T == {n - i : i \in S}
           less == OpToRel(<, Nat)
<1>0. \A i \in S : i \in 1..n /\ n - i \in Nat
  OBVIOUS
<1>1. T \subseteq Nat /\ T # {}
  BY <1>0
<1> HIDE DEF T
<1>2. PICK x \in T : \A y \in T : <<y, x>> \notin less
  BY <1>1, NatLessThanWellFounded, WFMin
<1>3. ASSUME NEW y \in T PROVE x <= y
  <2>1. x \in Nat /\ y \in Nat
    BY <1>1
  <2>2. ~ (y < x)
    BY <1>2, <2>1 DEF OpToRel
  <2> QED BY <2>1, <2>2
<1>4. PICK i \in S : x = n - i
  BY DEF T
<1>5. ASSUME NEW j \in S PROVE j <= i
  <2>1. x <= n - j
    BY <1>3 DEF T
  <2> QED BY <2>1, <1>0, <1>4
<1> QED BY <1>5

LEMMA RangeOfConcat ==
  ASSUME NEW S, NEW s \in Seq(S), NEW t \in Seq(S)
  PROVE  RangeOf(s \o t) = RangeOf(s) \cup RangeOf(t)
<1>1. Len(s \o t) = Len(s) + Len(t)
  OBVIOUS
<1>2. \A i \in 1..Len(s) : (s \o t)[i] = s[i] /\ i \in 1..Len(s \o t)
  BY <1>1
<1>3. \A i \in 1..Len(t) : (s \o t)[Len(s) + i] = t[i] /\ Len(s) + i \in 1..Len(s \o t)
  BY <1>1
<1>4. \A i \in 1..Len(s \o t) : i \in 1..Len(s) \/ (i - Len(s) \in 1..Len(t) /\ i = Len(s) + (i - Len(s)))
  BY <1>1
<1>5. RangeOf(s) \cup RangeOf(t) \subseteq RangeOf(s \o t)
  BY <1>2, <1>3 DEF RangeOf
<1>6. RangeOf(s \o t) \subseteq RangeOf(s) \cup RangeOf(t)
  BY <1>2, <1>3, <1>4 DEF RangeOf
<1> QED BY <1>5, <1>6

LEMMA ConcatAppend ==
  \A S : \A s, t \in Seq(S), x \in S : s \o Append(t, x) = Append(s \o t, x)
<1> SUFFICES ASSUME NEW S, NEW s \in Seq(S), NEW t \in Seq(S), NEW x \in S
             PROVE  s \o Append(t, x) = Append(s \o t, x)
  OBVIOUS
<1> DEFINE l == s \o Append(t, x)
           r == Append(s \o t, x)
<1>1. l \in Seq(S) /\ r \in Seq(S)
  OBVIOUS
<1>2. Len(l) = Len(s) + Len(t) + 1 /\ Len(r) = Len(s) + Len(t) + 1
  OBVIOUS
<1>3. ASSUME NEW i \in 1..Len(l)
      PROVE  l[i] = r[i]
  <2>1. CASE i <= Len(s)
    BY <2>1
  <2>2. CASE i > Len(s) /\ i <= Len(s) + Len(t)
    BY <2>2
  <2>3. CASE i = Len(s) + Len(t) + 1
    BY <2>3
  <2> QED BY <1>2, <2>1, <2>2, <2>3
<1> HIDE DEF l, r
<1>4. l = r
  BY <1>1, <1>2, <1>3
<1> QED BY <1>4 DEF l, r

\* Once the passes are ordered, every pass has a stage and a place.
LEMMA Places ==
  ASSUME OrderInv, phase = "ordered"
  PROVE  /\ RangeOf(sorted) = Ids /\ Ids \subseteq PassIds
         /\ \A id \in Ids : Rank(id) \in 1..StageCount
         /\ \A id \in Ids, a \in 1..StageCount :
              PassOf(id).stage = COMPILER_STAGE_IDS[a] <=> Rank(id) = a
         /\ \A f, t \in Ids : f = t \/ Before(f, t) \/ Before(t, f)
         /\ \A f, t : ~ (Before(f, t) /\ Before(t, f))
<1>0. passes \in Seq(CompilerPass) /\ Unique /\ StagesKnown /\ sorted \in Seq(Ids) /\ NoRepeat
  BY DEF OrderInv
<1>1. RangeOf(sorted) = Ids
  BY AllSorted DEF OrderInv
<1>2. \A id \in Ids : PassOf(id).stage \in StageIds
  <2> TAKE id \in Ids
  <2>1. PICK p \in RangeOf(passes) : p.id = id
    BY DEF Ids, RangeOf
  <2>2. PassOf(id) = p
    BY <1>0, <2>1, PassOfId
  <2> QED BY <1>0, <2>1, <2>2 DEF StagesKnown
<1>3. \A id \in Ids : Rank(id) \in 1..StageCount /\ COMPILER_STAGE_IDS[Rank(id)] = PassOf(id).stage
  <2> TAKE id \in Ids
  <2>1. PICK i \in 1..StageCount : COMPILER_STAGE_IDS[i] = PassOf(id).stage
    BY <1>2 DEF StageIds
  <2> QED BY <2>1 DEF Rank
<1>4. \A id \in Ids, a \in 1..StageCount : PassOf(id).stage = COMPILER_STAGE_IDS[a] <=> Rank(id) = a
  BY <1>3, StageNumbers
<1>5. ASSUME NEW f \in Ids, NEW t \in Ids, f # t
      PROVE  Before(f, t) \/ Before(t, f)
  <2>1. PICK i \in 1..Len(sorted), j \in 1..Len(sorted) : sorted[i] = f /\ sorted[j] = t
    BY <1>1 DEF RangeOf
  <2>2. i \in 1..j - 1 \/ j \in 1..i - 1
    BY <1>0, <1>5, <2>1
  <2> QED BY <2>1, <2>2 DEF Before
<1>6. ASSUME NEW f, NEW t, Before(f, t), Before(t, f)
      PROVE  FALSE
  <2>1. PICK j \in 1..Len(sorted), i \in Nat : i \in 1..j - 1 /\ sorted[i] = f /\ sorted[j] = t
    BY <1>6 DEF Before
  <2>2. PICK l \in 1..Len(sorted), k \in Nat : k \in 1..l - 1 /\ sorted[k] = t /\ sorted[l] = f
    BY <1>6 DEF Before
  <2>3. Len(sorted) \in Nat /\ i \in 1..Len(sorted) /\ k \in 1..Len(sorted)
    BY <1>0, <2>1, <2>2
  <2>4. k = j /\ i = l
    <3>1. \A x, y \in 1..Len(sorted) : sorted[x] = sorted[y] => x = y
      BY <1>0, <2>3 DEF NoRepeat
    <3> QED BY <3>1, <2>1, <2>2, <2>3
  <2> QED BY <2>1, <2>2, <2>3, <2>4
<1>7. Ids \subseteq PassIds
  <2>1. \A i \in 1..Len(passes) : passes[i] \in CompilerPass
    BY <1>0
  <2> QED BY <2>1 DEF Ids, CompilerPass
<1> QED BY <1>1, <1>3, <1>4, <1>5, <1>6, <1>7

LEMMA ContributorsByRank ==
  ASSUME OrderInv, phase = "ordered"
  PROVE  Contributors = {id \in Ids : Rank(id) < 15}
  BY Places DEF Contributors, StageCount

\* What is said of the order of the passes stays as it is while they do.
LEMMA OrderKept ==
  ASSUME UNCHANGED orderVars
  PROVE  /\ Ids' = Ids
         /\ \A id : PassOf(id)' = PassOf(id) /\ Rank(id)' = Rank(id)
         /\ \A f, t : RunsBefore(f, t)' <=> RunsBefore(f, t)
         /\ \A f, t : Before(f, t)' <=> Before(f, t)
         /\ \A a : OfStage(a)' = OfStage(a)
         /\ Archived' = Archived
         /\ Contributors' = Contributors
         /\ CleanGraphs' = CleanGraphs
<1>1. passes' = passes /\ sorted' = sorted /\ phase' = phase
  BY DEF orderVars
<1>2. Ids' = Ids
  BY <1>1 DEF Ids
<1>3. \A id : PassOf(id)' = PassOf(id)
  BY <1>1 DEF PassOf
<1>4. \A id : Rank(id)' = Rank(id)
  BY <1>3 DEF Rank
<1>5. \A f, t : Before(f, t)' <=> Before(f, t)
  BY <1>1 DEF Before
<1>6. \A f, t : RunsBefore(f, t)' <=> RunsBefore(f, t)
  BY <1>4, <1>5 DEF RunsBefore
<1>7. Contributors' = Contributors
  BY <1>2, <1>3 DEF Contributors
<1>8. \A g : IsClean(g)' <=> IsClean(g)
  BY <1>6, <1>7 DEF IsClean
<1>9. CleanGraphs' = CleanGraphs
  BY <1>2, <1>8 DEF CleanGraphs, GraphOf
<1>10. (\A a : OfStage(a)' = OfStage(a)) /\ Archived' = Archived
  BY <1>2, <1>4 DEF OfStage, Archived
<1> QED BY <1>2, <1>3, <1>4, <1>5, <1>6, <1>7, <1>9, <1>10

\* The graph of passes that have run in order is the clean one, if they are
\* those that contribute to it: the last to make a node comes after the others.
LEMMA BuiltIsClean ==
  ASSUME OrderInv, phase = "ordered", NEW run \in Seq(Ids), InOrder(run),
         RangeOf(run) = Contributors, diagnostics = Contributors
  PROVE  BuiltGraph(run) \in CleanGraphs
<1> DEFINE made == UNION {NodesOf[id] : id \in RangeOf(run)}
           writers(n) == {i \in 1..Len(run) : n \in NodesOf[run[i]]}
           last(n) == CHOOSE i \in writers(n) : \A j \in writers(n) : j <= i
           nodes == [n \in made |-> run[last(n)]]
           g == [nodes |-> nodes, edges |-> UNION {EdgesOf[id] : id \in RangeOf(run)},
                 diagnostics |-> diagnostics]
<1>1. BuiltGraph(run) = g
  BY DEF BuiltGraph, NodesFrom
<1>2. Len(run) \in Nat /\ \A i \in 1..Len(run) : run[i] \in Ids
  OBVIOUS
<1>3. ASSUME NEW n \in made
      PROVE  last(n) \in writers(n) /\ \A j \in writers(n) : j <= last(n)
  <2>1. writers(n) \in SUBSET (1..Len(run)) /\ writers(n) # {}
    BY DEF RangeOf
  <2>2. \E i \in writers(n) : \A j \in writers(n) : j <= i
    BY <1>2, <2>1, LargestOf
  <2> QED BY <2>2
<1>4. Contributors \subseteq Ids /\ Ids \subseteq PassIds
  BY Places DEF Contributors
<1> HIDE DEF last, writers
<1>5. ASSUME NEW n \in made
      PROVE  /\ nodes[n] \in {id \in Contributors : n \in NodesOf[id]}
             /\ \A other \in Contributors \ {nodes[n]} :
                  n \in NodesOf[other] => RunsBefore(other, nodes[n])
  <2>1. nodes[n] = run[last(n)] /\ last(n) \in 1..Len(run) /\ n \in NodesOf[run[last(n)]]
    BY <1>3 DEF writers
  <2>2. nodes[n] \in Contributors
    BY <2>1 DEF RangeOf
  <2>3. ASSUME NEW other \in Contributors \ {nodes[n]}, n \in NodesOf[other]
        PROVE  RunsBefore(other, nodes[n])
    <3>1. PICK j \in 1..Len(run) : run[j] = other
      BY DEF RangeOf
    <3>2. j \in writers(n)
      BY <2>3, <3>1 DEF writers
    <3>3. j <= last(n) /\ j # last(n)
      BY <3>1, <3>2, <1>3, <2>1
    <3>4. j \in 1..last(n) - 1
      BY <3>1, <3>3, <2>1, <1>2
    <3> QED BY <3>1, <3>4, <2>1 DEF InOrder
  <2> QED BY <2>1, <2>2, <2>3
<1> HIDE DEF nodes
<1>6. DOMAIN nodes = made
  BY DEF nodes
<1>7. IsClean(g)
  <2>1. g.nodes = nodes /\ g.edges = UNION {EdgesOf[id] : id \in Contributors}
        /\ g.diagnostics = Contributors
    OBVIOUS
  <2> HIDE DEF g
  <2> QED BY <2>1, <1>5, <1>6 DEF IsClean
<1>8. g \in GraphOf(Ids)
  <2>1. nodes \in [made -> Ids]
    BY <1>4, <1>5, <1>6 DEF nodes
  <2>2. made \in SUBSET Nodes
    BY <1>4, PipelineAssumption
  <2>3. g.edges \in SUBSET (Nodes \X Nodes)
    BY <1>4, PipelineAssumption
  <2> HIDE DEF made
  <2>4. nodes \in UNION {[ns -> Ids] : ns \in SUBSET Nodes}
    BY <2>1, <2>2
  <2> QED BY <2>3, <2>4, <1>4 DEF GraphOf
<1> QED BY <1>1, <1>7, <1>8 DEF CleanGraphs

\* At the end of a stage its passes have run.
LEMMA StageIsRun ==
  ASSUME OrderInv, ValidatedInv, BuildInv, step = "passes", todo = {}
  PROVE  /\ RangeOf(records) = OfStage(at) /\ at \in 1..StageCount
         /\ ~ (state.hit /\ at \in 8..15)
         /\ Ran \in Seq(Ids)
         /\ RangeOf(Ran) = Due(at) \cup OfStage(at)
<1>1. LoopInv /\ at \in 1..StageCount /\ ~ (state.hit /\ at \in 8..15)
  BY DEF BuildInv
<1>2. RangeOf(records) = OfStage(at)
  BY <1>1 DEF LoopInv
<1>3. state.results \in Seq(Ids) /\ records \in Seq(Ids) /\ RangeOf(state.results) = Due(at)
  BY <1>1 DEF LoopInv
<1>4. RangeOf(Ran) = Due(at) \cup OfStage(at)
  BY <1>2, <1>3, RangeOfConcat DEF Ran
<1> QED BY <1>1, <1>2, <1>3, <1>4 DEF Ran

\* The end of a stage keeps the invariant when the stage's own result does.
LEMMA EndStageBuilds ==
  ASSUME OrderInv, ValidatedInv, BuildInv, step = "passes", todo = {},
         NEW changed, EndStage(changed),
         DOMAIN changed = DOMAIN state,
         changed.hit = state.hit \/ (at = 6 /\ changed.hit = TRUE),
         changed.products = RangeOf(state.results) \cup {id \in Archived : changed.hit},
         changed.graph \in {None} \cup CleanGraphs,
         changed.validation \in {None, "ok", "rejected"},
         changed.artifacts # None => changed.artifacts = changed.graph /\ at = StageCount,
         diagnostics' \ {Issue} = RangeOf(Ran) \cup {id \in Contributors : changed.hit},
         at < 16 => Issue \notin diagnostics',
         snapshot' \in {None} \cup [graph : CleanGraphs, products : {Archived}]
  PROVE  BuildInv'
<1>1. /\ phase = "ordered" /\ LoopInv /\ GatheredInv
      /\ invocation \in Invocations /\ builds \in 0..MaxBuilds
  BY DEF BuildInv
<1>2. /\ RangeOf(records) = OfStage(at) /\ at \in 1..StageCount
      /\ ~ (state.hit /\ at \in 8..15)
      /\ Ran \in Seq(Ids) /\ RangeOf(Ran) = Due(at) \cup OfStage(at)
  BY StageIsRun
<1>3. /\ state' = Merged(changed) /\ at' = at + 1 /\ records' = <<>> /\ todo' = {}
      /\ step' = "next" /\ UNCHANGED orderVars /\ invocation' = invocation
      /\ builds' = builds /\ phase' = phase
  BY DEF EndStage, orderVars
<1>4. /\ DOMAIN changed = DOMAIN InitialPipelineState
      /\ state'.results = Ran /\ state'.products = changed.products \cup RangeOf(records)
      /\ state'.hit = changed.hit /\ state'.graph = changed.graph
      /\ state'.validation = changed.validation /\ state'.artifacts = changed.artifacts
  BY <1>3 DEF Merged, Ran, ValidatedInv, InitialPipelineState
<1>5. Ran' = Ran
  <2>1. Ran' = Ran \o <<>>
    BY <1>3, <1>4 DEF Ran
  <2> QED BY <2>1, <1>2
<1>6. Due(at)' = Due(at) \cup OfStage(at)
  <2>1. Due(at)' = {id \in Ids : Rank(id) < at + 1 /\ ~ (changed.hit /\ Rank(id) \in 8..15)}
    BY <1>3, <1>4, OrderKept DEF Due
  <2>2. \A id \in Ids : Rank(id) \in 1..StageCount
    BY <1>1, Places
  <2>3. \A id \in Ids : Rank(id) < at + 1 <=> Rank(id) < at \/ Rank(id) = at
    BY <2>2, <1>2
  <2>4. CASE changed.hit = state.hit
    BY <2>1, <2>2, <2>3, <2>4, <1>2 DEF Due, OfStage
  <2>5. CASE at = 6
    <3>1. ~ state.hit
      BY <2>5, <1>1 DEF GatheredInv
    <3>2. \A id \in Ids : Rank(id) < at + 1 => Rank(id) \notin 8..15
      BY <2>2, <2>5
    <3> QED BY <2>1, <2>3, <3>1, <3>2 DEF Due, OfStage
  <2> QED BY <2>4, <2>5
<1>7. LoopInv'
  <2>1. InOrder(Ran)' <=> InOrder(Ran)
    BY <1>3, <1>5, OrderKept DEF InOrder
  <2>2. InOrder(Ran)
    BY <1>1 DEF LoopInv
  <2>3. state'.results \in Seq(Ids') /\ records' \in Seq(Ids')
    BY <1>2, <1>3, <1>4, OrderKept
  <2>4. RangeOf(state.results)' = Due(at)'
    BY <1>2, <1>4, <1>6 DEF RangeOf
  <2> QED BY <1>3, <2>1, <2>2, <2>3, <2>4 DEF LoopInv
<1>8. GatheredInv'
  <2>1. state'.products = RangeOf(state'.results) \cup {id \in Archived' : state'.hit}
    <3>1. RangeOf(state'.results) = RangeOf(state.results) \cup RangeOf(records)
      BY <1>2, <1>4, <1>1 DEF LoopInv
    <3> QED BY <3>1, <1>3, <1>4, OrderKept
  <2>2. diagnostics' \ {Issue} = RangeOf(Ran') \cup {id \in Contributors' : state'.hit}
    BY <1>3, <1>4, <1>5, OrderKept
  <2>3. state'.hit \in BOOLEAN /\ (state'.hit => at' > 6)
    <3>1. state.hit \in BOOLEAN /\ (state.hit => at > 6)
      BY <1>1 DEF GatheredInv
    <3>2. at \in 1..19 /\ at' = at + 1 /\ state'.hit = changed.hit
      BY <1>2, <1>3, <1>4 DEF StageCount
    <3>3. changed.hit \in BOOLEAN
      BY <3>1
    <3>4. at > 6 \/ at = 6 => at' > 6
      BY <3>2
    <3>5. changed.hit => at > 6 \/ at = 6
      BY <3>1
    <3> QED BY <3>2, <3>3, <3>4, <3>5
  <2>4. at' <= 16 => Issue \notin diagnostics'
    BY <1>2, <1>3
  <2>5. state'.artifacts # None => state'.artifacts = state'.graph /\ at' > StageCount
    BY <1>2, <1>3, <1>4 DEF StageCount
  <2>6. state'.graph \in {None} \cup CleanGraphs'
        /\ snapshot' \in {None} \cup [graph : CleanGraphs', products : {Archived'}]
    BY <1>3, <1>4, OrderKept
  <2>7. RangeOf(state.results)' = RangeOf(state'.results) /\ RangeOf(Ran)' = RangeOf(Ran')
    BY DEF RangeOf
  <2> QED BY <1>4, <2>1, <2>2, <2>3, <2>4, <2>5, <2>6, <2>7 DEF GatheredInv
<1> QED BY <1>1, <1>3, <1>7, <1>8 DEF BuildInv

\* A pass runs after all that have run.
LEMMA RunPassBuilds ==
  ASSUME OrderInv, ValidatedInv, BuildInv, RunPass
  PROVE  BuildInv'
<1>1. PICK id \in todo : /\ IsNext(id) /\ todo' = todo \ {id}
                        /\ records' = Append(records, id)
                        /\ diagnostics' = diagnostics \cup {id}
  BY DEF RunPass
<1>2. /\ phase = "ordered" /\ LoopInv /\ GatheredInv /\ at \in 1..StageCount
      /\ step = "passes" /\ step' = "passes" /\ at' = at /\ state' = state
      /\ snapshot' = snapshot /\ UNCHANGED orderVars /\ phase' = phase
      /\ invocation' = invocation /\ builds' = builds
  BY DEF RunPass, BuildInv, orderVars
<1>3. /\ state.results \in Seq(Ids) /\ records \in Seq(Ids) /\ InOrder(Ran)
      /\ RangeOf(state.results) = Due(at)
      /\ todo = OfStage(at) \ RangeOf(records) /\ RangeOf(records) \subseteq OfStage(at)
      /\ \A i \in todo, r \in RangeOf(records) : Before(r, i)
  BY <1>2 DEF LoopInv
<1>4. id \in Ids /\ Rank(id) = at /\ id \notin RangeOf(records) /\ id # Issue
  BY <1>2, <1>3, Places, PipelineAssumption DEF OfStage
<1>5. RangeOf(records') = RangeOf(records) \cup {id} /\ records' \in Seq(Ids)
  BY <1>1, <1>3, <1>4, RangeOfAppend
<1>6. Ran \in Seq(Ids) /\ Ran' = Append(Ran, id)
  <2>1. Ran' = state.results \o Append(records, id)
    BY <1>1, <1>2 DEF Ran
  <2>2. state.results \in Seq(Ids) /\ records \in Seq(Ids) /\ id \in Ids
    BY <1>3, <1>4
  <2>3. state.results \o Append(records, id) = Append(state.results \o records, id)
    <3>1. \A s, t \in Seq(Ids), x \in Ids : s \o Append(t, x) = Append(s \o t, x)
      BY ConcatAppend
    <3> QED BY <2>2, <3>1
  <2> QED BY <1>3, <2>1, <2>3 DEF Ran
<1>7. RangeOf(Ran') = RangeOf(Ran) \cup {id}
  BY <1>4, <1>6, RangeOfAppend
<1>8. \A r \in RangeOf(Ran) : RunsBefore(r, id)
  <2> SUFFICES ASSUME NEW r \in RangeOf(Ran)
               PROVE  RunsBefore(r, id)
    OBVIOUS
  <2>1. r \in Due(at) \/ r \in RangeOf(records)
    BY <1>3, RangeOfConcat DEF Ran
  <2>2. CASE r \in Due(at)
    BY <2>2, <1>4 DEF Due, RunsBefore
  <2>3. CASE r \in RangeOf(records)
    BY <2>3, <1>3, <1>4 DEF OfStage, RunsBefore
  <2> QED BY <2>1, <2>2, <2>3
<1>9. InOrder(Ran)'
  <2> SUFFICES ASSUME NEW i \in 1..Len(Ran'), NEW j \in 1..i - 1
               PROVE  RunsBefore(Ran'[j], Ran'[i])
    BY <1>2, OrderKept DEF InOrder
  <2>1. Len(Ran') = Len(Ran) + 1 /\ Len(Ran) \in Nat
    BY <1>6
  <2>2. j \in 1..Len(Ran) /\ Ran'[j] = Ran[j]
    BY <2>1, <1>4, <1>6
  <2>3. CASE i \in 1..Len(Ran)
    <3>1. Ran'[i] = Ran[i]
      BY <2>3, <1>4, <1>6
    <3> QED BY <2>2, <2>3, <3>1, <1>3 DEF InOrder
  <2>4. CASE i = Len(Ran) + 1
    <3>1. Ran'[i] = id
      BY <2>4, <1>4, <1>6
    <3>2. Ran[j] \in RangeOf(Ran)
      BY <2>2 DEF RangeOf
    <3> QED BY <2>2, <3>1, <3>2, <1>8
  <2> QED BY <2>1, <2>3, <2>4
<1>10. LoopInv'
  <2>1. state'.results \in Seq(Ids') /\ records' \in Seq(Ids')
    BY <1>2, <1>3, <1>5, OrderKept
  <2>2. RangeOf(state.results)' = Due(at)'
    <3>1. Due(at)' = Due(at)
      BY <1>2, OrderKept DEF Due
    <3> QED BY <1>2, <1>3, <3>1 DEF RangeOf
  <2>3. RangeOf(records)' = RangeOf(records')
    BY DEF RangeOf
  <2>4. todo' = OfStage(at)' \ RangeOf(records') /\ RangeOf(records') \subseteq OfStage(at)'
    BY <1>1, <1>2, <1>3, <1>4, <1>5, OrderKept DEF OfStage
  <2>5. \A i \in todo', r \in RangeOf(records') : Before(r, i)
    BY <1>1, <1>3, <1>5 DEF IsNext
  <2>6. \A i \in todo', r \in RangeOf(records') : Before(r, i)'
    BY <2>5, <1>2, OrderKept
  <2> QED BY <1>2, <1>9, <2>1, <2>2, <2>3, <2>4, <2>6 DEF LoopInv
<1>11. GatheredInv'
  <2>1. RangeOf(state.results)' = RangeOf(state.results) /\ RangeOf(Ran)' = RangeOf(Ran')
    BY <1>2 DEF RangeOf
  <2>2. diagnostics' \ {Issue} = RangeOf(Ran)' \cup {i \in Contributors' : state'.hit}
    BY <1>1, <1>2, <1>4, <1>7, <2>1, OrderKept DEF GatheredInv
  <2>3. at' <= 16 => Issue \notin diagnostics'
    BY <1>1, <1>2, <1>4 DEF GatheredInv
  <2> QED BY <1>2, <2>1, <2>2, <2>3, OrderKept DEF GatheredInv
<1> QED BY <1>2, <1>10, <1>11 DEF BuildInv

\* A step that leaves what has run alone leaves what it gathered alone, too.
LEMMA LeavesBuild ==
  ASSUME UNCHANGED <<orderVars, at, records, state, diagnostics>>
  PROVE  /\ Ran' = Ran /\ RangeOf(Ran)' = RangeOf(Ran)
         /\ RangeOf(records)' = RangeOf(records)
         /\ RangeOf(state.results)' = RangeOf(state.results)
         /\ Due(at)' = Due(at) /\ OfStage(at)' = OfStage(at)
         /\ (InOrder(Ran)' <=> InOrder(Ran))
         /\ UNCHANGED todo /\ (step' = step \/ (step = "passes" /\ step' = "failed"))
              => (LoopInv' <=> LoopInv)
         /\ GatheredInv /\ snapshot' \in {None} \cup [graph : CleanGraphs, products : {Archived}]
              => GatheredInv'
<1>1. Ran' = Ran /\ RangeOf(Ran)' = RangeOf(Ran) /\ RangeOf(records)' = RangeOf(records)
      /\ RangeOf(state.results)' = RangeOf(state.results)
  BY DEF Ran, RangeOf
<1>2. Due(at)' = Due(at) /\ OfStage(at)' = OfStage(at)
  BY OrderKept DEF Due
<1>3. InOrder(Ran)' <=> InOrder(Ran)
  BY <1>1, OrderKept DEF InOrder
<1>4. ASSUME UNCHANGED todo, step' = step \/ (step = "passes" /\ step' = "failed")
      PROVE  LoopInv' <=> LoopInv
  <2>1. step' \in {"passes", "failed"} <=> step \in {"passes", "failed"}
    BY <1>4
  <2>2. (\A id \in todo, r \in RangeOf(records) : Before(r, id))'
          <=> (\A id \in todo, r \in RangeOf(records) : Before(r, id))
    BY <1>1, <1>4, OrderKept
  <2> QED BY <1>1, <1>2, <1>3, <1>4, <2>1, <2>2, OrderKept DEF LoopInv
<1>5. ASSUME GatheredInv, snapshot' \in {None} \cup [graph : CleanGraphs, products : {Archived}]
      PROVE  GatheredInv'
  BY <1>1, <1>5, OrderKept DEF GatheredInv
<1> QED BY <1>1, <1>2, <1>3, <1>4, <1>5

LEMMA StartBuilds ==
  ASSUME OrderInv, ValidatedInv, BuildInv, StartBuild
  PROVE  BuildInv'
<1>1. /\ phase = "ordered" /\ phase' = phase /\ UNCHANGED orderVars /\ snapshot' = snapshot
      /\ invocation' \in Invocations /\ builds' \in 0..MaxBuilds /\ step' = "next"
      /\ at' = 1 /\ todo' = {} /\ records' = <<>> /\ state' = InitialPipelineState
      /\ diagnostics' = {}
  BY PipelineAssumption DEF StartBuild, BuildInv, orderVars
<1>2. snapshot \in {None} \cup [graph : CleanGraphs, products : {Archived}]
  BY DEF BuildInv, GatheredInv
<1>3. state'.results = <<>> /\ state'.products = {} /\ state'.hit = FALSE /\ state'.graph = None
      /\ state'.validation = None /\ state'.artifacts = None
  BY <1>1 DEF InitialPipelineState
<1>4. Ran' = <<>> /\ RangeOf(Ran)' = {} /\ RangeOf(state.results)' = {}
  BY <1>1, <1>3 DEF Ran, RangeOf
<1>5. Due(at)' = {}
  <2>1. \A id \in Ids : Rank(id) \in 1..StageCount
    BY <1>1, Places
  <2> QED BY <1>1, <2>1, OrderKept DEF Due, StageCount
<1>6. LoopInv'
  <2>1. InOrder(Ran)'
    BY <1>4 DEF InOrder
  <2>2. state'.results \in Seq(Ids') /\ records' \in Seq(Ids')
    BY <1>1, <1>3
  <2> QED BY <1>1, <1>4, <1>5, <2>1, <2>2 DEF LoopInv
<1>7. GatheredInv'
  BY <1>1, <1>2, <1>3, <1>4, OrderKept DEF GatheredInv
<1> QED BY <1>1, <1>6, <1>7 DEF BuildInv

LEMMA HitBuilds ==
  ASSUME OrderInv, ValidatedInv, BuildInv, HitCache
  PROVE  BuildInv'
<1> DEFINE changed == [state EXCEPT !.hit = TRUE, !.graph = snapshot.graph,
                                    !.products = @ \cup snapshot.products]
<1>1. /\ EndStage(changed) /\ step = "passes" /\ todo = {}
      /\ Stage = "cache-loading-and-compatibility" /\ snapshot # None /\ snapshot' = snapshot
      /\ diagnostics' = diagnostics \cup snapshot.graph.diagnostics
  BY DEF HitCache, AtEndOf
<1>2. phase = "ordered" /\ GatheredInv /\ at \in 1..StageCount
  BY <1>1 DEF BuildInv
<1>3. at = 6
  BY <1>1, <1>2, StageNumbers DEF Stage, StageCount
<1>4. /\ snapshot.graph \in CleanGraphs /\ snapshot.products = Archived
      /\ snapshot.graph.diagnostics = Contributors
  BY <1>1, <1>2 DEF GatheredInv, CleanGraphs, IsClean
<1>5. /\ state.hit = FALSE /\ state.products = RangeOf(state.results)
      /\ diagnostics \ {Issue} = RangeOf(Ran) /\ Issue \notin diagnostics
      /\ state.artifacts = None /\ state.validation \in {None, "ok", "rejected"}
  BY <1>2, <1>3 DEF GatheredInv, StageCount
<1>6. Issue \notin Contributors
  BY <1>2, Places, PipelineAssumption DEF Contributors
<1>7. /\ DOMAIN changed = DOMAIN state /\ changed.hit = TRUE /\ changed.graph = snapshot.graph
      /\ changed.products = RangeOf(state.results) \cup Archived
      /\ changed.validation = state.validation /\ changed.artifacts = state.artifacts
  BY <1>4, <1>5 DEF ValidatedInv, InitialPipelineState
<1>8. diagnostics' \ {Issue} = RangeOf(Ran) \cup Contributors /\ Issue \notin diagnostics'
  BY <1>1, <1>4, <1>5, <1>6
<1>9. {id \in Archived : changed.hit} = Archived /\ {id \in Contributors : changed.hit} = Contributors
  BY <1>7
<1>10. snapshot' \in {None} \cup [graph : CleanGraphs, products : {Archived}]
  BY <1>1, <1>2 DEF GatheredInv
<1> HIDE DEF changed
<1> QED BY <1>1, <1>3, <1>4, <1>5, <1>7, <1>8, <1>9, <1>10, EndStageBuilds

LEMMA ConstructBuilds ==
  ASSUME OrderInv, ValidatedInv, BuildInv, ConstructGraph
  PROVE  BuildInv'
<1> DEFINE changed == [state EXCEPT !.graph = BuiltGraph(state.results \o records)]
<1>1. /\ EndStage(changed) /\ step = "passes" /\ todo = {}
      /\ Stage = "graph-construction" /\ snapshot' = snapshot /\ diagnostics' = diagnostics
  BY DEF ConstructGraph, AtEndOf
<1>2. phase = "ordered" /\ LoopInv /\ GatheredInv
  BY <1>1 DEF BuildInv
<1>3. /\ at \in 1..StageCount /\ ~ (state.hit /\ at \in 8..15)
      /\ Ran \in Seq(Ids) /\ RangeOf(Ran) = Due(at) \cup OfStage(at)
  BY <1>1, StageIsRun
<1>4. at = 14
  BY <1>1, <1>3, StageNumbers DEF Stage, StageCount
<1>5. ~ state.hit /\ Issue \notin diagnostics
  BY <1>2, <1>3, <1>4 DEF GatheredInv
<1>6. RangeOf(Ran) = Contributors
  <2>1. \A id \in Ids : Rank(id) \in 1..StageCount
    BY <1>2, Places
  <2>2. \A id \in Ids : Rank(id) < 15 <=> Rank(id) < 14 \/ Rank(id) = 14
    BY <2>1 DEF StageCount
  <2> QED BY <1>2, <1>3, <1>4, <1>5, <2>2, ContributorsByRank DEF Due, OfStage
<1>7. diagnostics = Contributors
  <2>1. diagnostics \ {Issue} = RangeOf(Ran)
    BY <1>2, <1>5 DEF GatheredInv
  <2> QED BY <2>1, <1>5, <1>6
<1>8. BuiltGraph(Ran) \in CleanGraphs
  <2>1. InOrder(Ran)
    BY <1>2 DEF LoopInv
  <2> QED BY <2>1, <1>2, <1>3, <1>6, <1>7, BuiltIsClean
<1>9. /\ DOMAIN changed = DOMAIN state /\ changed.hit = state.hit
      /\ changed.graph = BuiltGraph(Ran) /\ changed.products = state.products
      /\ changed.validation = state.validation /\ changed.artifacts = state.artifacts
  BY DEF Ran, ValidatedInv, InitialPipelineState
<1>10. /\ state.products = RangeOf(state.results) \cup {id \in Archived : state.hit}
       /\ diagnostics \ {Issue} = RangeOf(Ran) \cup {id \in Contributors : state.hit}
       /\ state.validation \in {None, "ok", "rejected"} /\ state.artifacts = None
       /\ snapshot \in {None} \cup [graph : CleanGraphs, products : {Archived}]
  BY <1>2, <1>4 DEF GatheredInv, StageCount
<1> HIDE DEF changed
<1> QED BY <1>1, <1>4, <1>5, <1>8, <1>9, <1>10, EndStageBuilds

LEMMA ValidateBuilds ==
  ASSUME OrderInv, ValidatedInv, BuildInv, ValidateGraph
  PROVE  BuildInv'
<1>1. PICK ok \in BOOLEAN, issues \in BOOLEAN :
        /\ EndStage([state EXCEPT !.validation = IF ok THEN "ok" ELSE "rejected", !.fatal = ~ok])
        /\ diagnostics' = diagnostics \cup {i \in {Issue} : issues}
  BY DEF ValidateGraph
<1> DEFINE changed == [state EXCEPT !.validation = IF ok THEN "ok" ELSE "rejected", !.fatal = ~ok]
<1>2. /\ EndStage(changed) /\ step = "passes" /\ todo = {} /\ Stage = "graph-validation"
      /\ snapshot' = snapshot
  BY <1>1 DEF ValidateGraph, AtEndOf
<1>3. GatheredInv /\ at \in 1..StageCount
  BY <1>2 DEF BuildInv
<1>4. at = 16
  BY <1>2, <1>3, StageNumbers DEF Stage, StageCount
<1>5. /\ DOMAIN changed = DOMAIN state /\ changed.hit = state.hit
      /\ changed.graph = state.graph /\ changed.products = state.products
      /\ changed.validation \in {"ok", "rejected"} /\ changed.artifacts = state.artifacts
  BY DEF ValidatedInv, InitialPipelineState
<1>6. /\ state.products = RangeOf(state.results) \cup {id \in Archived : state.hit}
      /\ diagnostics \ {Issue} = RangeOf(Ran) \cup {id \in Contributors : state.hit}
      /\ state.graph \in {None} \cup CleanGraphs /\ state.artifacts = None
      /\ snapshot \in {None} \cup [graph : CleanGraphs, products : {Archived}]
  BY <1>3, <1>4 DEF GatheredInv, StageCount
<1>7. diagnostics' \ {Issue} = diagnostics \ {Issue}
  BY <1>1
<1> HIDE DEF changed
<1> QED BY <1>2, <1>4, <1>5, <1>6, <1>7, EndStageBuilds

LEMMA CommitBuilds ==
  ASSUME OrderInv, ValidatedInv, BuildInv, CommitArtifacts \/ CommitFails
  PROVE  BuildInv'
<1>1. /\ step = "passes" /\ todo = {} /\ Stage = "artifact-commit" /\ state.graph # None
      /\ UNCHANGED diagnostics
  BY DEF CommitArtifacts, CommitFails, AtEndOf
<1>2. phase = "ordered" /\ LoopInv /\ GatheredInv /\ at \in 1..StageCount
  BY <1>1 DEF BuildInv
<1>3. at = 19
  BY <1>1, <1>2, StageNumbers DEF Stage, StageCount
<1>4. /\ state.products = RangeOf(state.results) \cup {id \in Archived : state.hit}
      /\ diagnostics \ {Issue} = RangeOf(Ran) \cup {id \in Contributors : state.hit}
      /\ state.validation \in {None, "ok", "rejected"} /\ state.artifacts = None
      /\ state.graph \in CleanGraphs
      /\ snapshot \in {None} \cup [graph : CleanGraphs, products : {Archived}]
  BY <1>1, <1>2, <1>3 DEF GatheredInv, StageCount
<1>5. Stores => Snapshot \in [graph : CleanGraphs, products : {Archived}]
  <2>1. ~ state.hit => state.products = Archived
    BY <1>2, <1>3, <1>4 DEF LoopInv, Due, Archived, StageCount
  <2> QED BY <1>4, <2>1 DEF Stores, Snapshot
<1>6. snapshot' \in {None} \cup [graph : CleanGraphs, products : {Archived}]
  BY <1>4, <1>5 DEF CommitArtifacts, CommitFails
<1>7. CASE CommitArtifacts
  <2> DEFINE changed == [state EXCEPT !.artifacts = IF invocation.write THEN state.graph ELSE None]
  <2>1. EndStage(changed)
    BY <1>7 DEF CommitArtifacts
  <2>2. /\ DOMAIN changed = DOMAIN state /\ changed.hit = state.hit
        /\ changed.graph = state.graph /\ changed.products = state.products
        /\ changed.validation = state.validation /\ changed.artifacts \in {None, state.graph}
    BY DEF ValidatedInv, InitialPipelineState
  <2> HIDE DEF changed
  <2> QED BY <1>1, <1>3, <1>4, <1>6, <2>1, <2>2, EndStageBuilds DEF StageCount
<1>8. CASE CommitFails
  <2>1. /\ UNCHANGED <<orderVars, invocation, at, todo, records, state, diagnostics, builds>>
        /\ step' = "failed" /\ phase' = phase
    BY <1>8 DEF CommitFails, orderVars
  <2>2. LoopInv' /\ GatheredInv'
    BY <1>1, <1>2, <1>6, <2>1, LeavesBuild
  <2> QED BY <1>1, <1>2, <2>1, <2>2 DEF BuildInv
<1> QED BY <1>7, <1>8

LEMMA PlainBuilds ==
  ASSUME OrderInv, ValidatedInv, BuildInv, MissCache \/ EndPlainStage
  PROVE  BuildInv'
<1>1. /\ EndStage(state) /\ step = "passes" /\ todo = {}
      /\ UNCHANGED <<diagnostics, snapshot>>
  BY DEF MissCache, EndPlainStage, AtEndOf
<1>2. LoopInv /\ GatheredInv /\ at \in 1..StageCount
  BY <1>1 DEF BuildInv
<1>3. at # 19
  BY StageNumbers DEF MissCache, EndPlainStage, AtEndOf, Stage
<1>4. /\ state.products = RangeOf(state.results) \cup {id \in Archived : state.hit}
      /\ diagnostics \ {Issue} = RangeOf(Ran) \cup {id \in Contributors : state.hit}
      /\ at < 16 => Issue \notin diagnostics
      /\ state.validation \in {None, "ok", "rejected"} /\ state.artifacts = None
      /\ state.graph \in {None} \cup CleanGraphs
      /\ snapshot \in {None} \cup [graph : CleanGraphs, products : {Archived}]
  BY <1>2 DEF GatheredInv, StageCount
<1> QED BY <1>1, <1>4, EndStageBuilds

LEMMA BuildStep ==
  ASSUME OrderInv, ValidatedInv, BuildInv, [Next]_vars
  PROVE  BuildInv'
<1> USE DEF StageCount
<1>1. CASE OrderPasses
  <2>1. phase # "ordered" /\ UNCHANGED <<buildVars, snapshot, builds>>
    BY <1>1 DEF OrderPasses, OrderNext, RejectInvalid, StartSort, TakeFirst, FinishSort
  <2>2. step = "idle"
    BY <2>1 DEF BuildInv
  <2> QED BY <2>1, <2>2 DEF BuildInv, buildVars
<1>2. CASE StartBuild
  BY <1>2, StartBuilds
<1>3. CASE SkipStage
  <2>1. /\ step = "next" /\ at \in 1..19 /\ Skipped /\ at' = at + 1
        /\ UNCHANGED <<orderVars, invocation, step, todo, records, state, diagnostics, snapshot, builds>>
        /\ phase' = phase
    BY <1>3 DEF SkipStage, ValidatedInv, orderVars
  <2>2. phase = "ordered" /\ LoopInv /\ GatheredInv
    BY <2>1 DEF BuildInv
  <2>3. state.hit /\ at \in 8..15
    BY <2>1, StageNumbers DEF Skipped, Stage
  <2>4. Due(at)' = Due(at)
    <3>1. \A id \in Ids : Rank(id) \in 1..19
      BY <2>2, Places
    <3>2. Due(at)' = {id \in Ids : Rank(id) < at + 1 /\ ~ (state.hit /\ Rank(id) \in 8..15)}
      BY <2>1, OrderKept DEF Due
    <3>3. \A id \in Ids : Rank(id) \notin 8..15 => (Rank(id) < at + 1 <=> Rank(id) < at)
      BY <3>1, <2>3
    <3> QED BY <3>2, <3>3, <2>3 DEF Due
  <2>5. /\ Ran' = Ran /\ RangeOf(Ran)' = RangeOf(Ran) /\ RangeOf(records)' = RangeOf(records)
        /\ RangeOf(state.results)' = RangeOf(state.results)
    BY <2>1 DEF Ran, RangeOf
  <2>6. LoopInv'
    <3>1. InOrder(Ran)' <=> InOrder(Ran)
      BY <2>1, <2>5, OrderKept DEF InOrder
    <3>2. todo = {} /\ records = <<>>
      BY <2>1, <2>2 DEF LoopInv
    <3> QED BY <2>1, <2>2, <2>4, <2>5, <3>1, <3>2, OrderKept DEF LoopInv
  <2>7. GatheredInv'
    <3>1. at' <= 16 /\ at' > 6 /\ at' # 20 /\ at <= 16 /\ ~ (at > 19)
      BY <2>1, <2>3
    <3>2. state.artifacts = None /\ Issue \notin diagnostics
      BY <2>2, <3>1 DEF GatheredInv
    <3> QED BY <2>1, <2>2, <2>5, <3>1, <3>2, OrderKept DEF GatheredInv
  <2> QED BY <2>1, <2>2, <2>6, <2>7 DEF BuildInv
<1>4. CASE EnterStage
  <2>1. /\ step = "next" /\ at \in 1..19 /\ ~ Skipped /\ step' = "passes"
        /\ todo' = passesForStage(Stage) /\ phase' = phase
        /\ UNCHANGED <<orderVars, invocation, at, records, state, diagnostics, snapshot, builds>>
    BY <1>4 DEF EnterStage, ValidatedInv, orderVars
  <2>2. phase = "ordered" /\ LoopInv /\ GatheredInv
    BY <2>1 DEF BuildInv
  <2>3. ~ (state.hit /\ at \in 8..15)
    BY <2>1, StageNumbers DEF Skipped, Stage
  <2>4. passesForStage(Stage) = OfStage(at)
    BY <2>1, <2>2, Places DEF passesForStage, OfStage, Stage
  <2>5. GatheredInv'
    BY <2>1, <2>2, LeavesBuild DEF GatheredInv
  <2>6. records = <<>> /\ RangeOf(records) = {} /\ RangeOf(records)' = {}
    BY <2>1, <2>2 DEF LoopInv, RangeOf
  <2>7. LoopInv'
    BY <2>1, <2>2, <2>4, <2>6, LeavesBuild, OrderKept DEF LoopInv
  <2> QED BY <2>1, <2>2, <2>3, <2>5, <2>7 DEF BuildInv
<1>5. CASE RunPass
  BY <1>5, RunPassBuilds
<1>6. CASE PassFails \/ EndBuild \/ UNCHANGED vars
  <2>1. /\ UNCHANGED <<orderVars, invocation, at, todo, records, state, diagnostics, snapshot, builds>>
        /\ phase' = phase
    BY <1>6 DEF PassFails, EndBuild, vars, buildVars, orderVars
  <2>2. CASE UNCHANGED step
    <3>1. CASE step = "idle"
      BY <2>1, <2>2, <3>1 DEF BuildInv
    <3>2. CASE step # "idle"
      <4>1. LoopInv' /\ GatheredInv'
        BY <2>1, <2>2, <3>2, LeavesBuild DEF BuildInv, GatheredInv
      <4> QED BY <2>1, <2>2, <3>2, <4>1 DEF BuildInv
    <3> QED BY <3>1, <3>2
  <2>3. CASE PassFails
    <3>1. step = "passes" /\ step' = "failed"
      BY <2>3 DEF PassFails
    <3>2. LoopInv' /\ GatheredInv'
      BY <2>1, <3>1, LeavesBuild DEF BuildInv, GatheredInv
    <3> QED BY <2>1, <3>1, <3>2 DEF BuildInv
  <2>4. CASE EndBuild
    <3>1. step = "next" /\ step' = "done" /\ (state.fatal \/ at > 19)
      BY <2>4 DEF EndBuild
    <3>2. LoopInv /\ GatheredInv
      BY <3>1 DEF BuildInv
    <3>3. GatheredInv'
      BY <2>1, <3>2, LeavesBuild DEF GatheredInv
    <3>4. LoopInv'
      BY <2>1, <3>1, <3>2, LeavesBuild, OrderKept DEF LoopInv
    <3>5. ~ state.fatal => at = 20
      BY <3>1 DEF ValidatedInv
    <3> QED BY <2>1, <3>1, <3>3, <3>4, <3>5 DEF BuildInv
  <2> QED BY <1>6, <2>2, <2>3, <2>4 DEF vars, buildVars
<1>7. CASE HitCache
  BY <1>7, HitBuilds
<1>8. CASE MissCache \/ EndPlainStage
  BY <1>8, PlainBuilds
<1>9. CASE ConstructGraph
  BY <1>9, ConstructBuilds
<1>10. CASE ValidateGraph
  BY <1>10, ValidateBuilds
<1>11. CASE CommitArtifacts \/ CommitFails
  BY <1>11, CommitBuilds
<1> QED BY <1>1, <1>2, <1>3, <1>4, <1>5, <1>6, <1>7, <1>8, <1>9, <1>10, <1>11 DEF Next

LEMMA BuildInvariant == Spec => [](OrderInv /\ ValidatedInv /\ BuildInv)
<1>1. Init => OrderInv /\ ValidatedInv /\ BuildInv
  BY PassOrderAssumption, PipelineAssumption, OrderInitial
  DEF Init, ValidatedInv, BuildInv, InitialPipelineState, StageCount
<1>2. OrderInv /\ ValidatedInv /\ BuildInv /\ [Next]_vars => (OrderInv /\ ValidatedInv /\ BuildInv)'
  BY PipelineStep, OrderStep, ValidatedStep, BuildStep
<1> QED BY <1>1, <1>2, PTL DEF Spec

\* A build that uses a snapshot has the graph of one that does not.
THEOREM WarmIsClean == Spec => []WarmGraphIsCleanGraph
<1>1. BuildInv => WarmGraphIsCleanGraph
  BY DEF BuildInv, GatheredInv, CleanGraphs, WarmGraphIsCleanGraph, InitialPipelineState
<1> QED BY <1>1, BuildInvariant, PTL

\* What a build that ends without a rejection has run is all it has to run.
LEMMA AllHaveRun ==
  ASSUME OrderInv, ValidatedInv, BuildInv, step = "done", ~ state.fatal
  PROVE  /\ phase = "ordered" /\ LoopInv /\ GatheredInv /\ RangeOf(Ran) = Due(20)
         /\ RangeOf(state.results) = Due(20)
         /\ \A id \in Ids : Rank(id) \in 1..19
<1>1. phase = "ordered" /\ LoopInv /\ GatheredInv /\ at = 20
  BY DEF BuildInv, StageCount
<1>2. records = <<>> /\ RangeOf(state.results) = Due(20) /\ state.results \in Seq(Ids)
  BY <1>1 DEF LoopInv
<1>3. RangeOf(Ran) = Due(20)
  BY <1>2, RangeOfConcat DEF Ran, RangeOf
<1> QED BY <1>1, <1>2, <1>3, Places DEF StageCount

\* Such a build returns the product of every pass, run or restored.
THEOREM ProductsAreReturned == Spec => []EveryProductIsReturned
<1>1. OrderInv /\ ValidatedInv /\ BuildInv => EveryProductIsReturned
  <2> SUFFICES ASSUME OrderInv, ValidatedInv, BuildInv, step = "done", ~ state.fatal
               PROVE  state.products = Ids
    BY DEF EveryProductIsReturned
  <2>1. state.products = Due(20) \cup {id \in Archived : state.hit}
    BY AllHaveRun DEF GatheredInv
  <2>2. \A id \in Ids : id \in Due(20) \/ (state.hit /\ id \in Archived)
    BY AllHaveRun DEF Due, Archived, StageCount
  <2>3. Due(20) \subseteq Ids /\ Archived \subseteq Ids
    BY DEF Due, Archived
  <2> QED BY <2>1, <2>2, <2>3
<1> QED BY <1>1, BuildInvariant, PTL

\* It reports the diagnostic of every pass, but those of optimization passes
\* that a hit skipped.
THEOREM DiagnosticsAreReported == Spec => []EveryDiagnosticIsReported
<1>1. OrderInv /\ ValidatedInv /\ BuildInv => EveryDiagnosticIsReported
  <2> SUFFICES ASSUME OrderInv, ValidatedInv, BuildInv, step = "done", ~ state.fatal, NEW id \in Ids
               PROVE  id \in diagnostics \/ (state.hit /\ PassOf(id).stage = "optimization-passes")
    BY DEF EveryDiagnosticIsReported
  <2>1. Due(20) \cup {i \in Contributors : state.hit} \subseteq diagnostics
    BY AllHaveRun DEF GatheredInv
  <2>2. Rank(id) \in 1..19
    BY AllHaveRun
  <2>3. CASE id \in Due(20)
    BY <2>1, <2>3
  <2>4. CASE id \notin Due(20)
    <3>1. state.hit /\ Rank(id) \in 8..15
      BY <2>2, <2>4 DEF Due
    <3>2. CASE Rank(id) < 15
      BY <2>1, <3>1, <3>2, AllHaveRun, ContributorsByRank
    <3>3. CASE Rank(id) = 15
      BY <3>1, <3>3, AllHaveRun, Places DEF COMPILER_STAGE_IDS, StageCount
    <3> QED BY <3>1, <3>2, <3>3
  <2> QED BY <2>3, <2>4
<1> QED BY <1>1, BuildInvariant, PTL

-----------------------------------------------------------------------------
\* When a pass has its turn, those it requires have had theirs, in this build
\* or in the one whose snapshot it uses.
THEOREM RequiredRanFirst == Spec => []RequirementsRanFirst
<1>1. OrderInv /\ ValidatedInv /\ BuildInv => RequirementsRanFirst
  <2> SUFFICES ASSUME OrderInv, ValidatedInv, BuildInv, step = "passes", NEW id \in todo,
                      IsNext(id), NEW q \in PassOf(id).requires, Rank(q) <= Rank(id)
               PROVE  HasRun(q) \/ (state.hit /\ q \in state.products)
    BY DEF RequirementsRanFirst
  <2>1. phase = "ordered" /\ LoopInv /\ GatheredInv
    BY DEF BuildInv
  <2>2. id \in Ids /\ Rank(id) = at
    BY <2>1 DEF LoopInv, OfStage
  <2>3. q \in Ids
    <3>1. PICK p \in RangeOf(passes) : p.id = id
      BY <2>2 DEF Ids, RangeOf
    <3>2. PassOf(id) = p
      BY <3>1, PassOfId DEF OrderInv, BuildInv
    <3> QED BY <3>2, <2>1 DEF OrderInv, KnownIn
  <2>4. Before(q, id)
    BY <2>1, <2>2, <2>3, EdgesAreKept DEF Edge
  <2>5. CASE Rank(q) = at
    <3>1. q \notin todo
      <4>1. ~ Before(id, q)
        BY <2>1, <2>4, Places
      <4> QED BY <4>1, <2>4 DEF IsNext
    <3>2. q \in RangeOf(records)
      BY <3>1, <2>1, <2>3, <2>5 DEF LoopInv, OfStage
    <3> QED BY <3>2 DEF HasRun
  <2>6. CASE Rank(q) < at
    <3>1. CASE q \in Due(at)
      BY <3>1, <2>1 DEF LoopInv, HasRun
    <3>2. CASE q \notin Due(at)
      <4>1. state.hit /\ Rank(q) \in 8..15
        BY <3>2, <2>3, <2>6 DEF Due
      <4>2. q \in Archived
        BY <4>1, <2>3 DEF Archived, StageCount
      <4> QED BY <4>1, <4>2, <2>1 DEF GatheredInv
    <3> QED BY <3>1, <3>2
  <2>7. Rank(q) \in 1..StageCount /\ at \in 1..StageCount
    BY <2>1, <2>3, Places DEF BuildInv
  <2> QED BY <2>2, <2>5, <2>6, <2>7
<1> QED BY <1>1, BuildInvariant, PTL

\* The state of the compiler has its types.
THEOREM TypesHold == Spec => []TypeOK
<1>1. OrderInv /\ ValidatedInv /\ BuildInv => TypeOK
  <2> SUFFICES ASSUME OrderInv, ValidatedInv, BuildInv
               PROVE  TypeOK
    OBVIOUS
  <2>1. OrderTypeOK
    <3> SUFFICES ASSUME phase \in {"sorting", "ordered", "cyclic"}
                 PROVE  incoming \in [Ids -> Nat] /\ ready \subseteq Ids \ RangeOf(sorted)
      BY DEF OrderTypeOK, OrderInv
    <3>1. Counts /\ IsFiniteSet(Ids)
      BY IdsAreFinite DEF OrderInv
    <3>2. \A t \in Ids : Cardinality(Missing(t)) \in Nat
      BY <3>1, FS_Subset, FS_CardinalityType DEF Missing
    <3> QED BY <3>1, <3>2 DEF Counts
  <2>2. /\ invocation \in Invocations /\ builds \in 0..MaxBuilds
        /\ step \in {"idle", "next", "passes", "done", "failed"}
        /\ at \in 1..StageCount + 1 /\ state.fatal \in BOOLEAN
    BY DEF BuildInv, ValidatedInv
  <2>3. CASE step = "idle"
    <3>1. /\ at = 1 /\ todo = {} /\ records = <<>> /\ state = InitialPipelineState
          /\ diagnostics = {} /\ snapshot = None
      BY <2>3 DEF BuildInv
    <3> QED BY <2>1, <2>2, <3>1 DEF TypeOK, InitialPipelineState
  <2>4. CASE step # "idle"
    <3>1. phase = "ordered" /\ LoopInv /\ GatheredInv
      BY <2>4 DEF BuildInv
    <3>2. /\ todo \subseteq OfStage(at) /\ records \in Seq(Ids) /\ state.results \in Seq(Ids)
          /\ todo # {} => at \in 1..StageCount
      BY <3>1 DEF LoopInv, BuildInv
    <3>3. \A id \in todo : id \in Ids /\ at <= StageCount /\ PassOf(id).stage = Stage
      BY <3>1, <3>2, Places DEF OfStage, Stage, StageCount
    <3>4. RangeOf(state.results) \subseteq Ids /\ RangeOf(Ran) \subseteq Ids
      BY <3>2, RangeOfSeq, RangeOfConcat DEF Ran
    <3>5. Archived \subseteq Ids /\ Contributors \subseteq Ids
      BY DEF Archived, Contributors
    <3>6. state.products \subseteq Ids /\ diagnostics \subseteq Ids \cup {Issue}
      BY <3>1, <3>4, <3>5 DEF GatheredInv
    <3>7. CleanGraphs \subseteq GraphOf(Ids)
      BY DEF CleanGraphs
    <3>8. state.graph \in {None} \cup GraphOf(Ids) /\ state.artifacts \in {None} \cup GraphOf(Ids)
      BY <3>1, <3>7 DEF GatheredInv
    <3>9. snapshot \in {None} \cup [graph : GraphOf(Ids), products : SUBSET Ids]
      BY <3>1, <3>5, <3>7 DEF GatheredInv
    <3>10. state.hit \in BOOLEAN /\ state.validation \in {None, "ok", "rejected"}
      BY <3>1 DEF GatheredInv
    <3> QED BY <2>1, <2>2, <3>2, <3>3, <3>6, <3>8, <3>9, <3>10 DEF TypeOK
  <2> QED BY <2>3, <2>4
<1> QED BY <1>1, BuildInvariant, PTL

-----------------------------------------------------------------------------
(* Where no pass waits for one of a later stage, no stage is gone back to. *)

LEMMA SmallestOf ==
  ASSUME NEW S \in SUBSET Nat, S # {}
  PROVE  \E i \in S : \A j \in S : i <= j
<1> DEFINE less == OpToRel(<, Nat)
<1>1. PICK x \in S : \A y \in S : <<y, x>> \notin less
  BY NatLessThanWellFounded, WFMin
<1>2. \A y \in S : ~ (y < x)
  BY <1>1 DEF OpToRel
<1> QED BY <1>2

LEMMA RanksAreNumbers ==
  ASSUME OrderInv, phase \in {"sorting", "ordered"}
  PROVE  \A id \in Ids : Rank(id) \in 1..StageCount
<1> TAKE id \in Ids
<1>1. PICK p \in RangeOf(passes) : p.id = id
  BY DEF Ids, RangeOf
<1>2. PassOf(id) = p /\ p.stage \in StageIds
  BY <1>1, PassOfId DEF OrderInv, StagesKnown
<1>3. PICK i \in 1..StageCount : COMPILER_STAGE_IDS[i] = PassOf(id).stage
  BY <1>2 DEF StageIds
<1> QED BY <1>3 DEF Rank

LEMMA RanksCompare ==
  \A a, b, c \in 1..StageCount :
    /\ a < b => ~ (b < a) /\ a # b
    /\ ~ (a <= b) => b < a
    /\ a <= b /\ b < c => a < c
  BY DEF StageCount

LEMMA ChosenStep ==
  ASSUME OrderInv, Chosen, [OrderNext]_orderVars
  PROVE  Chosen'
<1>1. passes' = passes /\ Ids' = Ids /\ \A id : Rank(id)' = Rank(id)
  BY DEF OrderNext, RejectInvalid, StartSort, TakeFirst, FinishSort, orderVars, Ids, Rank, PassOf
<1>2. CASE sorted' = sorted
  BY <1>1, <1>2, PassesKept DEF Chosen
<1>3. CASE TakeFirst
  <2>1. PICK id \in ready : (\A other \in ready : Precedes(id, other)) /\ Take(id)
    BY <1>3 DEF TakeFirst
  <2>2. Counts /\ sorted \in Seq(Ids) /\ phase = "sorting"
    BY <1>3 DEF TakeFirst, OrderInv
  <2>3. id \in Ids
    BY <2>1, <2>2 DEF Counts
  <2>4. sorted' = Append(sorted, id)
    BY <2>1 DEF Take
  <2>5. /\ Len(sorted') = Len(sorted) + 1 /\ Len(sorted) \in Nat
        /\ sorted'[Len(sorted) + 1] = id
        /\ \A k \in 1..Len(sorted) : sorted'[k] = sorted[k]
    BY <2>2, <2>3, <2>4
  <2> SUFFICES ASSUME NEW i \in 1..Len(sorted'), NEW t \in Ids, Rank(t) < Rank(sorted'[i]),
                      \A k \in 1..i : sorted'[k] # t
               PROVE  \E f \in Ids : Edge(f, t) /\ \A k \in 1..i - 1 : sorted'[k] # f
    BY <1>1, PassesKept DEF Chosen
  <2>6. CASE i \in 1..Len(sorted)
    <3>1. Rank(t) < Rank(sorted[i]) /\ \A k \in 1..i : sorted[k] # t
      BY <2>5, <2>6
    <3>2. PICK f \in Ids : Edge(f, t) /\ \A k \in 1..i - 1 : sorted[k] # f
      BY <2>6, <3>1 DEF Chosen
    <3>3. \A k \in 1..i - 1 : sorted'[k] # f
      BY <2>5, <2>6, <3>2
    <3> QED BY <3>2, <3>3
  <2>7. CASE i = Len(sorted) + 1
    <3>1. t \notin RangeOf(sorted)
      BY <2>5, <2>7 DEF RangeOf
    <3>2. Rank(t) \in 1..StageCount /\ Rank(id) \in 1..StageCount /\ Rank(t) < Rank(id)
      BY <2>2, <2>3, <2>5, <2>7, RanksAreNumbers
    <3>3. ~ Precedes(id, t)
      BY <3>2, RanksCompare DEF Precedes
    <3>4. Missing(t) # {}
      BY <2>1, <2>2, <3>1, <3>3 DEF Counts
    <3>5. PICK f \in Ids : Edge(f, t) /\ f \notin RangeOf(sorted)
      BY <3>4 DEF Missing
    <3>6. \A k \in 1..Len(sorted) : sorted'[k] # f
      BY <2>5, <3>5 DEF RangeOf
    <3> QED BY <2>5, <2>7, <3>5, <3>6
  <2> QED BY <2>5, <2>6, <2>7
<1> QED BY <1>2, <1>3 DEF OrderNext, RejectInvalid, StartSort, FinishSort, orderVars

\* Of those taken too late, take the first: what it waited for was taken later
\* than the pass of the later stage, so it was too late already.
THEOREM NeverBack == Spec => []StagesNeverGoBack
<1>1. Init => Chosen
  BY DEF Init, OrderInit, Chosen
<1>2. OrderInv /\ Chosen /\ [Next]_vars => Chosen'
  BY PipelineStep, ChosenStep
<1>3. OrderInv /\ Chosen => StagesNeverGoBack
  <2> SUFFICES ASSUME OrderInv, Chosen, phase = "ordered",
                      \A f, t \in Ids : Edge(f, t) => Rank(f) <= Rank(t),
                      NEW i \in 1..Len(sorted), NEW j \in 1..Len(sorted), i < j,
                      ~ (Rank(sorted[i]) <= Rank(sorted[j]))
               PROVE  FALSE
    BY DEF StagesNeverGoBack
  <2>1. sorted \in Seq(Ids) /\ Closed /\ NoRepeat
    BY DEF OrderInv
  <2>2. \A k \in 1..Len(sorted) : sorted[k] \in Ids /\ Rank(sorted[k]) \in 1..StageCount
    BY <2>1, RanksAreNumbers
  <2> DEFINE late == {k \in 1..Len(sorted) : i < k /\ Rank(sorted[k]) < Rank(sorted[i])}
  <2>3. j \in late
    BY <2>2, RanksCompare
  <2>4. PICK l \in late : \A k \in late : l <= k
    <3>1. late \in SUBSET Nat /\ late # {}
      BY <2>1, <2>3
    <3> QED BY <3>1, SmallestOf
  <2>5. \A k \in 1..i : sorted[k] # sorted[l]
    BY <2>1, <2>4 DEF NoRepeat
  <2>6. PICK f \in Ids : Edge(f, sorted[l]) /\ \A k \in 1..i - 1 : sorted[k] # f
    BY <2>2, <2>4, <2>5 DEF Chosen
  <2>7. PICK k \in 1..l - 1 : sorted[k] = f
    BY <2>1, <2>4, <2>6 DEF Closed
  <2>8. Rank(f) <= Rank(sorted[l])
    BY <2>2, <2>4, <2>6
  <2>9. k \in 1..Len(sorted) /\ k \notin 1..i - 1
    BY <2>1, <2>4, <2>6, <2>7
  <2>10. Rank(sorted[k]) < Rank(sorted[i])
    <3>1. Rank(sorted[l]) < Rank(sorted[i])
      BY <2>4
    <3>2. Rank(sorted[k]) <= Rank(sorted[l])
      BY <2>7, <2>8
    <3> QED BY <2>2, <2>4, <2>9, <3>1, <3>2, RanksCompare
  <2>11. k # i
    BY <2>2, <2>10, RanksCompare
  <2>12. k \in late
    BY <2>9, <2>10, <2>11
  <2> QED BY <2>4, <2>7, <2>12
<1> QED BY <1>1, <1>2, <1>3, OrderInvariant, PTL DEF Spec
=============================================================================
