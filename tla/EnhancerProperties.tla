-------------------------- MODULE EnhancerProperties --------------------------
(* What the enhancer runtime promises of its plans, its cache and its results. *)
EXTENDS EnhancerPipeline

\* No enhancer of the CLI requires what the history enhancer produces: what is
\* made from it would be no more reproducible than the history.
ASSUME HistoryAssumption ==
  /\ Preloaded \notin Impure
  /\ \A e \in Enhancers, h \in Impure : Inputs(e) \cap Produces[h] = {}

(***************************************************************************)
(* A plan that is made has every selected enhancer in one level, after     *)
(* whatever it waits for; one that is refused has two producers of an      *)
(* artifact, a name that nothing answers, or enhancers that wait for each  *)
(* other in a circle (createEnhancerExecutionPlan, executionLevels).       *)
(***************************************************************************)
WaitsFor(e, f) ==
  \/ f \in DependsOn[e] \/ Produces[f] \cap Awaits[e] # {}
  \/ \E a \in Produces[f] \ existing : a \in Requires[e] \/ a \in Optional[e]

OneLevelEach ==
  \A e \in chosen : \E i \in DOMAIN levels :
    /\ e \in levels[i]
    /\ \A j \in DOMAIN levels : e \in levels[j] => j = i

AfterItsInputs ==
  \A i, j \in DOMAIN levels : \A e \in levels[i], f \in levels[j] :
    WaitsFor(e, f) => j < i

PlansAreSound ==
  /\ planning = "made" => OneLevelEach /\ AfterItsInputs
  /\ planning = "refused" =>
       \/ DuplicateProducer(chosen) \/ NotFound(chosen, existing)
       \/ \E T \in SUBSET chosen : T # {} /\ \A e \in T : \E f \in T : WaitsFor(e, f)

(***************************************************************************)
(* No enhancer begins before those it waits for have returned: not when    *)
(* one of them fails, is restored from the cache, or belongs to a call     *)
(* that another has already rejected (the levels of runEnhancerPipeline).  *)
(***************************************************************************)
InputsAreSettled ==
  \A e, f \in chosen :
    WaitsFor(e, f) /\ stage[e] # "waiting" => stage[f] \in {"cached", "executed", "failed"}

(***************************************************************************)
(* Whatever was killed, torn, thrown or left behind by a rejected call, an *)
(* entry of the cache is what its enhancer makes of the graph and of the   *)
(* artifacts its key names (defaultEnhancerCacheKey, createFileEnhancer-   *)
(* Cache).  Of the Git history it may be what an earlier moment made.      *)
(***************************************************************************)
IsWhatItsKeySays(p) ==
  \E h \in 0..commits : p[2] = Output(p[1].enhancer, p[1].graph, h, p[1].inputs)

EntriesAreReproducible ==
  \A p \in memory \cup (IF file = Torn THEN {} ELSE file) : IsWhatItsKeySays(p)

(***************************************************************************)
(* A call that delivers has the artifacts that the same call would have    *)
(* delivered alone and with no cache: level by level in parallel, or one   *)
(* enhancer after the other (docs/enhancers.md: output must be             *)
(* reproducible for the same graph and configuration).  What is made from  *)
(* the Git history is left aside.                                          *)
(***************************************************************************)
Begun == InitialRegistry(call.graph, call.preloads)
Made(e, reg) == IF Fails(e, reg) THEN {} ELSE Output(e, call.graph, commits, Seen(e, reg))

AfterLevelAtOnce[n \in 0..Len(levels)] ==
  IF n = 0 THEN Begun
  ELSE LET reg == AfterLevelAtOnce[n - 1] IN Put(reg, UNION {Made(e, reg) : e \in levels[n]})

\* The registry after the enhancers of one level, the least first.
InTurn(L, begin) ==
  LET after[S \in SUBSET L] ==
        IF S = {} THEN begin
        ELSE LET last == CHOOSE e \in S : \A f \in S : f <= e
                 reg == after[S \ {last}]
             IN Put(reg, Made(last, reg))
  IN after[L]

AfterLevelInTurn[n \in 0..Len(levels)] ==
  IF n = 0 THEN Begun ELSE InTurn(levels[n], AfterLevelInTurn[n - 1])

Pure(reg) == {v \in reg : v.by \notin Impure}

DeliveryIsReproducible ==
  phase = "delivered" =>
    Pure(registry) = Pure(IF call.parallel THEN AfterLevelAtOnce[Len(levels)]
                          ELSE AfterLevelInTurn[Len(levels)])

(***************************************************************************)
(* Every call ends: with a result, with an error, or killed, though        *)
(* enhancers fail their validation or throw while others run.              *)
(***************************************************************************)
CallsEnd == phase \in {"planning", "running"} ~> phase \notin {"planning", "running"}
=============================================================================
