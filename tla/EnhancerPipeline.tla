--------------------------- MODULE EnhancerPipeline ---------------------------
(***************************************************************************)
(* runEnhancerPipeline as the CLI calls it: one process after the other    *)
(* over one repository, each with a registry of its own and a cache that   *)
(* is loaded from a file and written back to it.  Between two processes,   *)
(* and while one runs, the Git history may gain commits; a process may be  *)
(* killed at any moment.                                                   *)
(*                                                                         *)
(* runOne of an enhancer is cut where it awaits.  Everything before its    *)
(* first await (validate, cacheKey, cache.get) happens for all enhancers   *)
(* of a parallel level in one turn of the event loop.  An enhancer in      *)
(* Prompt has synchronous hooks, as all those of the repository have: its  *)
(* awaits last one turn each, so in a parallel level the cached artifacts  *)
(* are put first, then every prompt enhancer runs, and only then is a      *)
(* result put.  Other enhancers take any time.                             *)
(*                                                                         *)
(* An artifact is what its hash is of: its id, who produced it, from which *)
(* graph, from what else (the Git history), and the artifacts it saw.      *)
(***************************************************************************)
EXTENDS EnhancerPlan

CONSTANTS
  Graphs,        \* the graphs a call may be made for
  Calls,         \* options of a call: [chosen, preloads, parallel, incremental]
  MaxCalls,      \* bound on the calls
  MaxCommits,    \* bound on the commits
  Index,         \* the artifact that the context may preload (SemanticIndex)
  DiskExcluded,  \* ENHANCER_DISK_CACHE_EXCLUDED_ARTIFACTS
  Prompt,        \* enhancers whose before, run and after are synchronous
  Impure,        \* enhancers that read the Git history, and no artifact
  Incompatible,  \* enhancers that require a version no artifact has
  Faulty,        \* enhancers whose run may throw
  Preloaded,     \* producedBy of the preloaded artifact
  Torn           \* a cache file that does not parse

ASSUME PipelineAssumption ==
  /\ Calls \subseteq [chosen : SUBSET Enhancers, preloads : BOOLEAN,
                      parallel : BOOLEAN, incremental : BOOLEAN]
  /\ MaxCalls \in Nat /\ MaxCommits \in Nat
  /\ Index \in Artifacts /\ DiskExcluded \subseteq Artifacts
  /\ Prompt \subseteq Enhancers /\ Impure \subseteq Enhancers
  /\ Incompatible \subseteq Enhancers /\ Faulty \subseteq Enhancers
  /\ \A e \in Impure : Inputs(e) = {}

\* Who rewrites the preloaded artifact is not restored from the file, and who
\* reads it is prompt.
ASSUME RewriteAssumption ==
  \A e \in Enhancers :
    /\ Index \in Produces[e] => Produces[e] \cap DiskExcluded # {}
    /\ Index \in Inputs(e) => e \in Prompt /\ Index \notin Produces[e]

VARIABLES
  phase,       \* "idle", "planning", "running", "delivered", "rejected"
  call,        \* the options of the call, and the graph of its context
  turn,        \* the level that runs
  stage,       \* per enhancer: where runOne is
  key,         \* per enhancer: its cacheKey
  result,      \* per enhancer: the artifacts of its result
  registry,    \* context.artifacts
  memory,      \* the entries of the process's cache: <<key, result>>
  file,        \* enhancers/cache.json: its entries, or Torn
  overlapped,  \* two writes of the file have run into each other
  commits,     \* the Git history
  calls        \* how many calls have been made

runVars == <<turn, stage, key, result, registry, memory, overlapped>>
vars == <<planVars, phase, call, runVars, file, commits, calls>>

-----------------------------------------------------------------------------
\* createArtifactRegistry: put replaces the artifact of the same id.
Ids(artifacts) == {v.artifact : v \in artifacts}
Put(reg, artifacts) == {v \in reg : v.artifact \notin Ids(artifacts)} \cup artifacts
Seen(e, reg) == {v \in reg : v.artifact \in Inputs(e)}

\* enhancer.run, and createArtifact for each of its outputs.
Output(e, graph, history, seen) ==
  {[artifact |-> a, by |-> e, graph |-> graph,
    outside |-> IF e \in Impure THEN history ELSE 0, seen |-> seen] : a \in Produces[e]}

\* createDefaultEnhancerContext
InitialRegistry(graph, preloads) ==
  IF preloads
  THEN {[artifact |-> Index, by |-> Preloaded, graph |-> graph, outside |-> 0, seen |-> {}]}
  ELSE {}

\* Variant: the artifacts are not in the key.
KeyWithoutInputs(e, graph, reg) == [enhancer |-> e, graph |-> graph, inputs |-> {}]

\* defaultEnhancerCacheKey; the key of history has the graph and no artifact.
CacheKey(e, graph, reg) == [enhancer |-> e, graph |-> graph, inputs |-> Seen(e, reg)]

\* validateEnhancerAgainstContext: the issues that are errors.
Fails(e, reg) == e \in Incompatible \/ ~(Requires[e] \subseteq Ids(reg))

\* Variant: every result is written to disk.
SkipsNothing(artifacts) == FALSE

\* shouldSkipDiskEnhancerCache
SkipsDisk(artifacts) == Ids(artifacts) \cap DiskExcluded # {}

\* createFileEnhancerCache: what set has added to the entries of the file.
Entries == {p \in memory : ~SkipsDisk(p[2])}
Cached(k) == {p \in memory : p[1] = k}

Level == IF turn \in DOMAIN levels THEN levels[turn] ELSE {}
InFlight == {"hit", "missed", "computed", "stored", "writing"}
Active == {e \in chosen : stage[e] \in InFlight}

\* Variant: an enhancer that fails its validation is waited for.
OverUnlessFailed == {"cached", "executed"}

\* What runOne returns.
Over == {"cached", "executed", "failed"}

-----------------------------------------------------------------------------
Init ==
  /\ PlanInit
  /\ phase = "idle"
  /\ call = [chosen |-> {}, preloads |-> FALSE, parallel |-> TRUE, incremental |-> TRUE,
             graph |-> CHOOSE g \in Graphs : TRUE]
  /\ turn = 1
  /\ stage = [e \in Enhancers |-> "waiting"]
  /\ key = [e \in Enhancers |-> CacheKey(e, call.graph, {})]
  /\ result = [e \in Enhancers |-> {}]
  /\ registry = {} /\ memory = {}
  /\ file = {} /\ overlapped = FALSE
  /\ commits = 0 /\ calls = 0

\* git commit
Commit ==
  /\ commits < MaxCommits
  /\ commits' = commits + 1
  /\ UNCHANGED <<planVars, phase, call, runVars, file, calls>>

\* A new process: its context, its cache, and the first step of its plan.
StartCall(c, g) ==
  /\ phase \in {"idle", "delivered", "rejected"} /\ Active = {}
  /\ calls < MaxCalls
  /\ calls' = calls + 1
  /\ call' = [chosen |-> c.chosen, preloads |-> c.preloads, parallel |-> c.parallel,
              incremental |-> c.incremental, graph |-> g]
  /\ registry' = InitialRegistry(g, c.preloads)
  /\ memory' \in {{}, IF file = Torn THEN {} ELSE file}  \* {}: the file is oversized
  /\ StartPlan(c.chosen, Ids(InitialRegistry(g, c.preloads)))
  /\ phase' = "planning"
  /\ turn' = 1
  /\ stage' = [e \in Enhancers |-> "waiting"]
  /\ key' = [e \in Enhancers |-> CacheKey(e, g, {})]
  /\ result' = [e \in Enhancers |-> {}]
  /\ overlapped' = FALSE
  /\ UNCHANGED <<file, commits>>

PlanStep ==
  /\ phase = "planning"
  /\ PlaceLevel \/ RefuseCycle \/ EndPlan
  /\ UNCHANGED <<phase, call, runVars, file, commits, calls>>

\* "Enhancer pipeline is invalid"
Refuse ==
  /\ phase = "planning" /\ planning = "refused"
  /\ phase' = "rejected"
  /\ UNCHANGED <<planVars, call, runVars, file, commits, calls>>

Run ==
  /\ phase = "planning" /\ planning = "made"
  /\ phase' = "running"
  /\ UNCHANGED <<planVars, call, runVars, file, commits, calls>>

\* runOne up to its first await: validate, cacheKey, cache.get.
FirstStage(e) ==
  IF Fails(e, registry) THEN "failed"
  ELSE IF call.incremental /\ Cached(CacheKey(e, call.graph, registry)) # {} THEN "hit"
  ELSE "missed"

Starting(es) ==
  /\ stage' = [e \in Enhancers |-> IF e \in es THEN FirstStage(e) ELSE stage[e]]
  /\ key' = [e \in Enhancers |->
               IF e \in es THEN CacheKey(e, call.graph, registry) ELSE key[e]]
  /\ result' = [e \in Enhancers |->
                  IF e \in es /\ FirstStage(e) = "hit"
                  THEN (CHOOSE p \in Cached(CacheKey(e, call.graph, registry)) : TRUE)[2]
                  ELSE result[e]]
  /\ UNCHANGED <<planVars, phase, call, turn, registry, memory, overlapped, file, commits, calls>>

Waiting == {e \in Level : stage[e] = "waiting"}

\* Promise.all(level.map(runOne))
StartLevel ==
  /\ phase = "running" /\ call.parallel
  /\ Waiting # {} /\ Waiting = Level
  /\ Starting(Level)

\* runSequential
StartOne(e) ==
  /\ phase = "running" /\ ~call.parallel
  /\ Active = {}
  /\ e \in Waiting /\ \A f \in Waiting : e <= f
  /\ Starting({e})

Restore(e) ==
  /\ stage[e] = "hit"
  /\ registry' = Put(registry, result[e])
  /\ stage' = [stage EXCEPT ![e] = "cached"]
  /\ UNCHANGED <<planVars, phase, call, turn, key, result, memory, overlapped, file, commits,
                 calls>>

\* before and run: what the enhancer sees, it sees now.
Compute(e) ==
  /\ stage[e] = "missed"
  /\ e \in Prompt => \A f \in Level : stage[f] # "hit"
  /\ result' = [result EXCEPT ![e] = Output(e, call.graph, commits, Seen(e, registry))]
  /\ stage' = [stage EXCEPT ![e] = "computed"]
  /\ UNCHANGED <<planVars, phase, call, turn, key, registry, memory, overlapped, file, commits,
                 calls>>

\* run rejects, and so does the pipeline; the others of the level go on.
Throw(e) ==
  /\ stage[e] = "missed" /\ e \in Faulty
  /\ e \in Prompt => \A f \in Level : stage[f] # "hit"
  /\ stage' = [stage EXCEPT ![e] = "thrown"]
  /\ phase' = "rejected"
  /\ UNCHANGED <<planVars, call, turn, key, result, registry, memory, overlapped, file, commits,
                 calls>>

Store(e) ==
  /\ stage[e] = "computed"
  /\ \A f \in Level : stage[f] = "missed" => f \notin Prompt
  /\ registry' = Put(registry, result[e])
  /\ stage' = [stage EXCEPT ![e] = "stored"]
  /\ UNCHANGED <<planVars, phase, call, turn, key, result, memory, overlapped, file, commits,
                 calls>>

\* after and cache.set: the memory at once; the file is opened and truncated.
Writers == {e \in Enhancers : stage[e] = "writing"}
Remember(e) ==
  /\ stage[e] = "stored"
  /\ memory' = (memory \ Cached(key[e])) \cup {<<key[e], result[e]>>}
  /\ IF SkipsDisk(result[e])
     THEN /\ stage' = [stage EXCEPT ![e] = "executed"]
          /\ UNCHANGED <<file, overlapped>>
     ELSE /\ stage' = [stage EXCEPT ![e] = "writing"]
          /\ file' = Torn
          /\ overlapped' = (overlapped \/ Writers # {})
  /\ UNCHANGED <<planVars, phase, call, turn, key, result, registry, commits, calls>>

\* writeJsonFile is done.  After writes that overlapped, the file may be a
\* mixture of both, which does not parse.
EndWrite(e) ==
  /\ stage[e] = "writing"
  /\ stage' = [stage EXCEPT ![e] = "executed"]
  /\ IF Writers # {e}
     THEN UNCHANGED <<file, overlapped>>
     ELSE /\ file' \in {Entries} \cup (IF overlapped THEN {Torn} ELSE {})
          /\ overlapped' = FALSE
  /\ UNCHANGED <<planVars, phase, call, turn, key, result, registry, memory, commits, calls>>

EndLevel ==
  /\ phase = "running" /\ turn <= Len(levels)
  /\ \A e \in Level : stage[e] \in Over
  /\ turn' = turn + 1
  /\ UNCHANGED <<planVars, phase, call, stage, key, result, registry, memory, overlapped, file,
                 commits, calls>>

Deliver ==
  /\ phase = "running" /\ turn > Len(levels)
  /\ phase' = "delivered"
  /\ UNCHANGED <<planVars, call, runVars, file, commits, calls>>

\* The process is killed: what it was writing stays truncated.
Kill ==
  /\ phase \in {"planning", "running"} \/ Active # {}
  /\ phase' = "idle"
  /\ stage' = [e \in Enhancers |-> "waiting"]
  /\ overlapped' = FALSE
  /\ UNCHANGED <<planVars, call, turn, key, result, registry, memory, file, commits, calls>>

RunOne(e) ==
  \/ StartOne(e) \/ Restore(e) \/ Compute(e) \/ Throw(e)
  \/ Store(e) \/ Remember(e) \/ EndWrite(e)

Pipeline ==
  PlanStep \/ Refuse \/ Run \/ StartLevel \/ EndLevel \/ Deliver \/ \E e \in Enhancers : RunOne(e)

Next ==
  \/ \E c \in Calls, g \in Graphs : StartCall(c, g)
  \/ Pipeline
  \/ Commit \/ Kill

Spec == Init /\ [][Next]_vars
FairSpec == Spec /\ WF_vars(Pipeline)
=============================================================================
