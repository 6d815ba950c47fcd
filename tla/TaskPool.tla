------------------------------ MODULE TaskPool ------------------------------
(***************************************************************************)
(* runDeterministicTasks: workers that share an index into the inputs.     *)
(* Each takes the next input, awaits its task and stores the output at     *)
(* that input's place.  What lies between two awaits of a worker is one    *)
(* action.  A task that rejects ends its worker and the batch, but not the *)
(* other workers: they go on to take the inputs that are left.             *)
(***************************************************************************)
EXTENDS Integers, Sequences, FiniteSetsExt

CONSTANTS DefaultWorkers,        \* defaultCompilerWorkerCount() on this machine
          MAX_COMPILER_WORKERS,
          Undefined, Idle, Pending, Nothing

VARIABLES
  inputs,
  nextIndex,
  results,      \* per place, an output or Nothing
  running,      \* per worker, the place of its task, or 0 when it has ended
  outcome       \* of the call: Idle before it, then Pending, and at last
                \* resolved, or rejected with an input

poolVars == <<inputs, nextIndex, results, running, outcome>>

Workers == 1..Len(running)

normalizeCompilerWorkerCount(value) ==
  IF value = Undefined THEN DefaultWorkers
  ELSE Max({1, Min({MAX_COMPILER_WORKERS, value})})

PoolInit == /\ inputs = <<>> /\ nextIndex = 1 /\ results = <<>>
            /\ running = <<>> /\ outcome = Idle

\* The call runs each worker to its first await: worker w has taken place w.
Start(in, concurrency) ==
  LET count == Min({normalizeCompilerWorkerCount(concurrency), Len(in)})
  IN /\ outcome = Idle /\ outcome' = Pending
     /\ inputs' = in
     /\ nextIndex' = count + 1
     /\ results' = [i \in 1..Len(in) |-> Nothing]
     /\ running' = [w \in 1..count |-> w]

\* Where a worker goes from place next: on to its task, or it ends.
Take(w, next) ==
  IF next <= Len(inputs)
  THEN running' = [running EXCEPT ![w] = next] /\ nextIndex' = next + 1
  ELSE running' = [running EXCEPT ![w] = 0] /\ UNCHANGED nextIndex

\* Variant: outputs are stored in the order the tasks end.
PushOutput(w, output) ==
  /\ running[w] # 0
  /\ results' = [results EXCEPT
       ![Min({i \in 1..Len(inputs) : results[i] = Nothing})] = output]
  /\ Take(w, nextIndex)
  /\ UNCHANGED <<inputs, outcome>>

\* The worker's task has an output: store it and take the next place.
TaskResolves(w, output) ==
  /\ running[w] # 0
  /\ results' = [results EXCEPT ![running[w]] = output]
  /\ Take(w, nextIndex)
  /\ UNCHANGED <<inputs, outcome>>

\* The task rejects and its worker with it; the first rejection is the
\* batch's outcome.
TaskRejects(w) ==
  /\ running[w] # 0
  /\ running' = [running EXCEPT ![w] = 0]
  /\ outcome' = IF outcome = Pending
                THEN [kind |-> "rejected", value |-> inputs[running[w]]]
                ELSE outcome
  /\ UNCHANGED <<inputs, nextIndex, results>>

\* Promise.all is kept once every worker has ended and none has rejected;
\* without inputs there is none to wait for.
Deliver ==
  /\ outcome = Pending /\ \A w \in Workers : running[w] = 0
  /\ outcome' = [kind |-> "resolved", value |-> results]
  /\ UNCHANGED <<inputs, nextIndex, results, running>>
=============================================================================
