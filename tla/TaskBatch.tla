----------------------------- MODULE TaskBatch -----------------------------
(***************************************************************************)
(* What runDeterministicTasks promises its caller: the outputs of all the  *)
(* tasks in the order of the inputs, or the error of one of them, once.    *)
(***************************************************************************)
EXTENDS Integers, Sequences

CONSTANTS Idle, Pending

VARIABLES inputs,
          outputs,   \* what the tasks make of the inputs
          outcome

batchVars == <<inputs, outputs, outcome>>

Init == inputs = <<>> /\ outputs = <<>> /\ outcome = Idle

Begin == /\ outcome = Idle /\ outcome' = Pending
         /\ Len(outputs') = Len(inputs')

Finish == /\ outcome = Pending
          /\ outcome' = [kind |-> "resolved", value |-> outputs]
          /\ UNCHANGED <<inputs, outputs>>

Fail == /\ outcome = Pending
        /\ \E i \in 1..Len(inputs) :
             outcome' = [kind |-> "rejected", value |-> inputs[i]]
        /\ UNCHANGED <<inputs, outputs>>

Next == Begin \/ Finish \/ Fail

Spec == Init /\ [][Next]_batchVars /\ WF_batchVars(Finish \/ Fail)
=============================================================================
