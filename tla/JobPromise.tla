----------------------------- MODULE JobPromise -----------------------------
(***************************************************************************)
(* What the execution runtime of one daemon promises about a job to those  *)
(* who submitted it and to those who read its verdict: how often its       *)
(* operation may have begun, and what each verdict says of the operation.  *)
(* Nothing of records, receipts, leases, attempts and processes is left.   *)
(***************************************************************************)
EXTENDS Naturals

CONSTANT Jobs

VARIABLES
    mutates,        \* whether the job's operation changes anything
    begun,          \* how often the operation has begun
    outcome,        \* what the operation said when it returned, or "none"
    verdict         \* the status the job ended with, or "open"

promiseVars == <<mutates, begun, outcome, verdict>>

Verdicts == {"succeeded", "failed", "timed_out", "cancelled", "orphaned",
             "human_attention_required"}

Init ==
    /\ mutates \in [Jobs -> BOOLEAN]
    /\ begun = [j \in Jobs |-> 0]
    /\ outcome = [j \in Jobs |-> "none"]
    /\ verdict = [j \in Jobs |-> "open"]

(* A mutation begins once, a reading until it has an outcome; and only     *)
(* while the job is open, or after a verdict that does not wait for the    *)
(* job's process to stop.                                                  *)
Begin(j) ==
    /\ mutates[j] => begun[j] = 0
    /\ outcome[j] = "none"
    /\ verdict[j] \in {"open", "cancelled", "orphaned"}
    /\ begun' = [begun EXCEPT ![j] = @ + 1]
    /\ UNCHANGED <<mutates, outcome, verdict>>

(* Nobody who was told that a job succeeded, failed or ran out of time     *)
(* hears of another outcome later.                                         *)
Return(j, result) ==
    /\ begun[j] > 0
    /\ outcome[j] = "none"
    /\ verdict[j] \notin {"succeeded", "failed", "timed_out"}
    /\ outcome' = [outcome EXCEPT ![j] = result]
    /\ UNCHANGED <<mutates, begun, verdict>>

(* Success is what the operation said.  Of a mutation, failure is what it  *)
(* said too, and a timeout says that it never began: whoever submits the   *)
(* job once more after one of these repeats nothing in the dark.           *)
Justified(j, v) ==
    /\ v = "succeeded" => outcome[j] = "succeeded"
    /\ v = "failed" /\ mutates[j] => outcome[j] = "failed"
    /\ v = "timed_out" => outcome[j] = "none" /\ (mutates[j] => begun[j] = 0)

Conclude(j, v) ==
    /\ verdict[j] = "open"
    /\ Justified(j, v)
    /\ verdict' = [verdict EXCEPT ![j] = v]
    /\ UNCHANGED <<mutates, begun, outcome>>

Next ==
    \E j \in Jobs :
        \/ Begin(j)
        \/ \E result \in {"succeeded", "failed"} : Return(j, result)
        \/ \E v \in Verdicts : Conclude(j, v)

Spec == Init /\ [][Next]_promiseVars
=============================================================================
