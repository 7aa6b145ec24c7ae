------------------------ MODULE ExecutionProperties ------------------------
(***************************************************************************)
(* What the execution runtime promises about its jobs.                     *)
(***************************************************************************)
EXTENDS ExecutionRuntime

Writing(p) == worker[p].pc = "executing" /\ job[p[1]].writes

(* At any time at most one process executes an operation that writes to    *)
(* the shared resource (acquireExecutionLeases, and the reconciler that    *)
(* terminates a worker before it gives its leases away).                   *)
OneWriter ==
    \A p, q \in Pids : Writing(p) /\ Writing(q) => p = q

(* A mutating operation is never begun a second time: what the receipt and *)
(* the reconciler's "human_attention_required" are for.                    *)
NoBlindReplay == \A j \in Jobs : job[j].writes => begun[j] <= 1

(* A record says "succeeded" only if the completed receipt of its current  *)
(* attempt says so too, whether the worker or the reconciler wrote it.     *)
SuccessHasReceipt ==
    \A j \in Jobs : job[j].status = "succeeded" =>
        receipt[j] = [attempt |-> job[j].attempt, state |-> "completed",
                      outcome |-> "succeeded"]

(* A terminal status is final, whatever the reconciler, the workers and a  *)
(* cancellation still have in hand.                                        *)
VerdictIsFinal ==
    [][\A j \in Jobs : job[j].status \in Terminal => job'[j].status = job[j].status]_vars

(* No worker publishes its result once a newer fencing token has taken the *)
(* resource over: transitionExecutionJobFromWorker compares the references *)
(* with the record, not with the lease files.                              *)
Overtaken(p) == \E l \in leases, t \in worker[p].refs : l.owner # p[1] /\ l.tok > t
StaleNeverPublishes ==
    [][\A p \in Pids : worker[p].pc = "receipted" /\ worker'[p].pc = "leaving"
                          => ~Overtaken(p)]_vars

(* A dispatched job has a scheduler about to start its worker, or a worker. *)
(* Not so when the daemon dies between the claim and the spawn              *)
(* (scheduler.ts:400): nobody takes the job up again before its deadline.   *)
DispatchedHasOwner ==
    \A j \in Jobs : job[j].status = "dispatched" => Tended(j)

(* With one daemon the runtime keeps what JobPromise says: the receipt is  *)
(* the memory of what has begun, and no verdict of the worker              *)
(* (execution-worker-entry.ts) or of the reconciler (reconciliation.ts)    *)
(* claims more about the operation than is so.                             *)
Ending(j) == IF job[j].status \in Terminal THEN job[j].status ELSE "open"
Outcome(j) == IF receipt[j].state = "completed" THEN receipt[j].outcome ELSE "none"
Promise == INSTANCE JobPromise WITH
    mutates <- [j \in Jobs |-> job[j].writes],
    outcome <- [j \in Jobs |-> Outcome(j)],
    verdict <- [j \in Jobs |-> Ending(j)]
PromiseIsKept == Promise!Spec

(* Every job comes to an end, and its leases with it.                      *)
EventuallySettled == <>[](Active = {} /\ leases = {})
=============================================================================
