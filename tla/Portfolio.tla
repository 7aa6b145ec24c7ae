------------------------------ MODULE Portfolio ------------------------------
(***************************************************************************)
(* A workflow of steps in several repositories.  Each tick of the daemon   *)
(* brings the steps up to date with their jobs and then ends the workflow, *)
(* begins one compensation, or queues the steps whose dependencies         *)
(* succeeded.  Jobs are created one after the other, and only the last     *)
(* write of a tick saves what it did: a daemon that dies in between begins *)
(* again from the old record and finds its jobs by their request ids.      *)
(*                                                                         *)
(* The step and workflow states `blocked' and `paused' are not reachable:  *)
(* create_portfolio_workflow refuses the operations that would block, and  *)
(* a failed dependency ends the workflow before its dependents are looked  *)
(* at.  Jobs run as ExecutionRuntime shows: each ends once.                *)
(***************************************************************************)
EXTENDS Naturals

CONSTANTS Steps,          \* 1..n, in the order of declaration
          DependsOn,      \* [Steps -> SUBSET Steps], without cycles
          Compensable,    \* the steps that declare a compensation
          MaxDaemonDeaths

ASSUME PortfolioAssumption ==
    /\ Steps \subseteq Nat /\ Compensable \subseteq Steps
    /\ DependsOn \in [Steps -> SUBSET Steps]
    /\ \A s \in Steps : \A d \in DependsOn[s] : d < s
    /\ MaxDaemonDeaths \in Nat

VARIABLES workflow,       \* [status, policy, steps]: the workflow's file
          indexed,        \* the active index lists it
          othersActive,   \* some other workflow is listed there
          draft,          \* what the current tick has made of it
          stepJob,        \* job of each step's request id
          undoJob,        \* job of each compensation's request id
          daemonDeaths

portfolioVars == <<workflow, indexed, othersActive, draft, stepJob, undoJob, daemonDeaths>>

JobStates == {"none", "queued", "running", "succeeded", "failed"}
StepStates == {"pending", "queued", "running", "succeeded", "failed", "compensating", "compensated"}
FreshStep == [status |-> "pending", job |-> FALSE, undo |-> FALSE]
NoDraft == [at |-> "none", status |-> "absent", steps |-> [s \in Steps |-> FreshStep]]
StepRecord == [status : StepStates, job : BOOLEAN, undo : BOOLEAN]

PortfolioTypeOK ==
    /\ workflow \in [status : {"absent", "active", "compensating", "succeeded", "compensated", "failed"},
                     policy : {"stop", "compensate"}, steps : [Steps -> StepRecord]]
    /\ indexed \in BOOLEAN /\ othersActive \in BOOLEAN
    /\ draft \in [at : {"none", "queueing", "undoing", "saving"},
                  status : {"absent", "active", "compensating", "succeeded", "compensated", "failed"},
                  steps : [Steps -> StepRecord]]
    /\ stepJob \in [Steps -> JobStates] /\ undoJob \in [Steps -> JobStates]
    /\ daemonDeaths \in 0..MaxDaemonDeaths

PortfolioInit ==
    /\ workflow \in [status : {"absent"}, policy : {"stop", "compensate"},
                     steps : {[s \in Steps |-> FreshStep]}]
    /\ indexed = FALSE /\ othersActive = TRUE
    /\ draft = NoDraft
    /\ stepJob = [s \in Steps |-> "none"] /\ undoJob = [s \in Steps |-> "none"]
    /\ daemonDeaths = 0

Open(status) == status \in {"active", "compensating"}

---------------------------------------------------------------------------
(* createPortfolioWorkflow; the gateway may die before the index is        *)
(* written, and the client that asks again is given the record as it is.   *)
CreateWorkflow ==
    /\ workflow.status = "absent"
    /\ workflow' = [workflow EXCEPT !.status = "active"]
    /\ \/ indexed' = TRUE /\ UNCHANGED daemonDeaths
       \/ /\ daemonDeaths < MaxDaemonDeaths /\ daemonDeaths' = daemonDeaths + 1
          /\ UNCHANGED indexed
    /\ UNCHANGED <<othersActive, draft, stepJob, undoJob>>

(* updateFromJobs: what the jobs of a step make of its status.             *)
FromJob(status, state) ==
    IF state \in {"running", "succeeded", "failed"} THEN state ELSE status
FromUndo(status, state) ==
    CASE state = "running"   -> "compensating"
      [] state = "succeeded" -> "compensated"
      [] state = "failed"    -> "failed"
      [] OTHER               -> status

Synchronized ==
    [s \in Steps |->
       LET step == workflow.steps[s]
           forward == IF step.job THEN FromJob(step.status, stepJob[s]) ELSE step.status
       IN  [step EXCEPT !.status = IF step.undo THEN FromUndo(forward, undoJob[s]) ELSE forward]]

HasStatus(steps, status) == {s \in Steps : steps[s].status = status}

AnyDone(steps) == HasStatus(steps, "succeeded") # {}                     \* faulty

(* Which branch a tick takes.                                              *)
Failed(steps) == HasStatus(steps, "failed") # {}
Undoable(steps) == HasStatus(steps, "succeeded") \cap Compensable
UndoNow(steps) == workflow.policy = "compensate" /\ Undoable(steps) # {}
AllDone(steps) == HasStatus(steps, "succeeded") \cup HasStatus(steps, "compensated") = Steps

ListedByIndex == indexed                                                 \* faulty

(* listActivePortfolioWorkflows: all records are read if none is indexed.  *)
Listed == indexed \/ ~othersActive

TickBegin ==
    /\ draft.at = "none" /\ Open(workflow.status) /\ Listed
    /\ indexed' = TRUE
    /\ LET steps == Synchronized IN
       draft' = [steps |-> steps,
                 at |-> CASE Failed(steps) /\ UndoNow(steps) -> "undoing"
                          [] Failed(steps) \/ AllDone(steps) -> "saving"
                          [] OTHER -> "queueing",
                 status |-> CASE Failed(steps) /\ UndoNow(steps) -> "compensating"
                              [] Failed(steps) -> "failed"
                              [] AllDone(steps) -> "succeeded"
                              [] OTHER -> workflow.status]
    /\ UNCHANGED <<workflow, othersActive, stepJob, undoJob, daemonDeaths>>

ReadyWhenQueued == {s \in HasStatus(draft.steps, "pending") :           \* faulty
                       \A d \in DependsOn[s] : draft.steps[d].status # "pending"}

(* The steps this tick has still to queue, in order.                       *)
Ready == {s \in HasStatus(draft.steps, "pending") :
             DependsOn[s] \subseteq HasStatus(draft.steps, "succeeded")}

(* createExecutionJob answers a request id it knows with the job it has.   *)
Requested(jobs, s) == IF jobs[s] = "none" THEN [jobs EXCEPT ![s] = "queued"] ELSE jobs

QueueStep ==
    /\ draft.at = "queueing"
    /\ \E s \in Ready :
       /\ \A q \in Ready : s <= q
       /\ stepJob' = Requested(stepJob, s)
       /\ draft' = [draft EXCEPT !.steps[s] = [draft.steps[s] EXCEPT !.status = "queued", !.job = TRUE]]
    /\ UNCHANGED <<workflow, indexed, othersActive, undoJob, daemonDeaths>>

ToUndoEarly == {s \in Compensable : draft.steps[s].job /\ ~draft.steps[s].undo}  \* faulty

(* beginCompensation: the last step that succeeded, can be undone and has  *)
(* no compensation job yet.  When all that succeeded have one and none of  *)
(* these runs yet, the workflow stays as it is.                            *)
ToUndo == {s \in Undoable(draft.steps) : ~draft.steps[s].undo}

BeginCompensation ==
    /\ draft.at = "undoing"
    /\ \E s \in ToUndo :
       /\ \A q \in ToUndo : q <= s
       /\ undoJob' = Requested(undoJob, s)
       /\ draft' = [draft EXCEPT !.at = "saving",
              !.steps[s] = [draft.steps[s] EXCEPT !.status = "compensating", !.undo = TRUE]]
    /\ UNCHANGED <<workflow, indexed, othersActive, stepJob, daemonDeaths>>

Save ==
    /\ \/ draft.at = "saving"
       \/ draft.at = "queueing" /\ Ready = {}
       \/ draft.at = "undoing" /\ ToUndo = {}
    /\ workflow' = [workflow EXCEPT !.status = draft.status, !.steps = draft.steps]
    /\ indexed' = Open(draft.status)
    /\ draft' = NoDraft
    /\ UNCHANGED <<othersActive, stepJob, undoJob, daemonDeaths>>

DaemonDies ==
    /\ draft.at # "none" /\ daemonDeaths < MaxDaemonDeaths
    /\ daemonDeaths' = daemonDeaths + 1
    /\ draft' = NoDraft
    /\ UNCHANGED <<workflow, indexed, othersActive, stepJob, undoJob>>

(* The other workflows end.                                                *)
OthersEnd ==
    /\ othersActive /\ othersActive' = FALSE
    /\ UNCHANGED <<workflow, indexed, draft, stepJob, undoJob, daemonDeaths>>

Advances(state, next) ==
    \/ state = "queued" /\ next \in {"running", "failed"}
    \/ state = "running" /\ next \in {"queued", "succeeded", "failed"}

StepJobAdvances(s) ==
    /\ \E next \in JobStates : Advances(stepJob[s], next) /\ stepJob' = [stepJob EXCEPT ![s] = next]
    /\ UNCHANGED <<workflow, indexed, othersActive, draft, undoJob, daemonDeaths>>

UndoJobAdvances(s) ==
    /\ \E next \in JobStates \ {"queued"} :
          Advances(undoJob[s], next) /\ undoJob' = [undoJob EXCEPT ![s] = next]
    /\ UNCHANGED <<workflow, indexed, othersActive, draft, stepJob, daemonDeaths>>

Tick == TickBegin \/ QueueStep \/ BeginCompensation \/ Save

PortfolioNext ==
    \/ CreateWorkflow \/ TickBegin \/ QueueStep \/ BeginCompensation \/ Save \/ DaemonDies \/ OthersEnd
    \/ \E s \in Steps : StepJobAdvances(s) \/ UndoJobAdvances(s)

(* A job ends, if need be at its deadline.                                 *)
JobEnds(s) ==
    \/ stepJob[s] \in {"queued", "running"} /\ StepJobAdvances(s) /\ stepJob'[s] \in {"succeeded", "failed"}
    \/ undoJob[s] \in {"queued", "running"} /\ UndoJobAdvances(s) /\ undoJob'[s] \in {"succeeded", "failed"}

PortfolioSpec == PortfolioInit /\ [][PortfolioNext]_portfolioVars

---------------------------------------------------------------------------
(* Properties.                                                             *)

(* A step has a job only after the jobs of all its dependencies succeeded, *)
(* whatever died between the creation of a job and the record of it.       *)
DependenciesDone ==
    \A s \in Steps : stepJob[s] # "none" => \A d \in DependsOn[s] : stepJob[d] = "succeeded"

(* Only what succeeded is undone, and only when something else failed.     *)
UndoesOnlyDone ==
    \A s \in Steps : undoJob[s] # "none" =>
        /\ stepJob[s] = "succeeded"
        /\ \E f \in Steps : stepJob[f] = "failed"

(* A workflow's last word is true: success means that every step succeeded, *)
(* failure that one did not.                                               *)
VerdictIsTrue ==
    /\ workflow.status = "succeeded" => \A s \in Steps : stepJob[s] = "succeeded"
    /\ workflow.status = "failed" => \E s \in Steps : "failed" \in {stepJob[s], undoJob[s]}

(* A workflow that was accepted ends.                                      *)
WorkflowEnds == (workflow.status = "active") ~> ~Open(workflow.status)
=============================================================================
