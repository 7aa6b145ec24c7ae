--------------------------- MODULE ScheduleEngine ---------------------------
(***************************************************************************)
(* One recurring schedule: the evaluation of its windows by the daemon's   *)
(* tick and by trigger_schedule, the occurrence each window leaves behind, *)
(* the job that implements it, and the settlement that brings the job's    *)
(* end back into occurrence and schedule.                                  *)
(*                                                                         *)
(* An evaluation is asynchronous: it works on the copy of the schedule it  *)
(* was given, and workers, gateways and the reconciler write the same      *)
(* files between its steps.  Whether the trigger is due and whether a stop *)
(* condition, backoff, cooldown or the daily budget refuses is chosen      *)
(* freely.  A window stands for its key: which evaluator may compute which *)
(* key is KeysOf.  createExecutionJob answers one request id with one job, *)
(* which is what JobAdmission shows.                                       *)
(***************************************************************************)
EXTENDS Naturals, FiniteSets

CONSTANTS Evaluators,     \* callers of evaluateSchedule
          Daemon,         \* the evaluator that also dispatches and reconciles
          Windows,
          KeysOf,         \* [Evaluators -> SUBSET Windows]
          MaxActive,      \* policy.maxActiveOccurrences
          MaxFailures,    \* policy.maxFailures
          MaxAttempts,    \* of a job
          MaxRunDeaths    \* bound on deaths of evaluators and workers

ASSUME ScheduleAssumption ==
    /\ Daemon \in Evaluators /\ KeysOf \in [Evaluators -> SUBSET Windows]
    /\ MaxActive \in Nat \ {0} /\ MaxFailures \in Nat \ {0}
    /\ MaxAttempts \in Nat \ {0} /\ MaxRunDeaths \in Nat

VARIABLES schedule,       \* [enabled, shadow, failures]: the schedule's file
          occurrence,     \* per window: status of its file, "none" without one
          activeIndex,    \* windows listed as active in the occurrence index
          evaluation,     \* per evaluator: [at, window, copy]
          job,            \* per window: [status, attempt]
          runner,         \* per window: what the worker of its job does
          deaths

scheduleVars == <<schedule, occurrence, activeIndex, evaluation, job, runner, deaths>>

ActiveStatuses == {"created", "queued", "running"}
FinalStatuses == {"succeeded", "failed", "shadowed", "skipped"}
NoJob == [status |-> "none", attempt |-> 0]
ScheduleRecord == [enabled : BOOLEAN, shadow : BOOLEAN, failures : 0..MaxFailures]
NoCopy == [enabled |-> FALSE, shadow |-> FALSE, failures |-> 0]
Idle == [at |-> "idle", window |-> {}, copy |-> NoCopy]
NoRunner == [at |-> "off", outcome |-> "none", copy |-> NoCopy]

ScheduleTypeOK ==
    /\ schedule \in ScheduleRecord
    /\ occurrence \in [Windows -> {"none"} \cup ActiveStatuses \cup FinalStatuses]
    /\ activeIndex \subseteq Windows
    /\ evaluation \in [Evaluators ->
          [at : {"idle", "due", "absent", "recorded", "clear", "accepted", "admitted", "stamped"},
           window : {{}} \cup {{w} : w \in Windows},
           copy : ScheduleRecord]]
    /\ job \in [Windows -> [status : {"none", "queued", "running", "ended"}, attempt : 0..MaxAttempts]]
    /\ runner \in [Windows ->
          [at : {"off", "booted", "operating", "settling", "settled", "dead"},
           outcome : {"none", "succeeded", "failed"},
           copy : ScheduleRecord]]
    /\ deaths \in 0..MaxRunDeaths

ScheduleInit ==
    /\ schedule \in [enabled : {TRUE}, shadow : BOOLEAN, failures : {0}]
    /\ occurrence = [w \in Windows |-> "none"]
    /\ activeIndex = {}
    /\ evaluation = [e \in Evaluators |-> Idle]
    /\ job = [w \in Windows |-> NoJob]
    /\ runner = [w \in Windows |-> NoRunner]
    /\ deaths = 0

---------------------------------------------------------------------------
(* The store.                                                              *)

Indexed(w, status) == IF status \in ActiveStatuses THEN activeIndex \cup {w} ELSE activeIndex \ {w}

SaveOccurrence(w, status) ==
    /\ occurrence' = [occurrence EXCEPT ![w] = status]
    /\ activeIndex' = Indexed(w, status)

OccurrenceUnchanged == UNCHANGED <<occurrence, activeIndex>>

ActiveOthersUnstarted(w) == {v \in activeIndex \ {w} : occurrence[v] = "running"}  \* faulty

(* The occurrences an evaluation of window w finds active besides its own. *)
ActiveOthers(w) == activeIndex \ {w}

---------------------------------------------------------------------------
(* evaluateSchedule.                                                       *)

Moves(e, at) == evaluation' = [evaluation EXCEPT ![e].at = at]
Returns(e) == evaluation' = [evaluation EXCEPT ![e] = Idle]
Window(e) == CHOOSE w \in Windows : w \in evaluation[e].window

(* The caller reads the schedule; the trigger is due for some window.  A   *)
(* forced evaluation, by any other than the daemon, ignores `enabled'.     *)
Evaluate(e) ==
    /\ evaluation[e].at = "idle"
    /\ schedule.enabled \/ e # Daemon
    /\ \E w \in KeysOf[e] :
          evaluation' = [evaluation EXCEPT ![e] = [at |-> "due", window |-> {w}, copy |-> schedule]]
    /\ UNCHANGED <<schedule, occurrence, activeIndex, job, runner, deaths>>

(* A window that has an occurrence is returned as it is.                   *)
FindOccurrence(e) ==
    /\ evaluation[e].at = "due"
    /\ IF occurrence[Window(e)] # "none" THEN Returns(e) ELSE Moves(e, "absent")
    /\ UNCHANGED <<schedule, occurrence, activeIndex, job, runner, deaths>>

RecordOccurrence(e) ==
    /\ evaluation[e].at = "absent"
    /\ SaveOccurrence(Window(e), "created")
    /\ Moves(e, "recorded")
    /\ UNCHANGED <<schedule, job, runner, deaths>>

(* The refusals, each of which ends the evaluation with a final status:    *)
(* a stop condition; too many active occurrences; too many failures, which *)
(* also pauses the schedule; backoff, cooldown or budget.                  *)
Stopped(e) ==
    /\ SaveOccurrence(Window(e), "skipped")
    /\ UNCHANGED schedule

Crowded(e) ==
    /\ Cardinality(ActiveOthers(Window(e))) >= MaxActive
    /\ SaveOccurrence(Window(e), "skipped")
    /\ UNCHANGED schedule

Paused(e) ==
    /\ Cardinality(ActiveOthers(Window(e))) < MaxActive
    /\ evaluation[e].copy.failures >= MaxFailures
    /\ schedule' = [evaluation[e].copy EXCEPT !.enabled = FALSE]
    /\ SaveOccurrence(Window(e), "skipped")

TooSoon(e) ==
    /\ Cardinality(ActiveOthers(Window(e))) < MaxActive
    /\ evaluation[e].copy.failures < MaxFailures
    /\ SaveOccurrence(Window(e), "skipped")
    /\ UNCHANGED schedule

Refuse(e) ==
    /\ evaluation[e].at = "recorded"
    /\ Stopped(e) \/ Crowded(e) \/ Paused(e) \/ TooSoon(e)
    /\ Returns(e)
    /\ UNCHANGED <<job, runner, deaths>>

(* Nothing refuses.  The reads of this step and the next write are apart.  *)
Permit(e) ==
    /\ evaluation[e].at = "recorded"
    /\ Cardinality(ActiveOthers(Window(e))) < MaxActive
    /\ evaluation[e].copy.failures < MaxFailures
    /\ Moves(e, "clear")
    /\ UNCHANGED <<schedule, occurrence, activeIndex, job, runner, deaths>>

Shadow(e) ==
    /\ evaluation[e].at = "clear" /\ evaluation[e].copy.shadow
    /\ schedule' = evaluation[e].copy
    /\ SaveOccurrence(Window(e), "shadowed")
    /\ Returns(e)
    /\ UNCHANGED <<job, runner, deaths>>

Accept(e) ==
    /\ evaluation[e].at = "clear" /\ ~evaluation[e].copy.shadow
    /\ SaveOccurrence(Window(e), "created")
    /\ Moves(e, "accepted")
    /\ UNCHANGED <<schedule, job, runner, deaths>>

Admit(e) ==
    /\ evaluation[e].at = "accepted"
    /\ job' = IF job[Window(e)] = NoJob
              THEN [job EXCEPT ![Window(e)].status = "queued"] ELSE job
    /\ Moves(e, "admitted")
    /\ UNCHANGED <<schedule, occurrence, activeIndex, runner, deaths>>

(* The schedule is written back as it was when the evaluation began.       *)
StampSchedule(e) ==
    /\ evaluation[e].at = "admitted"
    /\ schedule' = evaluation[e].copy
    /\ Moves(e, "stamped")
    /\ UNCHANGED <<occurrence, activeIndex, job, runner, deaths>>

QueueOccurrence(e) ==
    /\ evaluation[e].at = "stamped"
    /\ SaveOccurrence(Window(e), "queued")
    /\ Returns(e)
    /\ UNCHANGED <<schedule, job, runner, deaths>>

(* Its process dies; while it records, the file may exist without entry.   *)
EvaluatorDies(e) ==
    /\ evaluation[e].at # "idle" /\ deaths < MaxRunDeaths
    /\ deaths' = deaths + 1
    /\ Returns(e)
    /\ \/ OccurrenceUnchanged
       \/ /\ evaluation[e].at = "absent"
          /\ occurrence' = [occurrence EXCEPT ![Window(e)] = "created"]
          /\ UNCHANGED activeIndex
    /\ UNCHANGED <<schedule, job, runner>>

(* pause_schedule.                                                         *)
Pause ==
    /\ schedule.enabled
    /\ schedule' = [schedule EXCEPT !.enabled = FALSE]
    /\ UNCHANGED <<occurrence, activeIndex, evaluation, job, runner, deaths>>

---------------------------------------------------------------------------
(* The job of a window and the settlement of its occurrence.               *)

(* What settlement makes of a schedule it read.                            *)
Settled(s, outcome) ==
    LET failures == IF s.failures = MaxFailures THEN MaxFailures ELSE s.failures + 1
    IN  IF outcome = "succeeded" THEN [s EXCEPT !.failures = 0]
        ELSE [s EXCEPT !.failures = failures, !.enabled = @ /\ failures < MaxFailures]

SettleStatusLastWins(w, outcome) == SaveOccurrence(w, outcome)  \* faulty

(* Settlement leaves the occurrences alone that have ended.                *)
SettleStatus(w, outcome) ==
    IF occurrence[w] \in FinalStatuses THEN OccurrenceUnchanged ELSE SaveOccurrence(w, outcome)

(* The daemon dispatches and reconciles between its evaluations.           *)
DaemonFree == evaluation[Daemon].at = "idle"

Dispatch(w) ==
    /\ DaemonFree /\ job[w].status = "queued" /\ runner[w].at = "off"
    /\ job' = [job EXCEPT ![w] = [status |-> "running", attempt |-> @.attempt + 1]]
    /\ runner' = [runner EXCEPT ![w].at = "booted"]
    /\ UNCHANGED <<schedule, occurrence, activeIndex, evaluation, deaths>>

(* markScheduledExecutionRunning.                                          *)
MarkRunning(w) ==
    /\ runner[w].at = "booted"
    /\ IF occurrence[w] = "queued" THEN SaveOccurrence(w, "running") ELSE OccurrenceUnchanged
    /\ runner' = [runner EXCEPT ![w].at = "operating"]
    /\ UNCHANGED <<schedule, evaluation, job, deaths>>

(* The operation returned: settleScheduledExecution, its first half...     *)
SettleOccurrence(w) ==
    /\ runner[w].at = "operating"
    /\ \E outcome \in {"succeeded", "failed"} :
          /\ SettleStatus(w, outcome)
          /\ runner' = [runner EXCEPT ![w] = [at |-> "settling", outcome |-> outcome, copy |-> schedule]]
    /\ UNCHANGED <<schedule, evaluation, job, deaths>>

(* ...and its second, which writes the schedule read in the first.         *)
SettleSchedule(w) ==
    /\ runner[w].at = "settling"
    /\ schedule' = Settled(runner[w].copy, runner[w].outcome)
    /\ runner' = [runner EXCEPT ![w].at = "settled", ![w].copy = NoCopy]
    /\ UNCHANGED <<occurrence, activeIndex, evaluation, job, deaths>>

(* The operation threw: the executor reports a failure and settles nothing. *)
Throw(w) ==
    /\ runner[w].at = "operating"
    /\ runner' = [runner EXCEPT ![w].at = "settled", ![w].outcome = "failed"]
    /\ UNCHANGED <<schedule, occurrence, activeIndex, evaluation, job, deaths>>

Publish(w) ==
    /\ runner[w].at = "settled"
    /\ job' = [job EXCEPT ![w].status = "ended"]
    /\ runner' = [runner EXCEPT ![w] = NoRunner]
    /\ UNCHANGED <<schedule, occurrence, activeIndex, evaluation, deaths>>

RunnerDies(w) ==
    /\ runner[w].at \notin {"off", "dead"} /\ deaths < MaxRunDeaths
    /\ deaths' = deaths + 1
    /\ runner' = [runner EXCEPT ![w] = [at |-> "dead", copy |-> NoCopy,
                     outcome |-> IF runner[w].at = "booted" THEN "none" ELSE "failed"]]
    /\ UNCHANGED <<schedule, occurrence, activeIndex, evaluation, job>>

(* The reconciler settles the jobs it ends as failed, in one turn.         *)
EndAsFailed(w) ==
    /\ job' = [job EXCEPT ![w].status = "ended"]
    /\ SettleStatus(w, "failed")
    /\ schedule' = Settled(schedule, "failed")

(* A job whose worker died: it is tried again if the operation had not     *)
(* begun and attempts are left, ended otherwise; an operation that had     *)
(* completed is only published.                                            *)
TriedForEver(w) == runner[w].outcome = "none"                              \* faulty

TriedAgain(w) == runner[w].outcome = "none" /\ job[w].attempt < MaxAttempts

Reconcile(w) ==
    /\ DaemonFree /\ job[w].status = "running" /\ runner[w].at = "dead"
    /\ runner' = [runner EXCEPT ![w] = NoRunner]
    /\ IF TriedAgain(w)
       THEN /\ job' = [job EXCEPT ![w].status = "queued"]
            /\ OccurrenceUnchanged /\ UNCHANGED schedule
       ELSE EndAsFailed(w)
    /\ UNCHANGED <<evaluation, deaths>>

RecoverReceipt(w) ==
    /\ DaemonFree /\ job[w].status = "running" /\ runner[w].at = "dead"
    /\ runner[w].outcome # "none"
    /\ job' = [job EXCEPT ![w].status = "ended"]
    /\ runner' = [runner EXCEPT ![w] = NoRunner]
    /\ UNCHANGED <<schedule, occurrence, activeIndex, evaluation, deaths>>

(* A waiting job whose deadline passed is settled by the reconciler; one   *)
(* that the repository actor ends, or that is cancelled, is not.           *)
ExpireWaiting(w) ==
    /\ DaemonFree /\ job[w].status = "queued" /\ runner[w].at = "off"
    /\ EndAsFailed(w)
    /\ UNCHANGED <<evaluation, runner, deaths>>

EndUnsettled(w) ==
    /\ job[w].status = "queued" /\ runner[w].at = "off"
    /\ job' = [job EXCEPT ![w].status = "ended"]
    /\ UNCHANGED <<schedule, occurrence, activeIndex, evaluation, runner, deaths>>

ScheduleNext ==
    \/ Pause
    \/ \E e \in Evaluators :
          \/ Evaluate(e) \/ FindOccurrence(e) \/ RecordOccurrence(e)
          \/ Refuse(e) \/ Permit(e) \/ Shadow(e) \/ Accept(e) \/ Admit(e)
          \/ StampSchedule(e) \/ QueueOccurrence(e) \/ EvaluatorDies(e)
    \/ \E w \in Windows :
          \/ Dispatch(w) \/ MarkRunning(w) \/ SettleOccurrence(w) \/ SettleSchedule(w)
          \/ Throw(w) \/ Publish(w) \/ RunnerDies(w) \/ Reconcile(w) \/ RecoverReceipt(w)
          \/ ExpireWaiting(w) \/ EndUnsettled(w)

ScheduleSpec == ScheduleInit /\ [][ScheduleNext]_scheduleVars

---------------------------------------------------------------------------
(* Properties.                                                             *)

(* At most MaxActive windows of a schedule have a job that waits or works  *)
(* at a time, even when two windows are evaluated at once: each records    *)
(* its occurrence before it counts the others.  Evaluations of the same    *)
(* window by two callers are excluded (their KeysOf are disjoint), and so  *)
(* is the settled job whose publication is outstanding.                    *)
OccurrenceLimit ==
    Cardinality({w \in Windows : /\ job[w].status \in {"queued", "running"}
                                 /\ runner[w].at \notin {"settled", "settling", "dead"}}) <= MaxActive

(* An occurrence the daemon evaluates keeps the status it ended with:      *)
(* neither a second settlement nor the evaluation itself reopens it.       *)
EndIsKept ==
    [][\A w \in KeysOf[Daemon] :
          occurrence[w] \in FinalStatuses => occurrence'[w] = occurrence[w]]_scheduleVars
=============================================================================
