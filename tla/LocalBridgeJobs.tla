---------------------------- MODULE LocalBridgeJobs ----------------------------
(***************************************************************************)
(* One Local Bridge job: submitted by clients, projected to a durable      *)
(* execution job, executed by the worker of that job, and brought up to    *)
(* date by whoever reads it.  Its file is read and written without a lock  *)
(* by all of them.  One synchronous read and write of it is one step; a    *)
(* copy that is held over other work is written back as it was.            *)
(*                                                                         *)
(* Left out: legacy jobs that wait for approval, a job for the same work   *)
(* that another client creates at the same moment, quick sessions (a       *)
(* launch with an issue of their own) and the active index.                *)
(***************************************************************************)
EXTENDS Naturals
CONSTANT Clients

VARIABLES kind,      \* what the job does: a command, a check or a launch
          job,       \* job.json
          copy,      \* what each client and the worker hold of it
          client,    \* what each client does
          execution, \* status of the execution job...
          attempts,  \* ...and its attempts, of 2
          settle,    \* the worker: settleLegacyLocalJob...
          work,      \* ...and the command or check it runs meanwhile
          starts,    \* times the command was started, up to 2
          linked     \* status of the run that the launch led to

bridgeVars == <<kind, job, copy, client, execution, attempts, settle, work, starts, linked>>

Kinds == {"command", "check", "launch"}
OpenJob == {"approved", "running", "dispatched"}
EndedJob == {"succeeded", "failed", "timed_out", "orphaned", "stale", "cancelled"}
EndedRun == {"succeeded", "failed", "cancelled"}

Absent == [status |-> "absent", projected |-> FALSE, owned |-> FALSE, limited |-> FALSE, run |-> FALSE]
Job == [status : OpenJob \cup EndedJob \cup {"absent"},
        projected : BOOLEAN,    \* result.executionJobId
        owned : BOOLEAN,        \* ownerPid, of the worker
        limited : BOOLEAN,      \* deadlineAt
        run : BOOLEAN]          \* runId

BridgeTypeOK ==
    /\ kind \in Kinds /\ job \in Job /\ copy \in [Clients \cup {"worker"} -> Job]
    /\ client \in [Clients -> {"idle", "submitted", "created", "gone"}]
    /\ execution \in {"none", "queued", "running", "succeeded", "failed", "cancelled"}
    /\ attempts \in 0..2
    /\ settle \in {"none", "begin", "execute", "accepted", "read", "wait", "gone"}
    /\ work \in {"none", "ready", "running", "signalled", "ended"}
    /\ starts \in 0..2
    /\ linked \in {"none", "starting", "running", "waiting"} \cup EndedRun

BridgeInit ==
    /\ kind \in Kinds /\ job = Absent /\ copy = [c \in Clients \cup {"worker"} |-> Absent]
    /\ client = [c \in Clients |-> "idle"] /\ execution = "none"
    /\ attempts = 0 /\ settle = "none" /\ work = "none" /\ starts = 0 /\ linked = "none"

Written(status) == [job EXCEPT !.status = status]

---------------------------------------------------------------------------
(* refreshLocalBridgeJob: what a reader makes of the job j it has read.    *)

WorkerGone == settle = "gone" \/ (settle = "none" /\ work \in {"none", "ended"})

OrphanedIfLimited(j) == j.owned /\ j.limited /\ WorkerGone                     \* faulty
Orphaned(j) == j.owned /\ WorkerGone

(* A running check or command: past its deadline (a command always has     *)
(* one, a check once it has started or has no owner), or its owner gone.   *)
LongRunning(j) ==
    {j.status}
    \cup {s \in {"timed_out"} : kind = "command" \/ j.limited \/ ~j.owned}
    \cup {s \in {"orphaned"} : Orphaned(j)}

ByExecution(j) ==
    CASE execution = "running" -> "running"
      [] execution \in {"none", "queued"} -> j.status
      [] OTHER -> execution

ByRun(j) ==
    CASE linked \in {"running", "waiting"} -> "running"
      [] linked \in {"succeeded", "cancelled"} -> linked
      [] OTHER -> "failed"

Refreshed(j) ==
    IF j.status = "running" /\ kind # "launch" THEN LongRunning(j)
    ELSE IF j.status \notin {"dispatched", "running"} THEN {j.status}
    ELSE IF j.projected /\ ByExecution(j) # "dispatched" THEN {ByExecution(j)}
    ELSE IF j.run THEN {ByRun(j)} ELSE {j.status}

(* The command of a job that is found past its deadline is signalled, the  *)
(* subscription of a check is released.                                    *)
Stopped == IF work = "running" THEN "signalled" ELSE work

Refresh ==
    /\ \E status \in Refreshed(job) \ {job.status} :
          /\ job' = Written(status)
          /\ work' = IF job.status = "running" /\ status = "timed_out" THEN Stopped ELSE work
    /\ UNCHANGED <<kind, copy, client, execution, attempts, settle, starts, linked>>

(* The revision that a running check was submitted for is overtaken.       *)
RevisionOvertaken ==
    /\ kind = "check" /\ job.status = "running"
    /\ job' = Written("stale") /\ work' = Stopped
    /\ UNCHANGED <<kind, copy, client, execution, attempts, settle, starts, linked>>

---------------------------------------------------------------------------
(* Clients.                                                                *)

(* submitLocalBridgeJob; a repeated submission finds the open job.         *)
Submit(c) ==
    /\ client[c] = "idle"
    /\ job.status \in {"absent", "approved", "running"}
          \cup {s \in {"dispatched"} : kind # "command"}
    /\ job' = IF job = Absent THEN Written("approved") ELSE job
    /\ client' = [client EXCEPT ![c] = "submitted"]
    /\ UNCHANGED <<kind, copy, execution, attempts, settle, work, starts, linked>>

(* dispatchLocalBridgeJob: the job is read, its execution job is created   *)
(* or found by its request id, the daemon is started if need be...         *)
CreatedTwice == TRUE                                                            \* faulty
Created == execution = "none"

DispatchBegin(c) ==
    /\ client[c] = "submitted"
    /\ IF job.status = "approved"
       THEN /\ copy' = [copy EXCEPT ![c] = job]
            /\ IF Created THEN execution' = "queued" /\ attempts' = 0
               ELSE UNCHANGED <<execution, attempts>>
            /\ client' = [client EXCEPT ![c] = "created"]
       ELSE client' = [client EXCEPT ![c] = "gone"] /\ UNCHANGED <<copy, execution, attempts>>
    /\ UNCHANGED <<kind, job, settle, work, starts, linked>>

(* ...and the copy that was read before is written with what came of it.   *)
DispatchEnd(c) ==
    /\ client[c] = "created"
    /\ job' = [copy[c] EXCEPT !.status = "dispatched", !.projected = TRUE]
    /\ client' = [client EXCEPT ![c] = "gone"]
    /\ copy' = [copy EXCEPT ![c] = Absent]
    /\ UNCHANGED <<kind, execution, attempts, settle, work, starts, linked>>

(* The dispatch throws, before or after it created the execution job, or   *)
(* the client dies in between.                                             *)
DispatchFails(c) ==
    /\ client[c] \in {"submitted", "created"}
    /\ \/ job' = IF job.status \in EndedJob THEN job ELSE Written("failed")
       \/ job' = job
    /\ client' = [client EXCEPT ![c] = "gone"]
    /\ copy' = [copy EXCEPT ![c] = Absent]
    /\ UNCHANGED <<kind, execution, attempts, settle, work, starts, linked>>

Cancel ==
    /\ job.status \notin {"absent", "succeeded", "failed", "cancelled"}
    /\ job' = Written("cancelled")
    /\ work' = Stopped
    /\ linked' = IF job.run /\ linked = "running" THEN "cancelled" ELSE linked
    /\ UNCHANGED <<kind, copy, client, execution, attempts, settle, starts>>

---------------------------------------------------------------------------
(* The worker of the execution job.                                        *)

Finish(ok) == settle' = "none" /\ execution' = IF ok THEN "succeeded" ELSE "failed"
Accepted == {"succeeded", "dispatched"}

WorkerStarts ==
    /\ execution = "queued" /\ execution' = "running"
    /\ attempts' = attempts + 1
    /\ settle' = "begin"
    /\ UNCHANGED <<kind, job, copy, client, work, starts, linked>>

Pending(j) == j.projected /\ (j.status = "dispatched" \/ (j.status = "running" /\ ~j.owned))

(* executeLocalBridgeJobInline: it claims a job that is approved, or whose *)
(* projection is pending; what it finds otherwise it settles by.           *)
Claim ==
    /\ settle = "begin"
    /\ \E status \in Refreshed(job) :
          LET j == Written(status) IN
          IF j.status = "approved" \/ Pending(j)
          THEN /\ job' = [j EXCEPT !.status = "running"]
               /\ copy' = [copy EXCEPT !["worker"] = job']
               /\ settle' = "execute"
               /\ UNCHANGED execution
          ELSE /\ job' = j
               /\ IF j.status = "running" THEN settle' = "wait" /\ UNCHANGED execution
                  ELSE Finish(j.status \in Accepted)
               /\ UNCHANGED copy
    /\ UNCHANGED <<kind, client, attempts, work, starts, linked>>

(* A command or a check records its owner and goes on beside the worker.   *)
RecordOwner ==
    /\ settle = "execute" /\ kind # "launch"
    /\ IF job.status = "running"
       THEN /\ job' = [job EXCEPT !.owned = TRUE, !.limited = @ \/ kind = "command"]
            /\ work' = "ready"
       ELSE UNCHANGED <<job, work>>
    /\ settle' = "read"
    /\ UNCHANGED <<kind, copy, client, execution, attempts, starts, linked>>

ReadBack ==
    /\ settle = "read"
    /\ IF job.status = "running" THEN settle' = "wait" /\ UNCHANGED execution
       ELSE Finish(job.status \in Accepted)
    /\ UNCHANGED <<kind, job, copy, client, attempts, work, starts, linked>>

(* A launch is accepted as a run or refused; the job that was read before  *)
(* is written with the run in place of the execution job.                  *)
LaunchAccept ==
    /\ settle = "execute" /\ kind = "launch"
    /\ \E ok \in BOOLEAN :
          /\ linked' = IF ok /\ linked = "none" THEN "starting" ELSE linked
          /\ copy' = [copy EXCEPT !["worker"] =
                         IF ok THEN [@ EXCEPT !.status = "dispatched", !.run = TRUE, !.projected = FALSE]
                         ELSE [@ EXCEPT !.status = "failed"]]
    /\ settle' = "accepted"
    /\ UNCHANGED <<kind, job, client, execution, attempts, work, starts>>

LaunchWrite ==
    /\ settle = "accepted"
    /\ job' = copy["worker"]
    /\ copy' = [copy EXCEPT !["worker"] = Absent]
    /\ Finish(job'.status \in Accepted)
    /\ UNCHANGED <<kind, client, attempts, work, starts, linked>>

(* It looks every 250 ms, and gives up at its own limit.                   *)
Poll ==
    /\ settle = "wait"
    /\ \E status \in Refreshed(job) :
          /\ job' = Written(status)
          /\ work' = IF status = "timed_out" THEN Stopped ELSE work
          /\ status # "running" /\ Finish(status \in Accepted)
    /\ UNCHANGED <<kind, copy, client, attempts, starts, linked>>

GiveUp ==
    /\ settle = "wait" /\ Finish(FALSE)
    /\ UNCHANGED <<kind, job, copy, client, attempts, work, starts, linked>>

(* onSpawn: a process whose job is not running any more is stopped.        *)
StartWork ==
    /\ work = "ready" /\ starts < 2
    /\ starts' = starts + 1
    /\ IF job.status = "running"
       THEN work' = "running" /\ job' = [job EXCEPT !.owned = TRUE, !.limited = TRUE]
       ELSE work' = "signalled" /\ UNCHANGED job
    /\ UNCHANGED <<kind, copy, client, execution, attempts, settle, linked>>

(* The process ends; only a job that still runs is given its outcome.      *)
EndWork ==
    /\ work \in {"running", "signalled"}
    /\ work' = "ended"
    /\ IF job.status = "running"
       THEN \E status \in {"failed"} \cup {s \in {"succeeded", "timed_out"} : work = "running"} :
               job' = Written(status)
       ELSE UNCHANGED job
    /\ UNCHANGED <<kind, copy, client, execution, attempts, settle, starts, linked>>

(* A worker that dies takes its polling, its writes and its processes with *)
(* it; its execution job is run again only if it had not begun.            *)
WorkerDies ==
    /\ settle \notin {"none", "gone"}
    /\ settle' = "gone"
    /\ execution' \in {"failed"} \cup {s \in {"queued"} : settle = "begin" /\ attempts < 2}
    /\ work' = IF work = "none" THEN "none" ELSE "ended"
    /\ copy' = [copy EXCEPT !["worker"] = Absent]
    /\ UNCHANGED <<kind, job, client, attempts, starts, linked>>

CancelExecution ==
    /\ execution = "queued" /\ execution' = "cancelled"
    /\ UNCHANGED <<kind, job, copy, client, attempts, settle, work, starts, linked>>

(* The linked run, see AgentRuns.                                          *)
RunMoves ==
    /\ \/ linked = "starting" /\ linked' = "running"
       \/ linked = "running" /\ linked' = "waiting"
       \/ linked \in {"starting", "running", "waiting"} /\ linked' \in {"succeeded", "failed"}
    /\ UNCHANGED <<kind, job, copy, client, execution, attempts, settle, work, starts>>

WorkerOfJob ==
    \/ WorkerStarts \/ Claim \/ RecordOwner \/ ReadBack \/ LaunchAccept \/ LaunchWrite
    \/ Poll \/ StartWork \/ EndWork

BridgeNext ==
    \/ \E c \in Clients : Submit(c) \/ DispatchBegin(c) \/ DispatchEnd(c) \/ DispatchFails(c)
    \/ Refresh \/ RevisionOvertaken \/ Cancel \/ CancelExecution \/ RunMoves
    \/ WorkerOfJob \/ GiveUp \/ WorkerDies

BridgeSpec == BridgeInit /\ [][BridgeNext]_bridgeVars

---------------------------------------------------------------------------
(* Properties.                                                             *)

(* The command of a job is started once, however often the job is          *)
(* dispatched and whoever overwrites its record.                           *)
StartedOnce == starts <= 1

(* A job that runs or waits for its worker comes to an end, or its run     *)
(* waits for the user, as long as a launch has a record of the execution   *)
(* job or the run that it is to follow.                                    *)
BridgeJobsSettle ==
    (/\ job.status \in {"dispatched", "running"}
     /\ kind # "launch" \/ job.projected \/ job.run)
       ~> (job.status \in EndedJob \/ linked = "waiting")

(* Reading a job that follows a run ends it only when the run has ended.   *)
ReadEndsWithTheRun ==
    [][(Refresh /\ job.run /\ ~job.projected /\ job'.status \in EndedJob) => linked \in EndedRun]_bridgeVars
=============================================================================
