------------------------------ MODULE AgentRuns ------------------------------
(***************************************************************************)
(* Local agent runs: a run is accepted under the launch lock, started by a *)
(* launcher process, carried by a worker process that spawns the agent,    *)
(* and, if the agent worked in a worktree, integrated into the main tree.  *)
(* Its state is one file that the launcher, the worker and every reader    *)
(* write without a lock: getAgentJob brings a run it reads up to date with *)
(* the processes and files it finds.                                       *)
(*                                                                         *)
(* Left out: runs of a cloud provider, clients that name a request id,     *)
(* scope conflicts of different tasks, and a launch lock that is held      *)
(* longer than its 30 s.  One synchronous read and write of a file, and    *)
(* the termination of a process tree, are one step.                        *)
(***************************************************************************)
EXTENDS Naturals

CONSTANTS Tasks, MaxRuns, MaxProcessDeaths

ASSUME AgentAssumption == MaxRuns \in Nat \ {0} /\ MaxProcessDeaths \in Nat

Runs == 1..MaxRuns
None == 0

VARIABLES run,        \* meta.json of each run
          result,     \* its result.json
          launcher,   \* its launcher process; "spawned" holds the launch lock
          worker,     \* its worker process
          agent,      \* its agent process lives
          applied,    \* its changes are in the main tree
          epoch,      \* the run whose launcher wrote runtime-owner.json
          task,       \* declared status of each task
          latest,     \* the last run linked to it, or None
          processDeaths

agentVars == <<run, result, launcher, worker, agent, applied, epoch,
               task, latest, processDeaths>>

Active == {"starting", "running", "waiting"}
Ended == {"succeeded", "failed", "cancelled", "unknown"}
TaskStates == {"ready", "running", "review", "integrated", "blocked",
               "verified", "changes_requested", "done"}
Verdicts == {"done", "verified", "changes_requested"}

Meta == [task : Tasks, status : Active \cup Ended, mode : {"workspace", "worktree"},
         spawned : BOOLEAN,     \* workerPid is recorded
         owned : BOOLEAN,       \* controllerPid and epoch are recorded
         finalizing : BOOLEAN,
         session : BOOLEAN]     \* integratedSessionId is recorded
NoRun == [status |-> "none"]

AgentTypeOK ==
    /\ run \in [Runs -> Meta \cup {NoRun}]
    /\ result \in [Runs -> {"none", "ok", "failed"}]
    /\ launcher \in [Runs -> {"none", "waiting", "spawned", "watching", "gone"}]
    /\ worker \in [Runs -> {"none", "boot", "booted", "early", "agent", "dying", "closed", "final",
                            "sync", "integrate", "mark", "clean", "continue", "gone"}]
    /\ agent \in [Runs -> BOOLEAN] /\ applied \in [Runs -> BOOLEAN]
    /\ epoch \in Runs \cup {None}
    /\ task \in [Tasks -> TaskStates]
    /\ latest \in [Tasks -> Runs \cup {None}]
    /\ processDeaths \in 0..MaxProcessDeaths

AgentInit ==
    /\ run = [r \in Runs |-> NoRun]
    /\ result = [r \in Runs |-> "none"]
    /\ launcher = [r \in Runs |-> "none"] /\ worker = [r \in Runs |-> "none"]
    /\ agent = [r \in Runs |-> FALSE] /\ applied = [r \in Runs |-> FALSE]
    /\ epoch = None
    /\ task = [t \in Tasks |-> "ready"] /\ latest = [t \in Tasks |-> None]
    /\ processDeaths = 0

RunningRuns(t) == {r \in Runs : run[r].status = "running" /\ run[r].task = t}   \* faulty

LauncherAlive(r) == launcher[r] \in {"waiting", "spawned", "watching"}
WorkerAlive(r) == worker[r] \notin {"none", "gone"}
LockFree == \A r \in Runs : launcher[r] # "spawned"
ActiveRuns(t) == {r \in Runs : run[r].status \in Active /\ run[r].task = t}

---------------------------------------------------------------------------
(* What getAgentJob makes of a copy m of run r.                            *)

EpochHolds(r) == LauncherAlive(r) /\ epoch = r
SeenAlive(m, r) == m.spawned /\ WorkerAlive(r)

(* The result of a worker that is integrating is not acted upon.           *)
ResultCounts(m, r) ==
    /\ m.status \in {"starting", "running"} /\ result[r] # "none"
    /\ ~(m.status = "running" /\ m.mode = "worktree" /\ SeenAlive(m, r))

OwnershipLost(m, r) ==
    /\ ~ResultCounts(m, r) /\ m.status \in {"starting", "running"}
    /\ IF m.owned THEN ~EpochHolds(r) ELSE m.status = "running"

NeverStartedForgotten(m, r) == FALSE                                      \* faulty

(* A worker between the one read and the one write of its boot: no startup *)
(* deadline and no start of another process fits in between.               *)
Booting(r) == worker[r] \in {"booted", "early"}

(* The startup deadline of a run whose launcher is gone; and a worker that *)
(* died without a result.                                                  *)
NeverStarted(m, r) ==
    m.status = "starting" /\ ~SeenAlive(m, r) /\ ~LauncherAlive(r) /\ ~Booting(r)
WorkerLost(m, r) == m.status = "running" /\ ~SeenAlive(m, r)

ResultStatusAsWritten(m, r) == result[r]                                  \* faulty
ResultStatus(m, r) ==
    IF result[r] = "failed" THEN "failed"
    ELSE IF m.mode = "worktree" /\ ~m.session THEN "waiting" ELSE "succeeded"

ViewStatuses(m, r) ==
    IF ResultCounts(m, r) THEN {ResultStatus(m, r)}
    ELSE IF OwnershipLost(m, r) \/ WorkerLost(m, r) THEN {"unknown"}
    ELSE IF NeverStarted(m, r) THEN {m.status, "unknown"}
    ELSE {m.status}

MayContinueEarly(m) == m.status \in {"succeeded", "waiting"}               \* faulty

(* Continuation of a task after a successful run of it: verification moves *)
(* it on, unless its changes wait for integration.                         *)
MayContinue(m) == m.status = "succeeded" /\ (m.mode = "workspace" \/ m.session)

Continued(t, m, verdict) ==
    IF MayContinue(m) /\ task[t] \in {"ready", "review", "integrated", "verified", "changes_requested"}
    THEN verdict ELSE task[t]

(* reconcileLatestTerminalRun, and the review of an unfinished integration. *)
TaskAfter(m, r, status, verdict) ==
    LET t == m.task IN
    IF task[t] = "done" \/ status = m.status THEN task[t]
    ELSE IF status = "waiting" THEN "review"
    ELSE IF latest[t] # r THEN task[t]
    ELSE IF status = "succeeded"
         THEN IF MayContinue([m EXCEPT !.status = status]) THEN verdict ELSE "review"
         ELSE "blocked"

(* A reader brings run r up to date: its record, its task and, when the    *)
(* owner is lost, the processes the record names.                          *)
Observe(r) ==
    /\ run[r].status \in Active
    /\ \E status \in ViewStatuses(run[r], r), verdict \in Verdicts :
          /\ run' = [run EXCEPT ![r].status = status]
          /\ task' = [task EXCEPT ![run[r].task] = TaskAfter(run[r], r, status, verdict)]
          /\ IF status = "unknown" /\ OwnershipLost(run[r], r)
             THEN /\ agent' = [agent EXCEPT ![r] = FALSE]
                  /\ worker' = IF SeenAlive(run[r], r) THEN [worker EXCEPT ![r] = "gone"] ELSE worker
                  /\ launcher' = IF LauncherAlive(r) THEN [launcher EXCEPT ![r] = "gone"] ELSE launcher
             ELSE UNCHANGED <<agent, worker, launcher>>
    /\ UNCHANGED <<result, applied, epoch, latest, processDeaths>>

---------------------------------------------------------------------------
(* acceptTaskJob, dispatchAcceptedTaskJob and the launcher.                *)

(* Local runs that occupy the workspace, as activeLocalRuns finds them     *)
(* after it brought each up to date.                                       *)
Occupied(except) ==
    \E r \in Runs \ {except} :
       /\ run[r].status \in {"starting", "running"}
       /\ ~OwnershipLost(run[r], r) /\ ~WorkerLost(run[r], r) /\ ~ResultCounts(run[r], r)

Dispatchable(t, retryOf) ==
    /\ ActiveRuns(t) = {}
    /\ IF latest[t] # None /\ run[latest[t]].status \in {"failed", "cancelled", "unknown"}
       THEN retryOf = latest[t] /\ task[t] \in {"ready", "blocked", "changes_requested"}
       ELSE retryOf = None /\ task[t] \in {"ready", "changes_requested"}

Create(t, retryOf) ==
    \E r \in Runs, mode \in {"workspace", "worktree"} :
       /\ LockFree /\ Dispatchable(t, retryOf)
       /\ run[r] = NoRun /\ \A q \in Runs : q < r => run[q] # NoRun
       /\ mode = "workspace" => ~Occupied(r)
       /\ run' = [run EXCEPT ![r] = [task |-> t, status |-> "starting", mode |-> mode, spawned |-> FALSE,
                                     owned |-> FALSE, finalizing |-> FALSE, session |-> FALSE]]
       /\ task' = [task EXCEPT ![t] = "ready"]
       /\ latest' = [latest EXCEPT ![t] = r]
       /\ UNCHANGED <<result, launcher, worker, agent, applied, epoch, processDeaths>>

AcceptTask(t) == Create(t, None)

(* retryAgentJob.                                                          *)
Retry(t) == latest[t] # None /\ Create(t, latest[t])

(* A repeated request for an active run is answered with it and dispatches *)
(* it again.                                                               *)
DispatchRun(r) ==
    /\ LockFree /\ run[r].status = "starting" /\ ~LauncherAlive(r)
    /\ launcher' = [launcher EXCEPT ![r] = "waiting"]
    /\ UNCHANGED <<run, result, worker, agent, applied, epoch, task, latest, processDeaths>>

(* The launch fails: the workspace has another run by now, or worktree or  *)
(* process cannot be created...                                            *)
LaunchFails(r) ==
    /\ launcher[r] = "waiting" /\ LockFree /\ run[r].status = "starting" /\ ~Booting(r)
    /\ run' = [run EXCEPT ![r].status = "failed"]
    /\ task' = [task EXCEPT ![run[r].task] = IF @ = "done" THEN @ ELSE "blocked"]
    /\ launcher' = [launcher EXCEPT ![r] = "gone"]
    /\ UNCHANGED <<result, worker, agent, applied, epoch, latest, processDeaths>>

(* ...finds nothing to launch, or spawns the worker and then records it.   *)
LaunchIdle(r) ==
    /\ launcher[r] = "waiting" /\ LockFree /\ run[r].status # "starting"
    /\ launcher' = [launcher EXCEPT ![r] = "watching"]
    /\ UNCHANGED <<run, result, worker, agent, applied, epoch, task, latest, processDeaths>>

LaunchSpawn(r) ==
    /\ launcher[r] = "waiting" /\ LockFree /\ run[r].status = "starting" /\ ~Booting(r)
    /\ run[r].mode = "workspace" => ~Occupied(r)
    /\ launcher' = [launcher EXCEPT ![r] = "spawned"]
    /\ worker' = [worker EXCEPT ![r] = "boot"]
    /\ epoch' = r
    /\ UNCHANGED <<run, result, agent, applied, task, latest, processDeaths>>

LaunchRecord(r) ==
    /\ launcher[r] = "spawned"
    /\ run' = [run EXCEPT ![r].status = "running", ![r].spawned = TRUE, ![r].owned = TRUE,
                          ![r].finalizing = FALSE, ![r].session = FALSE]
    /\ task' = [task EXCEPT ![run[r].task] = IF @ = "done" THEN @ ELSE "running"]
    /\ launcher' = [launcher EXCEPT ![r] = "watching"]
    /\ UNCHANGED <<result, worker, agent, applied, epoch, latest, processDeaths>>

LauncherLeaves(r) ==
    /\ launcher[r] = "watching"
    /\ run[r].status \notin Active \/ ~SeenAlive(run[r], r)
    /\ launcher' = [launcher EXCEPT ![r] = "gone"]
    /\ UNCHANGED <<run, result, worker, agent, applied, epoch, task, latest, processDeaths>>

---------------------------------------------------------------------------
(* The worker.                                                             *)

(* ownershipFailure: the launcher lives, the epoch is its own, the run is  *)
(* starting or running and names no other worker.                          *)
Owns(r) == EpochHolds(r) /\ run[r].status \in {"starting", "running"}

WorkerMoves(r, at) == worker' = [worker EXCEPT ![r] = at]

BootRead(r) ==
    /\ worker[r] = "boot"
    /\ WorkerMoves(r, IF ~Owns(r) THEN "gone" ELSE IF run[r].spawned THEN "booted" ELSE "early")
    /\ UNCHANGED <<run, result, launcher, agent, applied, epoch, task, latest, processDeaths>>

(* The copy it read is written back; read early, it lacks the record of    *)
(* the worker and of its owner.                                            *)
BootWrite(r) ==
    /\ worker[r] \in {"booted", "early"}
    /\ run' = [run EXCEPT ![r].status = "running", ![r].spawned = (worker[r] = "booted"),
                          ![r].owned = (worker[r] = "booted")]
    /\ agent' = [agent EXCEPT ![r] = TRUE]
    /\ WorkerMoves(r, "agent")
    /\ UNCHANGED <<result, launcher, applied, epoch, task, latest, processDeaths>>

(* The ownership guard: the record first, the agent after.                 *)
FailClosed(r) ==
    /\ worker[r] = "agent" /\ ~Owns(r)
    /\ run' = IF run[r].spawned /\ run[r].status \in {"starting", "running"}
              THEN [run EXCEPT ![r].status = "unknown"] ELSE run
    /\ WorkerMoves(r, "dying")
    /\ UNCHANGED <<result, launcher, agent, applied, epoch, task, latest, processDeaths>>

AgentKilled(r) ==
    /\ worker[r] = "dying"
    /\ agent' = [agent EXCEPT ![r] = FALSE]
    /\ result' = [result EXCEPT ![r] = "failed"]
    /\ WorkerMoves(r, "gone")
    /\ UNCHANGED <<run, launcher, applied, epoch, task, latest, processDeaths>>

(* The agent exits, by itself or at its time limit.                        *)
AgentExits(r) ==
    /\ worker[r] = "agent" /\ agent[r]
    /\ agent' = [agent EXCEPT ![r] = FALSE]
    /\ WorkerMoves(r, "closed")
    /\ UNCHANGED <<run, result, launcher, applied, epoch, task, latest, processDeaths>>

WriteResult(r) ==
    /\ worker[r] = "closed"
    /\ \E outcome \in {"ok", "failed"} :
          /\ outcome = "ok" => Owns(r)
          /\ result' = [result EXCEPT ![r] = outcome]
    /\ run' = IF ~Owns(r) /\ run[r].spawned /\ run[r].status \in {"starting", "running"}
              THEN [run EXCEPT ![r].status = "unknown"] ELSE run
    /\ WorkerMoves(r, "final")
    /\ UNCHANGED <<launcher, agent, applied, epoch, task, latest, processDeaths>>

WriteFinal(r) ==
    /\ worker[r] = "final"
    /\ IF Owns(r)
       THEN /\ run' = [run EXCEPT ![r].finalizing = (result[r] = "ok" /\ run[r].mode = "worktree"),
                         ![r].status = IF result[r] = "failed" THEN "failed"
                                       ELSE IF run[r].mode = "worktree" THEN "running" ELSE "succeeded"]
            /\ WorkerMoves(r, "sync")
       ELSE WorkerMoves(r, "gone") /\ UNCHANGED run
    /\ UNCHANGED <<result, launcher, agent, applied, epoch, task, latest, processDeaths>>

SyncTask(r) ==
    /\ worker[r] = "sync"
    /\ task' = [task EXCEPT ![run[r].task] =
                   IF @ = "done" THEN @ ELSE IF result[r] = "ok" THEN "review" ELSE "blocked"]
    /\ WorkerMoves(r, IF result[r] = "failed" THEN "gone"
                      ELSE IF run[r].finalizing THEN "integrate" ELSE "continue")
    /\ UNCHANGED <<run, result, launcher, agent, applied, epoch, latest, processDeaths>>

(* integrateAgentJob, for a finalizing run whose task is in review; the    *)
(* base of each file must still be what the run started from.              *)
Integrable(r) ==
    /\ run[r].status = "running" /\ run[r].finalizing /\ ~run[r].session
    /\ task[run[r].task] \in {"review", "verified"}
    /\ ~applied[r]

ApplyChanges(r) ==
    /\ worker[r] = "integrate" /\ Owns(r) /\ Integrable(r)
    /\ applied' = [applied EXCEPT ![r] = TRUE]
    /\ WorkerMoves(r, "mark")
    /\ UNCHANGED <<run, result, launcher, agent, epoch, task, latest, processDeaths>>

MarkIntegrated(r) ==
    /\ worker[r] = "mark"
    /\ run' = [run EXCEPT ![r].session = TRUE]
    /\ task' = [task EXCEPT ![run[r].task] = IF @ = "done" THEN @ ELSE "integrated"]
    /\ WorkerMoves(r, "clean")
    /\ UNCHANGED <<result, launcher, agent, applied, epoch, latest, processDeaths>>

CleanWorktree(r) ==
    /\ worker[r] = "clean" /\ Owns(r)
    /\ run' = [run EXCEPT ![r].status = "succeeded"]
    /\ WorkerMoves(r, "continue")
    /\ UNCHANGED <<result, launcher, agent, applied, epoch, task, latest, processDeaths>>

(* Anything in the integration throws: the run waits for the user.         *)
IntegrationFails(r) ==
    /\ worker[r] \in {"integrate", "clean"}
    /\ IF Owns(r)
       THEN /\ run' = [run EXCEPT ![r].status = "waiting"]
            /\ task' = [task EXCEPT ![run[r].task] = IF @ = "done" THEN @ ELSE "review"]
            /\ WorkerMoves(r, "continue")
       ELSE WorkerMoves(r, "gone") /\ UNCHANGED <<run, task>>
    /\ UNCHANGED <<result, launcher, agent, applied, epoch, latest, processDeaths>>

(* The continuation asserts ownership of the run once more.                *)
ContinueTask(r) ==
    /\ worker[r] = "continue"
    /\ \E verdict \in Verdicts :
          task' = [task EXCEPT ![run[r].task] =
                      IF Owns(r) THEN Continued(run[r].task, run[r], verdict) ELSE @]
    /\ WorkerMoves(r, "gone")
    /\ UNCHANGED <<run, result, launcher, agent, applied, epoch, latest, processDeaths>>

---------------------------------------------------------------------------
(* Users, and deaths.                                                      *)

CancelRun(r) ==
    /\ run[r].status \in {"running", "unknown"}
    /\ run' = [run EXCEPT ![r].status = "cancelled", ![r].spawned = FALSE]
    /\ agent' = [agent EXCEPT ![r] = FALSE]
    /\ worker' = IF run[r].spawned /\ WorkerAlive(r) THEN [worker EXCEPT ![r] = "gone"] ELSE worker
    /\ launcher' = IF LauncherAlive(r) THEN [launcher EXCEPT ![r] = "gone"] ELSE launcher
    /\ task' = [task EXCEPT ![run[r].task] = IF @ = "done" THEN @ ELSE "blocked"]
    /\ UNCHANGED <<result, applied, epoch, latest, processDeaths>>

(* integrate_task_run, while the worker integrates too.                    *)
IntegrateByHand(r) ==
    /\ Integrable(r)
    /\ applied' = [applied EXCEPT ![r] = TRUE]
    /\ run' = [run EXCEPT ![r].session = TRUE]
    /\ task' = [task EXCEPT ![run[r].task] = "integrated"]
    /\ UNCHANGED <<result, launcher, worker, agent, epoch, latest, processDeaths>>

(* The bridge's verify, accept and request-changes.                        *)
VerifyTask(t) ==
    /\ latest[t] # None /\ task[t] \notin {"done", "verified"} /\ MayContinue(run[latest[t]])
    /\ \E verdict \in Verdicts : task' = [task EXCEPT ![t] = Continued(t, run[latest[t]], verdict)]
    /\ UNCHANGED <<run, result, launcher, worker, agent, applied, epoch, latest, processDeaths>>

AcceptVerified(t) ==
    /\ task[t] = "verified" /\ latest[t] # None /\ MayContinue(run[latest[t]])
    /\ task' = [task EXCEPT ![t] = "done"]
    /\ UNCHANGED <<run, result, launcher, worker, agent, applied, epoch, latest, processDeaths>>

RequestChanges(t) ==
    /\ task[t] \in {"review", "integrated", "verified"}
    /\ task' = [task EXCEPT ![t] = "changes_requested"]
    /\ UNCHANGED <<run, result, launcher, worker, agent, applied, epoch, latest, processDeaths>>

(* A worker that dies leaves its agent behind.                             *)
ProcessDies(r) ==
    /\ processDeaths < MaxProcessDeaths /\ processDeaths' = processDeaths + 1
    /\ \/ LauncherAlive(r) /\ launcher' = [launcher EXCEPT ![r] = "gone"] /\ UNCHANGED worker
       \/ WorkerAlive(r) /\ worker' = [worker EXCEPT ![r] = "gone"] /\ UNCHANGED launcher
    /\ UNCHANGED <<run, result, agent, applied, epoch, task, latest>>

WorkerSteps(r) ==
    \/ BootRead(r) \/ BootWrite(r) \/ FailClosed(r) \/ AgentKilled(r) \/ AgentExits(r)
    \/ WriteResult(r) \/ WriteFinal(r) \/ SyncTask(r) \/ ApplyChanges(r) \/ MarkIntegrated(r)
    \/ CleanWorktree(r) \/ IntegrationFails(r) \/ ContinueTask(r)

AgentNext ==
    \/ \E t \in Tasks : AcceptTask(t) \/ Retry(t) \/ VerifyTask(t) \/ AcceptVerified(t) \/ RequestChanges(t)
    \/ \E r \in Runs :
          \/ Observe(r) \/ DispatchRun(r) \/ LaunchFails(r) \/ LaunchIdle(r) \/ LaunchSpawn(r)
          \/ LaunchRecord(r) \/ LauncherLeaves(r) \/ WorkerSteps(r)
          \/ CancelRun(r) \/ IntegrateByHand(r) \/ ProcessDies(r)

AgentSpec == AgentInit /\ [][AgentNext]_agentVars

---------------------------------------------------------------------------
(* Properties.                                                             *)

(* A task has at most one run that starts, runs or waits: no late write of *)
(* a worker, an integration or a reader brings an ended run back to life   *)
(* beside its retry.                                                       *)
OneRunPerTask ==
    \A q, r \in Runs :
       /\ run[q].status \in Active /\ run[r].status \in Active
       /\ run[q].task = run[r].task
       => q = r

(* A task is verified or done only when a successful run's changes are in  *)
(* the main tree.                                                          *)
DoneIsInTree ==
    \A t \in Tasks : task[t] \in {"verified", "done"} =>
       \E r \in Runs : /\ run[r].status # "none" /\ run[r].task = t /\ result[r] = "ok"
                       /\ run[r].mode = "workspace" \/ applied[r]

(* A run that was accepted comes to an end or waits for the user.          *)
RunsSettle == \A r \in Runs : (run[r].status \in {"starting", "running"}) ~>
                              (run[r].status \notin {"starting", "running"})

(* A successful run's task moves on from review without a user.            *)
SuccessContinues ==
    \A r \in Runs, t \in Tasks :
       (run[r].status = "succeeded" /\ run[r].task = t /\ task[t] = "review")
          ~> (task[t] # "review")

(* A run that waits for the user can be brought to an end by the user.     *)
WaitingEnds ==
    \A r \in Runs : (run[r].status = "waiting") ~> (run[r].status # "waiting")
=============================================================================
