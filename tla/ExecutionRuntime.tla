-------------------------- MODULE ExecutionRuntime --------------------------
(***************************************************************************)
(* The life of the execution jobs of one repository: the durable job       *)
(* records and operation receipts (runtime/execution/jobs), the dispatch   *)
(* of the repository actor (control-plane/repo-actor/actor.ts) and of the  *)
(* global scheduler (control-plane/global-scheduler/scheduler.ts), the     *)
(* worker process (execution/workers), the reconciler                      *)
(* (global-scheduler/reconciliation.ts) and cancellation.                  *)
(*                                                                         *)
(* An action is what one process does under one controller lock, or        *)
(* between two awaits.  Abstractions:                                      *)
(*  - the six waiting statuses are one ("waiting");                        *)
(*  - every mutating job ("writes": a claim whose mode is not "read")      *)
(*    claims the same resource and a reader claims nothing; ResourceClaims *)
(*    and LeaseStore hold the general case.  A lease is the pair of its    *)
(*    owner and its fencing token, and an expired lease is an absent one,  *)
(*    because every reader skips or deletes it;                            *)
(*  - a claim spawns at most one child, so the worker process of attempt a *)
(*    of job j is named <<j, a>>, and a PID is the number of an attempt    *)
(*    (0: no PID).                                                         *)
(***************************************************************************)
EXTENDS Integers, FiniteSets

CONSTANTS
    Jobs,           \* execution jobs
    Kinds,          \* whether jobs may be mutating (TRUE), reading (FALSE) or both
    Schedulers,     \* global scheduler processes (the daemon runs one)
    MaxAttempts,    \* maxAttempts of every job
    MaxCrashes,     \* bound: worker and daemon deaths
    MaxToken,       \* bound: fencing tokens issued
    Stalls,         \* a live worker's heartbeat timer may be late
    Unkillable,     \* a process may survive its termination
    Cancels,        \* jobs may be cancelled
    Contention      \* another process may hold a lock a store function asks for

ASSUME RuntimeAssumption ==
    /\ Kinds \subseteq BOOLEAN /\ Kinds # {}
    /\ MaxAttempts \in Nat \ {0} /\ MaxCrashes \in Nat /\ MaxToken \in Nat
    /\ {Stalls, Unkillable, Cancels, Contention} \subseteq BOOLEAN

Terminal == {"succeeded", "failed", "timed_out", "cancelled", "orphaned",
             "human_attention_required"}
Statuses == {"waiting", "dispatched", "running"} \cup Terminal

(* More attempts than allowed can be counted when two reconcilers requeue. *)
Attempts == 1 .. MaxAttempts + 1
PIDs     == 0 .. MaxAttempts + 1
Tokens   == 1 .. MaxToken
Refs     == SUBSET Tokens

JobRecord == [status : Statuses, attempt : PIDs, pid : PIDs, refs : Refs,
              writes : BOOLEAN]
Receipt   == [attempt : PIDs, state : {"none", "started", "completed"},
              outcome : {"none", "succeeded", "failed"}]
WorkerPC  == {"unborn", "boot", "owned", "beating", "executing", "checked",
              "receipted", "failing", "leaving", "gone"}
Worker    == [pc : WorkerPC, refs : Refs, parented : BOOLEAN,
              outcome : {"none", "succeeded", "failed"}]

VARIABLES
    job,            \* the job records
    receipt,        \* the operation receipts
    leases,         \* the unexpired leases on the shared resource
    token,          \* the fencing counter of the resource
    idle,           \* 0: heard from in time; 1: leases expired; 2: heartbeat stale
    late,           \* whether the deadline of a job has passed
    worker,         \* the worker processes
    sched,          \* the scheduler processes
    epoch,          \* the daemon that the daemon's state file names
    doomed,         \* PIDs that a cancellation has yet to terminate
    crashes,        \* deaths so far
    begun           \* history: executions of each job's operation

vars == <<job, receipt, leases, token, idle, late, worker, sched, epoch, doomed, crashes, begun>>

Pids == Jobs \X Attempts

Snapshot == [id : Jobs, status : Statuses, attempt : PIDs, pid : PIDs, refs : Refs,
             stale : BOOLEAN]

(* "work" holds the job that a scheduler is busy with, "todo" the snapshot *)
(* of the reconciliation pass.                                             *)
Idle == [pc |-> "idle", work |-> {}, grant |-> {}, todo |-> {}]
Down == [Idle EXCEPT !.pc = "down"]

-----------------------------------------------------------------------------
(* Job store                                                               *)

TransitionAnything(from, to) == TRUE     \* faulty: no transition table

(* transitionAllowed; the targets not listed are never asked for.          *)
TransitionAllowed(from, to) ==
    \/ from = to
    \/ from = "waiting"    /\ to \in {"running", "cancelled", "timed_out",
                                      "human_attention_required"}
    \/ from = "running"    /\ to \in Terminal \cup {"waiting"}
    \/ from = "dispatched" /\ to \in Terminal \cup {"running"}

(* transitionExecutionJob with the reconciler's patch.                     *)
Ended(r, status) == [r EXCEPT !.status = status, !.pid = 0, !.refs = {}]

Mine(j, refs) == {l \in leases : l.owner = j /\ l.tok \in refs}

(* releaseExecutionLeases                                                  *)
Released(j, refs) == leases \ Mine(j, refs)

(* Every lease of the references is there (assertFencingToken).            *)
Held(j, refs) == \A t \in refs : \E l \in leases : l.owner = j /\ l.tok = t

GivenUpWithoutRefs(j, a) ==          \* faulty: rebuilds the record and drops a field
    IF job[j].status = "running" /\ job[j].pid = a
    THEN [status |-> "failed", attempt |-> job[j].attempt, pid |-> 0,
          writes |-> job[j].writes]
    ELSE job[j]

(* What a worker leaves behind when it gives up: only the process named in *)
(* a running record may settle it.                                         *)
GivenUp(j, a) ==
    IF job[j].status = "running" /\ job[j].pid = a
    THEN Ended(job[j], IF job[j].writes THEN "human_attention_required" ELSE "failed")
    ELSE job[j]

Alive(p) == worker[p].pc \notin {"unborn", "gone"}

Dispatching(s) == sched[s].pc \in {"leased", "claimed", "spawned"}
DispatchFree == \A s \in Schedulers : ~Dispatching(s)

TypeOK ==
    /\ job \in [Jobs -> JobRecord]
    /\ receipt \in [Jobs -> Receipt]
    /\ leases \subseteq [owner : Jobs, tok : Tokens]
    /\ token \in 0 .. MaxToken
    /\ idle \in [Jobs -> 0 .. 2]
    /\ late \in [Jobs -> BOOLEAN]
    /\ worker \in [Pids -> Worker]
    /\ \A s \in Schedulers :
          /\ sched[s].pc \in {"idle", "leased", "claimed", "spawned", "reconciling",
                              "killed", "survived", "settling", "down"}
          /\ sched[s].grant \in Refs
          /\ sched[s].todo \subseteq Snapshot
          /\ \A w \in sched[s].work : w.id \in Jobs
          /\ Cardinality(sched[s].work) <= 1
    /\ epoch \in Schedulers
    /\ doomed \subseteq Pids
    /\ crashes \in 0 .. MaxCrashes
    /\ begun \in [Jobs -> Nat]

Init ==
    /\ job \in [Jobs -> [status : {"waiting"}, attempt : {0}, pid : {0}, refs : {{}},
                         writes : Kinds]]
    /\ receipt = [j \in Jobs |-> [attempt |-> 0, state |-> "none", outcome |-> "none"]]
    /\ leases = {}
    /\ token = 0
    /\ idle = [j \in Jobs |-> 0]
    /\ late = [j \in Jobs |-> FALSE]
    /\ worker = [p \in Pids |-> [pc |-> "unborn", refs |-> {}, parented |-> FALSE,
                                 outcome |-> "none"]]
    /\ epoch \in Schedulers
    /\ sched = [s \in Schedulers |-> IF s = epoch THEN Idle ELSE Down]
    /\ doomed = {}
    /\ crashes = 0
    /\ begun = [j \in Jobs |-> 0]

-----------------------------------------------------------------------------
(* Dispatch                                                                *)

Busy(s, pc, j, grant) ==
    sched' = [sched EXCEPT ![s] = [sched[s] EXCEPT !.pc = pc, !.work = {[id |-> j]}, !.grant = grant]]
Rest(s) == sched' = [sched EXCEPT ![s] = Idle]

(* RepoActor.tryClaimNext: a candidate past its deadline is closed.        *)
ExpireWaiting(s, j) ==
    /\ sched[s].pc = "idle" /\ DispatchFree
    /\ job[j].status = "waiting" /\ late[j]
    /\ job' = [job EXCEPT ![j] = [job[j] EXCEPT !.status = "timed_out", !.pid = 0]]
    /\ UNCHANGED <<receipt, leases, token, idle, late, worker, sched, epoch, doomed, crashes, begun>>

AcquireIgnoringOthers(s, j) ==           \* faulty: does not look for blockers
    /\ sched[s].pc = "idle" /\ DispatchFree
    /\ job[j].status = "waiting" /\ ~late[j]
    /\ IF job[j].writes
       THEN /\ token < MaxToken
            /\ token' = token + 1
            /\ leases' = leases \cup {[owner |-> j, tok |-> token + 1]}
            /\ Busy(s, "leased", j, {token + 1})
       ELSE /\ Busy(s, "leased", j, {})
            /\ UNCHANGED <<token, leases>>
    /\ idle' = [idle EXCEPT ![j] = 0]
    /\ UNCHANGED <<job, receipt, late, worker, epoch, doomed, crashes, begun>>

(* acquireExecutionLeases: no live lease of another job may be in the way. *)
Acquire(s, j) ==
    /\ sched[s].pc = "idle" /\ DispatchFree
    /\ job[j].status = "waiting" /\ ~late[j]
    /\ IF job[j].writes
       THEN /\ \A l \in leases : l.owner = j
            /\ token < MaxToken
            /\ token' = token + 1
            /\ leases' = leases \cup {[owner |-> j, tok |-> token + 1]}
            /\ Busy(s, "leased", j, {token + 1})
       ELSE /\ Busy(s, "leased", j, {})
            /\ UNCHANGED <<token, leases>>
    /\ idle' = [idle EXCEPT ![j] = 0]
    /\ UNCHANGED <<job, receipt, late, worker, epoch, doomed, crashes, begun>>

(* claimExecutionJobForDispatch                                            *)
Dispatched(r, grant) ==
    [r EXCEPT !.status = "dispatched", !.pid = 0, !.attempt = r.attempt + 1, !.refs = grant]

Claim(s) ==
    /\ sched[s].pc = "leased"
    /\ \E w \in sched[s].work :
          IF job[w.id].status = "waiting"
          THEN /\ job[w.id].attempt < MaxAttempts + 1
               /\ job' = [job EXCEPT ![w.id] = Dispatched(job[w.id], sched[s].grant)]
               /\ sched' = [sched EXCEPT ![s].pc = "claimed"]
               /\ UNCHANGED leases
          ELSE /\ leases' = Released(w.id, sched[s].grant)
               /\ Rest(s)
               /\ UNCHANGED job
    /\ UNCHANGED <<receipt, token, idle, late, worker, epoch, doomed, crashes, begun>>

(* persistJob writes the record and then asks for the global lock to write *)
(* the index: LOCK_HELD leaves the record and ends the dispatch.           *)
ClaimIndexBusy(s) ==
    /\ Contention
    /\ sched[s].pc = "leased"
    /\ \E w \in sched[s].work :
          /\ job[w.id].status = "waiting"
          /\ job[w.id].attempt < MaxAttempts + 1
          /\ job' = [job EXCEPT ![w.id] = Dispatched(job[w.id], sched[s].grant)]
    /\ Rest(s)
    /\ UNCHANGED <<receipt, leases, token, idle, late, worker, epoch, doomed, crashes, begun>>

(* spawnWorker: the child runs from here on, the record does not name it.  *)
SpawnChild(s) ==
    /\ sched[s].pc = "claimed"
    /\ \E w \in sched[s].work :
          LET r == job[w.id] IN
          IF r.status \in {"dispatched", "running"} /\ r.pid = 0
          THEN /\ worker' = [worker EXCEPT ![<<w.id, r.attempt>>] =
                     [worker[<<w.id, r.attempt>>] EXCEPT !.pc = "boot", !.parented = (s = epoch)]]
               /\ sched' = [sched EXCEPT ![s] = [sched[s] EXCEPT !.pc = "spawned",
                                !.work = {[id |-> w.id, pid |-> r.attempt]}]]
          ELSE Rest(s) /\ UNCHANGED worker
    /\ UNCHANGED <<job, receipt, leases, token, idle, late, epoch, doomed, crashes, begun>>

Attachable(r) == r.status = "dispatched" \/ (r.status = "running" /\ r.pid = 0)

(* attachExecutionWorker; a child that may not be attached is terminated.  *)
Attach(s) ==
    /\ sched[s].pc = "spawned"
    /\ \E w \in sched[s].work :
          IF Attachable(job[w.id])
          THEN /\ job' = [job EXCEPT ![w.id] = [job[w.id] EXCEPT !.status = "running", !.pid = w.pid]]
               /\ idle' = [idle EXCEPT ![w.id] = IF Held(w.id, job[w.id].refs) THEN 0 ELSE 1]
               /\ UNCHANGED worker
          ELSE /\ worker' = [worker EXCEPT ![<<w.id, w.pid>>].pc = "gone"]
               /\ UNCHANGED <<job, idle>>
    /\ Rest(s)
    /\ UNCHANGED <<receipt, leases, token, late, epoch, doomed, crashes, begun>>

(* The record is locked by another process: the exception ends the         *)
(* dispatch and the child runs on without being named by the record.       *)
AttachBusy(s) ==
    /\ Contention
    /\ sched[s].pc = "spawned"
    /\ Rest(s)
    /\ UNCHANGED <<job, receipt, leases, token, idle, late, worker, epoch, doomed, crashes, begun>>

-----------------------------------------------------------------------------
(* The worker process p = <<j, a>>                                         *)

At(p, pc) == worker[p].pc = pc
Move(p, pc) == worker' = [worker EXCEPT ![p].pc = pc]

(* invalidateExecutionWorker                                               *)
Invalid(p) ==
    LET r == job[p[1]] IN
    \/ ~worker[p].parented
    \/ r.status # "running"
    \/ r.pid \notin {0, p[2]}
    \/ ~Held(p[1], r.refs)

(* main: the record is read once, checked and remembered.                  *)
Boot(p) ==
    /\ At(p, "boot")
    /\ job[p[1]].status = "running" /\ ~Invalid(p)
    /\ worker' = [worker EXCEPT ![p] = [worker[p] EXCEPT !.pc = "owned", !.refs = job[p[1]].refs]]
    /\ UNCHANGED <<job, receipt, leases, token, idle, late, sched, epoch, doomed, crashes, begun>>

(* JOB_NOT_RUNNING: the exception handler comes later.                     *)
BootRefused(p) ==
    /\ At(p, "boot")
    /\ job[p[1]].status # "running"
    /\ Move(p, "failing")
    /\ UNCHANGED <<job, receipt, leases, token, idle, late, sched, epoch, doomed, crashes, begun>>

Fresh(p) == [idle EXCEPT ![p[1]] = IF Held(p[1], job[p[1]].refs) THEN 0 ELSE 1]

(* heartbeatExecutionJob before the operation starts.                      *)
FirstBeat(p) ==
    /\ At(p, "owned")
    /\ IF job[p[1]].status = "running" /\ job[p[1]].pid = p[2]
       THEN Move(p, "beating") /\ idle' = Fresh(p)
       ELSE Move(p, "failing") /\ UNCHANGED idle
    /\ UNCHANGED <<job, receipt, leases, token, late, sched, epoch, doomed, crashes, begun>>

BeginWithoutReceipt(p) ==            \* faulty: the started receipt is forgotten
    /\ At(p, "beating")
    /\ begun' = [begun EXCEPT ![p[1]] = @ + 1]
    /\ Move(p, "executing")
    /\ UNCHANGED <<job, receipt, leases, token, idle, late, sched, epoch, doomed, crashes>>

(* markOperationStarted, then executeExecutionJob.                         *)
Begin(p) ==
    /\ At(p, "beating")
    /\ IF receipt[p[1]].state = "completed" /\ receipt[p[1]].attempt = p[2]
       THEN UNCHANGED receipt
       ELSE receipt' = [receipt EXCEPT ![p[1]] =
               [attempt |-> p[2], state |-> "started", outcome |-> "none"]]
    /\ begun' = [begun EXCEPT ![p[1]] = @ + 1]
    /\ Move(p, "executing")
    /\ UNCHANGED <<job, leases, token, idle, late, sched, epoch, doomed, crashes>>

(* The heartbeat timer: heartbeatExecutionJob and renewExecutionLeases.    *)
Beat(p) ==
    /\ At(p, "executing")
    /\ ~Invalid(p) /\ Held(p[1], worker[p].refs)
    /\ idle' = [idle EXCEPT ![p[1]] = 0]
    /\ UNCHANGED <<job, receipt, leases, token, late, worker, sched, epoch, doomed, crashes, begun>>

(* exitForOwnershipLoss: from the timer, on startup or on completion, when *)
(* the ownership is gone, when a heartbeat finds a lock taken, or when the *)
(* daemon looks dead.                                                      *)
LoseOwnership(p) ==
    /\ worker[p].pc \in {"boot", "executing"}
    /\ At(p, "boot") => job[p[1]].status = "running"
    /\ \/ Invalid(p)
       \/ ~Held(p[1], worker[p].refs)
       \/ Contention /\ At(p, "executing")
       \/ Stalls                            \* the daemon's own heartbeat is late
    /\ job' = [job EXCEPT ![p[1]] = GivenUp(p[1], p[2])]
    /\ leases' = Released(p[1], worker[p].refs)
    /\ Move(p, "gone")
    /\ UNCHANGED <<receipt, token, idle, late, sched, epoch, doomed, crashes, begun>>

(* The operation returns and the completion check passes.                  *)
Finish(p) ==
    /\ At(p, "executing")
    /\ ~Invalid(p) /\ Held(p[1], worker[p].refs)
    /\ \E outcome \in {"succeeded", "failed"} :
          worker' = [worker EXCEPT ![p] = [worker[p] EXCEPT !.pc = "checked", !.outcome = outcome]]
    /\ UNCHANGED <<job, receipt, leases, token, idle, late, sched, epoch, doomed, crashes, begun>>

CompleteNothing(p) ==                \* faulty: the result is published without a receipt
    /\ At(p, "checked")
    /\ Move(p, "receipted")
    /\ UNCHANGED <<job, receipt, leases, token, idle, late, sched, epoch, doomed, crashes, begun>>

(* markOperationCompleted                                                  *)
Complete(p) ==
    /\ At(p, "checked")
    /\ receipt' = [receipt EXCEPT ![p[1]] =
          [attempt |-> p[2], state |-> "completed", outcome |-> worker[p].outcome]]
    /\ Move(p, "receipted")
    /\ UNCHANGED <<job, leases, token, idle, late, sched, epoch, doomed, crashes, begun>>

Publishable(p) ==
    LET r == job[p[1]] IN
    r.status = "running" /\ r.pid = p[2] /\ r.attempt = p[2] /\ r.refs = worker[p].refs

(* transitionExecutionJobFromWorker                                        *)
Publish(p) ==
    /\ At(p, "receipted")
    /\ IF Publishable(p)
       THEN /\ job' = [job EXCEPT ![p[1]] = Ended(job[p[1]], worker[p].outcome)]
            /\ Move(p, "leaving")
       ELSE /\ Move(p, "failing")
            /\ UNCHANGED job
    /\ UNCHANGED <<receipt, leases, token, idle, late, sched, epoch, doomed, crashes, begun>>

(* The exception handler of main, then its "finally".                      *)
Fail(p) ==
    /\ At(p, "failing")
    /\ job' = [job EXCEPT ![p[1]] = GivenUp(p[1], p[2])]
    /\ Move(p, "leaving")
    /\ UNCHANGED <<receipt, leases, token, idle, late, sched, epoch, doomed, crashes, begun>>

Leave(p) ==
    /\ At(p, "leaving")
    /\ leases' = Released(p[1], worker[p].refs)
    /\ Move(p, "gone")
    /\ UNCHANGED <<job, receipt, token, idle, late, sched, epoch, doomed, crashes, begun>>

WorkerDies(p) ==
    /\ Alive(p) /\ crashes < MaxCrashes
    /\ crashes' = crashes + 1
    /\ Move(p, "gone")
    /\ UNCHANGED <<job, receipt, leases, token, idle, late, sched, epoch, doomed, begun>>

-----------------------------------------------------------------------------
(* Reconciliation                                                          *)

Seen(j) == [id |-> j, status |-> job[j].status, attempt |-> job[j].attempt,
            pid |-> job[j].pid, refs |-> job[j].refs, stale |-> idle[j] = 2]
Active == {j \in Jobs : job[j].status \notin Terminal}

(* listActiveExecutionJobs: one snapshot for the whole pass.               *)
Reconcile(s) ==
    /\ sched[s].pc = "idle" /\ Active # {}
    /\ sched' = [sched EXCEPT ![s] = [sched[s] EXCEPT !.pc = "reconciling",
                                                      !.todo = {Seen(j) : j \in Active}]]
    /\ UNCHANGED <<job, receipt, leases, token, idle, late, worker, epoch, doomed, crashes, begun>>

Lost(v) == v.pid = 0 \/ ~Alive(<<v.id, v.pid>>) \/ v.stale \/ idle[v.id] = 2
DueRunningOnly(v) == v.status = "running" /\ (late[v.id] \/ Lost(v))  \* faulty
Due(v) == late[v.id] \/ (v.status = "running" /\ Lost(v))

(* A job that is neither late nor lost when its turn comes is passed over. *)
Skip(s) ==
    /\ sched[s].pc = "reconciling"
    /\ \E v \in sched[s].todo :
          /\ ~Due(v)
          /\ IF sched[s].todo = {v} THEN Rest(s)
             ELSE sched' = [sched EXCEPT ![s].todo = @ \ {v}]
    /\ UNCHANGED <<job, receipt, leases, token, idle, late, worker, epoch, doomed, crashes, begun>>

(* A job that is not running is closed after its deadline; one that is     *)
(* running and late or lost has its process tree terminated first.         *)
Examine(s) ==
    /\ sched[s].pc = "reconciling"
    /\ \E v \in sched[s].todo :
          /\ Due(v)
          /\ LET p == <<v.id, v.pid>>
                 here == [sched[s] EXCEPT !.todo = sched[s].todo \ {v},
                            !.work = {[id |-> v.id, seen |-> v, late |-> late[v.id]]}]
             IN
             IF v.status # "running"
             THEN /\ leases' = Released(v.id, v.refs)
                  /\ sched' = [sched EXCEPT ![s] = [here EXCEPT !.pc = "settling",
                        !.work = {[id |-> v.id, verdict |-> "timed_out"]}]]
                  /\ UNCHANGED worker
             ELSE \/ /\ worker' = IF v.pid # 0 /\ Alive(p)
                                  THEN [worker EXCEPT ![p].pc = "gone"] ELSE worker
                     /\ sched' = [sched EXCEPT ![s] = [here EXCEPT !.pc = "killed"]]
                     /\ UNCHANGED leases
                  \/ /\ Unkillable /\ v.pid # 0 /\ Alive(p)
                     /\ sched' = [sched EXCEPT ![s] = [here EXCEPT !.pc = "survived"]]
                     /\ UNCHANGED <<leases, worker>>
    /\ UNCHANGED <<job, receipt, token, idle, late, epoch, doomed, crashes, begun>>

(* finalizeRunningJob's choice, from the snapshot and the receipt.         *)
Verdict(w, survived) ==
    LET r == receipt[w.id] IN
    IF r.attempt = w.seen.attempt /\ r.state = "completed" THEN r.outcome
    ELSE IF r.attempt = w.seen.attempt /\ r.state = "started" /\ job[w.id].writes
         THEN "human_attention_required"
    ELSE IF survived THEN "orphaned"
    ELSE IF w.late THEN "timed_out"
    ELSE IF w.seen.attempt < MaxAttempts THEN "waiting"
    ELSE "orphaned"

(* finalizeRunningJob: the leases go first, the record follows.            *)
Finalize(s) ==
    /\ sched[s].pc \in {"killed", "survived"}
    /\ \E w \in sched[s].work :
          /\ leases' = Released(w.id, w.seen.refs)
          /\ sched' = [sched EXCEPT ![s] = [sched[s] EXCEPT !.pc = "settling",
                !.work = {[id |-> w.id, verdict |-> Verdict(w, sched[s].pc = "survived")]}]]
    /\ UNCHANGED <<job, receipt, token, idle, late, worker, epoch, doomed, crashes, begun>>

(* transitionExecutionJob; a refused transition ends the whole pass.       *)
Settle(s) ==
    /\ sched[s].pc = "settling"
    /\ \E w \in sched[s].work :
          IF TransitionAllowed(job[w.id].status, w.verdict)
          THEN /\ job' = [job EXCEPT ![w.id] = Ended(job[w.id], w.verdict)]
               /\ IF sched[s].todo = {} THEN Rest(s)
                  ELSE sched' = [sched EXCEPT ![s] = [sched[s] EXCEPT !.pc = "reconciling", !.work = {}]]
          ELSE /\ Rest(s)
               /\ UNCHANGED job
    /\ UNCHANGED <<receipt, leases, token, idle, late, worker, epoch, doomed, crashes, begun>>

-----------------------------------------------------------------------------
(* Cancellation, the daemon and time                                       *)

(* cancelExecutionJob: the record, the leases, and last the process tree.  *)
Cancel(j) ==
    /\ Cancels
    /\ job[j].status \notin Terminal
    /\ job' = [job EXCEPT ![j] = Ended(job[j], "cancelled")]
    /\ leases' = Released(j, job[j].refs)
    /\ doomed' = doomed \cup (IF job[j].pid = 0 THEN {} ELSE {<<j, job[j].pid>>})
    /\ UNCHANGED <<receipt, token, idle, late, worker, sched, epoch, crashes, begun>>

CancelKill(p) ==
    /\ p \in doomed
    /\ \/ worker' = [worker EXCEPT ![p].pc = "gone"]
       \/ Unkillable /\ UNCHANGED worker
    /\ doomed' = doomed \ {p}
    /\ UNCHANGED <<job, receipt, leases, token, idle, late, sched, epoch, crashes, begun>>

(* The daemon dies; its children notice that they lost their parent.  An   *)
(* older daemon that stops may also overwrite the state of a newer one.    *)
DaemonDies(s) ==
    /\ sched[s].pc # "down" /\ crashes < MaxCrashes
    /\ crashes' = crashes + 1
    /\ sched' = [sched EXCEPT ![s] = Down]
    /\ \/ worker' = [p \in Pids |-> [worker[p] EXCEPT !.parented = FALSE]]
       \/ s # epoch /\ UNCHANGED worker
    /\ UNCHANGED <<job, receipt, leases, token, idle, late, epoch, doomed, begun>>

(* ensureControllerDaemon: the workers of another daemon are stale from    *)
(* now on.  With several Schedulers, one may start beside a live one: when *)
(* a tick outlasts the 5 s after which a client takes the silent daemon    *)
(* for dead and spawns another (daemon-client.ts:32, 71).                  *)
Start(s) ==
    /\ sched[s].pc = "down"
    /\ Rest(s)
    /\ epoch' = s
    /\ worker' = [p \in Pids |-> [worker[p] EXCEPT !.parented = FALSE]]
    /\ UNCHANGED <<job, receipt, leases, token, idle, late, doomed, crashes, begun>>

Tended(j) ==
    \/ \E a \in Attempts : Alive(<<j, a>>)
    \/ \E s \in Schedulers : Dispatching(s) /\ \E w \in sched[s].work : w.id = j

(* Nobody renews the leases and the heartbeat of a job for 30 and then for *)
(* 45 seconds.  The leases of the job are gone after the first step.       *)
Quiet(j) ==
    /\ idle[j] < 2
    /\ job[j].status = "running" \/ \E l \in leases : l.owner = j
    /\ Stalls \/ ~Tended(j)
    /\ idle' = [idle EXCEPT ![j] = @ + 1]
    /\ leases' = {l \in leases : l.owner # j}
    /\ UNCHANGED <<job, receipt, token, late, worker, sched, epoch, doomed, crashes, begun>>

Deadline(j) ==
    /\ ~late[j] /\ job[j].status \notin Terminal
    /\ late' = [late EXCEPT ![j] = TRUE]
    /\ UNCHANGED <<job, receipt, leases, token, idle, worker, sched, epoch, doomed, crashes, begun>>

-----------------------------------------------------------------------------
Dispatch(s) ==
    \/ \E j \in Jobs : ExpireWaiting(s, j) \/ Acquire(s, j)
    \/ Claim(s) \/ ClaimIndexBusy(s) \/ SpawnChild(s) \/ Attach(s) \/ AttachBusy(s)

Reconciliation(s) == Reconcile(s) \/ Skip(s) \/ Examine(s) \/ Finalize(s) \/ Settle(s)

WorkerSteps(p) ==
    \/ Boot(p) \/ BootRefused(p) \/ FirstBeat(p) \/ Begin(p) \/ Finish(p)
    \/ LoseOwnership(p) \/ Complete(p) \/ Publish(p) \/ Fail(p) \/ Leave(p)

(* When every job is over and nothing runs any more, the system rests.     *)
AtRest ==
    /\ Active = {} /\ leases = {} /\ doomed = {}
    /\ \A s \in Schedulers : sched[s].pc \in {"idle", "down"}
    /\ \A p \in Pids : ~Alive(p)
Stopped == AtRest /\ UNCHANGED vars

Next ==
    \/ \E s \in Schedulers : Dispatch(s) \/ Reconciliation(s) \/ DaemonDies(s) \/ Start(s)
    \/ \E p \in Pids : WorkerSteps(p) \/ Beat(p) \/ WorkerDies(p) \/ CancelKill(p)
    \/ \E j \in Jobs : Cancel(j) \/ Quiet(j) \/ Deadline(j)
    \/ Stopped

Spec == Init /\ [][Next]_vars

(* A live process takes its steps, terminations are carried out, a dead    *)
(* daemon is restarted (keepalive), and time passes.  An operation need    *)
(* not return: Finish is not fair.                                         *)
Fairness ==
    /\ \A s \in Schedulers :
          /\ WF_vars(Dispatch(s)) /\ WF_vars(Start(s))
          /\ WF_vars(Reconcile(s)) /\ WF_vars(Skip(s) \/ Examine(s) \/ Finalize(s) \/ Settle(s))
    /\ \A p \in Pids :
          /\ WF_vars(Boot(p) \/ BootRefused(p)) /\ WF_vars(FirstBeat(p)) /\ WF_vars(Begin(p))
          /\ WF_vars(LoseOwnership(p)) /\ WF_vars(Complete(p)) /\ WF_vars(Publish(p))
          /\ WF_vars(Fail(p)) /\ WF_vars(Leave(p)) /\ WF_vars(CancelKill(p))
    /\ \A j \in Jobs : WF_vars(Quiet(j)) /\ WF_vars(Deadline(j))

FairSpec == Spec /\ Fairness
=============================================================================
