---------------------------- MODULE ProcessProofs ----------------------------
(***************************************************************************)
(* Proofs about the processes a gateway starts.                            *)
(*                                                                         *)
(* AgentRuns, for any tasks, runs and deaths: the types, that a task has   *)
(* one run at a time, and that only work that is in the main tree is       *)
(* verified.                                                               *)
(*                                                                         *)
(* DaemonLifecycle, for any clients, daemons and deaths: the types, and    *)
(* that no two daemons run as long as none is taken for hung.              *)
(***************************************************************************)
EXTENDS AgentRuns, DaemonLifecycle, TLAPS

Known(r) == run[r] # NoRun
Sole(t, r) == ActiveRuns(t) \subseteq {r}

(* Where a worker may be by what it has written.                           *)
Resultless   == {"none", "boot", "booted", "early", "agent", "dying", "closed"}
Successful   == {"integrate", "mark", "clean", "continue"}
Unstarted    == {"none", "boot", "early", "gone"}

(* The files of a run and the place of its processes.  A worker that has   *)
(* read the record and has yet to write it back finds the run still active *)
(* (what would end the run kills the worker the record names), and what a  *)
(* run is called a success for was written.                                *)
Fits(r) ==
    /\ ~Known(r) => launcher[r] = "none" /\ worker[r] = "none"
    /\ worker[r] \in Resultless => result[r] = "none"
    /\ worker[r] \in {"final", "sync"} => result[r] # "none"
    /\ worker[r] \in Successful => result[r] = "ok"
    /\ run[r].status = "starting" =>
          result[r] = "none" /\ worker[r] \in Unstarted /\ ~run[r].spawned /\ ~run[r].owned
    /\ worker[r] \in {"booted", "early"} => run[r].status \in {"starting", "running"}
    /\ worker[r] \in {"boot", "booted", "early"} /\ run[r].status = "running" => run[r].spawned
    /\ run[r].status = "succeeded" => result[r] = "ok"
    /\ Known(r) /\ run[r].session => applied[r]
    /\ worker[r] = "mark" => applied[r]

(* The launch lock: while a launcher that has spawned its worker is about  *)
(* to record it as running, the task has no other run.                     *)
Locked(r) == launcher[r] = "spawned" => Known(r) /\ Sole(run[r].task, r)
OneLauncher == \A q, r \in Runs : launcher[q] = "spawned" /\ launcher[r] = "spawned" => q = r

LinkedTo(t) == latest[t] # None => Known(latest[t]) /\ run[latest[t]].task = t

AgentInv ==
    /\ AgentTypeOK
    /\ \A r \in Runs : Fits(r) /\ Locked(r)
    /\ OneLauncher /\ OneRunPerTask /\ DoneIsInTree
    /\ \A t \in Tasks : LinkedTo(t)


(* A step of run r: what every action of a launcher, a worker, a reader or *)
(* a user does to one run, and what it may not do.                         *)
Backed(t, r) ==
    t = run[r].task /\ result[r] = "ok" /\ (run[r].mode = "workspace" \/ applied[r])

StepOf(r) ==
    /\ Known(r) /\ Known(r)'
    /\ run'[r].task = run[r].task /\ run'[r].mode = run[r].mode
    /\ \A q \in Runs \ {r} :
          run'[q] = run[q] /\ result'[q] = result[q] /\ launcher'[q] = launcher[q]
          /\ worker'[q] = worker[q] /\ applied'[q] = applied[q]
    /\ result[r] = "ok" => result'[r] = "ok"
    /\ applied[r] => applied'[r]
    /\ run'[r].status \in Active => run[r].status \in Active \/ launcher[r] = "spawned"
    /\ launcher'[r] = "spawned" =>
          launcher[r] = "spawned" \/ (LockFree /\ run[r].status \in Active)
    /\ latest' = latest
    /\ \A t \in Tasks : task'[t] \in {"verified", "done"} =>
          task[t] \in {"verified", "done"} \/ Backed(t, r)'

---------------------------------------------------------------------------
LEMMA Records == ASSUME AgentTypeOK, NEW r \in Runs
                 PROVE  /\ Known(r) <=> run[r] \in Meta
                        /\ Known(r) <=> run[r].status # "none"
                        /\ run[r].status \in Active \cup Ended => Known(r)
BY DEF AgentTypeOK, Known, Meta, NoRun, Active, Ended

LEMMA RunStep ==
  ASSUME NEW r \in Runs, AgentInv, AgentTypeOK', StepOf(r), Fits(r)'
  PROVE  AgentInv'
<1> USE DEF AgentInv
<1>1. \A q \in Runs : Fits(q)'
  BY DEF Fits, StepOf, Known, Sole
<1>2. run[r] \in Meta /\ run'[r] \in Meta
  BY DEF StepOf, AgentTypeOK, Known
<1>3. \A q \in Runs : Known(q) => Known(q)' /\ run'[q].task = run[q].task
  BY DEF StepOf, Known
<1>4. ASSUME NEW q \in Runs, run'[q].status \in Active, NEW t, run'[q].task = t
      PROVE  (q \in ActiveRuns(t)) \/ (q = r /\ launcher[r] = "spawned" /\ run[r].task = t)
  BY <1>4 DEF StepOf, ActiveRuns
<1>5. ASSUME NEW q \in Runs, launcher'[q] = "spawned"
      PROVE  launcher[q] = "spawned" \/ (q = r /\ LockFree /\ run[r].status \in Active)
  BY <1>5 DEF StepOf
<1>6. \A q \in Runs : Locked(q)'
  <2> SUFFICES ASSUME NEW q \in Runs, launcher'[q] = "spawned",
                      NEW p \in Runs, run'[p].status \in Active, run'[p].task = run'[q].task
               PROVE  Known(q)' /\ p = q
    <3>1. \A q \in Runs : launcher'[q] = "spawned" => Known(q)
      BY <1>5 DEF Locked, StepOf
    <3> QED BY <1>3, <3>1 DEF Locked, Sole, ActiveRuns
  <2>1. Known(q) /\ Known(q)' /\ run'[q].task = run[q].task
    BY <1>3, <1>5 DEF Locked, StepOf
  <2>2. CASE launcher[q] = "spawned"
    BY <1>4, <2>1, <2>2 DEF Locked, Sole, OneLauncher
  <2>3. CASE q = r /\ LockFree /\ run[r].status \in Active
    BY <1>4, <2>1, <2>3 DEF OneRunPerTask, ActiveRuns
  <2> QED BY <1>5, <2>1, <2>2, <2>3
<1>7. OneLauncher'
  BY <1>5 DEF OneLauncher, LockFree
<1>8. OneRunPerTask'
  <2> SUFFICES ASSUME NEW p \in Runs, NEW q \in Runs,
                      run'[p].status \in Active, run'[q].status \in Active,
                      run'[p].task = run'[q].task, p # q
               PROVE  FALSE
    BY DEF OneRunPerTask
  <2>1. CASE p = r
    BY <1>2, <1>4, <2>1 DEF Locked, Sole, ActiveRuns, OneRunPerTask
  <2>2. CASE q = r
    BY <1>2, <1>4, <2>2 DEF Locked, Sole, ActiveRuns, OneRunPerTask
  <2>3. CASE p # r /\ q # r
    BY <2>3 DEF StepOf, OneRunPerTask
  <2> QED BY <2>1, <2>2, <2>3
<1>9. DoneIsInTree'
  <2> SUFFICES ASSUME NEW t \in Tasks, task'[t] \in {"verified", "done"}
               PROVE  \E q \in Runs : run'[q].status # "none" /\ Backed(t, q)'
    BY DEF DoneIsInTree, Backed
  <2>1. CASE Backed(t, r)'
    BY <1>2, <2>1 DEF Meta, Active, Ended
  <2>2. CASE task[t] \in {"verified", "done"}
    <3>1. PICK q \in Runs : run[q].status # "none" /\ Backed(t, q)
      BY <2>2 DEF DoneIsInTree, Backed
    <3>2. run'[q].status # "none"
      BY <1>2, <3>1 DEF StepOf, Meta, Active, Ended
    <3> QED BY <3>1, <3>2 DEF StepOf, Backed
  <2> QED BY <2>1, <2>2 DEF StepOf
<1>10. \A t \in Tasks : LinkedTo(t)'
  BY <1>3 DEF LinkedTo, StepOf, AgentTypeOK
<1> QED BY <1>1, <1>6, <1>7, <1>8, <1>9, <1>10

---------------------------------------------------------------------------
(* The actions of the launcher and the worker.                             *)

LEMMA DispatchRunKeeps == ASSUME NEW r \in Runs, AgentInv, DispatchRun(r) PROVE AgentInv'
<1>1. Known(r) /\ run[r] \in Meta /\ Fits(r) /\ Locked(r)
  BY Records DEF AgentInv, DispatchRun
<1>2. AgentTypeOK'
  BY <1>1 DEF AgentInv, AgentTypeOK, DispatchRun, Resultless, Successful, Unstarted
<1>3. StepOf(r)
  BY <1>1 DEF StepOf, Known, DispatchRun, Resultless, Successful, Unstarted
<1>4. Fits(r)'
  BY <1>1 DEF Fits, Known, DispatchRun
<1> QED BY <1>2, <1>3, <1>4, RunStep

LEMMA LaunchFailsKeeps == ASSUME NEW r \in Runs, AgentInv, LaunchFails(r) PROVE AgentInv'
<1>1. Known(r) /\ run[r] \in Meta /\ Fits(r) /\ Locked(r)
  BY Records DEF AgentInv, LaunchFails
<1>2. AgentTypeOK'
  BY <1>1
     DEF AgentInv, AgentTypeOK, LaunchFails, Meta, Ended, TaskStates, Resultless,
         Successful, Unstarted
<1>3. StepOf(r)
  BY <1>1 DEF StepOf, Known, LaunchFails, Active, NoRun, Resultless, Successful, Unstarted
<1>4. Fits(r)'
  BY <1>1 DEF Fits, Known, LaunchFails, Booting, NoRun
<1> QED BY <1>2, <1>3, <1>4, RunStep

LEMMA LaunchIdleKeeps == ASSUME NEW r \in Runs, AgentInv, LaunchIdle(r) PROVE AgentInv'
<1>1. Known(r) /\ run[r] \in Meta /\ Fits(r) /\ Locked(r)
  BY Records DEF AgentInv, LaunchIdle, Fits
<1>2. AgentTypeOK'
  BY <1>1 DEF AgentInv, AgentTypeOK, LaunchIdle, Resultless, Successful, Unstarted
<1>3. StepOf(r)
  BY <1>1 DEF StepOf, Known, LaunchIdle, Resultless, Successful, Unstarted
<1>4. Fits(r)'
  BY <1>1 DEF Fits, Known, LaunchIdle
<1> QED BY <1>2, <1>3, <1>4, RunStep

LEMMA LaunchSpawnKeeps == ASSUME NEW r \in Runs, AgentInv, LaunchSpawn(r) PROVE AgentInv'
<1>1. Known(r) /\ run[r] \in Meta /\ Fits(r) /\ Locked(r)
  BY Records DEF AgentInv, LaunchSpawn
<1>2. AgentTypeOK'
  BY <1>1 DEF AgentInv, AgentTypeOK, LaunchSpawn, Resultless, Successful, Unstarted
<1>3. StepOf(r)
  BY <1>1 DEF StepOf, Known, LaunchSpawn, Active, Resultless, Successful, Unstarted
<1>4. Fits(r)'
  BY <1>1 DEF Fits, Known, LaunchSpawn, Successful, Unstarted
<1> QED BY <1>2, <1>3, <1>4, RunStep

LEMMA LaunchRecordKeeps == ASSUME NEW r \in Runs, AgentInv, LaunchRecord(r) PROVE AgentInv'
<1>1. Known(r) /\ run[r] \in Meta /\ Fits(r) /\ Locked(r)
  BY Records DEF AgentInv, LaunchRecord, Fits
<1>0. /\ run'[r].status = "running" /\ run'[r].spawned /\ run'[r].session = FALSE
      /\ run'[r].task = run[r].task /\ run'[r].mode = run[r].mode
      /\ run'[r] \in Meta /\ \A q \in Runs \ {r} : run'[q] = run[q]
  BY <1>1 DEF AgentInv, AgentTypeOK, LaunchRecord, Meta, Active
<1>2. AgentTypeOK'
  BY <1>1
     DEF AgentInv, AgentTypeOK, LaunchRecord, Meta, Active, NoRun, TaskStates, Resultless,
         Successful, Unstarted
<1>3. StepOf(r)
  BY <1>1, <1>0
     DEF AgentInv, AgentTypeOK, StepOf, Known, LaunchRecord, Meta, Active, Ended, NoRun,
         Resultless, Successful, Unstarted
<1>4. Fits(r)'
  BY <1>1, <1>0 DEF Fits, Known, LaunchRecord, Meta, Active, Ended, NoRun
<1> QED BY <1>2, <1>3, <1>4, RunStep

LEMMA LauncherLeavesKeeps == ASSUME NEW r \in Runs, AgentInv, LauncherLeaves(r) PROVE AgentInv'
<1>1. Known(r) /\ run[r] \in Meta /\ Fits(r) /\ Locked(r)
  BY Records DEF AgentInv, LauncherLeaves, Fits
<1>2. AgentTypeOK'
  BY <1>1 DEF AgentInv, AgentTypeOK, LauncherLeaves, Resultless, Successful, Unstarted
<1>3. StepOf(r)
  BY <1>1 DEF StepOf, Known, LauncherLeaves, Resultless, Successful, Unstarted
<1>4. Fits(r)'
  BY <1>1 DEF Fits, Known, LauncherLeaves
<1> QED BY <1>2, <1>3, <1>4, RunStep

LEMMA BootReadKeeps == ASSUME NEW r \in Runs, AgentInv, BootRead(r) PROVE AgentInv'
<1>1. Known(r) /\ run[r] \in Meta /\ Fits(r) /\ Locked(r)
  BY Records DEF AgentInv, BootRead, Fits
<1>2. AgentTypeOK'
  BY <1>1 DEF AgentInv, AgentTypeOK, BootRead, WorkerMoves, Resultless, Successful, Unstarted
<1>3. StepOf(r)
  BY <1>1 DEF StepOf, Known, BootRead, WorkerMoves, Resultless, Successful, Unstarted
<1>4. Fits(r)'
  BY <1>1 DEF Fits, Known, BootRead, WorkerMoves, Owns, Resultless, Successful, Unstarted
<1> QED BY <1>2, <1>3, <1>4, RunStep

LEMMA BootWriteKeeps == ASSUME NEW r \in Runs, AgentInv, BootWrite(r) PROVE AgentInv'
<1>1. Known(r) /\ run[r] \in Meta /\ Fits(r) /\ Locked(r)
  BY Records DEF AgentInv, BootWrite, Fits
<1>0. /\ run'[r].status = "running" /\ run'[r].session = run[r].session
      /\ run'[r].task = run[r].task /\ run'[r].mode = run[r].mode
      /\ run'[r] \in Meta /\ \A q \in Runs \ {r} : run'[q] = run[q]
  BY <1>1 DEF AgentInv, AgentTypeOK, BootWrite, Meta, Active
<1>2. AgentTypeOK'
  BY <1>1
     DEF AgentInv, AgentTypeOK, BootWrite, WorkerMoves, Meta, Active, Resultless,
         Successful, Unstarted
<1>3. StepOf(r)
  BY <1>1, <1>0
     DEF AgentInv, AgentTypeOK, StepOf, Known, Fits, BootWrite, WorkerMoves, Meta, Active,
         Ended, NoRun
<1>4. Fits(r)'
  BY <1>1, <1>0
     DEF AgentInv, AgentTypeOK, Fits, Known, BootWrite, WorkerMoves, Meta, Active, Ended,
         NoRun, Resultless, Successful
<1> QED BY <1>2, <1>3, <1>4, RunStep

LEMMA FailClosedKeeps == ASSUME NEW r \in Runs, AgentInv, FailClosed(r) PROVE AgentInv'
<1>1. Known(r) /\ run[r] \in Meta /\ Fits(r) /\ Locked(r)
  BY Records DEF AgentInv, FailClosed, Fits
<1>2. AgentTypeOK'
  BY <1>1
     DEF AgentInv, AgentTypeOK, FailClosed, WorkerMoves, Meta, Ended, Resultless,
         Successful, Unstarted
<1>3. StepOf(r)
  BY <1>1
     DEF StepOf, Known, FailClosed, WorkerMoves, Active, NoRun, Resultless, Successful,
         Unstarted
<1>4. Fits(r)'
  BY <1>1 DEF Fits, Known, FailClosed, WorkerMoves, NoRun, Resultless, Successful, Unstarted
<1> QED BY <1>2, <1>3, <1>4, RunStep

LEMMA AgentKilledKeeps == ASSUME NEW r \in Runs, AgentInv, AgentKilled(r) PROVE AgentInv'
<1>1. Known(r) /\ run[r] \in Meta /\ Fits(r) /\ Locked(r)
  BY Records DEF AgentInv, AgentKilled, Fits
<1>2. AgentTypeOK'
  BY <1>1
     DEF AgentInv, AgentTypeOK, AgentKilled, WorkerMoves, Resultless, Successful, Unstarted
<1>3. StepOf(r)
  BY <1>1 DEF StepOf, Known, Fits, AgentKilled, WorkerMoves, Resultless
<1>4. Fits(r)'
  BY <1>1
     DEF AgentInv, AgentTypeOK, Fits, Known, AgentKilled, WorkerMoves, Resultless,
         Successful, Unstarted
<1> QED BY <1>2, <1>3, <1>4, RunStep

LEMMA AgentExitsKeeps == ASSUME NEW r \in Runs, AgentInv, AgentExits(r) PROVE AgentInv'
<1>1. Known(r) /\ run[r] \in Meta /\ Fits(r) /\ Locked(r)
  BY Records DEF AgentInv, AgentExits, Fits
<1>2. AgentTypeOK'
  BY <1>1 DEF AgentInv, AgentTypeOK, AgentExits, WorkerMoves, Resultless, Successful, Unstarted
<1>3. StepOf(r)
  BY <1>1 DEF StepOf, Known, AgentExits, WorkerMoves, Resultless, Successful, Unstarted
<1>4. Fits(r)'
  BY <1>1 DEF Fits, Known, AgentExits, WorkerMoves, Resultless, Successful, Unstarted
<1> QED BY <1>2, <1>3, <1>4, RunStep

LEMMA WriteResultKeeps == ASSUME NEW r \in Runs, AgentInv, WriteResult(r) PROVE AgentInv'
<1>1. Known(r) /\ run[r] \in Meta /\ Fits(r) /\ Locked(r)
  BY Records DEF AgentInv, WriteResult, Fits
<1>2. AgentTypeOK'
  BY <1>1
     DEF AgentInv, AgentTypeOK, WriteResult, WorkerMoves, Meta, Ended, Resultless,
         Successful, Unstarted
<1>3. StepOf(r)
  BY <1>1 DEF StepOf, Known, Fits, WriteResult, WorkerMoves, Active, Ended, NoRun, Resultless
<1>4. Fits(r)'
  BY <1>1
     DEF AgentInv, AgentTypeOK, Fits, Known, WriteResult, WorkerMoves, NoRun, Resultless,
         Successful, Unstarted
<1> QED BY <1>2, <1>3, <1>4, RunStep

LEMMA WriteFinalKeeps == ASSUME NEW r \in Runs, AgentInv, WriteFinal(r) PROVE AgentInv'
<1>1. Known(r) /\ run[r] \in Meta /\ Fits(r) /\ Locked(r)
  BY Records DEF AgentInv, WriteFinal, Fits
<1>0. run' \in [Runs -> Meta \cup {NoRun}]
  <2>1. CASE Owns(r)
    <3>1. PICK b \in BOOLEAN, s \in Active \cup Ended :
             run' = [run EXCEPT ![r].finalizing = b, ![r].status = s]
      BY <2>1 DEF WriteFinal, Active, Ended
    <3> QED BY <1>1, <3>1 DEF AgentInv, AgentTypeOK, Meta
  <2> QED BY <1>1, <2>1 DEF AgentInv, AgentTypeOK, WriteFinal
<1>2. AgentTypeOK'
  BY <1>1, <1>0
     DEF AgentInv, AgentTypeOK, WriteFinal, WorkerMoves, Resultless, Successful, Unstarted
<1>3. StepOf(r)
  BY <1>1
     DEF AgentInv, AgentTypeOK, StepOf, Known, WriteFinal, WorkerMoves, Meta, Active, Ended,
         NoRun, Resultless, Successful, Unstarted
<1>4. Fits(r)'
  BY <1>1
     DEF AgentInv, AgentTypeOK, Fits, Known, WriteFinal, WorkerMoves, Meta, NoRun,
         Resultless, Successful
<1> QED BY <1>2, <1>3, <1>4, RunStep

LEMMA SyncTaskKeeps == ASSUME NEW r \in Runs, AgentInv, SyncTask(r) PROVE AgentInv'
<1>1. Known(r) /\ run[r] \in Meta /\ Fits(r) /\ Locked(r)
  BY Records DEF AgentInv, SyncTask, Fits
<1>2. AgentTypeOK'
  BY <1>1
     DEF AgentInv, AgentTypeOK, SyncTask, WorkerMoves, TaskStates, Resultless, Successful,
         Unstarted
<1>3. StepOf(r)
  BY <1>1 DEF StepOf, Known, SyncTask, WorkerMoves, Resultless, Successful, Unstarted
<1>4. Fits(r)'
  BY <1>1 DEF AgentInv, AgentTypeOK, Fits, Known, SyncTask, WorkerMoves, Resultless, Successful
<1> QED BY <1>2, <1>3, <1>4, RunStep

LEMMA ApplyChangesKeeps == ASSUME NEW r \in Runs, AgentInv, ApplyChanges(r) PROVE AgentInv'
<1>1. Known(r) /\ run[r] \in Meta /\ Fits(r) /\ Locked(r)
  BY Records DEF AgentInv, ApplyChanges, Fits
<1>2. AgentTypeOK'
  BY <1>1
     DEF AgentInv, AgentTypeOK, ApplyChanges, WorkerMoves, Resultless, Successful, Unstarted
<1>3. StepOf(r)
  BY <1>1 DEF StepOf, Known, ApplyChanges, WorkerMoves, Resultless, Successful, Unstarted
<1>4. Fits(r)'
  BY <1>1
     DEF AgentInv, AgentTypeOK, Fits, Known, ApplyChanges, WorkerMoves, Resultless,
         Successful
<1> QED BY <1>2, <1>3, <1>4, RunStep

LEMMA MarkIntegratedKeeps == ASSUME NEW r \in Runs, AgentInv, MarkIntegrated(r) PROVE AgentInv'
<1>1. Known(r) /\ run[r] \in Meta /\ Fits(r) /\ Locked(r)
  BY Records DEF AgentInv, MarkIntegrated, Fits
<1>2. AgentTypeOK'
  BY <1>1
     DEF AgentInv, AgentTypeOK, MarkIntegrated, WorkerMoves, Meta, TaskStates, Resultless,
         Successful, Unstarted
<1>3. StepOf(r)
  BY <1>1
     DEF StepOf, Known, MarkIntegrated, WorkerMoves, Meta, NoRun, Resultless, Successful,
         Unstarted
<1>4. Fits(r)'
  BY <1>1 DEF Fits, Known, MarkIntegrated, WorkerMoves, Meta, NoRun, Resultless, Successful
<1> QED BY <1>2, <1>3, <1>4, RunStep

LEMMA CleanWorktreeKeeps == ASSUME NEW r \in Runs, AgentInv, CleanWorktree(r) PROVE AgentInv'
<1>1. Known(r) /\ run[r] \in Meta /\ Fits(r) /\ Locked(r)
  BY Records
     DEF AgentInv, CleanWorktree, Fits, Locked, Active, Ended, LauncherAlive, WorkerAlive,
         AgentTypeOK
<1>2. AgentTypeOK'
  BY <1>1
     DEF AgentInv, AgentTypeOK, CleanWorktree, WorkerMoves, Meta, Ended, Resultless,
         Successful, Unstarted
<1>3. StepOf(r)
  BY <1>1
     DEF StepOf, Known, CleanWorktree, WorkerMoves, Active, NoRun, Resultless, Successful,
         Unstarted
<1>4. Fits(r)'
  BY <1>1 DEF Fits, Known, CleanWorktree, WorkerMoves, NoRun, Resultless, Successful
<1> QED BY <1>2, <1>3, <1>4, RunStep

LEMMA IntegrationFailsKeeps == ASSUME NEW r \in Runs, AgentInv, IntegrationFails(r) PROVE AgentInv'
<1>1. Known(r) /\ run[r] \in Meta /\ Fits(r) /\ Locked(r)
  BY Records DEF AgentInv, IntegrationFails, Fits
<1>2. AgentTypeOK'
  BY <1>1
     DEF AgentInv, AgentTypeOK, IntegrationFails, WorkerMoves, Meta, Active, TaskStates,
         Resultless, Successful, Unstarted
<1>3. StepOf(r)
  BY <1>1
     DEF AgentInv, AgentTypeOK, StepOf, Known, IntegrationFails, WorkerMoves, Owns, Meta,
         Active, Ended, NoRun, TaskStates, Resultless, Successful, Unstarted
<1>4. Fits(r)'
  BY <1>1
     DEF AgentInv, AgentTypeOK, Fits, Known, IntegrationFails, WorkerMoves, Meta, NoRun,
         Resultless, Successful
<1> QED BY <1>2, <1>3, <1>4, RunStep

LEMMA ContinueTaskKeeps == ASSUME NEW r \in Runs, AgentInv, ContinueTask(r) PROVE AgentInv'
<1>1. Known(r) /\ run[r] \in Meta /\ Fits(r) /\ Locked(r)
  BY Records DEF AgentInv, ContinueTask, Fits
<1>2. AgentTypeOK'
  BY <1>1
     DEF AgentInv, AgentTypeOK, ContinueTask, WorkerMoves, Owns, Continued, MayContinue,
         Resultless, Successful, Unstarted
<1>3. StepOf(r)
  BY <1>1
     DEF StepOf, Known, ContinueTask, WorkerMoves, Owns, Continued, MayContinue, Resultless,
         Successful, Unstarted
<1>4. Fits(r)'
  BY <1>1 DEF Fits, Known, ContinueTask, WorkerMoves, Resultless, Successful
<1> QED BY <1>2, <1>3, <1>4, RunStep

LEMMA CancelRunKeeps == ASSUME NEW r \in Runs, AgentInv, CancelRun(r) PROVE AgentInv'
<1>1. Known(r) /\ run[r] \in Meta /\ Fits(r) /\ Locked(r)
  BY Records DEF AgentInv, CancelRun
<1>2. AgentTypeOK'
  BY <1>1 DEF AgentInv, AgentTypeOK, CancelRun, Meta, Ended, TaskStates
<1>3. /\ run'[r] = [run[r] EXCEPT !.status = "cancelled", !.spawned = FALSE]
      /\ result' = result /\ applied' = applied /\ latest' = latest
      /\ launcher'[r] \in {launcher[r], "gone"}
      /\ worker'[r] \in {worker[r], "gone"}
      /\ worker[r] \in {"booted", "early"} => worker'[r] = "gone"
  BY <1>1 DEF AgentInv, AgentTypeOK, Fits, CancelRun, WorkerAlive
<1>4. /\ run'[r].status = "cancelled" /\ run'[r].session = run[r].session
      /\ run'[r].task = run[r].task /\ run'[r].mode = run[r].mode /\ Known(r)'
  BY <1>1, <1>3 DEF Known, Meta, NoRun
<1>5. StepOf(r)
  <2>1. \A q \in Runs \ {r} :
           run'[q] = run[q] /\ launcher'[q] = launcher[q] /\ worker'[q] = worker[q]
    BY DEF AgentInv, AgentTypeOK, CancelRun
  <2>2. \A t \in Tasks : task'[t] \in {"verified", "done"} => task[t] \in {"verified", "done"}
    BY DEF AgentInv, AgentTypeOK, CancelRun
  <2> QED BY <1>1, <1>3, <1>4, <2>1, <2>2 DEF StepOf, Active
<1>6. Fits(r)'
  BY <1>1, <1>3, <1>4 DEF Fits, Meta, Resultless, Successful
<1> QED BY <1>2, <1>5, <1>6, RunStep

LEMMA IntegrateByHandKeeps == ASSUME NEW r \in Runs, AgentInv, IntegrateByHand(r) PROVE AgentInv'
<1>1. Known(r) /\ run[r] \in Meta /\ Fits(r) /\ Locked(r)
  BY Records DEF AgentInv, IntegrateByHand, Integrable
<1>2. AgentTypeOK'
  BY <1>1
     DEF AgentInv, AgentTypeOK, IntegrateByHand, Meta, TaskStates, Resultless, Successful,
         Unstarted
<1>3. StepOf(r)
  BY <1>1
     DEF StepOf, Known, IntegrateByHand, Integrable, NoRun, Resultless, Successful,
         Unstarted
<1>4. Fits(r)'
  BY <1>1 DEF AgentInv, AgentTypeOK, Fits, Known, IntegrateByHand, Integrable, NoRun
<1> QED BY <1>2, <1>3, <1>4, RunStep

LEMMA ProcessDiesKeeps == ASSUME NEW r \in Runs, AgentInv, ProcessDies(r) PROVE AgentInv'
<1>1. Known(r) /\ run[r] \in Meta /\ Fits(r) /\ Locked(r)
  BY Records DEF AgentInv, ProcessDies, Fits, LauncherAlive, WorkerAlive
<1>2. AgentTypeOK'
  BY AgentAssumption, <1>1
     DEF AgentInv, AgentTypeOK, ProcessDies, Resultless, Successful, Unstarted
<1>3. StepOf(r)
  BY <1>1
     DEF AgentInv, AgentTypeOK, StepOf, Known, ProcessDies, Resultless, Successful,
         Unstarted
<1>4. Fits(r)'
  BY <1>1
     DEF AgentInv, AgentTypeOK, Fits, Known, ProcessDies, Resultless, Successful, Unstarted
<1> QED BY <1>2, <1>3, <1>4, RunStep

---------------------------------------------------------------------------
(* A reader.  What it makes of a run is a success only when the result is, *)
(* and a worker between the read and the write of its boot is either left  *)
(* alone, its run as active as it was, or killed.                          *)
LEMMA ObserveKeeps == ASSUME NEW r \in Runs, AgentInv, Observe(r) PROVE AgentInv'
<1>1. Known(r) /\ run[r] \in Meta /\ run[r].status \in Active /\ Fits(r)
  BY Records DEF AgentInv, Observe
<1>0. UNCHANGED <<result, applied, epoch, latest, processDeaths>>
  BY DEF Observe
<1>2. PICK status \in ViewStatuses(run[r], r), verdict \in Verdicts :
        /\ run' = [run EXCEPT ![r].status = status]
        /\ task' = [task EXCEPT ![run[r].task] = TaskAfter(run[r], r, status, verdict)]
        /\ IF status = "unknown" /\ OwnershipLost(run[r], r)
           THEN /\ agent' = [agent EXCEPT ![r] = FALSE]
                /\ worker' = IF SeenAlive(run[r], r) THEN [worker EXCEPT ![r] = "gone"] ELSE worker
                /\ launcher' = IF LauncherAlive(r) THEN [launcher EXCEPT ![r] = "gone"] ELSE launcher
           ELSE UNCHANGED <<agent, worker, launcher>>
  BY DEF Observe
<1>3. /\ agent' \in [Runs -> BOOLEAN]
      /\ worker' = worker \/ (worker' = [worker EXCEPT ![r] = "gone"] /\ worker[r] # "none")
      /\ launcher' = launcher \/ launcher' = [launcher EXCEPT ![r] = "gone"]
      /\ status = "unknown" /\ OwnershipLost(run[r], r) /\ SeenAlive(run[r], r) => worker'[r] = "gone"
  BY <1>2 DEF AgentInv, AgentTypeOK, SeenAlive, WorkerAlive
<1>4. /\ status \in Active \cup Ended
      /\ status \in {"starting", "running"} => run[r].status = status
      /\ status = "succeeded" => result[r] = "ok"
  BY <1>1 DEF ViewStatuses, ResultCounts, ResultStatus, Active, Ended, AgentInv, AgentTypeOK
<1>5. worker'[r] \in {"booted", "early"} => status = run[r].status
  <2> SUFFICES ASSUME worker'[r] \in {"booted", "early"}
               PROVE  status = run[r].status
    OBVIOUS
  <2>1. worker[r] \in {"booted", "early"} /\ result[r] = "none"
    BY <1>1, <1>3 DEF AgentInv, AgentTypeOK, Fits, Resultless
  <2>2. run[r].status \in {"starting", "running"}
    BY <1>1, <2>1 DEF Fits
  <2>3. run[r].status = "running" => SeenAlive(run[r], r)
    BY <1>1, <2>1 DEF Fits, SeenAlive, WorkerAlive
  <2>4. run[r].status = "starting" => ~OwnershipLost(run[r], r)
    BY <1>1 DEF Fits, OwnershipLost
  <2>5. ~ResultCounts(run[r], r) /\ ~WorkerLost(run[r], r) /\ ~NeverStarted(run[r], r)
    BY <2>1, <2>3 DEF ResultCounts, WorkerLost, NeverStarted, Booting
  <2> QED BY <1>2, <1>3, <2>2, <2>3, <2>4, <2>5 DEF ViewStatuses
<1>6. TaskAfter(run[r], r, status, verdict) \in TaskStates
  BY <1>1 DEF TaskAfter, TaskStates, Verdicts, Meta, AgentInv, AgentTypeOK
<1>7. TaskAfter(run[r], r, status, verdict) \in {"verified", "done"} =>
         task[run[r].task] \in {"verified", "done"} \/ Backed(run[r].task, r)
  BY <1>1, <1>4 DEF TaskAfter, MayContinue, Backed, Fits
<1>8. /\ run'[r].status = status /\ run'[r].session = run[r].session
      /\ run'[r].spawned = run[r].spawned /\ run'[r].owned = run[r].owned
      /\ run'[r].task = run[r].task /\ run'[r].mode = run[r].mode
      /\ run'[r] \in Meta /\ \A q \in Runs \ {r} : run'[q] = run[q]
      /\ run' \in [Runs -> Meta \cup {NoRun}]
  BY <1>1, <1>2, <1>4 DEF AgentInv, AgentTypeOK, Meta
<1>9. AgentTypeOK'
  BY <1>1, <1>0, <1>2, <1>3, <1>6, <1>8 DEF AgentInv, AgentTypeOK
<1>10. StepOf(r)
  <2>1. /\ launcher'[r] = "spawned" => launcher[r] = "spawned"
        /\ \A q \in Runs \ {r} : launcher'[q] = launcher[q] /\ worker'[q] = worker[q]
    BY <1>3 DEF AgentInv, AgentTypeOK
  <2>2. Known(r)'
    BY <1>8 DEF Known, NoRun, Meta
  <2>3. \A t \in Tasks : task'[t] \in {"verified", "done"} =>
          task[t] \in {"verified", "done"} \/ Backed(t, r)'
    BY <1>0, <1>1, <1>2, <1>7, <1>8 DEF Backed
  <2> QED BY <1>0, <1>1, <1>8, <2>1, <2>2, <2>3 DEF StepOf
<1>11. Fits(r)'
  <2>1. /\ worker'[r] \in {worker[r], "gone"}
        /\ launcher'[r] \in {launcher[r], "gone"}
    BY <1>3 DEF AgentInv, AgentTypeOK
  <2>2. Known(r)'
    BY <1>8 DEF Known, NoRun, Meta
  <2> QED BY <1>0, <1>1, <1>4, <1>5, <1>8, <2>1, <2>2
             DEF Fits, Resultless, Successful, Unstarted
<1> QED BY <1>9, <1>10, <1>11, RunStep

---------------------------------------------------------------------------
(* The acceptance of a run.                                                *)
LEMMA CreateKeeps ==
  ASSUME NEW t \in Tasks, NEW retryOf, AgentInv, Create(t, retryOf) PROVE AgentInv'
<1>1. PICK r \in Runs, mode \in {"workspace", "worktree"} :
        /\ LockFree /\ ActiveRuns(t) = {} /\ run[r] = NoRun
        /\ run' = [run EXCEPT ![r] = [task |-> t, status |-> "starting", mode |-> mode, spawned |-> FALSE,
                                      owned |-> FALSE, finalizing |-> FALSE, session |-> FALSE]]
        /\ latest' = [latest EXCEPT ![t] = r]
  BY DEF Create, Dispatchable
<1>2. /\ task' = [task EXCEPT ![t] = "ready"]
      /\ UNCHANGED <<result, launcher, worker, agent, applied, epoch, processDeaths>>
  BY DEF Create
<1>3. /\ run'[r] \in Meta /\ run'[r].task = t /\ run'[r].status = "starting"
      /\ ~run'[r].spawned /\ ~run'[r].owned /\ ~run'[r].session
      /\ \A q \in Runs \ {r} : run'[q] = run[q]
      /\ run' \in [Runs -> Meta \cup {NoRun}]
  BY <1>1 DEF AgentInv, AgentTypeOK, Meta, Active
<1>4. AgentTypeOK'
  BY <1>1, <1>2, <1>3 DEF AgentInv, AgentTypeOK, TaskStates
<1>5. \A q \in Runs : Fits(q)' /\ Locked(q)'
  <2>1. Fits(r)'
    BY <1>1, <1>2, <1>3 DEF AgentInv, Fits, Known, Resultless, Unstarted
  <2>2. \A q \in Runs \ {r} : Fits(q)'
    BY <1>2, <1>3 DEF AgentInv, Fits, Known
  <2>3. \A q \in Runs : launcher'[q] # "spawned"
    BY <1>1, <1>2 DEF LockFree
  <2> QED BY <2>1, <2>2, <2>3 DEF Locked
<1>6. OneLauncher'
  BY <1>1, <1>2 DEF OneLauncher, LockFree
<1>7. OneRunPerTask'
  BY <1>1, <1>3 DEF AgentInv, OneRunPerTask, ActiveRuns
<1>8. DoneIsInTree'
  BY <1>1, <1>2, <1>3 DEF AgentInv, DoneIsInTree, NoRun
<1>9. \A u \in Tasks : LinkedTo(u)'
  BY <1>1, <1>3 DEF AgentInv, LinkedTo, Known, NoRun
<1> QED BY <1>4, <1>5, <1>6, <1>7, <1>8, <1>9 DEF AgentInv

---------------------------------------------------------------------------
(* What the bridge does to a task: a task it verifies or accepts has a run *)
(* that may be continued, and such a run stands behind it.                 *)
LEMMA Continuable ==
  ASSUME AgentInv, NEW t \in Tasks, latest[t] # None, MayContinue(run[latest[t]])
  PROVE  Known(latest[t]) /\ latest[t] \in Runs /\ Backed(t, latest[t])
BY DEF AgentInv, AgentTypeOK, LinkedTo, MayContinue, Fits, Backed

LEMMA TaskStep ==
  ASSUME NEW t \in Tasks, AgentInv, NEW value \in TaskStates, task' = [task EXCEPT ![t] = value],
         UNCHANGED <<run, result, launcher, worker, agent, applied, epoch, latest, processDeaths>>,
         value \in {"verified", "done"} =>
            task[t] = value \/ (latest[t] # None /\ MayContinue(run[latest[t]]))
  PROVE  AgentInv'
<1>1. AgentTypeOK'
  BY DEF AgentInv, AgentTypeOK
<1>2. \A r \in Runs : Fits(r)' /\ Locked(r)'
  BY DEF AgentInv, Fits, Locked, Known, Sole, ActiveRuns
<1>3. OneLauncher' /\ OneRunPerTask' /\ \A u \in Tasks : LinkedTo(u)'
  BY DEF AgentInv, OneLauncher, OneRunPerTask, LinkedTo, Known
<1>4. DoneIsInTree'
  <2> SUFFICES ASSUME NEW u \in Tasks, task'[u] \in {"verified", "done"}
               PROVE  \E q \in Runs : run[q].status # "none" /\ Backed(u, q)
    BY DEF DoneIsInTree, Backed
  <2>1. CASE task[u] \in {"verified", "done"}
    BY <2>1 DEF AgentInv, DoneIsInTree, Backed
  <2>2. CASE u = t /\ latest[t] # None /\ MayContinue(run[latest[t]])
    BY <2>2, Continuable DEF MayContinue
  <2> QED BY <2>1, <2>2
<1> QED BY <1>1, <1>2, <1>3, <1>4 DEF AgentInv

LEMMA VerifyTaskKeeps == ASSUME NEW t \in Tasks, AgentInv, VerifyTask(t) PROVE AgentInv'
<1>1. PICK verdict \in Verdicts : task' = [task EXCEPT ![t] = Continued(t, run[latest[t]], verdict)]
  BY DEF VerifyTask
<1>2. Continued(t, run[latest[t]], verdict) \in TaskStates
  BY DEF AgentInv, AgentTypeOK, Continued, Verdicts, TaskStates
<1> QED BY <1>1, <1>2, TaskStep DEF VerifyTask

LEMMA AcceptVerifiedKeeps == ASSUME NEW t \in Tasks, AgentInv, AcceptVerified(t) PROVE AgentInv'
BY TaskStep DEF AcceptVerified, TaskStates

LEMMA RequestChangesKeeps == ASSUME NEW t \in Tasks, AgentInv, RequestChanges(t) PROVE AgentInv'
BY TaskStep DEF RequestChanges, TaskStates

---------------------------------------------------------------------------
LEMMA AgentInitially == ASSUME AgentInit PROVE AgentInv
<1>1. AgentTypeOK
  BY AgentAssumption DEF AgentInit, AgentTypeOK, TaskStates
<1>2. \A r \in Runs : Fits(r) /\ Locked(r)
  BY DEF AgentInit, Fits, Locked, Known, NoRun, Successful
<1>3. OneLauncher /\ OneRunPerTask /\ DoneIsInTree /\ \A t \in Tasks : LinkedTo(t)
  BY DEF AgentInit, OneLauncher, OneRunPerTask, DoneIsInTree, LinkedTo, NoRun, Active
<1> QED BY <1>1, <1>2, <1>3 DEF AgentInv

LEMMA AgentStep == ASSUME AgentInv, [AgentNext]_agentVars PROVE AgentInv'
<1>1. ASSUME NEW t \in Tasks, AcceptTask(t) \/ Retry(t)
      PROVE  AgentInv'
  BY <1>1, CreateKeeps DEF AcceptTask, Retry
<1>2. ASSUME NEW t \in Tasks, VerifyTask(t) \/ AcceptVerified(t) \/ RequestChanges(t)
      PROVE  AgentInv'
  BY <1>2, VerifyTaskKeeps, AcceptVerifiedKeeps, RequestChangesKeeps
<1>3. ASSUME NEW r \in Runs,
             \/ DispatchRun(r) \/ LaunchFails(r) \/ LaunchIdle(r)
             \/ LaunchSpawn(r) \/ LaunchRecord(r) \/ LauncherLeaves(r)
      PROVE  AgentInv'
  BY <1>3, DispatchRunKeeps, LaunchFailsKeeps, LaunchIdleKeeps,
     LaunchSpawnKeeps, LaunchRecordKeeps, LauncherLeavesKeeps
<1>4. ASSUME NEW r \in Runs, WorkerSteps(r)
      PROVE  AgentInv'
  BY <1>4, BootReadKeeps, BootWriteKeeps, FailClosedKeeps, AgentKilledKeeps, AgentExitsKeeps,
     WriteResultKeeps, WriteFinalKeeps, SyncTaskKeeps, ApplyChangesKeeps, MarkIntegratedKeeps,
     CleanWorktreeKeeps, IntegrationFailsKeeps, ContinueTaskKeeps DEF WorkerSteps
<1>5. ASSUME NEW r \in Runs, Observe(r) \/ CancelRun(r) \/ IntegrateByHand(r) \/ ProcessDies(r)
      PROVE  AgentInv'
  BY <1>5, ObserveKeeps, CancelRunKeeps, IntegrateByHandKeeps, ProcessDiesKeeps
<1>6. CASE UNCHANGED agentVars
  BY <1>6 DEF agentVars, AgentInv, AgentTypeOK, Fits, Locked, Known, Sole, ActiveRuns,
     OneLauncher, OneRunPerTask, DoneIsInTree, LinkedTo
<1> QED BY <1>1, <1>2, <1>3, <1>4, <1>5, <1>6 DEF AgentNext

LEMMA AgentInvariant == AgentSpec => []AgentInv
<1>1. AgentInit => AgentInv
  BY AgentInitially
<1>2. AgentInv /\ [AgentNext]_agentVars => AgentInv'
  BY AgentStep
<1> QED BY <1>1, <1>2, PTL DEF AgentSpec

(* Every variable of the model keeps its type.                             *)
THEOREM AgentTypes == AgentSpec => []AgentTypeOK
<1>1. AgentInv => AgentTypeOK
  BY DEF AgentInv
<1> QED BY <1>1, AgentInvariant, PTL

(* A task has one run at a time that starts, runs or waits, whatever the   *)
(* launchers, workers, readers and users write into the record of a run    *)
(* without a lock (job-manager.ts, getAgentJob and startTaskJob): an ended *)
(* run is not brought back to life beside its retry.                       *)
THEOREM TasksHaveOneRun == AgentSpec => []OneRunPerTask
<1>1. AgentInv => OneRunPerTask
  BY DEF AgentInv
<1> QED BY <1>1, AgentInvariant, PTL

(* A task that is verified or done has a successful run whose changes are  *)
(* in the main tree (task-continuation.ts, integrateAgentJob), also when   *)
(* the worker and a user integrate the same run.                           *)
THEOREM VerifiedIsInTree == AgentSpec => []DoneIsInTree
<1>1. AgentInv => DoneIsInTree
  BY DEF AgentInv
<1> QED BY <1>1, AgentInvariant, PTL

-----------------------------------------------------------------------------
(* The daemon process (DaemonLifecycle), for any clients, daemons, deaths  *)
(* and signals.                                                            *)

(* What a client is about to record as the daemon's pid.                   *)
Spawned == \A c \in Clients : caller[c] = "record" => noted[c] \in Daemons
StateRecord == [status : {"unavailable", "starting", "ready", "stopped"},
                pid : Daemons \cup {NoPid}, young : BOOLEAN]

LEMMA StateRecords ==
    ASSUME LifecycleTypeOK
    PROVE  /\ state \in StateRecord
           /\ \A p : WithoutPid(p) \in StateRecord
           /\ [state EXCEPT !.young = FALSE] \in StateRecord
           /\ \A d \in Daemons : /\ [status |-> "starting", pid |-> d, young |-> FALSE] \in StateRecord
                                 /\ [status |-> "ready", pid |-> d, young |-> TRUE] \in StateRecord
                                 /\ [status |-> "stopped", pid |-> d, young |-> FALSE] \in StateRecord
BY DEF LifecycleTypeOK, WithoutPid, StateRecord

LEMMA LifecycleTypesKept ==
    ASSUME LifecycleTypeOK, Spawned, [LifecycleNext]_lifecycleVars
    PROVE  LifecycleTypeOK' /\ Spawned'
<1>. USE LifecycleAssumption, StateRecords DEF LifecycleTypeOK, Spawned
<1>1. Daemons \subseteq Nat /\ NoPid \in Nat
  BY DEF Daemons, NoPid
<1>2. mishaps < MaxMishaps => mishaps + 1 \in 0 .. MaxMishaps
  OBVIOUS
<1>3. ASSUME NEW c \in Clients, SubmitJob(c) \/ ClientStep(c) PROVE LifecycleTypeOK' /\ Spawned'
  <2>1. CASE SubmitJob(c)
    BY <2>1 DEF SubmitJob, Goes
  <2>2. CASE Touch(c)
    BY <2>2 DEF Touch, Goes
  <2>3. CASE CallEnsure(c)
    BY <1>1, <2>3 DEF CallEnsure, Goes
  <2>4. CASE Cleanup(c)
    BY <1>1, <2>4 DEF Cleanup, Goes, StateRecord
  <2>5. CASE Ensure(c)
    BY <1>1, <2>5 DEF Ensure, Goes
  <2>6. CASE RecordSpawn(c)
    <3>1. state' \in StateRecord /\ pidFile' \in Daemons
      BY <2>6 DEF RecordSpawn
    <3>. QED
      BY <1>1, <2>6, <3>1 DEF RecordSpawn, Goes, StateRecord
  <2>. QED
    BY <1>3, <2>1, <2>2, <2>3, <2>4, <2>5, <2>6 DEF ClientStep
<1>4. ASSUME NEW d \in Daemons, DaemonStep(d) \/ Signal(d) \/ Die(d) PROVE LifecycleTypeOK' /\ Spawned'
  <2>1. CASE WriteReady(d)
    BY <2>1 DEF WriteReady, DaemonGoes, StateRecord
  <2>2. CASE StartLoop(d)
    BY <2>2 DEF StartLoop, DaemonGoes, Looping
  <2>3. CASE Tick(d)
    BY <2>3 DEF Tick, DaemonGoes, Looping, StateRecord
  <2>4. CASE ReadSignal(d) \/ WaitEnds(d)
    BY <2>4 DEF ReadSignal, WaitEnds, DaemonGoes, Looping
  <2>5. CASE RemovePid(d)
    BY <2>5 DEF RemovePid, DaemonGoes
  <2>6. CASE WriteStopped(d)
    BY <2>6 DEF WriteStopped, DaemonGoes, StateRecord
  <2>7. CASE Signal(d) \/ Die(d)
    BY <1>2, <2>7 DEF Signal, Die, DaemonGoes
  <2>. QED
    BY <1>4, <2>1, <2>2, <2>3, <2>4, <2>5, <2>6, <2>7 DEF DaemonStep
<1>5. CASE UpdateReads \/ UpdateTouches
  BY <1>2, <1>5 DEF UpdateReads, UpdateTouches
<1>6. CASE GraceEnds
  BY <1>6 DEF GraceEnds, StateRecord
<1>7. CASE HeartbeatFades
  BY <1>2, <1>7 DEF HeartbeatFades
<1>8. CASE UNCHANGED lifecycleVars
  BY <1>8 DEF lifecycleVars
<1>. QED
  BY <1>3, <1>4, <1>5, <1>6, <1>7, <1>8 DEF LifecycleNext

(* Every variable of daemon and clients keeps its type.                    *)
THEOREM LifecycleTypes == LifecycleSpec => []LifecycleTypeOK
<1>1. LifecycleInit => LifecycleTypeOK /\ Spawned
  <2>. SUFFICES ASSUME LifecycleInit PROVE LifecycleTypeOK /\ Spawned
    OBVIOUS
  <2>1. state \in StateRecord
    BY DEF LifecycleInit, StateRecord
  <2>2. mishaps \in 0 .. MaxMishaps
    BY LifecycleAssumption DEF LifecycleInit
  <2>. QED
    BY <2>1, <2>2 DEF LifecycleInit, LifecycleTypeOK, Spawned, StateRecord
<1>. QED
  BY <1>1, LifecycleTypesKept, PTL DEF LifecycleSpec

InLock(c) == caller[c] \in {"touch", "record"}
OneInLock == \A b, c \in Clients : InLock(b) /\ InLock(c) => b = c

Ever(pid) == pid # NoPid => daemon[pid] # "none"

(* A daemon that was spawned and not yet recorded is the only one; later   *)
(* the only one is the one the files name, whatever was cleaned up.        *)
Unrecorded ==
    \A c \in Clients : caller[c] = "record" =>
        /\ noted[c] \in Daemons /\ daemon[noted[c]] # "none"
        /\ \A d \in Daemons : Alive(d) => d = noted[c]
Named ==
    (\A c \in Clients : caller[c] # "record") =>
        \A d \in Daemons : Alive(d) =>
            state.status \in {"starting", "ready"} /\ state.pid = d /\ pidFile \in {d, NoPid}

(* A pid that a client is about to clean up is of a daemon that has gone.  *)
CleansTheDead ==
    /\ Ever(pidFile)
    /\ \A c \in Clients : caller[c] = "clean" /\ noted[c] # NoPid =>
           noted[c] \in Daemons /\ daemon[noted[c]] = "gone"

DaemonInv == OneInLock /\ Unrecorded /\ Named /\ CleansTheDead /\ OneDaemon

(* What a step that spawns nothing may do to the daemons.                  *)
OnlyFewer == \A d \in Daemons : /\ Alive(d)' => Alive(d)
                                /\ daemon[d] = "gone" => daemon'[d] = "gone"
                                /\ daemon[d] # "none" => daemon'[d] # "none"

LEMMA DaemonsOnlyGo ==
    ASSUME LifecycleTypeOK, NEW d \in Daemons, DaemonStep(d) \/ Signal(d) \/ Die(d)
    PROVE  OnlyFewer /\ Alive(d) /\ UNCHANGED <<caller, noted>>
<1>1. daemon \in [Daemons -> {"none", "boot", "ready", "stop", "leave", "gone"} \cup Looping]
      /\ \A e \in Daemons : e # NoPid
  BY DEF LifecycleTypeOK, Daemons, NoPid
<1>2. Alive(d) /\ UNCHANGED <<caller, noted>>
  BY <1>1 DEF DaemonStep, WriteReady, StartLoop, Tick, ReadSignal, WaitEnds, RemovePid, WriteStopped,
              Signal, Die, Alive, Looping
<1>3. UNCHANGED daemon \/ \E at : at # "none" /\ daemon' = [daemon EXCEPT ![d] = at]
  BY DEF DaemonStep, WriteReady, StartLoop, Tick, ReadSignal, WaitEnds, RemovePid, WriteStopped,
         Signal, Die, DaemonGoes
<1>. QED
  BY <1>1, <1>2, <1>3 DEF OnlyFewer, Alive

LEMMA ClientsKeepOneDaemon ==
    ASSUME LifecycleTypeOK, DaemonInv, KeepsUp, NEW c \in Clients, SubmitJob(c) \/ ClientStep(c)
    PROVE  DaemonInv'
<1>0. /\ \A d \in Daemons : d # NoPid
      /\ caller \in [Clients -> {"idle", "touch", "clean", "ensure", "record"}]
      /\ noted \in [Clients -> Nat] /\ pidFile \in Daemons \cup {NoPid}
      /\ daemon \in [Daemons -> {"none", "boot", "ready", "stop", "leave", "gone"} \cup Looping]
  BY DEF LifecycleTypeOK, Daemons, NoPid
<1>1. CASE SubmitJob(c)
  <2>1. UNCHANGED <<state, pidFile, daemon>> /\ \A b \in Clients : ~InLock(b)
    BY <1>1 DEF SubmitJob, GlobalLockFree, InLock
  <2>2. /\ caller'[c] = "touch"
        /\ \A b \in Clients \ {c} : caller'[b] = caller[b] /\ noted'[b] = noted[b]
    BY <1>0, <1>1 DEF SubmitJob, Goes
  <2>3. \A d : Alive(d)' = Alive(d)
    BY <2>1 DEF Alive
  <2>. QED
    BY <2>1, <2>2, <2>3 DEF DaemonInv, OneInLock, InLock, Unrecorded, Named, CleansTheDead, Ever, OneDaemon
<1>2. CASE Touch(c) \/ CallEnsure(c)
  <2>1. UNCHANGED <<state, pidFile, daemon>> /\ caller[c] # "record"
    BY <1>2 DEF Touch, CallEnsure
  <2>2. /\ caller'[c] \in {"idle", "clean"}
        /\ \A b \in Clients \ {c} : caller'[b] = caller[b] /\ noted'[b] = noted[b]
        /\ caller'[c] = "clean" => noted'[c] = IF Alive(pidFile) THEN NoPid ELSE pidFile
    BY <1>0, <1>2 DEF Touch, CallEnsure, Goes
  <2>3. \A d : Alive(d)' = Alive(d)
    BY <2>1 DEF Alive
  <2>4. caller'[c] = "clean" /\ noted'[c] # NoPid => noted'[c] \in Daemons /\ daemon'[noted'[c]] = "gone"
    BY <1>0, <2>1, <2>2 DEF DaemonInv, CleansTheDead, Ever, Alive
  <2>. QED
    BY <2>1, <2>2, <2>3, <2>4 DEF DaemonInv, OneInLock, InLock, Unrecorded, Named, CleansTheDead, Ever, OneDaemon
<1>3. CASE Cleanup(c)
  <2>1. /\ UNCHANGED daemon /\ caller[c] = "clean" /\ caller'[c] = "ensure"
        /\ \A b \in Clients \ {c} : caller'[b] = caller[b] /\ noted'[b] = noted[b]
    BY <1>0, <1>3 DEF Cleanup, Goes
  <2>2. \A d : Alive(d)' = Alive(d)
    BY <2>1 DEF Alive
  <2>3. CASE noted[c] = NoPid
    <3>1. UNCHANGED <<state, pidFile>>
      BY <1>3, <2>3 DEF Cleanup
    <3>. QED
      BY <2>1, <2>2, <3>1 DEF DaemonInv, OneInLock, InLock, Unrecorded, Named, CleansTheDead, Ever, OneDaemon
  <2>4. CASE noted[c] # NoPid
    <3>1. pidFile' = NoPid /\ state' = WithoutPid(noted[c])
      BY <1>3, <2>4 DEF Cleanup
    <3>2. noted[c] \in Daemons /\ ~Alive(noted[c])
      BY <2>1, <2>4 DEF DaemonInv, CleansTheDead, Alive
    <3>3. ASSUME NEW d \in Daemons, Alive(d), state.pid = d PROVE state' = state
      BY <1>0, <3>1, <3>2, <3>3 DEF WithoutPid
    <3>. QED
      BY <2>1, <2>2, <3>1, <3>3 DEF DaemonInv, OneInLock, InLock, Unrecorded, Named, CleansTheDead, Ever, OneDaemon
  <2>. QED
    BY <2>3, <2>4
<1>4. CASE Ensure(c)
  <2>1. UNCHANGED <<state, pidFile>> /\ \A b \in Clients : ~InLock(b)
    BY <1>4 DEF Ensure, GlobalLockFree, InLock
  <2>2. \A b \in Clients \ {c} : caller'[b] = caller[b] /\ noted'[b] = noted[b]
    BY <1>0, <1>4 DEF Ensure, Goes
  <2>3. CASE Healthy
    <3>1. UNCHANGED daemon /\ caller'[c] = "idle"
      BY <1>0, <1>4, <2>3 DEF Ensure, Goes
    <3>2. \A d : Alive(d)' = Alive(d)
      BY <3>1 DEF Alive
    <3>. QED
      BY <2>1, <2>2, <3>1, <3>2 DEF DaemonInv, OneInLock, InLock, Unrecorded, Named, CleansTheDead, Ever, OneDaemon
  <2>4. CASE ~Healthy
    <3>1. ASSUME NEW d \in Daemons, Alive(d) PROVE FALSE
      <4>1. state.status \in {"starting", "ready"} /\ state.pid = d /\ pidFile \in {d, NoPid}
        BY <2>1, <3>1 DEF DaemonInv, Named, InLock
      <4>2. KnownPid = d
        BY <4>1 DEF KnownPid
      <4>. QED
        BY <2>4, <3>1, <4>1, <4>2 DEF Healthy, KeepsUp
    <3>2. PICK d \in Daemons : daemon[d] = "none" /\ daemon' = [daemon EXCEPT ![d] = "boot"] /\ Goes(c, "record", d)
      BY <1>4, <2>4 DEF Ensure
    <3>3. caller'[c] = "record" /\ noted'[c] = d
      BY <1>0, <3>2 DEF Goes
    <3>4. daemon'[d] = "boot" /\ \A e \in Daemons \ {d} : daemon'[e] = daemon[e]
      BY <1>0, <3>2
    <3>5. \A e \in Daemons : Alive(e)' => e = d
      BY <3>1, <3>4 DEF Alive
    <3>6. \A e \in Daemons : (daemon[e] = "gone" => daemon'[e] = "gone") /\ (daemon[e] # "none" => daemon'[e] # "none")
      BY <3>2, <3>4
    <3>. QED
      BY <1>0, <2>1, <2>2, <3>3, <3>4, <3>5, <3>6
         DEF DaemonInv, OneInLock, InLock, Unrecorded, Named, CleansTheDead, Ever, OneDaemon
  <2>. QED
    BY <2>3, <2>4
<1>5. CASE RecordSpawn(c)
  <2>1. /\ caller[c] = "record" /\ caller'[c] = "idle" /\ UNCHANGED daemon
        /\ state' = [status |-> "starting", pid |-> noted[c], young |-> FALSE] /\ pidFile' = noted[c]
        /\ \A b \in Clients \ {c} : caller'[b] = caller[b] /\ noted'[b] = noted[b]
    BY <1>0, <1>5 DEF RecordSpawn, Goes
  <2>2. \A d : Alive(d)' = Alive(d)
    BY <2>1 DEF Alive
  <2>. QED
    BY <2>1, <2>2 DEF DaemonInv, OneInLock, InLock, Unrecorded, Named, CleansTheDead, Ever, OneDaemon
<1>. QED
  BY <1>1, <1>2, <1>3, <1>4, <1>5 DEF ClientStep

LEMMA DaemonsKeepOneDaemon ==
    ASSUME LifecycleTypeOK, DaemonInv, NEW d \in Daemons, DaemonStep(d) \/ Signal(d) \/ Die(d)
    PROVE  DaemonInv'
<1>0. /\ OnlyFewer /\ Alive(d) /\ UNCHANGED <<caller, noted>>
      /\ \A e \in Daemons : e # NoPid
      /\ pidFile \in Daemons \cup {NoPid}
  BY DaemonsOnlyGo DEF LifecycleTypeOK, Daemons, NoPid
<1>1. OneInLock' /\ Unrecorded' /\ OneDaemon'
  BY <1>0 DEF DaemonInv, OneInLock, InLock, Unrecorded, OneDaemon, OnlyFewer
<1>2. \A e \in Daemons : Alive(e)' => e = d
  BY <1>0 DEF OnlyFewer, DaemonInv, OneDaemon
<1>3. CleansTheDead'
  <2>1. pidFile' \in {pidFile, NoPid, d}
    BY DEF DaemonStep, WriteReady, StartLoop, Tick, ReadSignal, WaitEnds, RemovePid, WriteStopped, Signal, Die
  <2>2. daemon[d] # "none"
    BY <1>0 DEF Alive
  <2>. QED
    BY <1>0, <2>1, <2>2 DEF DaemonInv, CleansTheDead, Ever, OnlyFewer
<1>4. Named'
  <2>. SUFFICES ASSUME \A c \in Clients : caller[c] # "record", Alive(d)'
                PROVE  state'.status \in {"starting", "ready"} /\ state'.pid = d /\ pidFile' \in {d, NoPid}
    BY <1>0, <1>2 DEF Named
  <2>1. state.status \in {"starting", "ready"} /\ state.pid = d /\ pidFile \in {d, NoPid}
    BY <1>0 DEF DaemonInv, Named
  <2>2. CASE WriteReady(d)
    BY <2>1, <2>2 DEF WriteReady
  <2>3. CASE StartLoop(d)
    BY <2>1, <2>3 DEF StartLoop
  <2>4. CASE Tick(d)
    BY <2>1, <2>4 DEF Tick
  <2>5. CASE ReadSignal(d) \/ WaitEnds(d) \/ Signal(d) \/ Die(d)
    BY <2>1, <2>5 DEF ReadSignal, WaitEnds, Signal, Die
  <2>6. CASE RemovePid(d)
    BY <2>1, <2>6 DEF RemovePid
  <2>7. CASE WriteStopped(d)
    <3>1. daemon'[d] = "gone"
      BY <2>7 DEF WriteStopped, DaemonGoes, LifecycleTypeOK
    <3>. QED
      BY <3>1 DEF Alive
  <2>. QED
    BY <2>2, <2>3, <2>4, <2>5, <2>6, <2>7 DEF DaemonStep
<1>. QED
  BY <1>1, <1>3, <1>4 DEF DaemonInv

LEMMA OneDaemonStays ==
    LifecycleTypeOK /\ DaemonInv /\ KeepsUp /\ [LifecycleNext]_lifecycleVars => DaemonInv'
<1>. SUFFICES ASSUME LifecycleTypeOK, DaemonInv, KeepsUp, [LifecycleNext]_lifecycleVars PROVE DaemonInv'
  OBVIOUS
<1>1. CASE UpdateReads \/ UpdateTouches \/ GraceEnds \/ HeartbeatFades \/ UNCHANGED lifecycleVars
  <2>1. UNCHANGED <<pidFile, daemon, caller, noted>>
    BY <1>1 DEF UpdateReads, UpdateTouches, GraceEnds, HeartbeatFades, lifecycleVars
  <2>2. state'.status = state.status /\ state'.pid = state.pid
    BY <1>1 DEF UpdateReads, UpdateTouches, GraceEnds, HeartbeatFades, lifecycleVars, LifecycleTypeOK
  <2>3. \A d : Alive(d)' = Alive(d)
    BY <2>1 DEF Alive
  <2>. QED
    BY <2>1, <2>2, <2>3 DEF DaemonInv, OneInLock, InLock, Unrecorded, Named, CleansTheDead, Ever, OneDaemon
<1>. QED
  BY <1>1, ClientsKeepOneDaemon, DaemonsKeepOneDaemon DEF LifecycleNext

(* No two daemons of a controller home run, however many clients ensure    *)
(* one at a time, whichever processes die or are told to stop, and         *)
(* whoever's files are cleaned up or overwritten meanwhile, as long as a   *)
(* daemon that is up is not taken for hung (daemon-client.ts:60, 109;      *)
(* daemon-entry.ts:36).                                                    *)
THEOREM OneDaemonRuns == LifecycleSpec /\ []KeepsUp => []OneDaemon
<1>1. LifecycleInit => DaemonInv
  BY DEF LifecycleInit, DaemonInv, OneInLock, InLock, Unrecorded, Named, CleansTheDead, Ever, OneDaemon, Alive
<1>2. DaemonInv => OneDaemon
  BY DEF DaemonInv
<1>. QED
  BY <1>1, <1>2, LifecycleTypes, OneDaemonStays, PTL DEF LifecycleSpec
=============================================================================
