--------------------------- MODULE OperationsProofs ---------------------------
(***************************************************************************)
(* Proofs about what the CLI does outside the execution daemon: a Local    *)
(* Bridge job (LocalBridgeJobs), edit sessions (EditSessions), the checks  *)
(* of a controller (CheckRunner) and adoption (AdoptionTransactions), for  *)
(* any clients, sessions, processes, plans, edits and deaths.              *)
(***************************************************************************)
EXTENDS Operations, FiniteSetTheorems,
        SequenceTheorems, TLAPS

(* A Local Bridge job: its execution job is created once, and is tried     *)
(* again only as long as its worker has not claimed the job.               *)
Unbegun == work = "none" /\ starts = 0

BridgeInv ==
    /\ BridgeTypeOK
    /\ settle \in {"begin", "execute", "accepted", "read", "wait"} => execution = "running"
    /\ execution \in {"none", "queued"} \/ settle \in {"begin", "execute"} => Unbegun
    /\ work = "ready" => starts = 0
    /\ execution = "queued" => attempts < 2
    /\ StartedOnce

LEMMA WrittenTypes ==
  ASSUME job \in Job, NEW status \in OpenJob \cup EndedJob
  PROVE  Written(status) \in Job
BY DEF Written, Job

LEMMA RefreshedTypes ==
  ASSUME BridgeTypeOK, NEW j \in Job
  PROVE  Refreshed(j) \subseteq OpenJob \cup EndedJob \cup {"absent"}
<1>1. {ByExecution(j), ByRun(j)} \subseteq OpenJob \cup EndedJob \cup {"absent"}
  BY DEF ByExecution, ByRun, BridgeTypeOK, Job, OpenJob, EndedJob, EndedRun
<1>2. LongRunning(j) \subseteq OpenJob \cup EndedJob \cup {"absent"}
  BY DEF LongRunning, Job, OpenJob, EndedJob
<1> QED BY <1>1, <1>2 DEF Refreshed, Job

LEMMA StoppedTypes ==
  ASSUME BridgeInv
  PROVE  /\ Stopped \in {"none", "ready", "running", "signalled", "ended"}
         /\ work = "none" <=> Stopped = "none"
         /\ work = "ready" <=> Stopped = "ready"
BY DEF Stopped, BridgeInv, BridgeTypeOK

(* Clients, readers and users never start anything.                        *)
LEMMA OutsideKeeps ==
  ASSUME BridgeInv, BridgeTypeOK',
         work' = work \/ work' = Stopped, UNCHANGED <<settle, starts>>,
         \/ execution = "none" /\ execution' = "queued" /\ attempts' = 0
         \/ execution' \in {execution, "cancelled"} /\ attempts' = attempts
            /\ (execution' # execution => execution = "queued")
  PROVE  BridgeInv'
BY StoppedTypes DEF BridgeInv, StartedOnce, Unbegun

LEMMA AbsentTypes == Absent \in Job
BY DEF Absent, Job

LEMMA ClientKeeps ==
  ASSUME BridgeInv, NEW c \in Clients,
         Submit(c) \/ DispatchBegin(c) \/ DispatchEnd(c) \/ DispatchFails(c)
  PROVE  BridgeInv'
<1>1. BridgeTypeOK /\ copy[c] \in Job /\ job \in Job
  BY DEF BridgeInv, BridgeTypeOK
<1>2. CASE Submit(c)
  <2>1. job' \in Job
    BY <1>1, <1>2, WrittenTypes DEF Submit, OpenJob
  <2>2. BridgeTypeOK'
    BY <1>1, <1>2, <2>1 DEF Submit, BridgeTypeOK
  <2> QED BY <1>2, <2>2, OutsideKeeps DEF Submit
<1>3. CASE DispatchBegin(c)
  <2>1. BridgeTypeOK'
    BY <1>1, <1>3 DEF DispatchBegin, BridgeTypeOK
  <2> QED BY <1>3, <2>1, OutsideKeeps DEF DispatchBegin, Created
<1>4. CASE DispatchEnd(c)
  <2>1. job' \in Job
    BY <1>1, <1>4 DEF DispatchEnd, Job, OpenJob
  <2>2. BridgeTypeOK'
    BY <1>1, <1>4, <2>1, AbsentTypes DEF DispatchEnd, BridgeTypeOK
  <2> QED BY <1>4, <2>2, OutsideKeeps DEF DispatchEnd
<1>5. CASE DispatchFails(c)
  <2>1. job' \in Job
    BY <1>1, <1>5, WrittenTypes DEF DispatchFails, EndedJob
  <2>2. BridgeTypeOK'
    BY <1>1, <1>5, <2>1, AbsentTypes DEF DispatchFails, BridgeTypeOK
  <2> QED BY <1>5, <2>2, OutsideKeeps DEF DispatchFails
<1> QED BY <1>2, <1>3, <1>4, <1>5

LEMMA ReaderKeeps ==
  ASSUME BridgeInv, Refresh \/ RevisionOvertaken \/ Cancel \/ CancelExecution \/ RunMoves
  PROVE  BridgeInv'
<1>1. BridgeTypeOK /\ job \in Job
  BY DEF BridgeInv, BridgeTypeOK
<1>2. job' \in Job
  <2>1. CASE Refresh
    BY <1>1, <2>1, RefreshedTypes DEF Refresh, Written, Job
  <2> QED BY <1>1, <2>1, WrittenTypes
             DEF RevisionOvertaken, Cancel, CancelExecution, RunMoves, EndedJob
<1>3. /\ linked' \in {"none", "starting", "running", "waiting"} \cup EndedRun
      /\ execution' \in {execution, "cancelled"}
      /\ UNCHANGED <<kind, copy, client, attempts, settle, starts>>
  BY <1>1
     DEF Refresh, RevisionOvertaken, Cancel, CancelExecution, RunMoves, BridgeTypeOK,
         EndedRun
<1>4. work' = work \/ work' = Stopped
  BY DEF Refresh, RevisionOvertaken, Cancel, CancelExecution, RunMoves
<1>5. BridgeTypeOK'
  BY <1>1, <1>2, <1>3, <1>4, StoppedTypes DEF BridgeTypeOK
<1>6. execution' = execution \/ (execution = "queued" /\ execution' = "cancelled")
  BY DEF Refresh, RevisionOvertaken, Cancel, CancelExecution, RunMoves
<1> QED BY <1>3, <1>4, <1>5, <1>6, OutsideKeeps

(* The worker: what it begins it has claimed, once.                        *)
LEMMA ClaimKeeps == ASSUME BridgeInv, Claim PROVE BridgeInv'
<1>1. PICK status \in Refreshed(job) :
        LET j == Written(status) IN
        IF j.status = "approved" \/ Pending(j)
        THEN /\ job' = [j EXCEPT !.status = "running"]
             /\ copy' = [copy EXCEPT !["worker"] = job']
             /\ settle' = "execute"
             /\ UNCHANGED execution
        ELSE /\ job' = j
             /\ IF j.status = "running" THEN settle' = "wait" /\ UNCHANGED execution
                ELSE Finish(j.status \in Accepted)
             /\ UNCHANGED copy
  BY DEF Claim
<1>2. Written(status) \in Job
  BY RefreshedTypes DEF BridgeInv, BridgeTypeOK, Written, Job
<1>3. job' \in Job /\ copy' \in [Clients \cup {"worker"} -> Job]
  BY <1>1, <1>2 DEF BridgeInv, BridgeTypeOK, Job, OpenJob
<1>4. \/ settle' \in {"execute", "wait"} /\ UNCHANGED execution
      \/ settle' = "none" /\ execution' \in {"succeeded", "failed"}
  BY <1>1 DEF Finish
<1>5. BridgeTypeOK'
  BY <1>3, <1>4 DEF BridgeInv, BridgeTypeOK, Claim
<1> QED BY <1>4, <1>5 DEF BridgeInv, Claim, StartedOnce, Unbegun

LEMMA PollKeeps == ASSUME BridgeInv, Poll \/ GiveUp \/ ReadBack PROVE BridgeInv'
<1>1. job' \in Job /\ (work' = work \/ work' = Stopped)
  BY RefreshedTypes DEF BridgeInv, BridgeTypeOK, Poll, GiveUp, ReadBack, Written, Job
<1>2. /\ settle \in {"wait", "read"}
      /\ \/ settle' = "wait" /\ UNCHANGED execution
         \/ settle' = "none" /\ execution' \in {"succeeded", "failed"}
  BY DEF Poll, GiveUp, ReadBack, Finish
<1>3. BridgeTypeOK'
  BY <1>1, <1>2, StoppedTypes DEF BridgeInv, BridgeTypeOK, Poll, GiveUp, ReadBack
<1> QED BY <1>1, <1>2, <1>3, StoppedTypes
           DEF BridgeInv, Poll, GiveUp, ReadBack, StartedOnce, Unbegun

LEMMA LaunchKeeps == ASSUME BridgeInv, LaunchAccept \/ LaunchWrite PROVE BridgeInv'
<1>1. CASE LaunchAccept
  <2>1. PICK ok \in BOOLEAN :
          /\ linked' = IF ok /\ linked = "none" THEN "starting" ELSE linked
          /\ copy' = [copy EXCEPT !["worker"] =
                         IF ok THEN [@ EXCEPT !.status = "dispatched", !.run = TRUE, !.projected = FALSE]
                         ELSE [@ EXCEPT !.status = "failed"]]
    BY <1>1 DEF LaunchAccept
  <2>2. copy' \in [Clients \cup {"worker"} -> Job]
    <3> DEFINE held == copy["worker"]
               next == IF ok THEN [held EXCEPT !.status = "dispatched", !.run = TRUE, !.projected = FALSE]
                       ELSE [held EXCEPT !.status = "failed"]
    <3>1. held \in Job
      BY DEF BridgeInv, BridgeTypeOK
    <3>2. next \in Job
      BY <3>1 DEF Job, OpenJob, EndedJob
    <3>3. copy' = [copy EXCEPT !["worker"] = next]
      BY <2>1
    <3> HIDE DEF next
    <3> QED BY <3>2, <3>3 DEF BridgeInv, BridgeTypeOK
  <2>3. BridgeTypeOK'
    BY <1>1, <2>1, <2>2 DEF LaunchAccept, BridgeInv, BridgeTypeOK
  <2> QED BY <1>1, <2>3 DEF LaunchAccept, BridgeInv, StartedOnce, Unbegun
<1>2. CASE LaunchWrite
  <2>1. BridgeTypeOK'
    BY <1>2, AbsentTypes DEF LaunchWrite, Finish, BridgeInv, BridgeTypeOK
  <2> QED BY <1>2, <2>1 DEF LaunchWrite, Finish, BridgeInv, StartedOnce, Unbegun
<1> QED BY <1>1, <1>2

LEMMA WorkKeeps == ASSUME BridgeInv, RecordOwner \/ StartWork \/ EndWork PROVE BridgeInv'
<1>1. job' \in Job
  <2>1. CASE RecordOwner
    BY <2>1, Zenon DEF RecordOwner, BridgeInv, BridgeTypeOK, Job
  <2>2. CASE StartWork
    BY <2>2 DEF StartWork, BridgeInv, BridgeTypeOK, Job
  <2>3. CASE EndWork
    BY <2>3, WrittenTypes DEF EndWork, BridgeInv, BridgeTypeOK, EndedJob
  <2> QED BY <2>1, <2>2, <2>3
<1>2. BridgeTypeOK'
  BY <1>1 DEF RecordOwner, StartWork, EndWork, BridgeInv, BridgeTypeOK, StartedOnce
<1> QED BY <1>2
           DEF RecordOwner, StartWork, EndWork, BridgeInv, BridgeTypeOK, StartedOnce,
               Unbegun

LEMMA AttemptKeeps == ASSUME BridgeInv, WorkerStarts \/ WorkerDies PROVE BridgeInv'
<1>1. attempts' \in 0..2
  BY DEF WorkerStarts, WorkerDies, BridgeInv, BridgeTypeOK
<1>2. BridgeTypeOK'
  BY <1>1, AbsentTypes DEF WorkerStarts, WorkerDies, BridgeInv, BridgeTypeOK
<1> QED BY <1>2 DEF WorkerStarts, WorkerDies, BridgeInv, StartedOnce, Unbegun

LEMMA BridgeStep == ASSUME BridgeInv, [BridgeNext]_bridgeVars PROVE BridgeInv'
<1>1. CASE UNCHANGED bridgeVars
  BY <1>1 DEF bridgeVars, BridgeInv, BridgeTypeOK, StartedOnce, Unbegun
<1> QED BY <1>1, ClientKeeps, ReaderKeeps, ClaimKeeps, PollKeeps, LaunchKeeps, WorkKeeps,
           AttemptKeeps
        DEF BridgeNext, WorkerOfJob

LEMMA BridgeInvariant == BridgeSpec => []BridgeInv
<1>1. BridgeInit => BridgeInv
  BY AbsentTypes DEF BridgeInit, BridgeInv, BridgeTypeOK, StartedOnce, Unbegun
<1>2. BridgeInv /\ [BridgeNext]_bridgeVars => BridgeInv'
  BY BridgeStep
<1> QED BY <1>1, <1>2, PTL DEF BridgeSpec

(* Every variable of a Local Bridge job keeps its type.                    *)
THEOREM BridgeTypes == BridgeSpec => []BridgeTypeOK
<1>1. BridgeInv => BridgeTypeOK
  BY DEF BridgeInv
<1> QED BY <1>1, BridgeInvariant, PTL

(* The command of a job is started once, for any number of clients that    *)
(* submit and dispatch it, and whoever overwrites its record meanwhile     *)
(* (job-store.ts, executeLocalBridgeJobInline).                            *)
THEOREM CommandsStartOnce == BridgeSpec => []StartedOnce
<1>1. BridgeInv => StartedOnce
  BY DEF BridgeInv
<1> QED BY <1>1, BridgeInvariant, PTL

-----------------------------------------------------------------------------
(***************************************************************************)
(* Checks: evidence is of the revision its check began on, and no check is *)
(* stopped that somebody still waits for.                                  *)
(***************************************************************************)
Run == [phase : {"none", "queued", "locking", "locked", "running"},
        subscribers : SUBSET Requests, cancel : BOOLEAN]
Child == [state : {"running", "stopping"}, on : Revisions] \cup {NoChild}

(* The types of what the properties speak of.                              *)
CheckShapes ==
    /\ head \in Revisions
    /\ evidence \in [Checks -> [revision : Revisions, ok : BOOLEAN] \cup {NoEvidence}]
    /\ active \in [Processes -> [Keys -> Run]]
    /\ child \in [Processes -> [Keys -> Child]]

(* What a process spawned for a revision began on this revision.           *)
BegunOnItsRevision ==
    \A p \in Processes, k \in Keys : child[p][k] # NoChild => child[p][k].on = k[2]

CheckInv == CheckShapes /\ BegunOnItsRevision

-----------------------------------------------------------------------------
LEMMA KeyFacts ==
    /\ \A k \in Keys : k[1] \in Checks /\ k[2] \in Revisions /\ k = <<k[1], k[2]>>
    /\ NoRun \in Run /\ NoChild \in Child
BY DEF Keys, NoRun, Run, NoChild, Child

LEMMA OverForgets ==
    ASSUME CheckShapes, NEW p \in Processes, NEW k \in Keys, NEW result, Over(p, k, result)
    PROVE  active' \in [Processes -> [Keys -> Run]]
BY KeyFacts DEF Over, CheckShapes

LEMMA CheckInitially == CheckInit => CheckInv
BY KeyFacts DEF CheckInit, CheckInv, CheckShapes, BegunOnItsRevision

LEMMA SpawnedFacts ==
    ASSUME CheckShapes
    PROVE  Spawned \in Child /\ Spawned # NoChild /\ Spawned.on = head /\ Spawned.state = "running"
BY DEF CheckShapes, Spawned, Child, NoChild

(* One entry of the runs, or of the processes they spawned, is written.    *)
LEMMA RunWritten ==
    ASSUME CheckShapes, NEW p \in Processes, NEW k \in Keys, NEW run \in Run,
           active' = [active EXCEPT ![p][k] = run]
    PROVE  active' \in [Processes -> [Keys -> Run]]
BY DEF CheckShapes

LEMMA FieldsWritten ==
    ASSUME NEW run \in Run
    PROVE  /\ \A phase \in {"locking", "locked", "running"} : [run EXCEPT !.phase = phase] \in Run
           /\ \A r \in Requests : [run EXCEPT !.subscribers = @ \cup {r}] \in Run
BY DEF Run

LEMMA SpawnWritten ==
    ASSUME CheckShapes, BegunOnItsRevision, UNCHANGED head, NEW p \in Processes, NEW k \in Keys, head = k[2],
           child' = child \/ child' = [child EXCEPT ![p][k] = Spawned]
    PROVE  child' \in [Processes -> [Keys -> Child]] /\ BegunOnItsRevision'
<1>1. CASE child' = child
  BY <1>1 DEF CheckShapes, BegunOnItsRevision
<1>2. CASE child' = [child EXCEPT ![p][k] = Spawned]
  <2>1. child' \in [Processes -> [Keys -> Child]]
    BY <1>2, SpawnedFacts DEF CheckShapes
  <2>2. \A q \in Processes, l \in Keys :
           child'[q][l] = IF q = p /\ l = k THEN Spawned ELSE child[q][l]
    BY <1>2 DEF CheckShapes
  <2>3. BegunOnItsRevision'
    BY <2>2, SpawnedFacts DEF BegunOnItsRevision
  <2>. QED
    BY <2>1, <2>3
<1>. QED
  BY <1>1, <1>2

LEMMA RequestCheckKeeps ==
    ASSUME CheckInv, CheckAssumption, NEW r \in Requests, NEW c \in Checks, RequestCheck(r, c)
    PROVE  CheckInv'
<1>. DEFINE p == ProcessOf[r]
            k == <<c, head>>
<1>1. p \in Processes /\ k \in Keys /\ k[2] = head /\ UNCHANGED <<head, evidence>> /\ CheckShapes /\ BegunOnItsRevision
  BY DEF CheckAssumption, Keys, CheckInv, CheckShapes, RequestCheck
<1>2. CASE UNCHANGED <<active, child>>
  BY <1>1, <1>2 DEF CheckInv, CheckShapes, BegunOnItsRevision
<1>3. CASE active' = [active EXCEPT ![p][k].subscribers = @ \cup {r}] /\ UNCHANGED child
  <2>1. active' \in [Processes -> [Keys -> Run]]
    <3>1. active[p][k] \in Run
      BY <1>1 DEF CheckShapes
    <3>2. [active[p][k] EXCEPT !.subscribers = @ \cup {r}] \in Run
      BY <3>1, FieldsWritten
    <3>. QED
      BY <1>1, <1>3, <3>2, RunWritten
  <2>. QED
    BY <1>1, <1>3, <2>1 DEF CheckInv, CheckShapes, BegunOnItsRevision
<1>4. CASE StartCheck(r, p, k)
  <2>1. active' \in [Processes -> [Keys -> Run]]
    <3>1. [phase |-> IF k[1] \in Heavy THEN "queued" ELSE "running", subscribers |-> {r}, cancel |-> FALSE] \in Run
      BY DEF Run
    <3>. QED
      BY <1>1, <1>4, <3>1, RunWritten DEF StartCheck
  <2>2. child' = child \/ child' = [child EXCEPT ![p][k] = Spawned]
    BY <1>4 DEF StartCheck
  <2>3. child' \in [Processes -> [Keys -> Child]] /\ BegunOnItsRevision'
    BY <1>1, <2>2, SpawnWritten
  <2>. QED
    BY <1>1, <2>1, <2>3 DEF CheckInv, CheckShapes
<1>. QED
  BY <1>2, <1>3, <1>4 DEF RequestCheck

LEMMA ReleaseKeeps ==
    ASSUME CheckInv, NEW r \in Requests, Release(r)
    PROVE  CheckInv'
<1>1. CheckShapes /\ BegunOnItsRevision /\ UNCHANGED <<head, evidence>>
  BY DEF CheckInv, Release
<1>2. PICK p \in Processes, k \in Keys :
         /\ active' = [active EXCEPT ![p][k] = [active[p][k] EXCEPT !.subscribers = @ \ {r},
                                                   !.cancel = @ \/ Remaining(p, k, r) = {}]]
         /\ child' = IF Remaining(p, k, r) = {} /\ child[p][k] # NoChild
                     THEN [child EXCEPT ![p][k].state = "stopping"] ELSE child
  BY DEF Release
<1>3. [active[p][k] EXCEPT !.subscribers = @ \ {r}, !.cancel = @ \/ Remaining(p, k, r) = {}] \in Run
  <2>1. active[p][k] \in Run
    BY <1>1 DEF CheckShapes
  <2>2. (active[p][k].cancel \/ Remaining(p, k, r) = {}) \in BOOLEAN
    OBVIOUS
  <2>. QED
    BY <2>1, <2>2 DEF Run
<1>4. active' \in [Processes -> [Keys -> Run]]
  BY <1>1, <1>2, <1>3 DEF CheckShapes
<1>5. child[p][k] # NoChild =>
         /\ [child[p][k] EXCEPT !.state = "stopping"] \in Child
         /\ [child[p][k] EXCEPT !.state = "stopping"].on = child[p][k].on
  BY <1>1 DEF CheckShapes, Child
<1>6. child' \in [Processes -> [Keys -> Child]] /\ BegunOnItsRevision'
  BY <1>1, <1>2, <1>5 DEF CheckShapes, BegunOnItsRevision
<1>. QED
  BY <1>1, <1>4, <1>6 DEF CheckInv, CheckShapes

LEMMA HeavyKeeps ==
    ASSUME CheckInv, NEW p \in Processes, NEW k \in Keys,
           Turn(p, k) \/ TakeLock(p, k) \/ LockTimeout(p, k) \/ Execute(p, k)
    PROVE  CheckInv'
<1>1. CheckShapes /\ BegunOnItsRevision /\ UNCHANGED <<head, evidence>>
  BY DEF CheckInv, Turn, TakeLock, LockTimeout, Execute
<1>2. ASSUME NEW phase \in {"locking", "locked", "running"}, active' = [active EXCEPT ![p][k].phase = phase]
      PROVE  active' \in [Processes -> [Keys -> Run]]
  <2>1. active[p][k] \in Run
    BY <1>1 DEF CheckShapes
  <2>2. [active[p][k] EXCEPT !.phase = phase] \in Run
    BY <2>1, FieldsWritten
  <2>. QED
    BY <1>1, <1>2, <2>2, RunWritten
<1>3. active' \in [Processes -> [Keys -> Run]]
  BY <1>1, <1>2, OverForgets DEF Turn, TakeLock, LockTimeout, Execute
<1>4. child' = child \/ (head = k[2] /\ child' = [child EXCEPT ![p][k] = Spawned])
  BY DEF Turn, TakeLock, LockTimeout, Execute, Overtaken
<1>5. child' \in [Processes -> [Keys -> Child]] /\ BegunOnItsRevision'
  BY <1>1, <1>4, SpawnWritten DEF CheckShapes, BegunOnItsRevision
<1>. QED
  BY <1>1, <1>3, <1>5 DEF CheckInv, CheckShapes

LEMMA ChildEndsKeeps ==
    ASSUME CheckInv, NEW p \in Processes, NEW k \in Keys, ChildEnds(p, k)
    PROVE  CheckInv'
<1>1. CheckShapes /\ BegunOnItsRevision /\ UNCHANGED head
  BY DEF CheckInv, ChildEnds
<1>2. child' \in [Processes -> [Keys -> Child]] /\ BegunOnItsRevision'
  BY <1>1, KeyFacts DEF ChildEnds, CheckShapes, BegunOnItsRevision
<1>3. active' \in [Processes -> [Keys -> Run]]
  BY <1>1, OverForgets DEF ChildEnds, CheckShapes
<1>4. evidence' \in [Checks -> [revision : Revisions, ok : BOOLEAN] \cup {NoEvidence}]
  <2>1. CASE UNCHANGED evidence
    BY <1>1, <2>1 DEF CheckShapes
  <2>2. ASSUME NEW ok \in BOOLEAN,
               evidence' = [evidence EXCEPT ![k[1]] = IF head = k[2] THEN [revision |-> head, ok |-> ok] ELSE NoEvidence]
        PROVE  evidence' \in [Checks -> [revision : Revisions, ok : BOOLEAN] \cup {NoEvidence}]
    <3>1. [revision |-> head, ok |-> ok] \in [revision : Revisions, ok : BOOLEAN]
      BY <1>1 DEF CheckShapes
    <3>. QED
      BY <1>1, <2>2, <3>1, KeyFacts DEF CheckShapes
  <2>. QED
    BY <2>1, <2>2 DEF ChildEnds
<1>. QED
  BY <1>1, <1>2, <1>3, <1>4 DEF CheckInv, CheckShapes

LEMMA CheckStep ==
    ASSUME CheckInv, CheckAssumption, [CheckNext]_checkVars
    PROVE  CheckInv'
<1>1. ASSUME NEW p \in Processes, ProcessDies(p) PROVE CheckInv'
  BY <1>1, KeyFacts DEF ProcessDies, CheckInv, CheckShapes, BegunOnItsRevision
<1>2. CASE TreeChanges \/ UNCHANGED checkVars
  BY <1>2 DEF TreeChanges, checkVars, CheckInv, CheckShapes, BegunOnItsRevision
<1>. QED
  BY <1>1, <1>2, RequestCheckKeeps, ReleaseKeeps, HeavyKeeps, ChildEndsKeeps DEF CheckNext

LEMMA CheckInvariant == CheckSpec => []CheckInv
<1>1. CheckInv /\ [CheckNext]_checkVars => CheckInv'
  BY CheckStep, CheckAssumption
<1>. QED
  BY <1>1, CheckInitially, PTL DEF CheckSpec

-----------------------------------------------------------------------------
(* A passed result is kept only for the revision its check began on        *)
(* (executeControllerCheckAsync, check-runner.ts:634).                     *)
THEOREM EvidenceIsHonest == CheckSpec => EvidenceIsOfItsRevision
<1>. DEFINE Honest == \A c \in Checks :
               evidence'[c] # evidence[c] /\ evidence'[c].ok
                  => \E p \in Processes, k \in Keys :
                        /\ k = <<c, evidence'[c].revision>>
                        /\ child[p][k] # NoChild /\ child[p][k].on = k[2]
<1>1. ASSUME CheckInv, CheckNext PROVE Honest
  <2>1. CASE UNCHANGED evidence
    BY <2>1
  <2>2. ASSUME NEW p \in Processes, NEW k \in Keys, ChildEnds(p, k) PROVE Honest
    <3>1. CASE UNCHANGED evidence
      BY <3>1
    <3>2. CASE \E ok \in BOOLEAN : evidence' = [evidence EXCEPT ![k[1]] =
                  IF head = k[2] THEN [revision |-> head, ok |-> ok] ELSE NoEvidence]
      <4>1. \A c \in Checks \ {k[1]} : evidence'[c] = evidence[c]
        BY <3>2, <1>1 DEF CheckInv, CheckShapes
      <4>2. evidence'[k[1]].ok => evidence'[k[1]].revision = k[2]
        BY <3>2, <1>1, KeyFacts DEF CheckInv, CheckShapes, NoEvidence
      <4>3. child[p][k] # NoChild /\ child[p][k].on = k[2] /\ k = <<k[1], k[2]>>
        BY <1>1, <2>2, KeyFacts DEF ChildEnds, CheckInv, BegunOnItsRevision
      <4>. QED
        BY <4>1, <4>2, <4>3
    <3>. QED
      BY <2>2, <3>1, <3>2 DEF ChildEnds
  <2>. QED
    BY <1>1, <2>1, <2>2
       DEF CheckNext, RequestCheck, Release, Turn, TakeLock, LockTimeout, Execute,
       TreeChanges, ProcessDies
<1>2. ASSUME CheckInv, UNCHANGED checkVars PROVE Honest
  BY <1>2 DEF checkVars
<1>3. CheckInv /\ [CheckNext]_checkVars => [Honest]_checkVars
  BY <1>1, <1>2
<1>. QED
  BY <1>3, CheckInvariant, PTL DEF CheckSpec, EvidenceIsOfItsRevision

(* A check is stopped only when the last who waits for it leaves           *)
(* (releaseControllerCheckSubscription, check-runner.ts:474).              *)
THEOREM WantedChecksRun == CheckSpec => WantedChecksGoOn
<1>. DEFINE LastLeaves == \A p \in Processes, k \in Keys :
          child[p][k] # NoChild /\ child[p][k].state = "running"
          /\ child'[p][k] # NoChild /\ child'[p][k].state = "stopping"
             => active'[p][k].subscribers = {}
<1>1. ASSUME CheckInv, CheckNext PROVE LastLeaves
  <2>1. CASE UNCHANGED child
    BY <2>1
  <2>2. ASSUME NEW r \in Requests, Release(r) PROVE LastLeaves
    <3>1. PICK p \in Processes, k \in Keys :
             /\ active' = [active EXCEPT ![p][k] = [active[p][k] EXCEPT !.subscribers = @ \ {r},
                                                       !.cancel = @ \/ Remaining(p, k, r) = {}]]
             /\ child' = IF Remaining(p, k, r) = {} /\ child[p][k] # NoChild
                         THEN [child EXCEPT ![p][k].state = "stopping"] ELSE child
      BY <2>2 DEF Release
    <3>2. active[p][k] \in Run /\ active'[p][k].subscribers = Remaining(p, k, r)
      BY <1>1, <3>1 DEF CheckInv, CheckShapes, Run, Remaining
    <3>3. \A q \in Processes, l \in Keys : <<q, l>> # <<p, k>> => child'[q][l] = child[q][l]
      BY <1>1, <3>1 DEF CheckInv, CheckShapes
    <3>4. Remaining(p, k, r) # {} => child' = child
      BY <3>1
    <3>. QED
      BY <3>2, <3>3, <3>4
  <2>3. ASSUME NEW p \in Processes, NEW k \in Keys, child' = [child EXCEPT ![p][k] = Spawned] \/ child' = [child EXCEPT ![p][k] = NoChild]
        PROVE  LastLeaves
    <3>1. Spawned.state = "running"
      BY DEF Spawned
    <3>2. \A q \in Processes, l \in Keys : child'[q][l] \in {child[q][l], Spawned, NoChild}
      BY <1>1, <2>3 DEF CheckInv, CheckShapes
    <3>. QED
      BY <3>1, <3>2
  <2>4. ASSUME NEW r \in Requests, NEW c \in Checks, RequestCheck(r, c) PROVE LastLeaves
    <3>1. ProcessOf[r] \in Processes /\ <<c, head>> \in Keys
      BY <1>1, CheckAssumption DEF CheckAssumption, CheckInv, CheckShapes, Keys
    <3>. QED
      BY <2>1, <2>3, <2>4, <3>1 DEF RequestCheck, StartCheck
  <2>. QED
    BY <1>1, <2>1, <2>2, <2>3, <2>4
       DEF CheckNext, Turn, TakeLock, LockTimeout, Execute, ChildEnds,
       TreeChanges, ProcessDies
<1>2. ASSUME CheckInv, UNCHANGED checkVars PROVE LastLeaves
  BY <1>2 DEF checkVars
<1>3. CheckInv /\ [CheckNext]_checkVars => [LastLeaves]_checkVars
  BY <1>1, <1>2
<1>. QED
  BY <1>3, CheckInvariant, PTL DEF CheckSpec, WantedChecksGoOn

-----------------------------------------------------------------------------
(* Every variable of the checks has its type.                              *)
RestTypes ==
    /\ dead \subseteq Mortal
    /\ queue \in [Processes -> Seq(Keys)]
    /\ lock \in Processes \cup {Nobody}
    /\ request \in [Requests -> {"new", "waiting", "released", "passed", "failed", "refused"}]

LEMMA OverTypes ==
    ASSUME RestTypes, NEW p \in Processes, NEW k \in Keys, NEW result \in {"passed", "failed", "refused"},
           Over(p, k, result)
    PROVE  /\ queue' \in [Processes -> Seq(Keys)]
           /\ request' \in [Requests -> {"new", "waiting", "released", "passed", "failed", "refused"}]
<1>1. queue[p] \in Seq(Keys)
  BY DEF RestTypes
<1>2. queue[p] # <<>> => Tail(queue[p]) \in Seq(Keys)
  BY <1>1, HeadTailProperties
<1>. QED
  BY <1>1, <1>2 DEF RestTypes, Over

LEMMA RestStep == ASSUME CheckInv, RestTypes, [CheckNext]_checkVars PROVE RestTypes'
<1>1. ASSUME NEW r \in Requests, NEW c \in Checks, RequestCheck(r, c) PROVE RestTypes'
  <2>1. ProcessOf[r] \in Processes /\ <<c, head>> \in Keys
    BY CheckAssumption DEF CheckAssumption, CheckInv, CheckShapes, Keys
  <2>2. Append(queue[ProcessOf[r]], <<c, head>>) \in Seq(Keys)
    BY <2>1, AppendProperties DEF RestTypes
  <2>3. queue' \in [Processes -> Seq(Keys)]
    BY <1>1, <2>2 DEF RequestCheck, StartCheck, RestTypes
  <2>4. request' \in [Requests -> {"new", "waiting", "released", "passed", "failed", "refused"}]
    BY <1>1 DEF RequestCheck, RestTypes, Answer
  <2>. QED
    BY <1>1, <2>3, <2>4 DEF RequestCheck, RestTypes
<1>2. ASSUME NEW r \in Requests, Release(r) PROVE RestTypes'
  BY <1>2 DEF Release, RestTypes
<1>3. ASSUME NEW p \in Processes, NEW k \in Keys,
             Turn(p, k) \/ TakeLock(p, k) \/ LockTimeout(p, k)
      PROVE  RestTypes'
  BY <1>3, OverTypes DEF Turn, TakeLock, LockTimeout, RestTypes
<1>4. ASSUME NEW p \in Processes, NEW k \in Keys, Execute(p, k) PROVE RestTypes'
  <2>1. Answer(evidence[k[1]].ok) \in {"passed", "failed", "refused"}
    BY DEF Answer
  <2>. QED
    BY <1>4, <2>1, OverTypes DEF Execute, RestTypes
<1>5. ASSUME NEW p \in Processes, NEW k \in Keys, ChildEnds(p, k) PROVE RestTypes'
  <2>1. \A ok \in BOOLEAN : Answer(ok) \in {"passed", "failed", "refused"}
    BY DEF Answer
  <2>. QED
    BY <1>5, <2>1, OverTypes DEF ChildEnds, RestTypes
<1>6. ASSUME NEW p \in Processes, ProcessDies(p) PROVE RestTypes'
  BY <1>6, EmptySeq DEF ProcessDies, RestTypes
<1>7. CASE TreeChanges \/ UNCHANGED checkVars
  BY <1>7 DEF TreeChanges, checkVars, RestTypes
<1>. QED
  BY <1>1, <1>2, <1>3, <1>4, <1>5, <1>6, <1>7 DEF CheckNext

THEOREM CheckTypes == CheckSpec => []CheckTypeOK
<1>1. CheckInit => RestTypes
  BY EmptySeq DEF CheckInit, RestTypes
<1>2. CheckInv /\ RestTypes /\ [CheckNext]_checkVars => RestTypes'
  BY RestStep
<1>3. CheckInv /\ RestTypes => CheckTypeOK
  BY DEF CheckInv, CheckShapes, RestTypes, CheckTypeOK, Run, Child
<1>. QED
  BY <1>1, <1>2, <1>3, CheckInvariant, PTL DEF CheckSpec

-----------------------------------------------------------------------------
(***************************************************************************)
(* The queue of a process holds the heavy checks it is asked for, each     *)
(* once, and only its first is past its turn.  A run that has no process   *)
(* is in the queue, a live process knows the checks it runs, and a request *)
(* waits for just one run.                                                 *)
(***************************************************************************)
Queued(p, k) == \E i \in 1 .. Len(queue[p]) : queue[p][i] = k

InOrder(p) ==
    /\ \A i, j \in 1 .. Len(queue[p]) : queue[p][i] = queue[p][j] => i = j
    /\ \A k \in Keys : Queued(p, k) <=> k[1] \in Heavy /\ active[p][k].phase # "none"
    /\ \A k \in Keys : k[1] \in Heavy /\ active[p][k].phase \in {"locking", "locked", "running"} => queue[p][1] = k
    /\ \A k \in Keys : k[1] \notin Heavy => active[p][k].phase \in {"none", "running"}
    /\ \A k \in Keys : active[p][k].phase = "none" => active[p][k] = NoRun

KnownRuns(p) ==
    /\ p \notin dead => \A k \in Keys : child[p][k] # NoChild <=> active[p][k].phase = "running"
    /\ p \in dead => \A k \in Keys : active[p][k] = NoRun

OneHeavy(p) ==
    \A k, l \in Keys : {k[1], l[1]} \subseteq Heavy /\ NoChild \notin {child[p][k], child[p][l]} => k = l

RequestsHeld ==
    /\ \A r \in Requests : request[r] = "waiting" => \E k \in Keys : r \in active[ProcessOf[r]][k].subscribers
    /\ \A p \in Processes, k \in Keys : \A r \in active[p][k].subscribers :
          /\ p = ProcessOf[r] /\ request[r] = "waiting"
          /\ \A l \in Keys : r \in active[p][l].subscribers => k = l

ProcessOrder(p) == InOrder(p) /\ KnownRuns(p) /\ OneHeavy(p)

CheckOrder == CheckInv /\ RestTypes /\ (\A p \in Processes : ProcessOrder(p)) /\ RequestsHeld

-----------------------------------------------------------------------------
(* What other processes do leaves a process in order.                      *)
LEMMA OthersInOrder ==
    ASSUME NEW p, ProcessOrder(p), active'[p] = active[p], queue'[p] = queue[p], child'[p] = child[p],
           p \in dead' <=> p \in dead
    PROVE  ProcessOrder(p)'
BY DEF ProcessOrder, InOrder, Queued, KnownRuns, OneHeavy

(* A run that is over was the first of the queue, or a light check.        *)
LEMMA OverInOrder ==
    ASSUME CheckOrder, NEW p \in Processes \ dead, NEW k \in Keys, NEW result,
           active[p][k].phase # "none", k[1] \in Heavy => queue[p][1] = k,
           Over(p, k, result), UNCHANGED dead, child' = [child EXCEPT ![p][k] = NoChild]
    PROVE  ProcessOrder(p)'
<1>. DEFINE q == queue[p]
<1>1. q \in Seq(Keys) /\ InOrder(p) /\ KnownRuns(p) /\ OneHeavy(p)
  BY DEF CheckOrder, RestTypes, ProcessOrder
<1>2. \A l \in Keys : active'[p][l] = IF l = k THEN NoRun ELSE active[p][l]
  BY DEF CheckOrder, CheckInv, CheckShapes, Over
<1>3. \A l \in Keys : child'[p][l] = IF l = k THEN NoChild ELSE child[p][l]
  BY DEF CheckOrder, CheckInv, CheckShapes
<1>4. NoRun.phase = "none"
  BY DEF NoRun
<1>5. KnownRuns(p)' /\ OneHeavy(p)'
  BY <1>1, <1>2, <1>3, <1>4 DEF KnownRuns, OneHeavy
<1>6. CASE k[1] \in Heavy
  <2>1. q # <<>> /\ Head(q) = k /\ Len(q) \in Nat \ {0}
    <3>1. Queued(p, k)
      BY <1>1, <1>6 DEF InOrder
    <3>. QED
      BY <1>1, <1>6, <3>1 DEF Queued
  <2>2. queue'[p] = Tail(q)
    BY <2>1 DEF Over, CheckOrder, RestTypes
  <2>3. Len(Tail(q)) = Len(q) - 1 /\ \A i \in 1 .. Len(Tail(q)) : Tail(q)[i] = q[i + 1]
    BY <1>1, <2>1, HeadTailProperties
  <2>4. \A l \in Keys : Queued(p, l)' <=> Queued(p, l) /\ l # k
    <3>1. SUFFICES ASSUME NEW l \in Keys
                   PROVE  (\E i \in 1 .. Len(q) - 1 : q[i + 1] = l) <=> Queued(p, l) /\ l # k
      BY <2>2, <2>3 DEF Queued
    <3>2. ASSUME NEW i \in 1 .. Len(q) - 1, q[i + 1] = l PROVE Queued(p, l) /\ l # k
      <4>1. i + 1 \in 1 .. Len(q) /\ 1 \in 1 .. Len(q) /\ i + 1 # 1
        BY <2>1
      <4>. QED
        BY <1>1, <1>6, <3>2, <4>1 DEF Queued, InOrder
    <3>3. ASSUME NEW i \in 1 .. Len(q), q[i] = l, l # k PROVE \E j \in 1 .. Len(q) - 1 : q[j + 1] = l
      <4>1. i - 1 \in 1 .. Len(q) - 1 /\ (i - 1) + 1 = i
        BY <1>6, <2>1, <3>3
      <4>. QED
        BY <3>3, <4>1
    <3>. QED
      BY <3>2, <3>3 DEF Queued
  <2>5. \A i, j \in 1 .. Len(Tail(q)) : Tail(q)[i] = Tail(q)[j] => i = j
    <3>1. SUFFICES ASSUME NEW i \in 1 .. Len(q) - 1, NEW j \in 1 .. Len(q) - 1, q[i + 1] = q[j + 1] PROVE i = j
      BY <2>3
    <3>2. i + 1 \in 1 .. Len(q) /\ j + 1 \in 1 .. Len(q)
      BY <2>1
    <3>3. i + 1 = j + 1
      BY <1>1, <3>1, <3>2 DEF InOrder
    <3>. QED
      BY <3>3
  <2>6. \A l \in Keys : l[1] \in Heavy => active'[p][l].phase \notin {"locking", "locked", "running"}
    BY <1>1, <1>2, <1>4, <1>6 DEF InOrder
  <2>. QED
    BY <1>1, <1>2, <1>4, <1>5, <1>6, <2>2, <2>4, <2>5, <2>6 DEF InOrder, ProcessOrder
<1>7. CASE k[1] \notin Heavy
  <2>1. q = <<>> \/ Head(q) # k
    <3>1. ~Queued(p, k)
      BY <1>1, <1>7 DEF InOrder
    <3>2. q # <<>> => 1 \in 1 .. Len(q) /\ Head(q) = q[1]
      BY <1>1
    <3>. QED
      BY <3>1, <3>2 DEF Queued
  <2>2. queue'[p] = q
    BY <2>1 DEF Over, CheckOrder, RestTypes
  <2>. QED
    BY <1>1, <1>2, <1>4, <1>5, <1>7, <2>2 DEF InOrder, ProcessOrder, Queued
<1>. QED
  BY <1>6, <1>7

(* Everybody who waited for it has its result.                             *)
LEMMA OverKeeps ==
    ASSUME CheckOrder, NEW p \in Processes, NEW k \in Keys, NEW result \in {"passed", "failed", "refused"},
           Over(p, k, result)
    PROVE  RequestsHeld'
<1>1. \A q \in Processes, l \in Keys : active'[q][l] = IF q = p /\ l = k THEN NoRun ELSE active[q][l]
  BY DEF CheckOrder, CheckInv, CheckShapes, Over
<1>2. NoRun.subscribers = {}
  BY DEF NoRun
<1>3. \A r \in Requests : request'[r] = IF r \in active[p][k].subscribers THEN result ELSE request[r]
  BY DEF Over
<1>4. \A q \in Processes, l \in Keys : active[q][l].subscribers \subseteq Requests
  BY DEF CheckOrder, CheckInv, CheckShapes, Run
<1>5. \A r \in Requests : ProcessOf[r] \in Processes
  BY CheckAssumption DEF CheckAssumption
<1>6. RequestsHeld
  BY DEF CheckOrder
<1>7. ASSUME NEW r \in Requests, request'[r] = "waiting"
      PROVE  \E l \in Keys : r \in active'[ProcessOf[r]][l].subscribers
  <2>1. r \notin active[p][k].subscribers /\ request[r] = "waiting"
    BY <1>3, <1>7
  <2>2. PICK l \in Keys : r \in active[ProcessOf[r]][l].subscribers
    BY <1>6, <2>1 DEF RequestsHeld
  <2>. QED
    BY <1>1, <1>5, <2>1, <2>2
<1>8. ASSUME NEW q \in Processes, NEW l \in Keys, NEW r \in active'[q][l].subscribers
      PROVE  /\ q = ProcessOf[r] /\ request'[r] = "waiting"
             /\ \A m \in Keys : r \in active'[q][m].subscribers => l = m
  <2>1. r \in active[q][l].subscribers /\ <<q, l>> # <<p, k>> /\ r \in Requests
    BY <1>1, <1>2, <1>4, <1>8
  <2>2. r \notin active[p][k].subscribers
    BY <1>6, <2>1 DEF RequestsHeld
  <2>. QED
    BY <1>1, <1>2, <1>3, <1>6, <2>1, <2>2 DEF RequestsHeld
<1>. QED
  BY <1>7, <1>8 DEF RequestsHeld

LEMMA OrderInitially == CheckInit => CheckOrder
<1>1. CheckInit => CheckInv /\ RestTypes
  BY CheckInitially, EmptySeq DEF CheckInit, RestTypes
<1>2. ASSUME CheckInit, NEW p \in Processes PROVE ProcessOrder(p)
  <2>1. queue[p] = <<>> /\ Len(queue[p]) = 0 /\ \A k \in Keys : active[p][k] = NoRun /\ child[p][k] = NoChild
    BY <1>2 DEF CheckInit
  <2>. QED
    BY <2>1 DEF ProcessOrder, InOrder, Queued, KnownRuns, OneHeavy, NoRun
<1>3. CheckInit => RequestsHeld
  BY DEF CheckInit, RequestsHeld, NoRun
<1>. QED
  BY <1>1, <1>2, <1>3 DEF CheckOrder

(* A run is queued, or a light check spawned.                              *)
LEMMA StartInOrder ==
    ASSUME CheckOrder, NEW r \in Requests, NEW p \in Processes \ dead, NEW k \in Keys,
           active[p][k] = NoRun, StartCheck(r, p, k), UNCHANGED dead
    PROVE  ProcessOrder(p)'
<1>. DEFINE q == queue[p]
            new == [phase |-> IF k[1] \in Heavy THEN "queued" ELSE "running", subscribers |-> {r}, cancel |-> FALSE]
<1>1. q \in Seq(Keys) /\ InOrder(p) /\ KnownRuns(p) /\ OneHeavy(p)
  BY DEF CheckOrder, RestTypes, ProcessOrder
<1>2. \A l \in Keys : active'[p][l] = IF l = k THEN new ELSE active[p][l]
  BY DEF CheckOrder, CheckInv, CheckShapes, StartCheck
<1>3. NoRun.phase = "none"
  BY DEF NoRun
<1>4. CASE k[1] \in Heavy
  <2>1. queue'[p] = Append(q, k) /\ UNCHANGED child
    BY <1>4 DEF StartCheck, CheckOrder, RestTypes
  <2>2. Len(q) \in Nat /\ Len(Append(q, k)) = Len(q) + 1 /\ Append(q, k)[Len(q) + 1] = k
        /\ \A i \in 1 .. Len(q) : Append(q, k)[i] = q[i]
    BY <1>1, AppendProperties, LenProperties
  <2>3. ~Queued(p, k)
    BY <1>1, <1>3 DEF InOrder
  <2>4. \A l \in Keys : Queued(p, l)' <=> Queued(p, l) \/ l = k
    <3>1. \A i \in 1 .. Len(q) + 1 : i \in 1 .. Len(q) \/ i = Len(q) + 1
      BY <2>2
    <3>2. \A i \in 1 .. Len(q) : i \in 1 .. Len(q) + 1
      BY <2>2
    <3>3. Len(q) + 1 \in 1 .. Len(q) + 1
      BY <2>2
    <3>. QED
      BY <2>1, <2>2, <3>1, <3>2, <3>3 DEF Queued
  <2>5. \A i, j \in 1 .. Len(queue'[p]) : queue'[p][i] = queue'[p][j] => i = j
    <3>1. \A i \in 1 .. Len(q) + 1 : i \in 1 .. Len(q) \/ i = Len(q) + 1
      BY <2>2
    <3>2. \A i \in 1 .. Len(q) : q[i] # k
      BY <2>3 DEF Queued
    <3>. QED
      BY <1>1, <2>1, <2>2, <3>1, <3>2 DEF InOrder
  <2>6. \A l \in Keys : l[1] \in Heavy /\ active'[p][l].phase \in {"locking", "locked", "running"} => queue'[p][1] = l
    <3>1. SUFFICES ASSUME NEW l \in Keys, l[1] \in Heavy, active'[p][l].phase \in {"locking", "locked", "running"}
                   PROVE  queue'[p][1] = l
      OBVIOUS
    <3>2. l # k /\ active[p][l].phase \in {"locking", "locked", "running"}
      BY <1>2, <1>4, <3>1
    <3>3. Queued(p, l) /\ q[1] = l
      BY <1>1, <3>1, <3>2 DEF InOrder
    <3>4. 1 \in 1 .. Len(q)
      BY <2>2, <3>3 DEF Queued
    <3>. QED
      BY <2>1, <2>2, <3>3, <3>4
  <2>7. KnownRuns(p)' /\ OneHeavy(p)'
    BY <1>1, <1>2, <1>3, <1>4, <2>1 DEF KnownRuns, OneHeavy
  <2>8. /\ \A l \in Keys : Queued(p, l)' <=> l[1] \in Heavy /\ active'[p][l].phase # "none"
        /\ \A l \in Keys : l[1] \notin Heavy => active'[p][l].phase \in {"none", "running"}
        /\ \A l \in Keys : active'[p][l].phase = "none" => active'[p][l] = NoRun
    BY <1>1, <1>2, <1>4, <2>4 DEF InOrder
  <2>. QED
    BY <2>5, <2>6, <2>7, <2>8 DEF InOrder, ProcessOrder
<1>5. CASE k[1] \notin Heavy
  <2>1. queue'[p] = q /\ \A l \in Keys : child'[p][l] = IF l = k THEN Spawned ELSE child[p][l]
    BY <1>5 DEF StartCheck, CheckOrder, CheckInv, CheckShapes
  <2>2. Spawned # NoChild
    BY SpawnedFacts DEF CheckOrder, CheckInv
  <2>3. KnownRuns(p)' /\ OneHeavy(p)'
    BY <1>1, <1>2, <1>5, <2>1, <2>2 DEF KnownRuns, OneHeavy
  <2>4. InOrder(p)'
    BY <1>1, <1>2, <1>3, <1>5, <2>1 DEF InOrder, Queued
  <2>. QED
    BY <2>3, <2>4 DEF ProcessOrder
<1>. QED
  BY <1>4, <1>5

(* The phase of a run, its requests or its child's state are written.      *)
LEMMA WrittenInOrder ==
    ASSUME CheckOrder, NEW p \in Processes \ dead, NEW k \in Keys, NEW run \in Run,
           active' = [active EXCEPT ![p][k] = run], UNCHANGED <<queue, dead>>,
           active[p][k].phase # "none", run.phase # "none",
           run.phase = active[p][k].phase \/ (k[1] \in Heavy /\ queue[p][1] = k),
           \A l \in Keys : l # k => child'[p][l] = child[p][l],
           child'[p][k] # NoChild <=> run.phase = "running"
    PROVE  ProcessOrder(p)'
<1>1. InOrder(p) /\ KnownRuns(p) /\ OneHeavy(p)
  BY DEF CheckOrder, ProcessOrder
<1>2. \A l \in Keys : active'[p][l] = IF l = k THEN run ELSE active[p][l]
  BY DEF CheckOrder, CheckInv, CheckShapes
<1>3. InOrder(p)'
  BY <1>1, <1>2 DEF InOrder, Queued
<1>4. KnownRuns(p)'
  BY <1>1, <1>2 DEF KnownRuns
<1>5. OneHeavy(p)'
  <2>1. \A l \in Keys : l[1] \in Heavy /\ child'[p][l] # NoChild => active'[p][l].phase = "running"
    BY <1>4 DEF KnownRuns
  <2>. QED
    BY <1>3, <2>1 DEF InOrder, OneHeavy
<1>. QED
  BY <1>3, <1>4, <1>5 DEF ProcessOrder

LEMMA OnlyProcess ==
    ASSUME CheckOrder, NEW p \in Processes, ProcessOrder(p)', UNCHANGED dead,
           \A q \in Processes : q # p => active'[q] = active[q] /\ queue'[q] = queue[q] /\ child'[q] = child[q]
    PROVE  \A q \in Processes : ProcessOrder(q)'
BY OthersInOrder DEF CheckOrder

(* Whose requests stay where they are, holds them.                         *)
LEMMA SameRequests ==
    ASSUME CheckOrder, NEW p \in Processes, NEW k \in Keys, NEW run \in Run, UNCHANGED request,
           active' = [active EXCEPT ![p][k] = run], run.subscribers = active[p][k].subscribers
    PROVE  RequestsHeld'
<1>1. \A q \in Processes, l \in Keys : active'[q][l].subscribers = active[q][l].subscribers
  BY DEF CheckOrder, CheckInv, CheckShapes
<1>2. \A r \in Requests : ProcessOf[r] \in Processes
  BY CheckAssumption DEF CheckAssumption
<1>. QED
  BY <1>1, <1>2 DEF CheckOrder, RequestsHeld

(* A new request is held by the run it joins or starts.                    *)
LEMMA NewRequestHeld ==
    ASSUME CheckOrder, NEW r \in Requests, request[r] = "new", request' = [request EXCEPT ![r] = "waiting"],
           NEW k \in Keys, NEW run \in Run, run.subscribers = active[ProcessOf[r]][k].subscribers \cup {r},
           active' = [active EXCEPT ![ProcessOf[r]][k] = run]
    PROVE  RequestsHeld'
<1>. DEFINE p == ProcessOf[r]
<1>1. \A s \in Requests : ProcessOf[s] \in Processes
  BY CheckAssumption DEF CheckAssumption
<1>2. \A q \in Processes, l \in Keys :
        active'[q][l].subscribers = active[q][l].subscribers \cup (IF q = p /\ l = k THEN {r} ELSE {})
  BY <1>1 DEF CheckOrder, CheckInv, CheckShapes
<1>3. \A q \in Processes, l \in Keys : r \notin active[q][l].subscribers
  BY DEF CheckOrder, RequestsHeld
<1>4. \A s \in Requests : request'[s] = IF s = r THEN "waiting" ELSE request[s]
  BY DEF CheckOrder, RestTypes
<1>5. ASSUME NEW s \in Requests, request'[s] = "waiting"
      PROVE  \E l \in Keys : s \in active'[ProcessOf[s]][l].subscribers
  <2>1. CASE s = r
    BY <1>1, <1>2, <2>1
  <2>2. CASE s # r
    <3>1. PICK l \in Keys : s \in active[ProcessOf[s]][l].subscribers
      BY <1>4, <1>5, <2>2 DEF CheckOrder, RequestsHeld
    <3>. QED
      BY <1>1, <1>2, <3>1
  <2>. QED
    BY <2>1, <2>2
<1>6. ASSUME NEW q \in Processes, NEW l \in Keys, NEW s \in active'[q][l].subscribers
      PROVE  /\ q = ProcessOf[s] /\ request'[s] = "waiting"
             /\ \A m \in Keys : s \in active'[q][m].subscribers => l = m
  <2>1. CASE s = r
    BY <1>2, <1>3, <1>4, <1>6, <2>1
  <2>2. CASE s # r
    <3>1. s \in active[q][l].subscribers /\ s \in Requests
      BY <1>2, <1>6, <2>2 DEF CheckOrder, CheckInv, CheckShapes, Run
    <3>. QED
      BY <1>2, <1>4, <2>2, <3>1 DEF CheckOrder, RequestsHeld
  <2>. QED
    BY <2>1, <2>2
<1>. QED
  BY <1>5, <1>6 DEF RequestsHeld

LEMMA RequestInOrder ==
    ASSUME CheckOrder, NEW r \in Requests, NEW c \in Checks, RequestCheck(r, c)
    PROVE  (\A q \in Processes : ProcessOrder(q)') /\ RequestsHeld'
<1>. DEFINE p == ProcessOf[r]
            k == <<c, head>>
            run == active[p][k]
<1>1. p \in Processes \ dead /\ k \in Keys /\ run \in Run
  BY CheckAssumption DEF CheckAssumption, CheckOrder, CheckInv, CheckShapes, Keys, RequestCheck
<1>2. request[r] = "new" /\ UNCHANGED dead
  BY DEF RequestCheck
<1>3. ASSUME UNCHANGED <<active, queue, child>>, request' = [request EXCEPT ![r] = Answer(evidence[c].ok)]
      PROVE  (\A q \in Processes : ProcessOrder(q)') /\ RequestsHeld'
  <2>1. \A q \in Processes : ProcessOrder(q)'
    BY <1>2, <1>3, OthersInOrder DEF CheckOrder
  <2>2. \A s \in Requests : request'[s] = "waiting" <=> request[s] = "waiting"
    BY <1>2, <1>3 DEF CheckOrder, RestTypes, Answer
  <2>3. \A q \in Processes, l \in Keys : active[q][l].subscribers \subseteq Requests
    BY DEF CheckOrder, CheckInv, CheckShapes, Run
  <2>. QED
    BY <1>3, <2>1, <2>2, <2>3 DEF CheckOrder, RequestsHeld
<1>4. ASSUME request' = [request EXCEPT ![r] = "waiting"], run = NoRun, StartCheck(r, p, k)
      PROVE  (\A q \in Processes : ProcessOrder(q)') /\ RequestsHeld'
  <2>1. ProcessOrder(p)'
    BY <1>1, <1>2, <1>4, StartInOrder
  <2>2. \A q \in Processes : q # p => active'[q] = active[q] /\ queue'[q] = queue[q] /\ child'[q] = child[q]
    BY <1>4 DEF StartCheck, CheckOrder, CheckInv, CheckShapes, RestTypes
  <2>3. RequestsHeld'
    <3>. DEFINE new == [phase |-> IF k[1] \in Heavy THEN "queued" ELSE "running", subscribers |-> {r}, cancel |-> FALSE]
    <3>1. new \in Run /\ new.subscribers = run.subscribers \cup {r}
      BY <1>4 DEF Run, NoRun
    <3>2. active' = [active EXCEPT ![p][k] = new]
      BY <1>4 DEF StartCheck
    <3>. QED
      BY <1>1, <1>2, <1>4, <3>1, <3>2, NewRequestHeld
  <2>. QED
    BY <1>1, <1>2, <2>1, <2>2, <2>3, OnlyProcess
<1>5. ASSUME request' = [request EXCEPT ![r] = "waiting"], run # NoRun, UNCHANGED <<queue, child>>,
             active' = [active EXCEPT ![p][k].subscribers = @ \cup {r}]
      PROVE  (\A q \in Processes : ProcessOrder(q)') /\ RequestsHeld'
  <2>. DEFINE joined == [run EXCEPT !.subscribers = @ \cup {r}]
  <2>1. joined \in Run /\ joined.subscribers = run.subscribers \cup {r} /\ joined.phase = run.phase
    BY <1>1 DEF Run
  <2>2. active' = [active EXCEPT ![p][k] = joined]
    BY <1>5
  <2>3. run.phase # "none" /\ (child[p][k] # NoChild <=> run.phase = "running")
    BY <1>1, <1>5 DEF CheckOrder, ProcessOrder, InOrder, KnownRuns
  <2>4. ProcessOrder(p)'
    BY <1>1, <1>2, <1>5, <2>1, <2>2, <2>3, WrittenInOrder
  <2>5. RequestsHeld'
    <3>1. PICK new \in Run : /\ new.subscribers = run.subscribers \cup {r}
                            /\ active' = [active EXCEPT ![p][k] = new]
      BY <2>1, <2>2
    <3>. QED
      BY <1>1, <1>2, <1>5, <3>1, NewRequestHeld
  <2>6. \A q \in Processes : q # p => active'[q] = active[q] /\ queue'[q] = queue[q] /\ child'[q] = child[q]
    BY <1>5, <2>2 DEF CheckOrder, CheckInv, CheckShapes
  <2>. QED
    BY <1>1, <1>2, <2>4, <2>5, <2>6, OnlyProcess
<1>. QED
  BY <1>3, <1>4, <1>5 DEF RequestCheck

LEMMA ReleaseInOrder ==
    ASSUME CheckOrder, NEW r \in Requests, Release(r)
    PROVE  (\A q \in Processes : ProcessOrder(q)') /\ RequestsHeld'
<1>1. PICK p \in Processes, k \in Keys :
         /\ r \in active[p][k].subscribers
         /\ active' = [active EXCEPT ![p][k] = [active[p][k] EXCEPT !.subscribers = @ \ {r},
                                                   !.cancel = @ \/ Remaining(p, k, r) = {}]]
         /\ child' = IF Remaining(p, k, r) = {} /\ child[p][k] # NoChild
                     THEN [child EXCEPT ![p][k].state = "stopping"] ELSE child
  BY DEF Release
<1>. DEFINE run == active[p][k]
            left == [run EXCEPT !.subscribers = @ \ {r}, !.cancel = @ \/ Remaining(p, k, r) = {}]
<1>2. UNCHANGED <<queue, dead>> /\ request[r] = "waiting" /\ request' = [request EXCEPT ![r] = "released"]
  BY DEF Release
<1>3. run \in Run
  BY DEF CheckOrder, CheckInv, CheckShapes
<1>4. left \in Run /\ left.subscribers = run.subscribers \ {r} /\ left.phase = run.phase
  <2>1. (run.cancel \/ Remaining(p, k, r) = {}) \in BOOLEAN
    OBVIOUS
  <2>. QED
    BY <1>3, <2>1 DEF Run
<1>5. p \notin dead /\ run.phase # "none" /\ (child[p][k] # NoChild <=> run.phase = "running")
  <2>1. run # NoRun
    BY <1>1 DEF NoRun
  <2>. QED
    BY <2>1 DEF CheckOrder, ProcessOrder, InOrder, KnownRuns
<1>6. active' = [active EXCEPT ![p][k] = left]
  BY <1>1
<1>7. /\ \A l \in Keys : l # k => child'[p][l] = child[p][l]
      /\ child'[p][k] # NoChild <=> child[p][k] # NoChild
  <2>1. child[p][k] # NoChild => [child[p][k] EXCEPT !.state = "stopping"] # NoChild
    <3>1. child[p][k] # NoChild => [child[p][k] EXCEPT !.state = "stopping"].state = "stopping"
      BY DEF CheckOrder, CheckInv, CheckShapes, Child
    <3>. QED
      BY <3>1 DEF NoChild
  <2>. QED
    BY <1>1, <2>1 DEF CheckOrder, CheckInv, CheckShapes
<1>8. ProcessOrder(p)'
  BY <1>2, <1>4, <1>5, <1>6, <1>7, WrittenInOrder
<1>9. \A q \in Processes : q # p => active'[q] = active[q] /\ queue'[q] = queue[q] /\ child'[q] = child[q]
  BY <1>1, <1>2, <1>6 DEF CheckOrder, CheckInv, CheckShapes
<1>10. RequestsHeld'
  <2>1. \A q \in Processes, l \in Keys :
          active'[q][l].subscribers = IF q = p /\ l = k THEN run.subscribers \ {r} ELSE active[q][l].subscribers
    BY <1>4, <1>6 DEF CheckOrder, CheckInv, CheckShapes
  <2>2. \A s \in Requests : request'[s] = IF s = r THEN "released" ELSE request[s]
    BY <1>2 DEF CheckOrder, RestTypes
  <2>3. \A s \in Requests : ProcessOf[s] \in Processes
    BY CheckAssumption DEF CheckAssumption
  <2>4. ASSUME NEW s \in Requests, request'[s] = "waiting"
        PROVE  \E l \in Keys : s \in active'[ProcessOf[s]][l].subscribers
    <3>1. PICK l \in Keys : s \in active[ProcessOf[s]][l].subscribers
      BY <2>2, <2>4 DEF CheckOrder, RequestsHeld
    <3>. QED
      BY <2>1, <2>2, <2>3, <2>4, <3>1
  <2>5. ASSUME NEW q \in Processes, NEW l \in Keys, NEW s \in active'[q][l].subscribers
        PROVE  /\ q = ProcessOf[s] /\ request'[s] = "waiting"
               /\ \A m \in Keys : s \in active'[q][m].subscribers => l = m
    <3>1. s \in active[q][l].subscribers /\ s \in Requests
      BY <2>1, <2>5 DEF CheckOrder, CheckInv, CheckShapes, Run
    <3>2. s # r
      <4>1. SUFFICES ASSUME s = r PROVE FALSE
        OBVIOUS
      <4>2. q = p /\ l = k
        BY <1>1, <3>1, <4>1 DEF CheckOrder, RequestsHeld
      <4>. QED
        BY <2>1, <2>5, <4>1, <4>2
    <3>. QED
      BY <2>1, <2>2, <3>1, <3>2 DEF CheckOrder, RequestsHeld
  <2>. QED
    BY <2>4, <2>5 DEF RequestsHeld
<1>. QED
  BY <1>2, <1>8, <1>9, <1>10, OnlyProcess

LEMMA TurnInOrder ==
    ASSUME CheckOrder, NEW p \in Processes, NEW k \in Keys,
           Turn(p, k) \/ TakeLock(p, k) \/ LockTimeout(p, k) \/ Execute(p, k)
    PROVE  (\A q \in Processes : ProcessOrder(q)') /\ RequestsHeld'
<1>1. InOrder(p) /\ KnownRuns(p) /\ active[p][k] \in Run /\ queue[p] \in Seq(Keys)
  BY DEF CheckOrder, ProcessOrder, CheckInv, CheckShapes, RestTypes
<1>2. active[p][k].phase \in {"queued", "locking", "locked"} /\ UNCHANGED dead
  BY DEF Turn, TakeLock, LockTimeout, Execute
<1>3. p \notin dead /\ child[p][k] = NoChild /\ k[1] \in Heavy
  BY <1>1, <1>2 DEF KnownRuns, InOrder, NoRun
<1>4. queue[p][1] = k
  BY <1>1, <1>2, <1>3 DEF Turn, TakeLock, LockTimeout, Execute, InOrder
<1>5. ASSUME NEW result \in {"passed", "failed", "refused"}, Over(p, k, result), UNCHANGED child
      PROVE  (\A q \in Processes : ProcessOrder(q)') /\ RequestsHeld'
  <2>1. child' = [child EXCEPT ![p][k] = NoChild]
    BY <1>3, <1>5 DEF CheckOrder, CheckInv, CheckShapes
  <2>2. ProcessOrder(p)'
    BY <1>2, <1>3, <1>4, <1>5, <2>1, OverInOrder
  <2>3. \A q \in Processes : q # p => active'[q] = active[q] /\ queue'[q] = queue[q] /\ child'[q] = child[q]
    BY <1>5 DEF Over, CheckOrder, CheckInv, CheckShapes, RestTypes
  <2>. QED
    BY <1>2, <1>5, <2>2, <2>3, OnlyProcess, OverKeeps
<1>6. ASSUME NEW phase \in {"locking", "locked", "running"}, active' = [active EXCEPT ![p][k].phase = phase],
             UNCHANGED <<queue, request>>,
             \/ phase # "running" /\ UNCHANGED child
             \/ phase = "running" /\ child' = [child EXCEPT ![p][k] = Spawned]
      PROVE  (\A q \in Processes : ProcessOrder(q)') /\ RequestsHeld'
  <2>1. PICK run \in Run : /\ run.phase = phase /\ run.subscribers = active[p][k].subscribers
                           /\ active' = [active EXCEPT ![p][k] = run]
    <3>. DEFINE new == [active[p][k] EXCEPT !.phase = phase]
    <3>1. new \in Run /\ new.phase = phase /\ new.subscribers = active[p][k].subscribers
      BY <1>1 DEF Run
    <3>2. active' = [active EXCEPT ![p][k] = new]
      BY <1>6
    <3>. QED
      BY <3>1, <3>2
  <2>2. /\ \A l \in Keys : l # k => child'[p][l] = child[p][l]
        /\ child'[p][k] # NoChild <=> phase = "running"
    <3>1. Spawned # NoChild
      BY SpawnedFacts DEF CheckOrder, CheckInv
    <3>. QED
      BY <1>3, <1>6, <3>1 DEF CheckOrder, CheckInv, CheckShapes
  <2>3. ProcessOrder(p)'
    <3>1. active[p][k].phase # "none" /\ run.phase # "none"
      BY <1>2, <2>1
    <3>. QED
      BY <1>2, <1>3, <1>4, <1>6, <2>1, <2>2, <3>1, WrittenInOrder
  <2>4. \A q \in Processes : q # p => active'[q] = active[q] /\ queue'[q] = queue[q] /\ child'[q] = child[q]
    BY <1>6, <2>1 DEF CheckOrder, CheckInv, CheckShapes
  <2>5. RequestsHeld'
    <3>1. UNCHANGED request
      BY <1>6
    <3>. QED
      BY <2>1, <3>1, SameRequests
  <2>. QED
    BY <1>2, <2>3, <2>4, <2>5, OnlyProcess
<1>7. CASE Turn(p, k)
  BY <1>5, <1>6, <1>7 DEF Turn
<1>8. CASE TakeLock(p, k)
  BY <1>6, <1>8 DEF TakeLock
<1>9. CASE LockTimeout(p, k)
  BY <1>5, <1>9 DEF LockTimeout
<1>10. CASE Execute(p, k)
  <2>1. Answer(evidence[k[1]].ok) \in {"passed", "failed", "refused"}
    BY DEF Answer
  <2>. QED
    BY <1>5, <1>6, <1>10, <2>1 DEF Execute
<1>. QED
  BY <1>7, <1>8, <1>9, <1>10

LEMMA EndsInOrder ==
    ASSUME CheckOrder, NEW p \in Processes, NEW k \in Keys, ChildEnds(p, k)
    PROVE  (\A q \in Processes : ProcessOrder(q)') /\ RequestsHeld'
<1>1. ProcessOrder(p) /\ queue[p] \in Seq(Keys)
  BY DEF CheckOrder, RestTypes
<1>2. child[p][k] # NoChild /\ child' = [child EXCEPT ![p][k] = NoChild] /\ UNCHANGED dead
  BY DEF ChildEnds
<1>3. CASE p \in dead
  <2>1. UNCHANGED <<active, queue, request>>
    BY <1>3 DEF ChildEnds
  <2>2. ProcessOrder(p)'
    <3>1. \A l \in Keys : child'[p][l] # NoChild => child'[p][l] = child[p][l]
      BY <1>2 DEF CheckOrder, CheckInv, CheckShapes
    <3>2. OneHeavy(p)'
      BY <1>1, <3>1 DEF ProcessOrder, OneHeavy
    <3>3. InOrder(p)' /\ KnownRuns(p)'
      BY <1>1, <1>2, <1>3, <2>1 DEF ProcessOrder, InOrder, Queued, KnownRuns
    <3>. QED
      BY <3>2, <3>3 DEF ProcessOrder
  <2>3. \A q \in Processes : q # p => child'[q] = child[q]
    BY <1>2 DEF CheckOrder, CheckInv, CheckShapes
  <2>. QED
    BY <1>2, <2>1, <2>2, <2>3, OnlyProcess DEF CheckOrder, RequestsHeld
<1>4. CASE p \notin dead
  <2>1. PICK ok \in BOOLEAN : Over(p, k, Answer(ok))
    BY <1>4 DEF ChildEnds
  <2>2. Answer(ok) \in {"passed", "failed", "refused"}
    BY DEF Answer
  <2>3. active[p][k].phase = "running" /\ (k[1] \in Heavy => queue[p][1] = k)
    BY <1>1, <1>2, <1>4 DEF ProcessOrder, KnownRuns, InOrder
  <2>4. ProcessOrder(p)'
    BY <1>2, <1>4, <2>1, <2>3, OverInOrder
  <2>5. \A q \in Processes : q # p => active'[q] = active[q] /\ queue'[q] = queue[q] /\ child'[q] = child[q]
    BY <1>2, <2>1 DEF Over, CheckOrder, CheckInv, CheckShapes, RestTypes
  <2>. QED
    BY <1>2, <2>1, <2>2, <2>4, <2>5, OnlyProcess, OverKeeps
<1>. QED
  BY <1>3, <1>4

LEMMA DiesInOrder ==
    ASSUME CheckOrder, NEW p \in Processes, ProcessDies(p)
    PROVE  (\A q \in Processes : ProcessOrder(q)') /\ RequestsHeld'
<1>1. /\ dead' = dead \cup {p} /\ UNCHANGED child
      /\ \A q \in Processes : q # p => active'[q] = active[q] /\ queue'[q] = queue[q]
      /\ queue'[p] = <<>> /\ \A k \in Keys : active'[p][k] = NoRun
  BY DEF ProcessDies, CheckOrder, CheckInv, CheckShapes, RestTypes
<1>2. ProcessOrder(p)'
  <2>1. OneHeavy(p)' /\ KnownRuns(p)'
    BY <1>1 DEF CheckOrder, ProcessOrder, OneHeavy, KnownRuns
  <2>2. InOrder(p)'
    BY <1>1 DEF InOrder, Queued, NoRun
  <2>. QED
    BY <2>1, <2>2 DEF ProcessOrder
<1>3. \A q \in Processes : q # p => ProcessOrder(q)'
  BY <1>1, OthersInOrder DEF CheckOrder
<1>4. RequestsHeld'
  <2>1. \A r \in Requests : request'[r] = IF ProcessOf[r] = p /\ request[r] = "waiting" THEN "released" ELSE request[r]
    BY DEF ProcessDies
  <2>2. \A r \in Requests : ProcessOf[r] \in Processes
    BY CheckAssumption DEF CheckAssumption
  <2>3. ASSUME NEW r \in Requests, request'[r] = "waiting"
        PROVE  \E l \in Keys : r \in active'[ProcessOf[r]][l].subscribers
    <3>1. ProcessOf[r] # p /\ request[r] = "waiting"
      BY <2>1, <2>3
    <3>. QED
      BY <1>1, <2>2, <3>1 DEF CheckOrder, RequestsHeld
  <2>4. ASSUME NEW q \in Processes, NEW l \in Keys, NEW r \in active'[q][l].subscribers
        PROVE  /\ q = ProcessOf[r] /\ request'[r] = "waiting"
               /\ \A m \in Keys : r \in active'[q][m].subscribers => l = m
    <3>1. q # p
      BY <1>1, <2>4 DEF NoRun
    <3>2. r \in active[q][l].subscribers /\ r \in Requests
      BY <1>1, <2>4, <3>1 DEF CheckOrder, CheckInv, CheckShapes, Run
    <3>. QED
      BY <1>1, <2>1, <3>1, <3>2 DEF CheckOrder, RequestsHeld
  <2>. QED
    BY <2>3, <2>4 DEF RequestsHeld
<1>. QED
  BY <1>2, <1>3, <1>4

LEMMA OrderStep == ASSUME CheckOrder, [CheckNext]_checkVars PROVE CheckOrder'
<1>1. CheckInv' /\ RestTypes'
  BY CheckStep, RestStep, CheckAssumption DEF CheckOrder
<1>2. CASE TreeChanges \/ UNCHANGED checkVars
  <2>1. UNCHANGED <<active, queue, child, request, dead>>
    BY <1>2 DEF TreeChanges, checkVars
  <2>. QED
    BY <1>1, <2>1, OthersInOrder DEF CheckOrder, RequestsHeld
<1>3. CASE (\A q \in Processes : ProcessOrder(q)') /\ RequestsHeld'
  BY <1>1, <1>3 DEF CheckOrder
<1>. QED
  BY <1>2, <1>3, RequestInOrder, ReleaseInOrder, TurnInOrder, EndsInOrder, DiesInOrder DEF CheckNext

LEMMA ChecksInOrder == CheckSpec => []CheckOrder
<1>1. CheckOrder /\ [CheckNext]_checkVars => CheckOrder'
  BY OrderStep
<1>. QED
  BY <1>1, OrderInitially, PTL DEF CheckSpec

(* A process never runs two heavy checks at once, so that the two which    *)
(* OneHeavyCheck finds are of two processes (executeHeavy and              *)
(* heavyCheckQueues, check-runner.ts:664, 693).                            *)
THEOREM HeavyChecksTakeTurns == CheckSpec => []OneHeavyCheckEach
<1>1. CheckOrder => OneHeavyCheckEach
  BY DEF CheckOrder, ProcessOrder, OneHeavy, OneHeavyCheckEach
<1>. QED
  BY <1>1, ChecksInOrder, PTL

(* Joining, leaving, queues and deaths never leave a request without a run *)
(* that comes to its turn (runControllerCheckAsync, check-runner.ts:570).  *)
THEOREM WaitersAreServed == CheckSpec => []NobodyIsStranded
<1>1. ASSUME CheckOrder, NEW r \in Requests, request[r] = "waiting"
      PROVE  LET p == ProcessOf[r] IN \E k \in Keys :
                /\ r \in active[p][k].subscribers
                /\ \/ child[p][k] # NoChild
                   \/ /\ \E i \in 1 .. Len(queue[p]) : queue[p][i] = k
                      /\ LET first == Head(queue[p]) IN
                            \/ active[p][first].phase \in {"queued", "locking", "locked"}
                            \/ child[p][first] # NoChild
  <2>. DEFINE p == ProcessOf[r]
              first == Head(queue[p])
  <2>1. p \in Processes
    BY CheckAssumption DEF CheckAssumption
  <2>2. PICK k \in Keys : r \in active[p][k].subscribers
    BY <1>1 DEF CheckOrder, RequestsHeld
  <2>3. InOrder(p) /\ KnownRuns(p) /\ queue[p] \in Seq(Keys) /\ active[p] \in [Keys -> Run]
    BY <1>1, <2>1 DEF CheckOrder, ProcessOrder, RestTypes, CheckInv, CheckShapes
  <2>4. p \notin dead /\ active[p][k].phase # "none"
    BY <2>2, <2>3 DEF KnownRuns, InOrder, NoRun
  <2>5. CASE k[1] \notin Heavy
    BY <2>2, <2>3, <2>4, <2>5 DEF InOrder, KnownRuns
  <2>6. CASE k[1] \in Heavy
    <3>1. Queued(p, k)
      BY <2>3, <2>4, <2>6 DEF InOrder
    <3>2. queue[p] # <<>> /\ first \in Keys /\ 1 \in 1 .. Len(queue[p]) /\ queue[p][1] = first
      BY <2>3, <3>1 DEF Queued
    <3>3. Queued(p, first)
      BY <3>2 DEF Queued
    <3>4. active[p][first].phase \in {"queued", "locking", "locked", "running"}
      BY <2>3, <3>2, <3>3 DEF InOrder, Run
    <3>5. active[p][first].phase = "running" => child[p][first] # NoChild
      BY <2>3, <2>4, <3>2 DEF KnownRuns
    <3>. QED
      BY <2>2, <3>1, <3>4, <3>5 DEF Queued
  <2>. QED
    BY <2>5, <2>6
<1>2. CheckOrder => NobodyIsStranded
  BY <1>1 DEF NobodyIsStranded
<1>. QED
  BY <1>2, ChecksInOrder, PTL

-----------------------------------------------------------------------------
(***************************************************************************)
(* Adoption: the types, and that the work of users survives.               *)
(***************************************************************************)
Adopter == [mode : {"idle", "apply", "rollback"}, step : Steps, at : Nat \ {0},
            backup : Content, content : Content, results : Seq(Result)]

Shapes ==
    /\ files \in [Targets -> Content] /\ locked \in [Targets -> BOOLEAN]
    /\ backups \in [Targets -> SUBSET Content]
    /\ adopter \in [Transactions -> Adopter]
    /\ manifest \in [Transactions -> Seq(Result)]
    /\ edits \in [Targets -> Edit] /\ kills \in 0..MaxKills

(* Where a process is in its plan, and the manifest it goes back along.    *)
Positioned(t) ==
    /\ adopter[t].at \in DOMAIN Plan[t]
    /\ Len(adopter[t].results) < adopter[t].at
    /\ adopter[t].mode = "apply" => Len(adopter[t].results) = adopter[t].at - 1
    /\ adopter[t].mode = "rollback" => manifest[t] # <<>>
    /\ manifest[t] # <<>> => Len(manifest[t]) = Len(Plan[t])

(* The work of users in a content of f, or in all that a transaction has   *)
(* written so far, is in the backups kept.                                 *)
Safe(f, content, kept) == content \cap Edit \subseteq UNION kept[f]
SafeResults(t, results, kept) ==
    \A i \in DOMAIN results : /\ Safe(Plan[t][i].file, results[i].written, kept)
                              /\ Safe(Plan[t][i].file, results[i].backup, kept)

(* What a process means to write, it has read from the file or has in a    *)
(* backup; what it is about to replace or remove, and what it has written, *)
(* is backed up.                                                           *)
WorkIsSafe(t) ==
    /\ adopter[t].step = "lock" => adopter[t].content \cap Edit \subseteq Kept(File(t))
    /\ adopter[t].step \in {"replace", "remove"} => Safe(File(t), files[File(t)], backups)
    /\ adopter[t].step \in {"replace", "unlock"} => /\ Safe(File(t), adopter[t].content, backups)
                                                    /\ Safe(File(t), adopter[t].backup, backups)
    /\ SafeResults(t, adopter[t].results, backups) /\ SafeResults(t, manifest[t], backups)

AdoptionInv == Shapes /\ \A t \in Transactions : Positioned(t) /\ WorkIsSafe(t)

-----------------------------------------------------------------------------
LEMMA ContentFacts ==
    /\ NoFile \in Content /\ NoFile \cap Edit = {}
    /\ \A t \in Transactions : {t} \in Content
    /\ {0} \in Content /\ 0 \in Edit
<1>1. NoFile \in Content
  BY Zenon DEF Content
<1>2. Absence \notin Edit /\ 0 \in Edit
  BY AdoptionAssumption DEF AdoptionAssumption, Edit
<1>3. NoFile \cap Edit = {}
  BY <1>2, Zenon DEF NoFile
<1>4. \A t \in Transactions : {t} \in SUBSET (Transactions \cup Edit)
  OBVIOUS
<1>5. {0} \in SUBSET (Transactions \cup Edit)
  BY <1>2
<1>. QED
  BY <1>1, <1>2, <1>3, <1>4, <1>5, Zenon DEF Content

LEMMA PlanFacts ==
    ASSUME NEW t \in Transactions
    PROVE  /\ Plan[t] # <<>> /\ Len(Plan[t]) \in Nat \ {0} /\ DOMAIN Plan[t] = 1..Len(Plan[t])
           /\ \A i \in DOMAIN Plan[t] : Plan[t][i].file \in Targets
<1>. DEFINE Op == [kind : {"create", "install", "block"}, file : Targets]
<1>1. Plan[t] \in Seq(Op) /\ Plan[t] # <<>>
  BY AdoptionAssumption DEF AdoptionAssumption
<1>. HIDE DEF Op
<1>2. /\ Len(Plan[t]) \in Nat \ {0} /\ DOMAIN Plan[t] = 1..Len(Plan[t])
      /\ \A i \in DOMAIN Plan[t] : Plan[t][i] \in Op
  BY <1>1
<1>3. \A o \in Op : o.file \in Targets
  BY DEF Op
<1>. QED
  BY <1>1, <1>2, <1>3

LEMMA RestingFacts ==
    /\ Resting \in Adopter /\ Resting.mode = "idle" /\ Resting.at = 1
    /\ Resting.results = <<>> /\ Resting.step = "look"
<1>1. <<>> \in Seq(Result)
  OBVIOUS
<1>. QED
  BY <1>1, ContentFacts DEF Resting, Adopter, Steps

LEMMA AdoptionInitially == AdoptionInit => AdoptionInv
<1>. SUFFICES ASSUME AdoptionInit PROVE AdoptionInv
  OBVIOUS
<1>1. /\ files \in [Targets -> {NoFile, {0}}] /\ backups = [f \in Targets |-> {}]
      /\ locked = [f \in Targets |-> FALSE] /\ edits = [f \in Targets |-> 0] /\ kills = 0
      /\ adopter = [t \in Transactions |-> Resting] /\ manifest = [t \in Transactions |-> <<>>]
  BY DEF AdoptionInit
<1>2. files \in [Targets -> Content]
  BY <1>1, ContentFacts
<1>3. adopter \in [Transactions -> Adopter]
  BY <1>1, RestingFacts
<1>4. manifest \in [Transactions -> Seq(Result)]
  BY <1>1
<1>5. kills \in 0..MaxKills
  BY <1>1, AdoptionAssumption DEF AdoptionAssumption
<1>6. Shapes
  BY <1>1, <1>2, <1>3, <1>4, <1>5, ContentFacts DEF Shapes
<1>7. ASSUME NEW t \in Transactions PROVE adopter[t] = Resting /\ manifest[t] = <<>>
  BY <1>1
<1>8. ASSUME NEW t \in Transactions PROVE Positioned(t)
  <2>1. Resting.at \in DOMAIN Plan[t] /\ Resting.mode = "idle" /\ Len(Resting.results) < Resting.at
    BY PlanFacts, RestingFacts
  <2>2. adopter[t] = Resting /\ manifest[t] = <<>>
    BY <1>7
  <2>. QED
    BY <2>1, <2>2 DEF Positioned
<1>9. \A t \in Transactions : SafeResults(t, <<>>, backups)
  BY DEF SafeResults
<1>10. ASSUME NEW t \in Transactions PROVE WorkIsSafe(t)
  BY <1>7, <1>9, RestingFacts DEF WorkIsSafe
<1>. QED
  BY <1>6, <1>8, <1>10 DEF AdoptionInv

-----------------------------------------------------------------------------
(* What is safe stays safe: backups are never deleted.                     *)

BackupsGrow == \A f \in Targets : backups[f] \subseteq backups'[f]

LEMMA StaysSafe ==
    ASSUME NEW f \in Targets, NEW content, Safe(f, content, backups), BackupsGrow
    PROVE  Safe(f, content, backups')
<1>1. UNION backups[f] \subseteq UNION backups'[f]
  BY DEF BackupsGrow
<1>. QED
  BY <1>1 DEF Safe

LEMMA ResultsStaySafe ==
    ASSUME NEW t \in Transactions, NEW results \in Seq(Result), Len(results) <= Len(Plan[t]),
           SafeResults(t, results, backups), BackupsGrow
    PROVE  SafeResults(t, results, backups')
<1>1. \A i \in DOMAIN results : Plan[t][i].file \in Targets
  BY PlanFacts
<1>. QED
  BY <1>1, StaysSafe DEF SafeResults

(* Results stay safe with one more, of the operation the process is at.    *)
LEMMA OneMoreResult ==
    ASSUME NEW t \in Transactions, NEW results \in Seq(Result), NEW kept,
           SafeResults(t, results, kept), NEW r \in Result,
           Safe(Plan[t][Len(results) + 1].file, r.written, kept),
           Safe(Plan[t][Len(results) + 1].file, r.backup, kept)
    PROVE  SafeResults(t, Append(results, r), kept)
<1>. DEFINE longer == Append(results, r)
<1>1. /\ longer \in Seq(Result) /\ DOMAIN longer = 1..Len(results) + 1 /\ longer[Len(results) + 1] = r
      /\ \A i \in DOMAIN results : longer[i] = results[i]
      /\ DOMAIN results = 1..Len(results)
  OBVIOUS
<1>. HIDE DEF longer
<1>2. SafeResults(t, longer, kept)
  <2>1. SUFFICES ASSUME NEW i \in DOMAIN longer
                 PROVE  /\ Safe(Plan[t][i].file, longer[i].written, kept)
                        /\ Safe(Plan[t][i].file, longer[i].backup, kept)
    BY DEF SafeResults
  <2>2. i = Len(results) + 1 \/ i \in DOMAIN results
    BY <1>1
  <2>. QED
    BY <1>1, <2>2 DEF SafeResults
<1>. QED
  BY <1>2 DEF longer

(* A step of one process: what it has to do for the others.                *)

KeepsWork == \A f \in Targets : Kept(f) \cap Edit \subseteq Kept(f)'

Considerate(t) ==
    /\ files' \in [Targets -> Content] /\ locked' \in [Targets -> BOOLEAN]
    /\ backups' \in [Targets -> SUBSET Content] /\ edits' \in [Targets -> Edit] /\ kills' \in 0..MaxKills
    /\ BackupsGrow /\ KeepsWork
    /\ \A f \in Targets : files'[f] = files[f] \/ Safe(f, files'[f], backups')

(* What a process does next.                                               *)
MovedOn(t) ==
    /\ adopter' \in [Transactions -> Adopter] /\ manifest' \in [Transactions -> Seq(Result)]
    /\ \A u \in Transactions \ {t} : adopter'[u] = adopter[u] /\ manifest'[u] = manifest[u]
    /\ Positioned(t)' /\ WorkIsSafe(t)'

LEMMA SequencesOf ==
    ASSUME AdoptionInv, NEW u \in Transactions
    PROVE  /\ adopter[u] \in Adopter /\ adopter[u].results \in Seq(Result) /\ manifest[u] \in Seq(Result)
           /\ Len(adopter[u].results) < Len(Plan[u]) /\ Len(manifest[u]) <= Len(Plan[u])
           /\ Positioned(u) /\ WorkIsSafe(u) /\ File(u) \in Targets
           /\ adopter[u].at \in 1..Len(Plan[u])
<1>1. Positioned(u) /\ WorkIsSafe(u) /\ adopter[u] \in Adopter /\ manifest[u] \in Seq(Result)
  BY DEF AdoptionInv, Shapes
<1>2. adopter[u].results \in Seq(Result) /\ adopter[u].at \in Nat
  BY <1>1 DEF Adopter
<1>3. adopter[u].at \in 1..Len(Plan[u])
  BY <1>1, PlanFacts DEF Positioned
<1>4. Len(adopter[u].results) < Len(Plan[u]) /\ Len(manifest[u]) <= Len(Plan[u])
  BY <1>1, <1>2, <1>3, PlanFacts DEF Positioned
<1>5. File(u) \in Targets
  BY <1>1, PlanFacts DEF Positioned, File, Operation
<1>. QED
  BY <1>1, <1>2, <1>3, <1>4, <1>5

LEMMA OthersAreSafe ==
    ASSUME AdoptionInv, NEW t \in Transactions, Considerate(t), MovedOn(t)
    PROVE  AdoptionInv'
<1>1. Shapes'
  BY DEF Considerate, MovedOn, Shapes
<1>2. SUFFICES ASSUME NEW u \in Transactions, u # t PROVE Positioned(u)' /\ WorkIsSafe(u)'
  BY <1>1 DEF AdoptionInv, MovedOn
<1>3. adopter'[u] = adopter[u] /\ manifest'[u] = manifest[u] /\ BackupsGrow
  BY <1>2 DEF MovedOn, Considerate
<1>4. Positioned(u)'
  BY <1>3, SequencesOf DEF Positioned
<1>5. File(u)' = File(u) /\ File(u) \in Targets
  BY <1>3, SequencesOf DEF File, Operation
<1>6. SafeResults(u, adopter[u].results, backups') /\ SafeResults(u, manifest[u], backups')
  <2>1. SafeResults(u, adopter[u].results, backups) /\ SafeResults(u, manifest[u], backups)
    BY SequencesOf DEF WorkIsSafe
  <2>. QED
    BY <1>3, <2>1, SequencesOf, ResultsStaySafe
<1>7. adopter[u].step = "lock" => adopter[u].content \cap Edit \subseteq Kept(File(u))'
  BY <1>3, <1>5, SequencesOf DEF WorkIsSafe, Considerate, KeepsWork, Kept
<1>8. adopter[u].step \in {"replace", "remove"} => Safe(File(u), files'[File(u)], backups')
  BY <1>3, <1>5, SequencesOf, StaysSafe DEF WorkIsSafe, Considerate
<1>9. adopter[u].step \in {"replace", "unlock"} => /\ Safe(File(u), adopter[u].content, backups')
                                                   /\ Safe(File(u), adopter[u].backup, backups')
  BY <1>3, <1>5, SequencesOf, StaysSafe DEF WorkIsSafe
<1>10. WorkIsSafe(u)'
  BY <1>3, <1>5, <1>6, <1>7, <1>8, <1>9 DEF WorkIsSafe, Kept
<1>. QED
  BY <1>4, <1>10

(* A process that rests, whatever its transaction has left.                *)
LEMMA RestIsSound ==
    ASSUME AdoptionInv, NEW t \in Transactions, adopter'[t] = Resting,
           SafeResults(t, manifest'[t], backups'), manifest'[t] # <<>> => Len(manifest'[t]) = Len(Plan[t])
    PROVE  Positioned(t)' /\ WorkIsSafe(t)'
<1>1. Resting.at \in DOMAIN Plan[t] /\ Len(Resting.results) < Resting.at
  BY PlanFacts, RestingFacts
<1>2. SafeResults(t, <<>>, backups')
  BY DEF SafeResults
<1>3. Positioned(t)'
  BY <1>1, RestingFacts DEF Positioned
<1>4. WorkIsSafe(t)'
  BY <1>2, RestingFacts DEF WorkIsSafe
<1>. QED
  BY <1>3, <1>4

LEMMA RestsMovesOn ==
    ASSUME AdoptionInv, NEW t \in Transactions, adopter' = [adopter EXCEPT ![t] = Resting],
           manifest' \in [Transactions -> Seq(Result)],
           \A u \in Transactions \ {t} : manifest'[u] = manifest[u],
           SafeResults(t, manifest'[t], backups'), manifest'[t] # <<>> => Len(manifest'[t]) = Len(Plan[t])
    PROVE  MovedOn(t)
<1>1. adopter \in [Transactions -> Adopter]
  BY DEF AdoptionInv, Shapes
<1>2. adopter' \in [Transactions -> Adopter]
  BY <1>1, RestingFacts
<1>3. adopter'[t] = Resting /\ \A u \in Transactions \ {t} : adopter'[u] = adopter[u]
  BY <1>1
<1>4. Positioned(t)' /\ WorkIsSafe(t)'
  BY <1>3, RestIsSound
<1>. QED
  BY <1>2, <1>3, <1>4 DEF MovedOn

(* A process that comes to an operation.                                   *)
LEMMA ComesIsSound ==
    ASSUME AdoptionInv, NEW t \in Transactions, NEW a \in Adopter,
           adopter' = [adopter EXCEPT ![t] = a], UNCHANGED manifest, BackupsGrow,
           a.step = "look", a.at \in 1..Len(Plan[t]), Len(a.results) < a.at,
           a.mode = "apply" => Len(a.results) = a.at - 1,
           a.mode = "rollback" => manifest[t] # <<>>,
           SafeResults(t, a.results, backups')
    PROVE  MovedOn(t)
<1>1. /\ adopter \in [Transactions -> Adopter] /\ manifest \in [Transactions -> Seq(Result)]
  BY DEF AdoptionInv, Shapes
<1>2. adopter' \in [Transactions -> Adopter] /\ adopter'[t] = a
      /\ \A u \in Transactions \ {t} : adopter'[u] = adopter[u]
  BY <1>1
<1>3. Positioned(t)'
  BY <1>2, PlanFacts, SequencesOf DEF Positioned
<1>4. SafeResults(t, manifest[t], backups')
  <2>1. SafeResults(t, manifest[t], backups)
    BY SequencesOf DEF WorkIsSafe
  <2>. QED
    BY <2>1, SequencesOf, ResultsStaySafe
<1>5. WorkIsSafe(t)'
  BY <1>2, <1>4 DEF WorkIsSafe
<1>. QED
  BY <1>1, <1>2, <1>3, <1>5 DEF MovedOn

LEMMA MovesIsSound ==
    ASSUME AdoptionInv, NEW t \in Transactions, NEW at \in 1..Len(Plan[t]), NEW results \in Seq(Result),
           Moves(t, at, results), UNCHANGED manifest, BackupsGrow,
           SafeResults(t, results, backups'), Len(results) < at,
           adopter[t].mode = "apply" => Len(results) = at - 1
    PROVE  MovedOn(t)
<1>. DEFINE a == [Resting EXCEPT !.mode = adopter[t].mode, !.at = at, !.results = results]
<1>1. adopter[t].mode \in {"idle", "apply", "rollback"} /\ at \in Nat \ {0}
      /\ (adopter[t].mode = "rollback" => manifest[t] # <<>>)
  BY SequencesOf, PlanFacts DEF Adopter, Positioned
<1>2. /\ a.mode = adopter[t].mode /\ a.at = at /\ a.results = results /\ a.step = "look"
  BY RestingFacts DEF Adopter
<1>3. a \in Adopter
  BY <1>1, RestingFacts DEF Adopter
<1>4. adopter' = [adopter EXCEPT ![t] = a]
  BY DEF Moves
<1>. HIDE DEF a
<1>. QED
  BY <1>1, <1>2, <1>3, <1>4, ComesIsSound

LEMMA AppliedIsSound ==
    ASSUME AdoptionInv, NEW t \in Transactions, adopter[t].mode = "apply", NEW r \in Result,
           Applied(t, r), BackupsGrow,
           Safe(File(t), r.written, backups'), Safe(File(t), r.backup, backups')
    PROVE  MovedOn(t)
<1>. DEFINE results == Append(adopter[t].results, r)
<1>1. /\ adopter[t].results \in Seq(Result) /\ Len(adopter[t].results) = adopter[t].at - 1
      /\ adopter[t].at \in 1..Len(Plan[t]) /\ Len(Plan[t]) \in Nat
  BY SequencesOf, PlanFacts DEF Positioned
<1>2. results \in Seq(Result) /\ Len(results) = adopter[t].at
  BY <1>1
<1>3. SafeResults(t, adopter[t].results, backups')
  <2>1. SafeResults(t, adopter[t].results, backups)
    BY SequencesOf DEF WorkIsSafe
  <2>. QED
    BY <2>1, SequencesOf, ResultsStaySafe
<1>4. SafeResults(t, results, backups')
  <2>1. File(t) = Plan[t][Len(adopter[t].results) + 1].file
    BY <1>1 DEF File, Operation
  <2>. QED
    BY <1>1, <1>3, <2>1, OneMoreResult
<1>5. /\ MoreToDo(t, results) <=> adopter[t].at < Len(Plan[t])
      /\ IF MoreToDo(t, results) THEN Moves(t, adopter[t].at + 1, results) /\ UNCHANGED manifest
         ELSE /\ adopter' = [adopter EXCEPT ![t] = Resting]
              /\ manifest' = IF \E i \in DOMAIN results : results[i].status = "failed"
                             THEN manifest ELSE [manifest EXCEPT ![t] = results]
  BY <1>2 DEF Applied, MoreToDo
<1>. HIDE DEF results
<1>6. CASE MoreToDo(t, results)
  <2>1. adopter[t].at + 1 \in 1..Len(Plan[t]) /\ Len(results) < adopter[t].at + 1
        /\ Len(results) = adopter[t].at + 1 - 1
    BY <1>1, <1>2, <1>5, <1>6
  <2>2. Moves(t, adopter[t].at + 1, results) /\ UNCHANGED manifest
    BY <1>5, <1>6
  <2>. QED
    BY <1>2, <1>4, <2>1, <2>2, MovesIsSound
<1>7. CASE ~MoreToDo(t, results)
  <2>1. manifest \in [Transactions -> Seq(Result)] /\ Len(results) = Len(Plan[t])
    BY <1>1, <1>2, <1>5, <1>7 DEF AdoptionInv, Shapes
  <2>2. manifest' = manifest \/ manifest' = [manifest EXCEPT ![t] = results]
    BY <1>5, <1>7
  <2>3. manifest' \in [Transactions -> Seq(Result)] /\ (manifest'[t] = manifest[t] \/ manifest'[t] = results)
        /\ \A u \in Transactions \ {t} : manifest'[u] = manifest[u]
    BY <1>2, <2>1, <2>2
  <2>4. SafeResults(t, manifest[t], backups')
    <3>1. SafeResults(t, manifest[t], backups)
      BY SequencesOf DEF WorkIsSafe
    <3>. QED
      BY <3>1, SequencesOf, ResultsStaySafe
  <2>5. manifest[t] # <<>> => Len(manifest[t]) = Len(Plan[t])
    BY SequencesOf DEF Positioned
  <2>6. adopter' = [adopter EXCEPT ![t] = Resting]
    BY <1>5, <1>7
  <2>. QED
    BY <1>4, <2>1, <2>3, <2>4, <2>5, <2>6, RestsMovesOn
<1>. QED
  BY <1>6, <1>7

LEMMA RevertedIsSound ==
    ASSUME AdoptionInv, NEW t \in Transactions, adopter[t].mode = "rollback", Reverted(t), BackupsGrow
    PROVE  MovedOn(t)
<1>1. SafeResults(t, <<>>, backups') /\ <<>> \in Seq(Result) /\ Len(<<>>) = 0
  BY DEF SafeResults
<1>2. CASE adopter[t].at > 1
  <2>1. adopter[t].at - 1 \in 1..Len(Plan[t]) /\ Len(<<>>) < adopter[t].at - 1
    BY <1>1, <1>2, SequencesOf, PlanFacts
  <2>2. Moves(t, adopter[t].at - 1, <<>>) /\ UNCHANGED manifest
    BY <1>2 DEF Reverted
  <2>. QED
    BY <1>1, <2>1, <2>2, MovesIsSound
<1>3. CASE ~(adopter[t].at > 1)
  <2>1. adopter' = [adopter EXCEPT ![t] = Resting] /\ manifest' = manifest
    BY <1>3 DEF Reverted
  <2>2. SafeResults(t, manifest[t], backups')
    <3>1. SafeResults(t, manifest[t], backups)
      BY SequencesOf DEF WorkIsSafe
    <3>. QED
      BY <3>1, SequencesOf, ResultsStaySafe
  <2>3. manifest \in [Transactions -> Seq(Result)] /\ (manifest[t] # <<>> => Len(manifest[t]) = Len(Plan[t]))
    BY SequencesOf DEF AdoptionInv, Shapes, Positioned
  <2>. QED
    BY <2>1, <2>2, <2>3, RestsMovesOn
<1>. QED
  BY <1>2, <1>3

(* A process that goes on with its operation.                              *)
LEMMA GoesOnIsSound ==
    ASSUME AdoptionInv, NEW t \in Transactions, NEW a \in Adopter,
           a.mode = adopter[t].mode, a.at = adopter[t].at, a.results = adopter[t].results,
           adopter' = [adopter EXCEPT ![t] = a], UNCHANGED manifest, BackupsGrow,
           a.step = "lock" => a.content \cap Edit \subseteq files'[File(t)] \cup UNION backups'[File(t)],
           a.step \in {"replace", "remove"} => Safe(File(t), files'[File(t)], backups'),
           a.step \in {"replace", "unlock"} => /\ Safe(File(t), a.content, backups')
                                              /\ Safe(File(t), a.backup, backups')
    PROVE  MovedOn(t)
<1>1. adopter \in [Transactions -> Adopter] /\ manifest \in [Transactions -> Seq(Result)]
  BY DEF AdoptionInv, Shapes
<1>2. adopter' \in [Transactions -> Adopter] /\ adopter'[t] = a
      /\ \A u \in Transactions \ {t} : adopter'[u] = adopter[u]
  BY <1>1
<1>3. Positioned(t)'
  BY <1>2, SequencesOf DEF Positioned
<1>4. File(t)' = File(t)
  BY <1>2 DEF File, Operation
<1>5. SafeResults(t, adopter[t].results, backups') /\ SafeResults(t, manifest[t], backups')
  <2>1. SafeResults(t, adopter[t].results, backups) /\ SafeResults(t, manifest[t], backups)
    BY SequencesOf DEF WorkIsSafe
  <2>. QED
    BY <2>1, SequencesOf, ResultsStaySafe
<1>6. WorkIsSafe(t)'
  BY <1>2, <1>4, <1>5 DEF WorkIsSafe, Kept
<1>. QED
  BY <1>1, <1>2, <1>3, <1>6 DEF MovedOn

-----------------------------------------------------------------------------
(* One lemma for each action.                                              *)

LEMMA QuietIsConsiderate ==
    ASSUME AdoptionInv, NEW t \in Transactions, UNCHANGED <<files, backups, edits>>,
           locked' \in [Targets -> BOOLEAN], kills' \in 0..MaxKills
    PROVE  Considerate(t) /\ BackupsGrow /\ KeepsWork
<1>1. BackupsGrow /\ KeepsWork
  BY DEF BackupsGrow, KeepsWork, Kept
<1>. QED
  BY <1>1 DEF AdoptionInv, Shapes, Considerate

LEMMA SmallStepFacts ==
    ASSUME AdoptionInv
    PROVE  locked \in [Targets -> BOOLEAN] /\ kills \in 0..MaxKills /\ files \in [Targets -> Content]
           /\ backups \in [Targets -> SUBSET Content] /\ edits \in [Targets -> Edit]
           /\ adopter \in [Transactions -> Adopter] /\ manifest \in [Transactions -> Seq(Result)]
  BY DEF AdoptionInv, Shapes

LEMMA NothingFacts ==
    ASSUME NEW status \in {"skipped", "applied", "failed"}
    PROVE  /\ Nothing(status) \in Result
           /\ \A kept : \A f \in Targets : Safe(f, Nothing(status).written, kept) /\ Safe(f, Nothing(status).backup, kept)
<1>1. Nothing(status) \in Result
  BY ContentFacts DEF Nothing, Result
<1>2. Nothing(status).written = NoFile /\ Nothing(status).backup = NoFile
  BY DEF Nothing
<1>. QED
  BY <1>1, <1>2, ContentFacts DEF Safe

LEMMA BeginKeeps ==
    ASSUME AdoptionInv, NEW t \in Transactions, Begin(t)
    PROVE  AdoptionInv' /\ KeepsWork
<1>. DEFINE a == IF manifest[t] = <<>> THEN [Resting EXCEPT !.mode = "apply"]
                 ELSE [Resting EXCEPT !.mode = "rollback", !.at = Len(Plan[t])]
<1>1. adopter' = [adopter EXCEPT ![t] = a] /\ UNCHANGED <<files, locked, backups, manifest, edits, kills>>
  BY DEF Begin
<1>2. /\ a \in Adopter /\ a.step = "look" /\ a.at \in 1..Len(Plan[t]) /\ Len(a.results) < a.at
      /\ a.mode = "apply" => Len(a.results) = a.at - 1
      /\ a.mode = "rollback" => manifest[t] # <<>>
      /\ a.results = <<>>
  <2>1. Len(Plan[t]) \in Nat \ {0} /\ Len(<<>>) = 0
    BY PlanFacts
  <2>2. CASE manifest[t] = <<>>
    <3>1. a.mode = "apply" /\ a.step = "look" /\ a.at = 1 /\ a.results = <<>> /\ a \in Adopter
      BY <2>2, RestingFacts DEF Adopter
    <3>. QED
      BY <2>1, <3>1
  <2>3. CASE manifest[t] # <<>>
    <3>1. a.mode = "rollback" /\ a.step = "look" /\ a.at = Len(Plan[t]) /\ a.results = <<>> /\ a \in Adopter
      BY <2>1, <2>3, RestingFacts DEF Adopter
    <3>. QED
      BY <2>1, <2>3, <3>1
  <2>. QED
    BY <2>2, <2>3
<1>. HIDE DEF a
<1>3. Considerate(t) /\ BackupsGrow /\ KeepsWork
  BY <1>1, QuietIsConsiderate, SmallStepFacts
<1>4. SafeResults(t, a.results, backups')
  BY <1>2 DEF SafeResults
<1>5. MovedOn(t)
  BY <1>1, <1>2, <1>3, <1>4, ComesIsSound
<1>. QED
  BY <1>3, <1>5, OthersAreSafe

LEMMA LookKeeps ==
    ASSUME AdoptionInv, NEW t \in Transactions, Look(t)
    PROVE  AdoptionInv' /\ KeepsWork
<1>1. UNCHANGED <<files, locked, backups, edits, kills>> /\ adopter[t].mode = "apply" /\ File(t) \in Targets
  BY SequencesOf DEF Look, At
<1>2. Considerate(t) /\ BackupsGrow /\ KeepsWork
  BY <1>1, QuietIsConsiderate, SmallStepFacts
<1>3. MovedOn(t)
  <2>1. CASE Wanted(t) = files[File(t)]
    <3>1. Applied(t, Nothing("skipped"))
      BY <2>1 DEF Look
    <3>. QED
      BY <1>1, <1>2, <3>1, NothingFacts, AppliedIsSound
  <2>2. CASE Wanted(t) # files[File(t)]
    <3>1. Goes(t, "lock", Wanted(t)) /\ UNCHANGED manifest
      BY <2>2 DEF Look
    <3>2. Wanted(t) \in Content /\ Wanted(t) \cap Edit \subseteq files[File(t)]
      <4>1. files[File(t)] \in Content /\ {t} \in Content /\ {t} \cap Edit = {}
        BY <1>1, SmallStepFacts, ContentFacts, AdoptionAssumption DEF AdoptionAssumption, Edit
      <4>2. (files[File(t)] \cap Edit) \cup {t} \in Content
        BY DEF Content
      <4>. QED
        BY <4>1, <4>2 DEF Wanted
    <3>. DEFINE a == [adopter[t] EXCEPT !.step = "lock", !.content = Wanted(t)]
    <3>3. /\ a \in Adopter /\ a.mode = adopter[t].mode /\ a.at = adopter[t].at
          /\ a.results = adopter[t].results /\ a.step = "lock" /\ a.content = Wanted(t)
      BY <3>2, SequencesOf DEF Adopter, Steps
    <3>4. adopter' = [adopter EXCEPT ![t] = a]
      BY <3>1 DEF Goes
    <3>. HIDE DEF a
    <3>. QED
      BY <1>1, <1>2, <3>1, <3>2, <3>3, <3>4, GoesOnIsSound
  <2>. QED
    BY <2>1, <2>2
<1>. QED
  BY <1>2, <1>3, OthersAreSafe

(* What a transaction did to the file it looks at, going back.             *)
LEMMA ManifestEntry ==
    ASSUME AdoptionInv, NEW t \in Transactions, adopter[t].mode = "rollback"
    PROVE  /\ manifest[t][adopter[t].at] \in Result
           /\ Safe(File(t), manifest[t][adopter[t].at].written, backups)
           /\ Safe(File(t), manifest[t][adopter[t].at].backup, backups)
<1>1. /\ manifest[t] \in Seq(Result) /\ Len(manifest[t]) = Len(Plan[t]) /\ adopter[t].at \in 1..Len(Plan[t])
      /\ SafeResults(t, manifest[t], backups)
  BY SequencesOf DEF Positioned, WorkIsSafe
<1>2. adopter[t].at \in DOMAIN manifest[t] /\ manifest[t][adopter[t].at] \in Result
  BY <1>1
<1>. QED
  BY <1>1, <1>2 DEF SafeResults, File, Operation

LEMMA LookBackKeeps ==
    ASSUME AdoptionInv, NEW t \in Transactions, LookBack(t)
    PROVE  AdoptionInv' /\ KeepsWork
<1>. DEFINE r == manifest[t][adopter[t].at]
<1>1. /\ UNCHANGED <<files, locked, backups, edits, kills>> /\ adopter[t].mode = "rollback"
      /\ File(t) \in Targets /\ files[File(t)] \in Content
  BY SequencesOf, SmallStepFacts DEF LookBack, At
<1>2. Considerate(t) /\ BackupsGrow /\ KeepsWork
  BY <1>1, QuietIsConsiderate, SmallStepFacts
<1>3. r \in Result /\ Safe(File(t), r.written, backups) /\ Safe(File(t), r.backup, backups)
  BY <1>1, ManifestEntry
<1>4. \/ Reverted(t)
      \/ /\ ~Diverged(t, r) /\ (r.backup = NoFile => files[File(t)] # NoFile)
         /\ Goes(t, IF r.backup = NoFile THEN "remove" ELSE "lock", r.backup) /\ UNCHANGED manifest
  BY DEF LookBack
<1>. HIDE DEF r
<1>5. MovedOn(t)
  <2>1. CASE Reverted(t)
    BY <1>1, <1>2, <2>1, RevertedIsSound
  <2>2. CASE ~Reverted(t)
    <3>. DEFINE step == IF r.backup = NoFile THEN "remove" ELSE "lock"
                a == [adopter[t] EXCEPT !.step = step, !.content = r.backup]
    <3>1. step \in Steps /\ r.backup \in Content /\ (step = "remove" <=> r.backup = NoFile)
          /\ step \in {"remove", "lock"}
      BY <1>3 DEF Steps, Result
    <3>2. adopter' = [adopter EXCEPT ![t] = a] /\ UNCHANGED manifest
      BY <1>4, <2>2 DEF Goes
    <3>3. step = "remove" => files[File(t)] = r.written
      BY <1>4, <2>2, <3>1 DEF Diverged
    <3>4. /\ a \in Adopter /\ a.mode = adopter[t].mode /\ a.at = adopter[t].at
          /\ a.results = adopter[t].results /\ a.step = step /\ a.content = r.backup
      BY <3>1, SequencesOf DEF Adopter
    <3>. HIDE DEF a, step
    <3>5. r.backup \cap Edit \subseteq files'[File(t)] \cup UNION backups'[File(t)]
      BY <1>1, <1>3 DEF Safe
    <3>6. step = "remove" => Safe(File(t), files'[File(t)], backups')
      BY <1>1, <1>3, <3>3 DEF Safe
    <3>. QED
      BY <1>2, <3>1, <3>2, <3>4, <3>5, <3>6, GoesOnIsSound
  <2>. QED
    BY <2>1, <2>2
<1>. QED
  BY <1>2, <1>5, OthersAreSafe

LEMMA EndsIsSound ==
    ASSUME AdoptionInv, NEW t \in Transactions, adopter[t].mode # "idle", NEW r \in Result,
           Ends(t, r), BackupsGrow, Safe(File(t), r.written, backups'), Safe(File(t), r.backup, backups')
    PROVE  MovedOn(t)
<1>1. CASE adopter[t].mode = "apply"
  BY <1>1, AppliedIsSound DEF Ends
<1>2. CASE adopter[t].mode # "apply"
  <2>1. adopter[t].mode = "rollback"
    BY <1>2, SequencesOf DEF Adopter
  <2>2. Reverted(t)
    BY <1>2 DEF Ends
  <2>. QED
    BY <2>1, <2>2, RevertedIsSound
<1>. QED
  BY <1>1, <1>2

LEMMA LockKeeps ==
    ASSUME AdoptionInv, NEW t \in Transactions, Lock(t)
    PROVE  AdoptionInv' /\ KeepsWork
<1>. DEFINE f == File(t)
<1>1. /\ UNCHANGED <<files, edits, kills>> /\ adopter[t].mode # "idle" /\ adopter[t].step = "lock"
      /\ f \in Targets /\ files[f] \in Content
  BY SequencesOf, SmallStepFacts DEF Lock
<1>2. CASE locked[f]
  <2>1. Ends(t, Nothing("failed")) /\ UNCHANGED <<locked, backups>>
    BY <1>2 DEF Lock
  <2>2. Considerate(t) /\ BackupsGrow /\ KeepsWork
    BY <1>1, <2>1, QuietIsConsiderate, SmallStepFacts
  <2>3. MovedOn(t)
    BY <1>1, <2>1, <2>2, NothingFacts, EndsIsSound
  <2>. QED
    BY <2>2, <2>3, OthersAreSafe
<1>3. CASE ~locked[f]
  <2>. DEFINE a == [adopter[t] EXCEPT !.step = "replace", !.backup = files[f]]
  <2>1. /\ locked' = [locked EXCEPT ![f] = TRUE]
        /\ backups' = [backups EXCEPT ![f] = backups[f] \cup ({files[f]} \ {NoFile})]
        /\ adopter' = [adopter EXCEPT ![t] = a] /\ UNCHANGED manifest
    BY <1>3 DEF Lock, BackedUp
  <2>2. /\ a \in Adopter /\ a.mode = adopter[t].mode /\ a.at = adopter[t].at
        /\ a.results = adopter[t].results /\ a.step = "replace" /\ a.content = adopter[t].content /\ a.backup = files[f]
    BY <1>1, SequencesOf DEF Adopter, Steps
  <2>. HIDE DEF a
  <2>3. locked' \in [Targets -> BOOLEAN] /\ backups' \in [Targets -> SUBSET Content]
    BY <1>1, <2>1, SmallStepFacts
  <2>4. BackupsGrow /\ backups'[f] = backups[f] \cup ({files[f]} \ {NoFile})
    BY <1>1, <2>1, SmallStepFacts DEF BackupsGrow
  <2>5. KeepsWork
    BY <1>1, <2>4 DEF KeepsWork, Kept, BackupsGrow
  <2>6. Considerate(t)
    BY <1>1, <2>3, <2>4, <2>5, SmallStepFacts DEF Considerate
  <2>7. files[f] \cap Edit \subseteq UNION backups'[f]
    <3>1. CASE files[f] = NoFile
      BY <3>1, ContentFacts
    <3>2. CASE files[f] # NoFile
      BY <2>4, <3>2
    <3>. QED
      BY <3>1, <3>2
  <2>8. adopter[t].content \cap Edit \subseteq UNION backups'[f]
    <3>1. adopter[t].content \cap Edit \subseteq files[f] \cup UNION backups[f]
      BY <1>1, SequencesOf DEF WorkIsSafe, Kept
    <3>2. UNION backups[f] \subseteq UNION backups'[f]
      BY <2>4
    <3>. QED
      BY <2>7, <3>1, <3>2
  <2>9. MovedOn(t)
    BY <1>1, <2>1, <2>2, <2>4, <2>7, <2>8, GoesOnIsSound DEF Safe
  <2>. QED
    BY <2>5, <2>6, <2>9, OthersAreSafe
<1>. QED
  BY <1>2, <1>3

(* The change of a file whose content is backed up.                        *)
LEMMA ChangeIsConsiderate ==
    ASSUME AdoptionInv, NEW t \in Transactions, NEW f \in Targets, NEW content \in Content,
           files' = [files EXCEPT ![f] = content], UNCHANGED <<locked, backups, edits, kills>>,
           Safe(f, files[f], backups), Safe(f, content, backups)
    PROVE  Considerate(t) /\ BackupsGrow /\ KeepsWork
<1>1. /\ files' \in [Targets -> Content] /\ files'[f] = content
      /\ \A g \in Targets \ {f} : files'[g] = files[g]
  BY SmallStepFacts
<1>2. BackupsGrow
  BY DEF BackupsGrow
<1>3. KeepsWork
  BY <1>1 DEF KeepsWork, Kept, Safe
<1>. QED
  BY <1>1, <1>2, <1>3, SmallStepFacts DEF Considerate

LEMMA ReplaceKeeps ==
    ASSUME AdoptionInv, NEW t \in Transactions, Replace(t)
    PROVE  AdoptionInv' /\ KeepsWork
<1>. DEFINE f == File(t)
            a == [adopter[t] EXCEPT !.step = "unlock", !.content = adopter[t].content]
<1>1. /\ files' = [files EXCEPT ![f] = adopter[t].content] /\ UNCHANGED <<locked, backups, manifest, edits, kills>>
      /\ adopter' = [adopter EXCEPT ![t] = a] /\ adopter[t].step = "replace"
  BY DEF Replace, Goes
<1>2. /\ f \in Targets /\ adopter[t].content \in Content /\ Safe(f, files[f], backups)
      /\ Safe(f, adopter[t].content, backups) /\ Safe(f, adopter[t].backup, backups)
  BY <1>1, SequencesOf DEF WorkIsSafe, Adopter
<1>3. Considerate(t) /\ BackupsGrow /\ KeepsWork
  BY <1>1, <1>2, ChangeIsConsiderate
<1>4. /\ a \in Adopter /\ a.mode = adopter[t].mode /\ a.at = adopter[t].at /\ a.results = adopter[t].results
      /\ a.step = "unlock" /\ a.content = adopter[t].content /\ a.backup = adopter[t].backup
  BY SequencesOf DEF Adopter, Steps
<1>. HIDE DEF a
<1>5. MovedOn(t)
  BY <1>1, <1>2, <1>3, <1>4, GoesOnIsSound
<1>. QED
  BY <1>3, <1>5, OthersAreSafe

LEMMA UnlockKeeps ==
    ASSUME AdoptionInv, NEW t \in Transactions, Unlock(t)
    PROVE  AdoptionInv' /\ KeepsWork
<1>. DEFINE r == [status |-> "applied", backup |-> adopter[t].backup, written |-> adopter[t].content]
<1>1. /\ locked' = [locked EXCEPT ![File(t)] = FALSE] /\ UNCHANGED <<files, backups, edits, kills>>
      /\ Ends(t, r) /\ adopter[t].mode # "idle" /\ adopter[t].step = "unlock"
  BY DEF Unlock
<1>2. r \in Result /\ Safe(File(t), r.written, backups') /\ Safe(File(t), r.backup, backups')
  BY <1>1, SequencesOf DEF WorkIsSafe, Adopter, Result
<1>. HIDE DEF r
<1>3. locked' \in [Targets -> BOOLEAN]
  BY <1>1, SmallStepFacts
<1>4. Considerate(t) /\ BackupsGrow /\ KeepsWork
  BY <1>1, <1>3, QuietIsConsiderate, SmallStepFacts
<1>5. MovedOn(t)
  BY <1>1, <1>2, <1>4, EndsIsSound
<1>. QED
  BY <1>4, <1>5, OthersAreSafe

LEMMA RemoveKeeps ==
    ASSUME AdoptionInv, NEW t \in Transactions, RemoveCreated(t)
    PROVE  AdoptionInv' /\ KeepsWork
<1>1. /\ files' = [files EXCEPT ![File(t)] = NoFile] /\ UNCHANGED <<locked, backups, edits, kills>>
      /\ Reverted(t) /\ adopter[t].mode = "rollback" /\ adopter[t].step = "remove"
  BY DEF RemoveCreated, At
<1>2. File(t) \in Targets /\ Safe(File(t), files[File(t)], backups) /\ Safe(File(t), NoFile, backups)
  BY <1>1, SequencesOf, ContentFacts DEF WorkIsSafe, Safe
<1>3. Considerate(t) /\ BackupsGrow /\ KeepsWork
  BY <1>1, <1>2, ContentFacts, ChangeIsConsiderate
<1>4. MovedOn(t)
  BY <1>1, <1>3, RevertedIsSound
<1>. QED
  BY <1>3, <1>4, OthersAreSafe

LEMMA KilledKeeps ==
    ASSUME AdoptionInv, NEW t \in Transactions, Killed(t)
    PROVE  AdoptionInv' /\ KeepsWork
<1>1. /\ adopter' = [adopter EXCEPT ![t] = Resting] /\ kills' = kills + 1 /\ kills < MaxKills
      /\ UNCHANGED <<files, locked, backups, manifest, edits>>
  BY DEF Killed
<1>2. kills' \in 0..MaxKills
  BY <1>1, SmallStepFacts, AdoptionAssumption DEF AdoptionAssumption
<1>3. Considerate(t) /\ BackupsGrow /\ KeepsWork
  BY <1>1, <1>2, QuietIsConsiderate, SmallStepFacts
<1>4. SafeResults(t, manifest[t], backups') /\ (manifest[t] # <<>> => Len(manifest[t]) = Len(Plan[t]))
  BY <1>1, SequencesOf DEF WorkIsSafe, Positioned
<1>5. MovedOn(t)
  BY <1>1, <1>4, SmallStepFacts, RestsMovesOn
<1>. QED
  BY <1>3, <1>5, OthersAreSafe

LEMMA UserEditsKeeps ==
    ASSUME AdoptionInv, NEW f \in Targets, UserEdits(f)
    PROVE  AdoptionInv' /\ KeepsWork
<1>1. /\ edits' = [edits EXCEPT ![f] = edits[f] + 1] /\ edits[f] < MaxEdits /\ edits[f] \in Edit
      /\ files' = [files EXCEPT ![f] = (files[f] \ NoFile) \cup {edits[f] + 1}]
      /\ UNCHANGED <<locked, backups, adopter, manifest, kills>>
      /\ \A t \in Transactions : adopter[t].step \in {"replace", "remove"} => File(t) # f
  BY SmallStepFacts DEF UserEdits
<1>2. edits[f] + 1 \in Edit
  BY <1>1, AdoptionAssumption DEF AdoptionAssumption, Edit
<1>3. (files[f] \ NoFile) \cup {edits[f] + 1} \in Content
  <2>1. files[f] \in Content
    BY SmallStepFacts
  <2>. QED
    BY <1>2, <2>1 DEF Content
<1>4. /\ files' \in [Targets -> Content] /\ files'[f] = (files[f] \ NoFile) \cup {edits[f] + 1}
      /\ \A g \in Targets \ {f} : files'[g] = files[g]
  BY <1>1, <1>3, SmallStepFacts
<1>5. Shapes'
  BY <1>1, <1>2, <1>4, SmallStepFacts DEF Shapes
<1>6. KeepsWork
  BY <1>1, <1>4, ContentFacts DEF KeepsWork, Kept
<1>7. ASSUME NEW t \in Transactions PROVE Positioned(t)' /\ WorkIsSafe(t)'
  <2>1. adopter'[t] = adopter[t] /\ manifest'[t] = manifest[t] /\ backups' = backups /\ File(t)' = File(t)
    BY <1>1 DEF File, Operation
  <2>2. Positioned(t)'
    BY <2>1, SequencesOf DEF Positioned
  <2>3. adopter[t].step = "lock" => adopter[t].content \cap Edit \subseteq files'[File(t)] \cup UNION backups'[File(t)]
    BY <1>6, SequencesOf DEF WorkIsSafe, KeepsWork, Kept
  <2>4. adopter[t].step \in {"replace", "remove"} => files'[File(t)] = files[File(t)]
    BY <1>1, <1>4, SequencesOf
  <2>. QED
    BY <2>1, <2>2, <2>3, <2>4, SequencesOf DEF WorkIsSafe, Kept
<1>. QED
  BY <1>5, <1>6, <1>7 DEF AdoptionInv

-----------------------------------------------------------------------------
LEMMA AdoptionStep == AdoptionInv /\ [AdoptionNext]_adoptionVars => AdoptionInv' /\ KeepsWork
<1>. SUFFICES ASSUME AdoptionInv, [AdoptionNext]_adoptionVars PROVE AdoptionInv' /\ KeepsWork
  OBVIOUS
<1>1. CASE UNCHANGED adoptionVars
  BY <1>1
     DEF adoptionVars, AdoptionInv, Shapes, Positioned, WorkIsSafe, KeepsWork, Kept, File,
         Operation
<1>2. ASSUME NEW t \in Transactions,
             Begin(t) \/ Look(t) \/ LookBack(t) \/ Lock(t) \/ Replace(t) \/ Unlock(t) \/ RemoveCreated(t) \/ Killed(t)
      PROVE  AdoptionInv' /\ KeepsWork
  BY <1>2, BeginKeeps, LookKeeps, LookBackKeeps, LockKeeps, ReplaceKeeps, UnlockKeeps,
     RemoveKeeps, KilledKeeps
<1>3. ASSUME NEW f \in Targets, UserEdits(f) PROVE AdoptionInv' /\ KeepsWork
  BY <1>3, UserEditsKeeps
<1>. QED
  BY <1>1, <1>2, <1>3 DEF AdoptionNext

(* Every variable keeps its type, and a process stays within its plan.     *)
THEOREM AdoptionTypes == AdoptionSpec => []AdoptionTypeOK
<1>1. AdoptionInv => AdoptionTypeOK
  BY SequencesOf, SmallStepFacts DEF AdoptionTypeOK, Adopter, Positioned
<1>. QED
  BY <1>1, AdoptionInitially, AdoptionStep, PTL DEF AdoptionSpec

(* No plan, no overlap of transactions and rollbacks and no death loses    *)
(* what a user wrote: it is in the file or in a backup for ever.           *)
THEOREM WorkSurvives == AdoptionSpec => UserWorkSurvives
<1>1. AdoptionInv /\ [AdoptionNext]_adoptionVars =>
         [\A f \in Targets, n \in Edit : n \in Kept(f) => n \in Kept(f)']_adoptionVars
  BY AdoptionStep DEF KeepsWork
<1>. QED
  BY <1>1, AdoptionInitially, AdoptionStep, PTL DEF AdoptionSpec, UserWorkSurvives

------------------------------------------------------------------------------
(***************************************************************************)
(* Edit sessions (EditSessions).                                           *)
(***************************************************************************)
Own(s) == {Missing} \cup OwnContents(s)

(* What undoing operations has done to the tree so far: it changed only    *)
(* files that the session had left as they were.                           *)
OnlyOwn(seen, state) ==
    \A s \in Sessions : seen \subseteq EditOperation(s) =>
       /\ state.tree \in [Files -> Contents]
       /\ \A f \in Files : state.tree[f] # tree[f] => tree[f] \in Own(s)

Undoing == INSTANCE FoldProofs WITH Op <- Undo, Pick <- Max, Good <- OnlyOwn

LEMMA UndoneIsOwn ==
    ASSUME EditTypeOK, NEW s \in Sessions, NEW ops \in Seq(EditOperation(s)), NEW target \in Nat
    PROVE  /\ Undone(ops, target).tree \in [Files -> Contents]
           /\ \A f \in Files : Undone(ops, target).tree[f] # tree[f] => tree[f] \in Own(s)
           /\ SubSeq(ops, 1, Retained(ops, target)) \in Seq(EditOperation(s))
<1>. DEFINE kept == Retained(ops, target)
            rest == SubSeq(ops, kept + 1, Len(ops))
            undo == Reverse(rest)
            n == Len(rest)
            start == [ok |-> TRUE, tree |-> tree]
<1>1. kept \in 0 .. Len(ops)
  <2>1. IsFiniteSet(1 .. Len(ops)) /\ Cardinality(1 .. Len(ops)) = Len(ops)
    <3>1. Len(ops) \in Nat
      OBVIOUS
    <3>. QED
      BY <3>1, FS_Interval
  <2>2. {i \in DOMAIN ops : ops[i].revision <= target} \in SUBSET (1 .. Len(ops))
    OBVIOUS
  <2>. QED
    BY <2>1, <2>2, FS_Subset, FS_CardinalityType DEF Retained
<1>2. SubSeq(ops, 1, kept) \in Seq(EditOperation(s)) /\ rest \in Seq(EditOperation(s))
  <2>. HIDE DEF kept
  <2>. QED
    BY <1>1, SubSeqProperties
<1>. HIDE DEF kept, rest
<1>3. n \in Nat /\ DOMAIN undo = 1 .. n /\ \A i \in 1 .. n : undo[i] \in EditOperation(s)
  BY <1>2 DEF Reverse
<1>. HIDE DEF n, undo
<1>4. OnlyOwn({}, start)
  BY DEF OnlyOwn, EditTypeOK
<1>5. ASSUME NEW seen \in SUBSET (1 .. n), NEW x \in (1 .. n) \ seen, NEW state,
             OnlyOwn({undo[y] : y \in seen}, state)
      PROVE  OnlyOwn({undo[y] : y \in seen \cup {x}}, Undo(state, undo[x]))
  <2>. SUFFICES ASSUME NEW t \in Sessions, {undo[y] : y \in seen \cup {x}} \subseteq EditOperation(t)
                PROVE  /\ Undo(state, undo[x]).tree \in [Files -> Contents]
                       /\ \A f \in Files : Undo(state, undo[x]).tree[f] # tree[f] => tree[f] \in Own(t)
    BY DEF OnlyOwn
  <2>. DEFINE op == undo[x]
  <2>1. op \in EditOperation(t) /\ {undo[y] : y \in seen} \subseteq EditOperation(t)
    OBVIOUS
  <2>2. /\ state.tree \in [Files -> Contents]
        /\ \A f \in Files : state.tree[f] # tree[f] => tree[f] \in Own(t)
    BY <1>5, <2>1 DEF OnlyOwn
  <2>3. op.file \in Files /\ op.before \in Contents /\ op.after \in Own(t)
    BY <2>1 DEF EditOperation, Own
  <2>4. CASE state.ok /\ state.tree[op.file] = op.after
    <3>1. Undo(state, op).tree = [state.tree EXCEPT ![op.file] = op.before]
      BY <2>4 DEF Undo, AsLeft
    <3>. QED
      BY <2>2, <2>3, <2>4, <3>1
  <2>5. CASE ~(state.ok /\ state.tree[op.file] = op.after)
    BY <2>2, <2>5 DEF Undo, AsLeft
  <2>. QED
    BY <2>4, <2>5
<1>6. OnlyOwn({undo[y] : y \in 1 .. n}, Undone(ops, target))
  <2>1. \A u : Max(u) = Undoing!Max(u)
    BY DEF Max, Undoing!Max
  <2>2. Undone(ops, target) = Undoing!FoldLeft(Undo, start, undo)
    BY DEF Undone, FoldLeft, MapThenFoldSet, Max, Undoing!FoldLeft, Undoing!MapThenFoldSet,
           Undoing!Max, undo, rest, kept
  <2>. HIDE DEF start
  <2>3. OnlyOwn({undo[y] : y \in 1 .. n}, Undoing!FoldLeft(Undo, start, undo))
    BY <1>3, <1>4, <1>5, <2>1, Undoing!FoldLeftKeeps
  <2>. QED
    BY <2>2, <2>3
<1>7. {undo[y] : y \in 1 .. n} \subseteq EditOperation(s)
  BY <1>3
<1>. QED
  BY <1>2, <1>6, <1>7 DEF OnlyOwn, kept

(* The records of a batch, one for each changed file, as a sequence.       *)
LEMMA RecordsInOrder ==
    ASSUME NEW S, IsFiniteSet(S)
    PROVE  SetToSeq(S) \in Seq(S)
<1>1. Cardinality(S) \in Nat /\ ExistsBijection(1 .. Cardinality(S), S)
  BY FS_CardinalityType
<1>2. \E f \in [1 .. Cardinality(S) -> S] : IsInjective(f)
  BY <1>1 DEF ExistsBijection, Bijection, Injection, IsInjective
<1>3. SetToSeq(S) \in [1 .. Cardinality(S) -> S]
  BY <1>2 DEF SetToSeq
<1>. QED
  BY <1>1, <1>3, SeqDef

LEMMA SessionWritten ==
    ASSUME EditTypeOK, NEW s \in Sessions, NEW e \in {NoEdit} \cup EditSession(s),
           edit' = [edit EXCEPT ![s] = e], tree' \in [Files -> Contents],
           foreign' = foreign,
           verifying' = verifying \/ verifying' = [verifying EXCEPT ![s] = NoEdit]
    PROVE  EditTypeOK'
BY DEF EditTypeOK

LEMMA ApplyTypes ==
    ASSUME EditTypeOK, NEW s \in Sessions, Apply(s) \/ ApplyDies(s)
    PROVE  EditTypeOK'
<1>1. edit[s] \in EditSession(s) /\ edit[s].revision + 1 \in 1 .. MaxRevision[s]
  <2>1. edit[s] \in EditSession(s) /\ edit[s].revision < MaxRevision[s]
    BY DEF EditTypeOK, Apply, ApplyDies, Applicable
  <2>2. edit[s].revision \in 0 .. MaxRevision[s] /\ MaxRevision[s] \in Nat
    BY <2>1, EditAssumption DEF EditSession
  <2>. QED
    BY <2>1, <2>2
<1>2. PICK changed \in SUBSET Allowed[s] \ {{}} : \E after \in Batch(s, changed) :
          /\ tree' = [f \in Files |-> IF f \in changed THEN after[f] ELSE tree[f]]
          /\ \/ ApplyDies(s)
             \/ LET r == edit[s].revision + 1
                    records == {[revision |-> r, file |-> f, before |-> tree[f],
                                 after |-> after[f]] : f \in changed}
                IN edit' = [edit EXCEPT ![s].operations = @ \o SetToSeq(records),
                               ![s].revision = r, ![s].status = "dirty", ![s].passed = FALSE]
  BY DEF Apply, ApplyDies
<1>3. PICK after \in Batch(s, changed) :
          /\ tree' = [f \in Files |-> IF f \in changed THEN after[f] ELSE tree[f]]
          /\ \/ ApplyDies(s)
             \/ LET r == edit[s].revision + 1
                    records == {[revision |-> r, file |-> f, before |-> tree[f],
                                 after |-> after[f]] : f \in changed}
                IN edit' = [edit EXCEPT ![s].operations = @ \o SetToSeq(records),
                               ![s].revision = r, ![s].status = "dirty", ![s].passed = FALSE]
  BY <1>2
<1>4. changed \subseteq Files /\ IsFiniteSet(changed)
  BY EditAssumption, FS_Subset
<1>5. after \in [changed -> Own(s)] /\ Own(s) \subseteq Contents
  BY <1>1 DEF Batch, Own, OwnContents, Contents
<1>6. tree' \in [Files -> Contents]
  BY <1>3, <1>4, <1>5 DEF EditTypeOK
<1>7. CASE ApplyDies(s)
  BY <1>6, <1>7, EditAssumption DEF ApplyDies, EditTypeOK
<1>8. CASE Apply(s) /\ ~ApplyDies(s)
  <2>. DEFINE r == edit[s].revision + 1
              rec(f) == [revision |-> r, file |-> f, before |-> tree[f], after |-> after[f]]
              records == {rec(f) : f \in changed}
  <2>1. edit' = [edit EXCEPT ![s].operations = @ \o SetToSeq(records),
                    ![s].revision = r, ![s].status = "dirty", ![s].passed = FALSE]
    BY <1>3, <1>8
  <2>2. records \subseteq EditOperation(s)
    BY <1>1, <1>4, <1>5 DEF EditOperation, EditTypeOK, Own
  <2>3. IsFiniteSet(records)
    <3>1. [f \in changed |-> rec(f)] \in Bijection(changed, records)
      BY DEF Bijection, Injection, Surjection, IsInjective
    <3>. QED
      BY <1>4, <3>1, FS_Bijection DEF ExistsBijection
  <2>4. SetToSeq(records) \in Seq(EditOperation(s))
    <3>. HIDE DEF records
    <3>1. SetToSeq(records) \in Seq(records)
      BY <2>3, RecordsInOrder
    <3>. QED
      BY <2>2, <3>1
  <2>. HIDE DEF records
  <2>. DEFINE e == [edit[s] EXCEPT !.operations = @ \o SetToSeq(records),
                      !.revision = r, !.status = "dirty", !.passed = FALSE]
  <2>5. edit' = [edit EXCEPT ![s] = e]
    BY <2>1 DEF EditTypeOK
  <2>6. e \in EditSession(s)
    <3>1. edit[s].operations \o SetToSeq(records) \in Seq(EditOperation(s))
      BY <1>1, <2>4 DEF EditSession
    <3>2. r \in 0 .. MaxRevision[s]
      BY <1>1
    <3>. HIDE DEF r
    <3>. QED
      BY <1>1, <3>1, <3>2 DEF EditSession
  <2>. HIDE DEF e
  <2>. QED
    BY <1>6, <1>8, <2>5, <2>6, SessionWritten DEF Apply
<1>. QED
  BY <1>7, <1>8

LEMMA EditStep == ASSUME EditTypeOK, [EditNext]_editVars PROVE EditTypeOK'
<1>1. CASE UNCHANGED editVars
  BY <1>1 DEF editVars, EditTypeOK
<1>2. ASSUME NEW s \in Sessions,
             BeginSession(s) \/ CloseEmpty(s) \/ Finalize(s) PROVE EditTypeOK'
  <2>1. tree' = tree /\ foreign' = foreign /\ verifying' = verifying
    BY <1>2 DEF BeginSession, CloseEmpty, Finalize
  <2>2. CASE BeginSession(s)
    <3>1. PICK asked \in BOOLEAN :
            edit' = [edit EXCEPT ![s] = [status |-> "open", revision |-> 0,
                        operations |-> <<>>, asked |-> asked, passed |-> FALSE]]
      BY <2>2 DEF BeginSession
    <3>2. [status |-> "open", revision |-> 0, operations |-> <<>>, asked |-> asked,
           passed |-> FALSE] \in EditSession(s)
      BY EditAssumption DEF EditSession
    <3>. QED
      BY <2>1, <3>1, <3>2, SessionWritten DEF EditTypeOK
  <2>3. CASE CloseEmpty(s) \/ Finalize(s)
    <3>1. edit[s] \in EditSession(s)
      BY <2>3 DEF CloseEmpty, Finalize, EditTypeOK, NoEdit
    <3>2. PICK status \in Closed : edit' = [edit EXCEPT ![s].status = status]
      BY <2>3 DEF CloseEmpty, Finalize, Closed
    <3>3. [edit[s] EXCEPT !.status = status] \in EditSession(s)
      BY <3>1 DEF EditSession
    <3>4. edit' = [edit EXCEPT ![s] = [edit[s] EXCEPT !.status = status]]
      BY <3>2 DEF EditTypeOK
    <3>. QED
      BY <2>1, <3>3, <3>4, SessionWritten DEF EditTypeOK
  <2>. QED
    BY <1>2, <2>2, <2>3
<1>3. ASSUME NEW s \in Sessions, Apply(s) \/ ApplyDies(s) PROVE EditTypeOK'
  BY <1>3, ApplyTypes
<1>4. ASSUME NEW s \in Sessions, VerifyBegin(s) PROVE EditTypeOK'
  <2>1. edit[s] \in EditSession(s)
    BY <1>4 DEF VerifyBegin, EditTypeOK, NoEdit
  <2>2. \A asked \in BOOLEAN : [edit[s] EXCEPT !.asked = asked] \in EditSession(s)
    BY <2>1 DEF EditSession
  <2>3. edit[s].asked \in BOOLEAN
    BY <2>1 DEF EditSession
  <2>. QED
    BY <1>4, <2>2, <2>3 DEF VerifyBegin, EditTypeOK
<1>5. ASSUME NEW s \in Sessions, VerifyEnd(s) PROVE EditTypeOK'
  <2>1. verifying[s] \in EditSession(s)
    BY <1>5 DEF VerifyEnd, EditTypeOK
  <2>2. \A ok \in BOOLEAN : [verifying[s] EXCEPT !.passed = ok,
              !.status = IF ok THEN "checked" ELSE "check_failed"] \in EditSession(s)
    BY <2>1 DEF EditSession
  <2>3. CASE edit' = edit
    BY <1>5, <2>3 DEF VerifyEnd, EditTypeOK
  <2>. QED
    BY <1>5, <2>2, <2>3, SessionWritten DEF VerifyEnd, EditTypeOK
<1>6. ASSUME NEW s \in Sessions, Rollback(s) PROVE EditTypeOK'
  <2>1. edit[s] \in EditSession(s) /\ edit[s].operations \in Seq(EditOperation(s))
    BY <1>6 DEF Rollback, EditTypeOK, EditSession, NoEdit
  <2>2. PICK target \in 0 .. MaxRevision[s] :
          LET ops == edit[s].operations
              undone == Undone(ops, target)
          IN /\ target < edit[s].revision
             /\ tree' = undone.tree
             /\ edit' = IF ~undone.ok THEN edit
                        ELSE [edit EXCEPT ![s] = [edit[s] EXCEPT
                                !.operations = SubSeq(ops, 1, Retained(ops, target)),
                                !.revision = target, !.passed = FALSE,
                                !.status = IF target = 0 THEN "rolled_back" ELSE "dirty"]]
    BY <1>6 DEF Rollback
  <2>3. target \in Nat
    BY EditAssumption
  <2>. DEFINE retained == SubSeq(edit[s].operations, 1, Retained(edit[s].operations, target))
  <2>4. tree' \in [Files -> Contents] /\ retained \in Seq(EditOperation(s))
    BY <2>1, <2>2, <2>3, UndoneIsOwn
  <2>5. CASE edit' = edit
    BY <1>6, <2>4, <2>5 DEF Rollback, EditTypeOK
  <2>6. CASE edit' # edit
    <3>1. edit' = [edit EXCEPT ![s] = [edit[s] EXCEPT !.operations = retained,
                     !.revision = target, !.passed = FALSE,
                     !.status = IF target = 0 THEN "rolled_back" ELSE "dirty"]]
      BY <2>2, <2>6
    <3>. HIDE DEF retained
    <3>2. [edit[s] EXCEPT !.operations = retained, !.revision = target, !.passed = FALSE,
             !.status = IF target = 0 THEN "rolled_back" ELSE "dirty"] \in EditSession(s)
      BY <2>1, <2>4 DEF EditSession, Closed
    <3>. QED
      BY <1>6, <2>4, <3>1, <3>2, SessionWritten DEF Rollback
  <2>. QED
    BY <2>5, <2>6
<1>7. ASSUME NEW f \in Files, ForeignEdit(f) PROVE EditTypeOK'
  BY <1>7, EditAssumption DEF ForeignEdit, EditTypeOK, Contents
<1>. QED
  BY <1>1, <1>2, <1>3, <1>4, <1>5, <1>6, <1>7 DEF EditNext

LEMMA EditInitially == EditInit => EditTypeOK
BY EditAssumption DEF EditInit, EditTypeOK, Contents

(* Every variable of the edit sessions keeps its type.                     *)
THEOREM EditTypes == EditSpec => []EditTypeOK
BY EditInitially, EditStep, PTL DEF EditSpec

(* rollbackEditSession changes only files that the session itself left as  *)
(* they are, whatever other sessions, other programs and deaths did to the *)
(* tree, and however far the rollback gets.                                *)
THEOREM RollbacksAreConsiderate == EditSpec => RollbackKeepsOthersWork
<1>1. ASSUME EditTypeOK, NEW s \in Sessions, NEW f \in Files, Rollback(s), tree'[f] # tree[f]
      PROVE  tree[f] \in {Missing} \cup OwnContents(s)
  <2>1. edit[s].operations \in Seq(EditOperation(s))
    BY <1>1 DEF Rollback, EditTypeOK, EditSession, NoEdit
  <2>2. PICK target \in 0 .. MaxRevision[s] : tree' = Undone(edit[s].operations, target).tree
    BY <1>1 DEF Rollback
  <2>3. target \in Nat
    BY EditAssumption
  <2>. QED
    BY <1>1, <2>1, <2>2, <2>3, UndoneIsOwn DEF Own
<1>2. EditTypeOK => \A s \in Sessions, f \in Files :
          Rollback(s) /\ tree'[f] # tree[f] => tree[f] \in {Missing} \cup OwnContents(s)
  BY <1>1
<1>. QED
  BY <1>2, EditTypes, PTL DEF RollbackKeepsOthersWork

-----------------------------------------------------------------------------
(***************************************************************************)
(* Side by side, each operation behaves as it does alone: what is proved   *)
(* of a part holds of the whole.                                           *)
(***************************************************************************)
LEMMA PartsBegin == OperationsInit => BridgeInit /\ EditInit /\ CheckInit /\ AdoptionInit
BY DEF OperationsInit

LEMMA PartsMove ==
    [OperationsNext]_operationsVars =>
        /\ [BridgeNext]_bridgeVars /\ [EditNext]_editVars
        /\ [CheckNext]_checkVars /\ [AdoptionNext]_adoptionVars
<1>1. CASE UNCHANGED operationsVars
  BY <1>1 DEF operationsVars
<1>2. CASE BridgeMoves \/ EditsMove \/ ChecksMove \/ AdoptionMoves
  BY <1>2 DEF BridgeMoves, EditsMove, ChecksMove, AdoptionMoves
<1>. QED
  BY <1>1, <1>2 DEF OperationsNext

(* The operations of the CLI together implement each of them alone: a step *)
(* of one is a step or a stutter of every other (Operations.tla).          *)
THEOREM OperationsParts == OperationsSpec => BridgeSpec /\ EditSpec /\ CheckSpec /\ AdoptionSpec
BY PartsBegin, PartsMove, PTL DEF OperationsSpec, BridgeSpec, EditSpec, CheckSpec, AdoptionSpec

(* Every variable of every operation has its type, in any interleaving     *)
(* (the state of bridge jobs, edit sessions, checks and transactions).     *)
THEOREM OperationsTypes == OperationsSpec => []OperationsTypeOK
<1>1. OperationsSpec => []BridgeTypeOK /\ []EditTypeOK /\ []CheckTypeOK /\ []AdoptionTypeOK
  BY OperationsParts, BridgeTypes, EditTypes, CheckTypes, AdoptionTypes
<1>2. BridgeTypeOK /\ EditTypeOK /\ CheckTypeOK /\ AdoptionTypeOK => OperationsTypeOK
  BY DEF OperationsTypeOK
<1>. QED
  BY <1>1, <1>2, PTL
===============================================================================
