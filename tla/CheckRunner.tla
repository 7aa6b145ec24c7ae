----------------------------- MODULE CheckRunner -----------------------------
(***************************************************************************)
(* Checks of one working tree, run by several processes.  A request for a  *)
(* check is made for the revision of the tree at that moment.  It is       *)
(* answered from the evidence of that revision, or joins the run that its  *)
(* process already has for it, or starts one; a heavy check waits its turn *)
(* in its process and then for a lock file that all processes share.       *)
(*                                                                         *)
(* Left out: limits on time and output, which are outcomes of the check;   *)
(* the synchronous variant, which keeps the lock until its check has       *)
(* ended; a lock file that is found empty, or is removed after it was      *)
(* replaced (see ControllerLock for that pattern).                         *)
(***************************************************************************)
EXTENDS Naturals, Sequences, FiniteSets

CONSTANTS Processes, Checks, Heavy, Requests, Anonymous, ProcessOf, Revisions, Mortal

ASSUME CheckAssumption ==
    /\ Heavy \subseteq Checks /\ Anonymous \subseteq Requests /\ Mortal \subseteq Processes
    /\ ProcessOf \in [Requests -> Processes]

VARIABLES head,      \* the revision of the tree
          evidence,  \* latest evidence of each check
          active,    \* activeAsyncChecks of each process
          queue,     \* its heavyCheckQueues
          child,     \* the process that runs a check, and the revision it began on
          lock,      \* whose heavy-check.lock it is
          request,   \* what each request has come to
          dead       \* processes that died

checkVars == <<head, evidence, active, queue, child, lock, request, dead>>

Keys == Checks \X Revisions
Nobody == "nobody"
NoEvidence == [revision |-> "none", ok |-> FALSE]
NoRun == [phase |-> "none", subscribers |-> {}, cancel |-> FALSE]
NoChild == [state |-> "none"]

CheckTypeOK ==
    /\ head \in Revisions /\ dead \subseteq Mortal
    /\ evidence \in [Checks -> [revision : Revisions, ok : BOOLEAN] \cup {NoEvidence}]
    /\ active \in [Processes -> [Keys ->
          [phase : {"none", "queued", "locking", "locked", "running"},
           subscribers : SUBSET Requests, cancel : BOOLEAN]]]
    /\ queue \in [Processes -> Seq(Keys)]
    /\ child \in [Processes -> [Keys -> [state : {"running", "stopping"}, on : Revisions] \cup {NoChild}]]
    /\ lock \in Processes \cup {Nobody}
    /\ request \in [Requests -> {"new", "waiting", "released", "passed", "failed", "refused"}]

CheckInit ==
    /\ head \in Revisions /\ dead = {}
    /\ evidence = [c \in Checks |-> NoEvidence]
    /\ active = [p \in Processes |-> [k \in Keys |-> NoRun]]
    /\ queue = [p \in Processes |-> <<>>]
    /\ child = [p \in Processes |-> [k \in Keys |-> NoChild]]
    /\ lock = Nobody
    /\ request = [r \in Requests |-> "new"]

Answer(ok) == IF ok THEN "passed" ELSE "failed"
Spawned == [state |-> "running", on |-> head]

(* The run of key k in process p is over: everybody who waits for it has   *)
(* its result, and it is forgotten; the next heavy check has its turn.     *)
Over(p, k, result) ==
    /\ request' = [r \in Requests |-> IF r \in active[p][k].subscribers THEN result ELSE request[r]]
    /\ active' = [active EXCEPT ![p][k] = NoRun]
    /\ queue' = [queue EXCEPT ![p] = IF @ # <<>> /\ Head(@) = k THEN Tail(@) ELSE @]

(* cancelWhenSpawned and hasActiveSubscribers.                             *)
Unwanted(run) == run.cancel /\ run.subscribers = {}

RemainingNamed(p, k, r) == active[p][k].subscribers \ ({r} \cup Anonymous)       \* faulty
Remaining(p, k, r) == active[p][k].subscribers \ {r}

OvertakenNever(k) == FALSE                                                      \* faulty
Overtaken(k) == head # k[2]

---------------------------------------------------------------------------
(* runControllerCheckAsync; a light check is spawned at once.              *)
StartCheck(r, p, k) ==
    LET heavy == k[1] \in Heavy IN
    /\ active' = [active EXCEPT ![p][k] = [phase |-> IF heavy THEN "queued" ELSE "running",
                                           subscribers |-> {r}, cancel |-> FALSE]]
    /\ queue' = IF heavy THEN [queue EXCEPT ![p] = Append(@, k)] ELSE queue
    /\ child' = IF heavy THEN child ELSE [child EXCEPT ![p][k] = Spawned]

RequestCheck(r, c) ==
    LET p == ProcessOf[r]
        k == <<c, head>>
    IN /\ request[r] = "new" /\ p \notin dead
       /\ \/ /\ evidence[c].revision = head
             /\ request' = [request EXCEPT ![r] = Answer(evidence[c].ok)]
             /\ UNCHANGED <<active, queue, child>>
          \/ /\ evidence[c].revision # head
             /\ request' = [request EXCEPT ![r] = "waiting"]
             /\ IF active[p][k] = NoRun THEN StartCheck(r, p, k)
                ELSE /\ active' = [active EXCEPT ![p][k].subscribers = @ \cup {r}]
                     /\ UNCHANGED <<queue, child>>
    /\ UNCHANGED <<head, evidence, lock, dead>>

(* releaseControllerCheckSubscription: the last one who leaves stops the   *)
(* process, or sees to it that it is never started.                        *)
Release(r) ==
    /\ request[r] = "waiting" /\ r \notin Anonymous
    /\ request' = [request EXCEPT ![r] = "released"]
    /\ \E p \in Processes, k \in Keys :
          LET last == Remaining(p, k, r) = {} IN
          /\ r \in active[p][k].subscribers
          /\ active' = [active EXCEPT ![p][k] = [active[p][k] EXCEPT !.subscribers = @ \ {r}, !.cancel = @ \/ last]]
          /\ child' = IF last /\ child[p][k] # NoChild
                      THEN [child EXCEPT ![p][k].state = "stopping"] ELSE child
    /\ UNCHANGED <<head, evidence, queue, lock, dead>>

(* executeHeavy, when its turn in the process has come...                  *)
Turn(p, k) ==
    /\ queue[p] # <<>> /\ Head(queue[p]) = k
    /\ active[p][k].phase = "queued"
    /\ IF Unwanted(active[p][k]) THEN Over(p, k, "refused")
       ELSE /\ active' = [active EXCEPT ![p][k].phase = "locking"]
            /\ UNCHANGED <<queue, request>>
    /\ UNCHANGED <<head, evidence, child, lock, dead>>

(* ...it polls for the lock, which is free or left by a dead process...    *)
Abandoned == lock \in dead /\ \A k \in Keys : k[1] \in Heavy => child[lock][k] = NoChild

TakeLock(p, k) ==
    /\ active[p][k].phase = "locking"
    /\ lock = Nobody \/ Abandoned
    /\ lock' = p
    /\ active' = [active EXCEPT ![p][k].phase = "locked"]
    /\ UNCHANGED <<head, evidence, queue, child, request, dead>>

LockTimeout(p, k) ==
    /\ active[p][k].phase = "locking" /\ lock # Nobody
    /\ Over(p, k, "refused")
    /\ UNCHANGED <<head, evidence, child, lock, dead>>

(* ...and spawns the check if it is still wanted and still of the revision *)
(* it was asked for.  The run is returned and not awaited: the lock is     *)
(* released as soon as the process is spawned.                             *)
Execute(p, k) ==
    /\ active[p][k].phase = "locked"
    /\ lock' = IF lock = p THEN Nobody ELSE lock
    /\ IF Unwanted(active[p][k]) \/ Overtaken(k) THEN Over(p, k, "refused") /\ UNCHANGED child
       ELSE IF evidence[k[1]].revision = k[2]
       THEN Over(p, k, Answer(evidence[k[1]].ok)) /\ UNCHANGED child
       ELSE /\ child' = [child EXCEPT ![p][k] = Spawned]
            /\ active' = [active EXCEPT ![p][k].phase = "running"]
            /\ UNCHANGED <<queue, request>>
    /\ UNCHANGED <<head, evidence, dead>>

(* The check ends.  Its result is kept for reuse if the tree is (again) of *)
(* the revision that was asked for, also when it was stopped.              *)
ChildEnds(p, k) ==
    /\ child[p][k] # NoChild
    /\ child' = [child EXCEPT ![p][k] = NoChild]
    /\ IF p \in dead THEN UNCHANGED <<evidence, request, active, queue>>
       ELSE \E ok \in BOOLEAN :
               /\ ok => head = k[2]
               /\ evidence' = [evidence EXCEPT ![k[1]] =
                                  IF head = k[2] THEN [revision |-> head, ok |-> ok] ELSE NoEvidence]
               /\ Over(p, k, Answer(ok))
    /\ UNCHANGED <<head, lock, dead>>

TreeChanges ==
    /\ head' \in Revisions \ {head}
    /\ UNCHANGED <<evidence, active, queue, child, lock, request, dead>>

(* A process dies; the check it spawned, in a group of its own, goes on.   *)
ProcessDies(p) ==
    /\ p \in Mortal \ dead /\ dead' = dead \cup {p}
    /\ active' = [active EXCEPT ![p] = [k \in Keys |-> NoRun]]
    /\ queue' = [queue EXCEPT ![p] = <<>>]
    /\ request' = [r \in Requests |->
          IF ProcessOf[r] = p /\ request[r] = "waiting" THEN "released" ELSE request[r]]
    /\ UNCHANGED <<head, evidence, child, lock>>

CheckNext ==
    \/ \E r \in Requests : Release(r) \/ \E c \in Checks : RequestCheck(r, c)
    \/ \E p \in Processes :
          \/ ProcessDies(p)
          \/ \E k \in Keys : Turn(p, k) \/ TakeLock(p, k) \/ LockTimeout(p, k) \/ Execute(p, k) \/ ChildEnds(p, k)
    \/ TreeChanges

CheckSpec == CheckInit /\ [][CheckNext]_checkVars

---------------------------------------------------------------------------
(* Properties.                                                             *)

(* A check that a process runs is never stopped while somebody in that     *)
(* process still waits for its result.                                     *)
WantedChecksGoOn ==
    [][\A p \in Processes, k \in Keys :
          child[p][k] # NoChild /\ child[p][k].state = "running"
          /\ child'[p][k] # NoChild /\ child'[p][k].state = "stopping"
             => active'[p][k].subscribers = {}]_checkVars

(* A passed result that is kept for a revision is that of a check which    *)
(* began on this revision, however long it had waited and whatever became  *)
(* of the tree meanwhile.                                                  *)
EvidenceIsOfItsRevision ==
    [][\A c \in Checks :
          evidence'[c] # evidence[c] /\ evidence'[c].ok
             => \E p \in Processes, k \in Keys :
                   /\ k = <<c, evidence'[c].revision>>
                   /\ child[p][k] # NoChild /\ child[p][k].on = k[2]]_checkVars

(* A request that waits is kept by the run it waits for, and this run has  *)
(* its process, or its place in a queue whose first one is at work.        *)
NobodyIsStranded ==
    \A r \in Requests : request[r] = "waiting" =>
        LET p == ProcessOf[r] IN \E k \in Keys :
            /\ r \in active[p][k].subscribers
            /\ \/ child[p][k] # NoChild
               \/ /\ \E i \in 1 .. Len(queue[p]) : queue[p][i] = k
                  /\ LET first == Head(queue[p]) IN
                        \/ active[p][first].phase \in {"queued", "locking", "locked"}
                        \/ child[p][first] # NoChild

(* A process has at most one heavy check running, whatever became of the   *)
(* requests for it.                                                        *)
OneHeavyCheckEach ==
    \A p \in Processes : \A k, l \in Keys :
        {k[1], l[1]} \subseteq Heavy /\ NoChild \notin {child[p][k], child[p][l]} => k = l

(* At most one heavy check runs for the tree.  The code does not keep      *)
(* this: see Execute.                                                      *)
OneHeavyCheck ==
    Cardinality({run \in Processes \X Keys : run[2][1] \in Heavy /\ child[run[1]][run[2]] # NoChild}) <= 1
=============================================================================
