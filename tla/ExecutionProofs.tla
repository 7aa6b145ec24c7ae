--------------------------- MODULE ExecutionProofs ---------------------------
(***************************************************************************)
(* Proofs about ExecutionRuntime, for any jobs, attempts, deaths and       *)
(* fencing tokens: the types and the finality of verdicts for any number   *)
(* of schedulers; one execution of a mutating operation, results that have *)
(* their receipt, and verdicts that say what JobPromise promises, for one  *)
(* daemon, whatever else goes wrong; and one writer at a time for one      *)
(* daemon whose workers are heard and can be killed.                       *)
(***************************************************************************)
EXTENDS ExecutionProperties, FiniteSetTheorems, TLAPS

Verdicts == Terminal \cup {"waiting"}

(* What a scheduler has in hand, by the place it is at.                    *)
Task == [id : Jobs] \cup [id : Jobs, pid : Attempts]
            \cup [id : Jobs, seen : Snapshot, late : BOOLEAN]
            \cup [id : Jobs, verdict : Verdicts]
Resting   == {"idle", "down", "reconciling"}
Examining == {"killed", "survived"}
Scheduler == [pc : Resting \cup Examining \cup {"leased", "claimed", "spawned", "settling"},
              work : SUBSET Task, grant : Refs, todo : SUBSET Snapshot]

WorkFits(d) ==
    /\ d.pc \in Resting => d.work = {}
    /\ d.pc \in {"leased", "claimed"} => \E j \in Jobs : d.work = {[id |-> j]}
    /\ d.pc = "spawned" =>
          \E j \in Jobs, a \in Attempts : d.work = {[id |-> j, pid |-> a]}
    /\ d.pc \in Examining =>
          \E v \in Snapshot, b \in BOOLEAN : d.work = {[id |-> v.id, seen |-> v, late |-> b]}
    /\ d.pc = "settling" =>
          \E j \in Jobs, x \in Verdicts : d.work = {[id |-> j, verdict |-> x]}

Shapes ==
    /\ job \in [Jobs -> JobRecord] /\ receipt \in [Jobs -> Receipt]
    /\ leases \subseteq [owner : Jobs, tok : Tokens] /\ token \in 0..MaxToken
    /\ idle \in [Jobs -> 0..2] /\ late \in [Jobs -> BOOLEAN]
    /\ worker \in [Pids -> Worker] /\ sched \in [Schedulers -> Scheduler]
    /\ epoch \in Schedulers /\ doomed \subseteq Pids
    /\ crashes \in 0..MaxCrashes /\ begun \in [Jobs -> Nat]

(* Whoever has finished an operation has an outcome, and a job that has    *)
(* been dispatched has been counted.                                       *)
HasOutcome(p) == worker[p].pc \in {"checked", "receipted"} => worker[p].outcome # "none"
Counted(j) == job[j].status \in {"dispatched", "running"} => job[j].attempt \in Attempts
Conclusive(j) == receipt[j].state = "completed" => receipt[j].outcome # "none"

TypeInv ==
    /\ Shapes
    /\ \A s \in Schedulers : WorkFits(sched[s])
    /\ \A p \in Pids : HasOutcome(p)
    /\ \A j \in Jobs : Conclusive(j) /\ Counted(j)

-----------------------------------------------------------------------------
(* The life of a job under one daemon.                                     *)

OneDaemon == \A s, t \in Schedulers : s = t

Current(j) == <<j, job[j].attempt>>
Over == {"receipted", "failing", "leaving", "gone"}
Unstarted == {"unborn", "boot", "owned", "beating"}

(* Only the worker of the current attempt is alive, and none is while the  *)
(* job waits; a running record names that attempt.                         *)
OnlyCurrent(p) == Alive(p) => p[2] = job[p[1]].attempt /\ job[p[1]].status # "waiting"
Named(j) == job[j].status = "running" =>
                job[j].pid = job[j].attempt /\ job[j].attempt \in Attempts

(* What the receipt says of the current attempt.                           *)
Completed(j) == receipt[j].attempt = job[j].attempt /\ receipt[j].state = "completed"
Succeeded(j) == receipt[j] = [attempt |-> job[j].attempt, state |-> "completed",
                              outcome |-> "succeeded"]
Receipted(p) == worker[p].pc = "receipted" =>
                    receipt[p[1]] = [attempt |-> p[2], state |-> "completed",
                                     outcome |-> worker[p].outcome]
ReceiptFits(j) ==
    /\ receipt[j].attempt <= job[j].attempt
    /\ Completed(j) /\ job[j].attempt \in Attempts => worker[Current(j)].pc \in Over
    /\ job[j].status = "succeeded" => Succeeded(j)

(* A mutating operation that was begun is not begun again: its receipt is  *)
(* of the current attempt, whose worker is past the beginning.             *)
Mutated(j) == job[j].writes /\ begun[j] # 0
BegunOnce(j) == Mutated(j) =>
    /\ begun[j] = 1
    /\ job[j].status # "waiting" /\ job[j].attempt \in Attempts
    /\ receipt[j].attempt = job[j].attempt /\ receipt[j].state \in {"started", "completed"}
    /\ worker[Current(j)].pc \notin Unstarted

(* What a scheduler read is still so where it matters.                     *)
Quelled(j) == job[j].attempt \in Attempts => ~Alive(Current(j))
Recent(v) == /\ v.attempt = job[v.id].attempt
             /\ v.status = "running" => v.pid = v.attempt /\ v.pid \in Attempts
InHand(d) ==
    /\ d.pc \notin Examining \cup {"reconciling", "settling"} => d.todo = {}
    /\ \A v \in d.todo : Recent(v)
    /\ \A w \in d.work :
          /\ d.pc = "claimed" => /\ job[w.id].attempt \in Attempts
                                 /\ Quelled(w.id) /\ ~Mutated(w.id)
                                 /\ receipt[w.id].attempt # job[w.id].attempt
          /\ d.pc = "spawned" => w.pid = job[w.id].attempt
          /\ d.pc \in Examining => Recent(w.seen) /\ w.seen.status = "running"
          /\ d.pc = "killed" => Quelled(w.id)
          /\ d.pc = "settling" /\ w.verdict = "waiting" => Quelled(w.id) /\ ~Mutated(w.id)
          /\ d.pc = "settling" /\ w.verdict = "succeeded" => Succeeded(w.id)

LifeInv ==
    /\ \A p \in Pids : OnlyCurrent(p) /\ Receipted(p)
    /\ \A j \in Jobs : Named(j) /\ ReceiptFits(j) /\ BegunOnce(j)
    /\ \A s \in Schedulers : InHand(sched[s])

-----------------------------------------------------------------------------
(* The lease of a writer.                                                  *)

Entitled == {"owned", "beating", "executing", "checked", "receipted"}

OneOwner == \A l, m \in leases : l.owner = m.owner

(* Between its check and its result the worker of a mutating job is named  *)
(* by a running record, and the resource is leased to its job.             *)
HoldsLease(p) ==
    /\ worker[p].pc \in Entitled =>
          /\ job[p[1]].status = "running"
          /\ job[p[1]].writes => \E l \in leases : l.owner = p[1]
    /\ worker[p].refs # {} => job[p[1]].writes
Granted(j) ==
    /\ job[j].writes /\ job[j].status \in {"dispatched", "running"} => job[j].refs # {}
    /\ job[j].refs # {} => job[j].writes

(* A scheduler gives leases back only of a job whose worker is not at work. *)
NotRunning(v) == v.status # "running" => job[v.id].status # "running"
Spares(d) ==
    /\ \A v \in d.todo : NotRunning(v)
    /\ d.pc \in {"leased", "claimed"} =>
          \A w \in d.work : (d.grant # {}) <=> job[w.id].writes
    /\ d.pc = "leased" => \A w \in d.work : job[w.id].status = "waiting"
    /\ d.pc = "settling" =>
          \A w \in d.work : Quelled(w.id) \/ job[w.id].status # "running"
    /\ d.pc # "survived"

LeaseInv ==
    /\ OneOwner
    /\ \A p \in Pids : HoldsLease(p)
    /\ \A j \in Jobs : Granted(j)
    /\ \A s \in Schedulers : Spares(sched[s])
-----------------------------------------------------------------------------
(* Types                                                                   *)

LEMMA TaskShapes ==
    /\ \A j \in Jobs : [id |-> j] \in Task
    /\ \A j \in Jobs, a \in Attempts : [id |-> j, pid |-> a] \in Task
    /\ \A v \in Snapshot, b \in BOOLEAN : [id |-> v.id, seen |-> v, late |-> b] \in Task
    /\ \A j \in Jobs, x \in Verdicts : [id |-> j, verdict |-> x] \in Task
BY DEF Task, Snapshot

LEMMA Bounds ==
    /\ Attempts \subseteq PIDs /\ 0 \in PIDs /\ {} \in Refs
    /\ Terminal \subseteq Statuses /\ {"waiting", "dispatched", "running"} \subseteq Statuses
    /\ \A n \in PIDs : /\ n \in Int /\ (n # 0 => n \in Attempts)
                       /\ n < MaxAttempts + 1 => n + 1 \in Attempts
    /\ MaxAttempts \in Int
BY RuntimeAssumption DEF RuntimeAssumption, Attempts, PIDs, Refs, Statuses, Terminal

LEMMA PidFacts ==
    ASSUME NEW p \in Pids
    PROVE  p[1] \in Jobs /\ p[2] \in Attempts /\ p = <<p[1], p[2]>>
BY DEF Pids

LEMMA RestFits == Idle \in Scheduler /\ Down \in Scheduler /\ WorkFits(Idle) /\ WorkFits(Down)
BY DEF Idle, Down, Scheduler, WorkFits, Resting, Examining, Refs

LEMMA EndedShape ==
    ASSUME NEW r \in JobRecord, NEW x \in Statuses
    PROVE  /\ Ended(r, x) \in JobRecord /\ Ended(r, x).status = x
           /\ Ended(r, x).pid = 0 /\ Ended(r, x).refs = {}
           /\ Ended(r, x).attempt = r.attempt /\ Ended(r, x).writes = r.writes
BY Bounds DEF Ended, JobRecord

LEMMA GivenUpShape ==
    ASSUME TypeInv, NEW p \in Pids
    PROVE  GivenUp(p[1], p[2]) \in JobRecord
BY PidFacts, Bounds, EndedShape DEF TypeInv, Shapes, GivenUp, Terminal

(* What a step does to one scheduler.                                      *)
LEMMA SchedStep ==
    ASSUME TypeInv, NEW s \in Schedulers, NEW d \in Scheduler, WorkFits(d),
           sched' = [sched EXCEPT ![s] = d]
    PROVE  sched' \in [Schedulers -> Scheduler] /\ \A t \in Schedulers : WorkFits(sched'[t])
BY DEF TypeInv, Shapes

(* What a step does to one worker.                                         *)
LEMMA WorkerStep ==
    ASSUME TypeInv, NEW p \in Pids, NEW r \in Worker,
           r.pc \in {"checked", "receipted"} => r.outcome # "none",
           worker' = [worker EXCEPT ![p] = r]
    PROVE  worker' \in [Pids -> Worker] /\ \A q \in Pids : HasOutcome(q)'
BY DEF TypeInv, Shapes, HasOutcome

LEMMA MoveTypes ==
    ASSUME TypeInv, NEW p \in Pids, NEW pc \in WorkerPC \ {"checked", "receipted"}, Move(p, pc)
    PROVE  worker' \in [Pids -> Worker] /\ \A q \in Pids : HasOutcome(q)'
BY DEF TypeInv, Shapes, HasOutcome, Move, Worker

-----------------------------------------------------------------------------
(* Each dispatch step, for the job in hand.                                *)

LEMMA ClaimForm ==
    ASSUME TypeInv, NEW s \in Schedulers, Claim(s)
    PROVE  \E j \in Jobs :
             /\ sched[s].work = {[id |-> j]}
             /\ \/ /\ job[j].status = "waiting" /\ job[j].attempt < MaxAttempts + 1
                   /\ job' = [job EXCEPT ![j] = Dispatched(job[j], sched[s].grant)]
                   /\ sched' = [sched EXCEPT ![s] = [sched[s] EXCEPT !.pc = "claimed"]]
                   /\ leases' = leases
                \/ /\ job[j].status # "waiting" /\ job' = job
                   /\ leases' = Released(j, sched[s].grant) /\ Rest(s)
<1>1. PICK j \in Jobs : sched[s].work = {[id |-> j]}
  BY DEF TypeInv, Claim, WorkFits
<1>2. PICK w \in sched[s].work :
          IF job[w.id].status = "waiting"
          THEN /\ job[w.id].attempt < MaxAttempts + 1
               /\ job' = [job EXCEPT ![w.id] = Dispatched(job[w.id], sched[s].grant)]
               /\ sched' = [sched EXCEPT ![s].pc = "claimed"]
               /\ UNCHANGED leases
          ELSE /\ leases' = Released(w.id, sched[s].grant)
               /\ Rest(s)
               /\ UNCHANGED job
  BY DEF Claim
<1>3. w.id = j
  BY <1>1
<1>. QED
  BY <1>1, <1>2, <1>3

LEMMA ClaimIndexBusyForm ==
    ASSUME TypeInv, NEW s \in Schedulers, ClaimIndexBusy(s)
    PROVE  \E j \in Jobs :
             /\ sched[s].work = {[id |-> j]}
             /\ job[j].status = "waiting" /\ job[j].attempt < MaxAttempts + 1
             /\ job' = [job EXCEPT ![j] = Dispatched(job[j], sched[s].grant)]
<1>1. PICK j \in Jobs : sched[s].work = {[id |-> j]}
  BY DEF TypeInv, ClaimIndexBusy, WorkFits
<1>2. PICK w \in sched[s].work :
          /\ job[w.id].status = "waiting"
          /\ job[w.id].attempt < MaxAttempts + 1
          /\ job' = [job EXCEPT ![w.id] = Dispatched(job[w.id], sched[s].grant)]
  BY Zenon DEF ClaimIndexBusy
<1>3. w.id = j
  BY <1>1
<1>. QED
  BY <1>1, <1>2, <1>3

LEMMA SpawnForm ==
    ASSUME TypeInv, NEW s \in Schedulers, SpawnChild(s)
    PROVE  \E j \in Jobs :
             /\ sched[s].work = {[id |-> j]}
             /\ \/ /\ job[j].status \in {"dispatched", "running"} /\ job[j].pid = 0
                   /\ job[j].attempt \in Attempts
                   /\ worker' = [worker EXCEPT ![Current(j)] =
                         [worker[Current(j)] EXCEPT !.pc = "boot", !.parented = (s = epoch)]]
                   /\ sched' = [sched EXCEPT ![s] = [sched[s] EXCEPT !.pc = "spawned",
                                   !.work = {[id |-> j, pid |-> job[j].attempt]}]]
                \/ /\ Rest(s) /\ worker' = worker
<1>1. PICK j \in Jobs : sched[s].work = {[id |-> j]}
  BY DEF TypeInv, SpawnChild, WorkFits
<1>2. PICK w \in sched[s].work :
          IF job[w.id].status \in {"dispatched", "running"} /\ job[w.id].pid = 0
          THEN /\ worker' = [worker EXCEPT ![<<w.id, job[w.id].attempt>>] =
                      [worker[<<w.id, job[w.id].attempt>>] EXCEPT
                           !.pc = "boot", !.parented = (s = epoch)]]
               /\ sched' = [sched EXCEPT ![s] = [sched[s] EXCEPT !.pc = "spawned",
                                !.work = {[id |-> w.id, pid |-> job[w.id].attempt]}]]
          ELSE Rest(s) /\ UNCHANGED worker
  BY Zenon DEF SpawnChild
<1>3. w.id = j
  BY <1>1
<1>4. job[j].status \in {"dispatched", "running"} => job[j].attempt \in Attempts
  BY DEF TypeInv, Counted
<1>. QED
  BY <1>1, <1>2, <1>3, <1>4 DEF Current

LEMMA AttachForm ==
    ASSUME TypeInv, NEW s \in Schedulers, Attach(s)
    PROVE  \E j \in Jobs, a \in Attempts :
             /\ sched[s].work = {[id |-> j, pid |-> a]}
             /\ \/ /\ Attachable(job[j]) /\ worker' = worker
                   /\ job' = [job EXCEPT ![j] = [job[j] EXCEPT !.status = "running", !.pid = a]]
                   /\ \E n \in 0..2 : idle' = [idle EXCEPT ![j] = n]
                \/ /\ ~Attachable(job[j]) /\ job' = job /\ idle' = idle
                   /\ Move(<<j, a>>, "gone")
<1>1. PICK j \in Jobs, a \in Attempts : sched[s].work = {[id |-> j, pid |-> a]}
  BY DEF TypeInv, Attach, WorkFits
<1>2. PICK w \in sched[s].work :
          IF Attachable(job[w.id])
          THEN /\ job' = [job EXCEPT ![w.id] = [job[w.id] EXCEPT !.status = "running", !.pid = w.pid]]
               /\ idle' = [idle EXCEPT ![w.id] = IF Held(w.id, job[w.id].refs) THEN 0 ELSE 1]
               /\ UNCHANGED worker
          ELSE /\ worker' = [worker EXCEPT ![<<w.id, w.pid>>].pc = "gone"]
               /\ UNCHANGED <<job, idle>>
  BY DEF Attach
<1>3. w.id = j /\ w.pid = a
  BY <1>1
<1>4. CASE Attachable(job[j])
  <2>1. /\ job' = [job EXCEPT ![j] = [job[j] EXCEPT !.status = "running", !.pid = a]]
        /\ idle' = [idle EXCEPT ![j] = IF Held(j, job[j].refs) THEN 0 ELSE 1]
        /\ worker' = worker
    BY <1>2, <1>3, <1>4
  <2>2. (IF Held(j, job[j].refs) THEN 0 ELSE 1) \in 0..2
    OBVIOUS
  <2>. QED
    BY <1>1, <1>4, <2>1, <2>2
<1>5. CASE ~Attachable(job[j])
  BY <1>1, <1>2, <1>3, <1>5 DEF Move
<1>. QED
  BY <1>4, <1>5

Finalized(s, v, b, x) ==
    LET w == [id |-> v.id, seen |-> v, late |-> b] IN
    /\ sched[s].work = {w} /\ x = Verdict(w, sched[s].pc = "survived")
    /\ leases' = Released(v.id, v.refs)
    /\ sched' = [sched EXCEPT ![s] = [sched[s] EXCEPT !.pc = "settling",
                    !.work = {[id |-> v.id, verdict |-> x]}]]

LEMMA FinalizeForm ==
    ASSUME TypeInv, NEW s \in Schedulers, Finalize(s)
    PROVE  \E v \in Snapshot, b \in BOOLEAN, x \in Verdicts : Finalized(s, v, b, x)
<1>1. PICK v \in Snapshot, b \in BOOLEAN :
          sched[s].work = {[id |-> v.id, seen |-> v, late |-> b]}
  BY DEF TypeInv, Finalize, WorkFits, Examining
<1>. DEFINE u == [id |-> v.id, seen |-> v, late |-> b]
<1>2. PICK w \in sched[s].work :
          /\ leases' = Released(w.id, w.seen.refs)
          /\ sched' = [sched EXCEPT ![s] = [sched[s] EXCEPT !.pc = "settling",
                !.work = {[id |-> w.id, verdict |-> Verdict(w, sched[s].pc = "survived")]}]]
  BY Zenon DEF Finalize
<1>3. w = u /\ u.id = v.id /\ u.seen = v
  BY <1>1
<1>4. Verdict(u, sched[s].pc = "survived") \in Verdicts
  <2>1. v.id \in Jobs
    BY DEF Snapshot
  <2>2. receipt[v.id].state = "completed" => receipt[v.id].outcome \in {"succeeded", "failed"}
    BY <2>1 DEF TypeInv, Shapes, Receipt, Conclusive
  <2>. QED
    BY <1>3, <2>2 DEF Verdict, Verdicts, Terminal
<1>5. /\ sched[s].work = {u} /\ leases' = Released(v.id, v.refs)
      /\ sched' = [sched EXCEPT ![s] = [sched[s] EXCEPT !.pc = "settling",
            !.work = {[id |-> v.id, verdict |-> Verdict(u, sched[s].pc = "survived")]}]]
  BY <1>1, <1>2, <1>3
<1>. QED
  BY <1>4, <1>5, Zenon DEF Finalized

LEMMA SettleForm ==
    ASSUME TypeInv, NEW s \in Schedulers, Settle(s)
    PROVE  \E j \in Jobs, x \in Verdicts :
             /\ sched[s].work = {[id |-> j, verdict |-> x]}
             /\ \/ /\ TransitionAllowed(job[j].status, x)
                   /\ job' = [job EXCEPT ![j] = Ended(job[j], x)]
                   /\ \/ Rest(s)
                      \/ sched' = [sched EXCEPT ![s] =
                             [sched[s] EXCEPT !.pc = "reconciling", !.work = {}]]
                \/ Rest(s) /\ job' = job
<1>1. PICK j \in Jobs, x \in Verdicts : sched[s].work = {[id |-> j, verdict |-> x]}
  BY DEF TypeInv, Settle, WorkFits
<1>2. PICK w \in sched[s].work :
          IF TransitionAllowed(job[w.id].status, w.verdict)
          THEN /\ job' = [job EXCEPT ![w.id] = Ended(job[w.id], w.verdict)]
               /\ IF sched[s].todo = {} THEN Rest(s)
                  ELSE sched' = [sched EXCEPT ![s] =
                           [sched[s] EXCEPT !.pc = "reconciling", !.work = {}]]
          ELSE /\ Rest(s)
               /\ UNCHANGED job
  BY Zenon DEF Settle
<1>3. w.id = j /\ w.verdict = x
  BY <1>1
<1>. QED
  BY <1>1, <1>2, <1>3

Examined(s, v, d) ==
    /\ v \in Snapshot /\ Due(v) /\ WorkFits(d)
    /\ d.todo = sched[s].todo \ {v} /\ d.grant = sched[s].grant
    /\ sched' = [sched EXCEPT ![s] = d]
    /\ \/ /\ v.status # "running" /\ d.pc = "settling"
          /\ d.work = {[id |-> v.id, verdict |-> "timed_out"]}
          /\ leases' = Released(v.id, v.refs) /\ worker' = worker
       \/ /\ v.status = "running" /\ d.pc = "killed" /\ leases' = leases
          /\ d.work = {[id |-> v.id, seen |-> v, late |-> late[v.id]]}
          /\ worker' = IF v.pid # 0 /\ Alive(<<v.id, v.pid>>)
                       THEN [worker EXCEPT ![<<v.id, v.pid>>].pc = "gone"] ELSE worker
       \/ /\ v.status = "running" /\ d.pc = "survived" /\ Unkillable
          /\ d.work = {[id |-> v.id, seen |-> v, late |-> late[v.id]]}
          /\ leases' = leases /\ worker' = worker

LEMMA ExamineForm ==
    ASSUME TypeInv, NEW s \in Schedulers, Examine(s)
    PROVE  \E v \in sched[s].todo, d \in Scheduler : Examined(s, v, d)
<1>1. sched[s] \in Scheduler
  BY DEF TypeInv, Shapes
<1>2. PICK v \in sched[s].todo : Due(v) /\
             LET p == <<v.id, v.pid>>
                 here == [sched[s] EXCEPT !.todo = sched[s].todo \ {v},
                            !.work = {[id |-> v.id, seen |-> v, late |-> late[v.id]]}]
             IN
             IF v.status # "running"
             THEN /\ leases' = Released(v.id, v.refs)
                  /\ sched' = [sched EXCEPT ![s] = [here EXCEPT !.pc = "settling",
                        !.work = {[id |-> v.id, verdict |-> "timed_out"]}]]
                  /\ UNCHANGED worker
             ELSE \/ /\ worker' = IF v.pid # 0 /\ Alive(p)
                                  THEN [worker EXCEPT ![p].pc = "gone"] ELSE worker
                     /\ sched' = [sched EXCEPT ![s] = [here EXCEPT !.pc = "killed"]]
                     /\ UNCHANGED leases
                  \/ /\ Unkillable /\ v.pid # 0 /\ Alive(p)
                     /\ sched' = [sched EXCEPT ![s] = [here EXCEPT !.pc = "survived"]]
                     /\ UNCHANGED <<leases, worker>>
  BY Zenon DEF Examine
<1>3. v \in Snapshot /\ v.id \in Jobs /\ late[v.id] \in BOOLEAN
  BY <1>1 DEF Scheduler, Snapshot, TypeInv, Shapes
<1>. DEFINE here == [sched[s] EXCEPT !.todo = sched[s].todo \ {v},
                        !.work = {[id |-> v.id, seen |-> v, late |-> late[v.id]]}]
            settling == [here EXCEPT !.pc = "settling",
                            !.work = {[id |-> v.id, verdict |-> "timed_out"]}]
<1>4. CASE v.status # "running"
  <2>1. settling \in Scheduler /\ WorkFits(settling)
    BY <1>1, <1>3, TaskShapes DEF Scheduler, WorkFits, Resting, Examining, Verdicts, Terminal
  <2>2. /\ settling.pc = "settling" /\ settling.work = {[id |-> v.id, verdict |-> "timed_out"]}
        /\ settling.todo = sched[s].todo \ {v} /\ settling.grant = sched[s].grant
    BY <1>1 DEF Scheduler
  <2>3. sched' = [sched EXCEPT ![s] = settling] /\ leases' = Released(v.id, v.refs) /\ worker' = worker
    BY <1>2, <1>4
  <2>. HIDE DEF settling
  <2>. QED
    BY <1>2, <1>3, <1>4, <2>1, <2>2, <2>3 DEF Examined
<1>5. CASE v.status = "running"
  <2>1. ASSUME NEW pc \in Examining
        PROVE  LET d == [here EXCEPT !.pc = pc] IN
               /\ d \in Scheduler /\ WorkFits(d) /\ d.pc = pc
               /\ d.work = {[id |-> v.id, seen |-> v, late |-> late[v.id]]}
               /\ d.todo = sched[s].todo \ {v} /\ d.grant = sched[s].grant
    BY <1>1, <1>3, TaskShapes DEF Scheduler, WorkFits, Resting, Examining
  <2>2. CASE /\ worker' = IF v.pid # 0 /\ Alive(<<v.id, v.pid>>)
                          THEN [worker EXCEPT ![<<v.id, v.pid>>].pc = "gone"] ELSE worker
             /\ sched' = [sched EXCEPT ![s] = [here EXCEPT !.pc = "killed"]]
             /\ UNCHANGED leases
    <3>. DEFINE d == [here EXCEPT !.pc = "killed"]
    <3>1. /\ d \in Scheduler /\ WorkFits(d) /\ d.pc = "killed"
          /\ d.work = {[id |-> v.id, seen |-> v, late |-> late[v.id]]}
          /\ d.todo = sched[s].todo \ {v} /\ d.grant = sched[s].grant
      BY <2>1 DEF Examining
    <3>2. sched' = [sched EXCEPT ![s] = d]
      BY <2>2
    <3>. HIDE DEF d
    <3>. QED
      BY <1>2, <1>3, <1>5, <2>2, <3>1, <3>2 DEF Examined
  <2>3. CASE /\ Unkillable /\ sched' = [sched EXCEPT ![s] = [here EXCEPT !.pc = "survived"]]
             /\ UNCHANGED <<leases, worker>>
    <3>. DEFINE d == [here EXCEPT !.pc = "survived"]
    <3>1. /\ d \in Scheduler /\ WorkFits(d) /\ d.pc = "survived"
          /\ d.work = {[id |-> v.id, seen |-> v, late |-> late[v.id]]}
          /\ d.todo = sched[s].todo \ {v} /\ d.grant = sched[s].grant
      BY <2>1 DEF Examining
    <3>2. sched' = [sched EXCEPT ![s] = d] /\ leases' = leases /\ worker' = worker
      BY <2>3
    <3>. HIDE DEF d
    <3>. QED
      BY <1>2, <1>3, <1>5, <2>3, <3>1, <3>2 DEF Examined
  <2>. QED
    BY <1>2, <1>5, <2>2, <2>3
<1>. QED
  BY <1>4, <1>5
-----------------------------------------------------------------------------
LEMMA InitTypes == Init => TypeInv
<1>. SUFFICES ASSUME Init PROVE TypeInv
  OBVIOUS
<1>1. job \in [Jobs -> JobRecord]
  BY Bounds, RuntimeAssumption DEF Init, JobRecord, RuntimeAssumption
<1>2. receipt \in [Jobs -> Receipt] /\ \A j \in Jobs : Conclusive(j)
  BY Bounds DEF Init, Receipt, Conclusive
<1>3. worker \in [Pids -> Worker] /\ \A p \in Pids : HasOutcome(p)
  BY Bounds DEF Init, Worker, WorkerPC, HasOutcome
<1>4. sched \in [Schedulers -> Scheduler] /\ \A s \in Schedulers : WorkFits(sched[s])
  BY RestFits DEF Init
<1>5. \A j \in Jobs : job[j].status = "waiting"
  BY DEF Init
<1>. QED
  BY <1>1, <1>2, <1>3, <1>4, <1>5, RuntimeAssumption DEF Counted, Init, TypeInv, Shapes, RuntimeAssumption

LEMMA ExpireTypes ==
    ASSUME TypeInv, NEW s \in Schedulers, NEW j \in Jobs, ExpireWaiting(s, j)
    PROVE  TypeInv'
<1>1. [job[j] EXCEPT !.status = "timed_out", !.pid = 0] \in JobRecord
  BY Bounds DEF TypeInv, Shapes, JobRecord, Terminal
<1>. QED
  BY <1>1 DEF ExpireWaiting, TypeInv, Shapes, HasOutcome, Conclusive, Counted

LEMMA AcquireTypes ==
    ASSUME TypeInv, NEW s \in Schedulers, NEW j \in Jobs, Acquire(s, j)
    PROVE  TypeInv'
<1>1. sched[s] \in Scheduler
  BY DEF TypeInv, Shapes
<1>2. ASSUME NEW g \in Refs, Busy(s, "leased", j, g)
      PROVE  sched' \in [Schedulers -> Scheduler] /\ \A t \in Schedulers : WorkFits(sched'[t])
  <2>. DEFINE d == [sched[s] EXCEPT !.pc = "leased", !.work = {[id |-> j]}, !.grant = g]
  <2>1. d \in Scheduler
    BY <1>1, TaskShapes DEF Scheduler
  <2>2. WorkFits(d)
    BY <1>1 DEF WorkFits, Resting, Examining, Scheduler
  <2>3. sched' = [sched EXCEPT ![s] = d]
    BY <1>2 DEF Busy
  <2>. QED
    BY <2>1, <2>2, <2>3, SchedStep
<1>3. idle' \in [Jobs -> 0..2]
  BY DEF Acquire, TypeInv, Shapes
<1>4. /\ leases' \subseteq [owner : Jobs, tok : Tokens] /\ token' \in 0..MaxToken
      /\ \E g \in Refs : Busy(s, "leased", j, g)
  <2>1. CASE job[j].writes
    <3>1. /\ token < MaxToken /\ token' = token + 1 /\ Busy(s, "leased", j, {token + 1})
          /\ leases' = leases \cup {[owner |-> j, tok |-> token + 1]}
      BY <2>1 DEF Acquire
    <3>2. token + 1 \in Tokens /\ token + 1 \in 0..MaxToken
      BY <3>1, RuntimeAssumption DEF TypeInv, Shapes, Tokens, RuntimeAssumption
    <3>3. {token + 1} \in Refs
      BY <3>2 DEF Refs
    <3>. QED
      BY <3>1, <3>2, <3>3 DEF TypeInv, Shapes
  <2>2. CASE ~job[j].writes
    BY <2>2, Bounds DEF Acquire, TypeInv, Shapes
  <2>. QED
    BY <2>1, <2>2
<1>. QED
  BY <1>2, <1>3, <1>4 DEF Acquire, TypeInv, Shapes, HasOutcome, Conclusive, Counted

LEMMA DispatchedShape ==
    ASSUME NEW r \in JobRecord, NEW g \in Refs, r.attempt < MaxAttempts + 1
    PROVE  Dispatched(r, g) \in JobRecord /\ Dispatched(r, g).attempt \in Attempts
BY Bounds DEF Dispatched, JobRecord

LEMMA ClaimTypes ==
    ASSUME TypeInv, NEW s \in Schedulers, Claim(s)
    PROVE  TypeInv'
<1>1. PICK j \in Jobs :
          /\ sched[s].work = {[id |-> j]}
          /\ \/ /\ job[j].status = "waiting" /\ job[j].attempt < MaxAttempts + 1
                /\ job' = [job EXCEPT ![j] = Dispatched(job[j], sched[s].grant)]
                /\ sched' = [sched EXCEPT ![s] = [sched[s] EXCEPT !.pc = "claimed"]]
                /\ leases' = leases
             \/ /\ job[j].status # "waiting" /\ job' = job
                /\ leases' = Released(j, sched[s].grant) /\ Rest(s)
  BY ClaimForm
<1>2. /\ sched[s] \in Scheduler /\ job[j] \in JobRecord
      /\ UNCHANGED <<receipt, token, idle, late, worker, epoch, doomed, crashes, begun>>
  BY DEF TypeInv, Shapes, Claim
<1>3. CASE job[j].status = "waiting"
  <2>. DEFINE d == [sched[s] EXCEPT !.pc = "claimed"]
              r == Dispatched(job[j], sched[s].grant)
  <2>1. r \in JobRecord /\ r.attempt \in Attempts
    BY <1>1, <1>2, <1>3, DispatchedShape DEF Scheduler
  <2>2. d \in Scheduler /\ WorkFits(d)
    BY <1>1, <1>2 DEF WorkFits, Resting, Examining, Scheduler
  <2>3. sched' \in [Schedulers -> Scheduler] /\ \A t \in Schedulers : WorkFits(sched'[t])
    BY <1>1, <1>3, <2>2, SchedStep
  <2>4. job' \in [Jobs -> JobRecord] /\ \A i \in Jobs : Counted(i)'
    BY <1>1, <1>3, <2>1 DEF TypeInv, Shapes, Counted
  <2>. QED
    BY <1>1, <1>2, <1>3, <2>3, <2>4 DEF TypeInv, Shapes, HasOutcome, Conclusive
<1>4. CASE job[j].status # "waiting"
  <2>1. sched' \in [Schedulers -> Scheduler] /\ \A t \in Schedulers : WorkFits(sched'[t])
    BY <1>1, <1>4, SchedStep, RestFits DEF Rest
  <2>. QED
    BY <1>1, <1>2, <1>4, <2>1 DEF TypeInv, Shapes, HasOutcome, Conclusive, Counted, Released
<1>. QED
  BY <1>3, <1>4

LEMMA ClaimIndexBusyTypes ==
    ASSUME TypeInv, NEW s \in Schedulers, ClaimIndexBusy(s)
    PROVE  TypeInv'
<1>1. PICK j \in Jobs :
          /\ sched[s].work = {[id |-> j]}
          /\ job[j].status = "waiting" /\ job[j].attempt < MaxAttempts + 1
          /\ job' = [job EXCEPT ![j] = Dispatched(job[j], sched[s].grant)]
  BY ClaimIndexBusyForm
<1>2. /\ sched[s] \in Scheduler /\ job[j] \in JobRecord
  BY DEF TypeInv, Shapes
<1>3. Rest(s) /\ UNCHANGED <<receipt, leases, token, idle, late, worker, epoch, doomed, crashes, begun>>
  BY Zenon DEF ClaimIndexBusy
<1>. DEFINE r == Dispatched(job[j], sched[s].grant)
<1>4. r \in JobRecord /\ r.attempt \in Attempts
  BY <1>1, <1>2, DispatchedShape DEF Scheduler
<1>5. sched' \in [Schedulers -> Scheduler] /\ \A t \in Schedulers : WorkFits(sched'[t])
  BY <1>3, SchedStep, RestFits DEF Rest
<1>6. job' \in [Jobs -> JobRecord] /\ \A i \in Jobs : Counted(i)'
  BY <1>1, <1>4 DEF TypeInv, Shapes, Counted
<1>. QED
  BY <1>3, <1>5, <1>6 DEF TypeInv, Shapes, HasOutcome, Conclusive

LEMMA SpawnTypes ==
    ASSUME TypeInv, NEW s \in Schedulers, SpawnChild(s)
    PROVE  TypeInv'
<1>. DEFINE r(j) == [worker[Current(j)] EXCEPT !.pc = "boot", !.parented = (s = epoch)]
            d(j) == [sched[s] EXCEPT !.pc = "spawned", !.work = {[id |-> j, pid |-> job[j].attempt]}]
<1>1. PICK j \in Jobs :
          \/ /\ job[j].attempt \in Attempts
             /\ worker' = [worker EXCEPT ![Current(j)] = r(j)]
             /\ sched' = [sched EXCEPT ![s] = d(j)]
          \/ /\ Rest(s) /\ worker' = worker
  BY SpawnForm
<1>2. /\ sched[s] \in Scheduler
      /\ UNCHANGED <<job, receipt, leases, token, idle, late, epoch, doomed, crashes, begun>>
  BY DEF TypeInv, Shapes, SpawnChild
<1>3. CASE Rest(s) /\ worker' = worker
  BY <1>2, <1>3, SchedStep, RestFits DEF TypeInv, Shapes, HasOutcome, Conclusive, Counted, Rest
<1>4. CASE /\ job[j].attempt \in Attempts /\ worker' = [worker EXCEPT ![Current(j)] = r(j)]
           /\ sched' = [sched EXCEPT ![s] = d(j)]
  <2>1. d(j) \in Scheduler /\ WorkFits(d(j))
    BY <1>2, <1>4, TaskShapes DEF Scheduler, WorkFits, Resting, Examining
  <2>2. Current(j) \in Pids
    BY <1>4 DEF Pids, Current
  <2>3. r(j) \in Worker /\ r(j).pc = "boot"
    BY <2>2 DEF TypeInv, Shapes, Worker, WorkerPC
  <2>. QED
    BY <1>2, <1>4, <2>1, <2>2, <2>3, SchedStep, WorkerStep DEF TypeInv, Shapes, Conclusive, Counted
<1>. QED
  BY <1>1, <1>3, <1>4


LEMMA AttachTypes ==
    ASSUME TypeInv, NEW s \in Schedulers, Attach(s)
    PROVE  TypeInv'
<1>1. PICK j \in Jobs, a \in Attempts :
          \/ /\ Attachable(job[j]) /\ worker' = worker
             /\ job' = [job EXCEPT ![j] = [job[j] EXCEPT !.status = "running", !.pid = a]]
             /\ \E n \in 0..2 : idle' = [idle EXCEPT ![j] = n]
          \/ /\ ~Attachable(job[j]) /\ job' = job /\ idle' = idle
             /\ Move(<<j, a>>, "gone")
  BY AttachForm
<1>2. /\ job[j] \in JobRecord /\ <<j, a>> \in Pids /\ Rest(s)
      /\ UNCHANGED <<receipt, leases, token, late, epoch, doomed, crashes, begun>>
  BY DEF TypeInv, Shapes, Attach, Pids
<1>3. sched' \in [Schedulers -> Scheduler] /\ \A t \in Schedulers : WorkFits(sched'[t])
  BY <1>2, SchedStep, RestFits DEF Rest
<1>4. CASE Attachable(job[j])
  <2>. DEFINE r == [job[j] EXCEPT !.status = "running", !.pid = a]
  <2>1. r \in JobRecord /\ r.attempt \in Attempts
    BY <1>2, <1>4, Bounds DEF JobRecord, Attachable, TypeInv, Counted
  <2>2. job' = [job EXCEPT ![j] = r] /\ worker' = worker
    BY <1>1, <1>4
  <2>3. idle' \in [Jobs -> 0..2]
    BY <1>1, <1>4 DEF TypeInv, Shapes
  <2>4. job' \in [Jobs -> JobRecord] /\ \A i \in Jobs : Counted(i)'
    BY <2>1, <2>2 DEF TypeInv, Shapes, Counted
  <2>. QED
    BY <1>2, <1>3, <2>2, <2>3, <2>4 DEF TypeInv, Shapes, HasOutcome, Conclusive
<1>5. CASE ~Attachable(job[j])
  <2>1. worker' \in [Pids -> Worker] /\ \A q \in Pids : HasOutcome(q)'
    BY <1>1, <1>2, <1>5, MoveTypes DEF WorkerPC
  <2>. QED
    BY <1>1, <1>2, <1>3, <1>5, <2>1 DEF TypeInv, Shapes, Conclusive, Counted
<1>. QED
  BY <1>4, <1>5

LEMMA AttachBusyTypes ==
    ASSUME TypeInv, NEW s \in Schedulers, AttachBusy(s)
    PROVE  TypeInv'
<1>1. Rest(s) /\ UNCHANGED <<job, receipt, leases, token, idle, late, worker, epoch, doomed, crashes, begun>>
  BY Zenon DEF AttachBusy
<1>. QED
  BY <1>1, SchedStep, RestFits DEF TypeInv, Shapes, HasOutcome, Conclusive, Counted, Rest

-----------------------------------------------------------------------------
LEMMA BootTypes ==
    ASSUME TypeInv, NEW p \in Pids, Boot(p)
    PROVE  TypeInv'
<1>. DEFINE r == [worker[p] EXCEPT !.pc = "owned", !.refs = job[p[1]].refs]
<1>1. r \in Worker /\ r.pc = "owned"
  BY PidFacts DEF TypeInv, Shapes, Worker, WorkerPC, JobRecord
<1>. QED
  BY <1>1, WorkerStep DEF Boot, TypeInv, Shapes, Conclusive, Counted

LEMMA FirstBeatTypes ==
    ASSUME TypeInv, NEW p \in Pids, FirstBeat(p)
    PROVE  TypeInv'
<1>1. worker' \in [Pids -> Worker] /\ \A q \in Pids : HasOutcome(q)'
  <2>1. Move(p, "beating") \/ Move(p, "failing")
    BY DEF FirstBeat
  <2>. QED
    BY <2>1, MoveTypes DEF WorkerPC
<1>2. idle' \in [Jobs -> 0..2]
  BY DEF FirstBeat, Fresh, TypeInv, Shapes
<1>. QED
  BY <1>1, <1>2 DEF FirstBeat, TypeInv, Shapes, Conclusive, Counted

LEMMA BeginTypes ==
    ASSUME TypeInv, NEW p \in Pids, Begin(p)
    PROVE  TypeInv'
<1>1. worker' \in [Pids -> Worker] /\ \A q \in Pids : HasOutcome(q)'
  BY MoveTypes DEF Begin, WorkerPC
<1>2. begun' \in [Jobs -> Nat]
  BY PidFacts DEF Begin, TypeInv, Shapes
<1>3. receipt' \in [Jobs -> Receipt] /\ \A j \in Jobs : Conclusive(j)'
  <2>1. [attempt |-> p[2], state |-> "started", outcome |-> "none"] \in Receipt
    BY PidFacts, Bounds DEF Receipt
  <2>. QED
    BY <2>1, PidFacts DEF Begin, TypeInv, Shapes, Conclusive
<1>. QED
  BY <1>1, <1>2, <1>3 DEF Begin, TypeInv, Shapes, Counted

LEMMA CompleteTypes ==
    ASSUME TypeInv, NEW p \in Pids, Complete(p)
    PROVE  TypeInv'
<1>. DEFINE r == [worker[p] EXCEPT !.pc = "receipted"]
<1>1. worker[p] \in Worker /\ worker[p].pc = "checked" /\ worker[p].outcome # "none"
  BY DEF TypeInv, Shapes, Complete, At, HasOutcome
<1>2. r \in Worker /\ r.outcome # "none"
  BY <1>1 DEF Worker, WorkerPC
<1>3. worker' \in [Pids -> Worker] /\ \A q \in Pids : HasOutcome(q)'
  BY <1>2, WorkerStep DEF Complete, Move
<1>4. receipt' \in [Jobs -> Receipt] /\ \A j \in Jobs : Conclusive(j)'
  <2>1. [attempt |-> p[2], state |-> "completed", outcome |-> worker[p].outcome] \in Receipt
    BY <1>1, PidFacts, Bounds DEF Receipt, Worker
  <2>. QED
    BY <1>1, <2>1, PidFacts DEF Complete, TypeInv, Shapes, Conclusive
<1>. QED
  BY <1>3, <1>4 DEF Complete, TypeInv, Shapes, Counted

LEMMA FinishTypes ==
    ASSUME TypeInv, NEW p \in Pids, Finish(p)
    PROVE  TypeInv'
<1>1. PICK x \in {"succeeded", "failed"} :
          worker' = [worker EXCEPT ![p] = [worker[p] EXCEPT !.pc = "checked", !.outcome = x]]
  BY DEF Finish
<1>. DEFINE r == [worker[p] EXCEPT !.pc = "checked", !.outcome = x]
<1>2. r \in Worker /\ r.outcome # "none"
  BY DEF TypeInv, Shapes, Worker, WorkerPC
<1>. QED
  BY <1>1, <1>2, WorkerStep DEF Finish, TypeInv, Shapes, Conclusive, Counted

(* The end of a worker: its record may change as GivenUp says, its leases  *)
(* may go, it moves on.                                                    *)
LEMMA GiveUpTypes ==
    ASSUME TypeInv, NEW p \in Pids, LoseOwnership(p) \/ Fail(p)
    PROVE  TypeInv'
<1>1. Move(p, "gone") \/ Move(p, "leaving")
  BY Zenon DEF LoseOwnership, Fail
<1>2. worker' \in [Pids -> Worker] /\ \A q \in Pids : HasOutcome(q)'
  BY <1>1, MoveTypes DEF WorkerPC
<1>3. /\ job' = [job EXCEPT ![p[1]] = GivenUp(p[1], p[2])]
      /\ leases' = Released(p[1], worker[p].refs) \/ leases' = leases
      /\ UNCHANGED <<receipt, token, idle, late, sched, epoch, doomed, crashes, begun>>
  BY Zenon DEF LoseOwnership, Fail
<1>4. leases' \subseteq leases
  BY <1>3 DEF Released
<1>5. job' \in [Jobs -> JobRecord]
  BY <1>3, GivenUpShape DEF TypeInv, Shapes
<1>6. ASSUME NEW j \in Jobs PROVE Counted(j)'
  <2>1. /\ job[p[1]] \in JobRecord
        /\ GivenUp(p[1], p[2]).status \in {"dispatched", "running"} => GivenUp(p[1], p[2]) = job[p[1]]
    <3>1. job[p[1]] \in JobRecord /\ {"failed", "human_attention_required"} \subseteq Statuses
      BY PidFacts, Bounds DEF TypeInv, Shapes, Terminal
    <3>2. \A x \in {"failed", "human_attention_required"} : Ended(job[p[1]], x).status = x
      BY <3>1, EndedShape
    <3>. QED
      BY <3>1, <3>2 DEF GivenUp
  <2>2. j # p[1] => job'[j] = job[j]
    BY <1>3 DEF TypeInv, Shapes
  <2>3. j = p[1] => job'[j] = GivenUp(p[1], p[2])
    BY <1>3 DEF TypeInv, Shapes
  <2>. QED
    BY <2>1, <2>2, <2>3 DEF TypeInv, Counted
<1>. QED
  BY <1>2, <1>3, <1>4, <1>5, <1>6 DEF TypeInv, Shapes, Conclusive

LEMMA PublishTypes ==
    ASSUME TypeInv, NEW p \in Pids, Publish(p)
    PROVE  TypeInv'
<1>1. Move(p, "leaving") \/ Move(p, "failing")
  BY DEF Publish
<1>2. worker' \in [Pids -> Worker] /\ \A q \in Pids : HasOutcome(q)'
  BY <1>1, MoveTypes DEF WorkerPC
<1>3. worker[p].outcome \in {"succeeded", "failed"} /\ job[p[1]] \in JobRecord
  BY PidFacts DEF Publish, At, TypeInv, Shapes, HasOutcome, Worker
<1>4. /\ Ended(job[p[1]], worker[p].outcome) \in JobRecord
      /\ Ended(job[p[1]], worker[p].outcome).status = worker[p].outcome
  <2>1. worker[p].outcome \in Statuses
    BY <1>3, Bounds DEF Terminal
  <2>. QED
    BY <1>3, <2>1, EndedShape
<1>5. job' \in [Jobs -> JobRecord] /\ \A j \in Jobs : Counted(j)'
  BY <1>3, <1>4, PidFacts DEF Publish, TypeInv, Shapes, Counted
<1>. QED
  BY <1>2, <1>5 DEF Publish, TypeInv, Shapes, Conclusive

LEMMA MovingTypes ==
    ASSUME TypeInv, NEW p \in Pids, BootRefused(p) \/ Leave(p) \/ WorkerDies(p)
    PROVE  TypeInv'
<1>1. Move(p, "failing") \/ Move(p, "gone")
  BY DEF BootRefused, Leave, WorkerDies
<1>2. worker' \in [Pids -> Worker] /\ \A q \in Pids : HasOutcome(q)'
  BY <1>1, MoveTypes DEF WorkerPC
<1>3. /\ leases' = Released(p[1], worker[p].refs) \/ leases' = leases
      /\ crashes' = crashes \/ (crashes < MaxCrashes /\ crashes' = crashes + 1)
      /\ UNCHANGED <<job, receipt, token, idle, late, sched, epoch, doomed, begun>>
  BY DEF BootRefused, Leave, WorkerDies
<1>4. leases' \subseteq leases /\ crashes' \in 0..MaxCrashes
  BY <1>3, RuntimeAssumption DEF Released, TypeInv, Shapes, RuntimeAssumption
<1>. QED
  BY <1>2, <1>3, <1>4 DEF TypeInv, Shapes, Conclusive, Counted

LEMMA BeatTypes ==
    ASSUME TypeInv, NEW p \in Pids, Beat(p)
    PROVE  TypeInv'
<1>1. /\ idle' = [idle EXCEPT ![p[1]] = 0]
      /\ UNCHANGED <<job, receipt, leases, token, late, worker, sched, epoch, doomed, crashes, begun>>
  BY Zenon DEF Beat
<1>2. idle' \in [Jobs -> 0..2]
  BY <1>1, PidFacts DEF TypeInv, Shapes
<1>. QED
  BY <1>1, <1>2 DEF TypeInv, Shapes, HasOutcome, Conclusive, Counted

-----------------------------------------------------------------------------
LEMMA SeenShape ==
    ASSUME TypeInv, NEW j \in Jobs
    PROVE  Seen(j) \in Snapshot /\ Seen(j).id = j
BY DEF TypeInv, Shapes, Seen, Snapshot, JobRecord

LEMMA ReconcileTypes ==
    ASSUME TypeInv, NEW s \in Schedulers, Reconcile(s)
    PROVE  TypeInv'
<1>. DEFINE d == [sched[s] EXCEPT !.pc = "reconciling", !.todo = {Seen(j) : j \in Active}]
<1>1. {Seen(j) : j \in Active} \subseteq Snapshot
  BY SeenShape DEF Active
<1>2. sched[s] \in Scheduler /\ sched[s].work = {}
  BY DEF Reconcile, TypeInv, Shapes, WorkFits, Resting
<1>3. d \in Scheduler
  BY <1>1, <1>2 DEF Scheduler, Resting
<1>4. WorkFits(d)
  BY <1>2 DEF Scheduler, WorkFits, Resting, Examining
<1>. QED
  BY <1>3, <1>4, SchedStep DEF Reconcile, TypeInv, Shapes, HasOutcome, Conclusive, Counted

LEMMA SkipTypes ==
    ASSUME TypeInv, NEW s \in Schedulers, Skip(s)
    PROVE  TypeInv'
<1>1. PICK v \in sched[s].todo :
          Rest(s) \/ sched' = [sched EXCEPT ![s].todo = sched[s].todo \ {v}]
  BY DEF Skip
<1>2. sched[s] \in Scheduler /\ WorkFits(sched[s])
  BY DEF TypeInv, Shapes
<1>3. sched' \in [Schedulers -> Scheduler] /\ \A t \in Schedulers : WorkFits(sched'[t])
  <2>1. CASE Rest(s)
    BY <2>1, SchedStep, RestFits DEF Rest
  <2>2. CASE sched' = [sched EXCEPT ![s].todo = sched[s].todo \ {v}]
    <3>. DEFINE d == [sched[s] EXCEPT !.todo = sched[s].todo \ {v}]
    <3>1. d \in Scheduler /\ WorkFits(d)
      BY <1>2 DEF Scheduler, WorkFits
    <3>. QED
      BY <2>2, <3>1, SchedStep
  <2>. QED
    BY <1>1, <2>1, <2>2
<1>. QED
  BY <1>3 DEF Skip, TypeInv, Shapes, HasOutcome, Conclusive, Counted

LEMMA ExamineTypes ==
    ASSUME TypeInv, NEW s \in Schedulers, Examine(s)
    PROVE  TypeInv'
<1>1. PICK v \in sched[s].todo, d \in Scheduler : Examined(s, v, d)
  BY ExamineForm
<1>2. v \in Snapshot /\ WorkFits(d) /\ sched' = [sched EXCEPT ![s] = d]
  BY <1>1, Zenon DEF Examined
<1>3. v.pid # 0 => <<v.id, v.pid>> \in Pids
  BY <1>2, Bounds DEF Snapshot, Pids
<1>4. worker' \in [Pids -> Worker] /\ \A q \in Pids : HasOutcome(q)'
  <2>1. CASE worker' = worker
    BY <2>1 DEF TypeInv, Shapes, HasOutcome
  <2>2. CASE v.pid # 0 /\ Move(<<v.id, v.pid>>, "gone")
    BY <1>3, <2>2, MoveTypes DEF WorkerPC
  <2>. QED
    BY <1>1, <2>1, <2>2 DEF Examined, Move
<1>5. sched' \in [Schedulers -> Scheduler] /\ \A t \in Schedulers : WorkFits(sched'[t])
  BY <1>2, SchedStep
<1>6. leases' \subseteq leases
  BY <1>1 DEF Examined, Released
<1>7. UNCHANGED <<job, receipt, token, idle, late, epoch, doomed, crashes, begun>>
  BY Zenon DEF Examine
<1>. QED
  BY <1>4, <1>5, <1>6, <1>7 DEF TypeInv, Shapes, Conclusive, Counted

LEMMA FinalizeTypes ==
    ASSUME TypeInv, NEW s \in Schedulers, Finalize(s)
    PROVE  TypeInv'
<1>1. PICK v \in Snapshot, b \in BOOLEAN, x \in Verdicts : Finalized(s, v, b, x)
  BY FinalizeForm
<1>. DEFINE d == [sched[s] EXCEPT !.pc = "settling", !.work = {[id |-> v.id, verdict |-> x]}]
<1>2. v.id \in Jobs /\ sched[s] \in Scheduler
  BY DEF Snapshot, TypeInv, Shapes
<1>3. d \in Scheduler /\ WorkFits(d)
  BY <1>2, TaskShapes DEF Scheduler, WorkFits, Resting, Examining
<1>4. sched' \in [Schedulers -> Scheduler] /\ \A t \in Schedulers : WorkFits(sched'[t])
  BY <1>1, <1>3, SchedStep DEF Finalized
<1>. QED
  BY <1>1, <1>4 DEF Finalized, Finalize, Released, TypeInv, Shapes, HasOutcome, Conclusive, Counted

LEMMA SettleTypes ==
    ASSUME TypeInv, NEW s \in Schedulers, Settle(s)
    PROVE  TypeInv'
<1>1. PICK j \in Jobs, x \in Verdicts :
          /\ job' = job \/ job' = [job EXCEPT ![j] = Ended(job[j], x)]
          /\ \/ Rest(s)
             \/ sched' = [sched EXCEPT ![s] = [sched[s] EXCEPT !.pc = "reconciling", !.work = {}]]
  BY SettleForm
<1>. DEFINE d == [sched[s] EXCEPT !.pc = "reconciling", !.work = {}]
<1>2. sched' \in [Schedulers -> Scheduler] /\ \A t \in Schedulers : WorkFits(sched'[t])
  <2>1. CASE Rest(s)
    BY <2>1, SchedStep, RestFits DEF Rest
  <2>2. CASE sched' = [sched EXCEPT ![s] = d]
    <3>1. d \in Scheduler /\ WorkFits(d)
      BY DEF TypeInv, Shapes, Scheduler, WorkFits, Resting, Examining
    <3>. QED
      BY <2>2, <3>1, SchedStep
  <2>. QED
    BY <1>1, <2>1, <2>2
<1>3. job' \in [Jobs -> JobRecord] /\ \A i \in Jobs : Counted(i)'
  <2>1. x \in Statuses /\ x \notin {"dispatched", "running"} /\ job[j] \in JobRecord
    BY Bounds DEF Verdicts, Terminal, TypeInv, Shapes
  <2>2. Ended(job[j], x) \in JobRecord /\ Ended(job[j], x).status = x
    BY <2>1, EndedShape
  <2>. QED
    BY <1>1, <2>1, <2>2 DEF TypeInv, Shapes, Counted
<1>. QED
  BY <1>2, <1>3 DEF Settle, TypeInv, Shapes, HasOutcome, Conclusive

-----------------------------------------------------------------------------
LEMMA CancelTypes ==
    ASSUME TypeInv, NEW j \in Jobs, Cancel(j)
    PROVE  TypeInv'
<1>1. /\ job' = [job EXCEPT ![j] = Ended(job[j], "cancelled")]
      /\ leases' = Released(j, job[j].refs)
      /\ doomed' = doomed \cup (IF job[j].pid = 0 THEN {} ELSE {<<j, job[j].pid>>})
      /\ UNCHANGED <<receipt, token, idle, late, worker, sched, epoch, crashes, begun>>
  BY Zenon DEF Cancel
<1>2. job[j] \in JobRecord
  BY DEF TypeInv, Shapes
<1>3. job' \in [Jobs -> JobRecord] /\ \A i \in Jobs : Counted(i)'
  <2>1. /\ Ended(job[j], "cancelled") \in JobRecord
        /\ Ended(job[j], "cancelled").status = "cancelled"
    BY <1>2, EndedShape, Bounds DEF Terminal
  <2>. QED
    BY <1>1, <2>1 DEF TypeInv, Shapes, Counted
<1>4. doomed' \subseteq Pids
  BY <1>1, <1>2, Bounds DEF TypeInv, Shapes, JobRecord, Pids
<1>5. leases' \subseteq leases
  BY <1>1 DEF Released
<1>. QED
  BY <1>1, <1>3, <1>4, <1>5 DEF TypeInv, Shapes, HasOutcome, Conclusive

LEMMA CancelKillTypes ==
    ASSUME TypeInv, NEW p \in Pids, CancelKill(p)
    PROVE  TypeInv'
<1>1. /\ Move(p, "gone") \/ worker' = worker
      /\ doomed' = doomed \ {p}
      /\ UNCHANGED <<job, receipt, leases, token, idle, late, sched, epoch, crashes, begun>>
  BY Zenon DEF CancelKill, Move
<1>2. worker' \in [Pids -> Worker] /\ \A q \in Pids : HasOutcome(q)'
  <2>1. CASE worker' = worker
    BY <2>1 DEF TypeInv, Shapes, HasOutcome
  <2>2. CASE Move(p, "gone")
    BY <2>2, MoveTypes DEF WorkerPC
  <2>. QED
    BY <1>1, <2>1, <2>2
<1>. QED
  BY <1>1, <1>2 DEF TypeInv, Shapes, Conclusive, Counted

(* The children of a daemon that is gone keep their place.                 *)
LEMMA OrphanedTypes ==
    ASSUME TypeInv, worker' = [p \in Pids |-> [worker[p] EXCEPT !.parented = FALSE]]
    PROVE  /\ worker' \in [Pids -> Worker] /\ \A q \in Pids : HasOutcome(q)'
           /\ \A q \in Pids : /\ worker'[q].pc = worker[q].pc /\ worker'[q].refs = worker[q].refs
                              /\ worker'[q].outcome = worker[q].outcome
<1>1. ASSUME NEW p \in Pids
      PROVE  /\ worker'[p] \in Worker /\ worker'[p].pc = worker[p].pc
             /\ worker'[p].refs = worker[p].refs /\ worker'[p].outcome = worker[p].outcome
  BY DEF TypeInv, Shapes, Worker
<1>2. worker' \in [Pids -> Worker]
  BY <1>1
<1>. QED
  BY <1>1, <1>2 DEF TypeInv, HasOutcome

LEMMA DaemonTypes ==
    ASSUME TypeInv, NEW s \in Schedulers, DaemonDies(s) \/ Start(s)
    PROVE  TypeInv'
<1>1. /\ sched' = [sched EXCEPT ![s] = Down] \/ sched' = [sched EXCEPT ![s] = Idle]
      /\ \/ worker' = [p \in Pids |-> [worker[p] EXCEPT !.parented = FALSE]]
         \/ worker' = worker
      /\ epoch' \in {epoch, s}
      /\ crashes' = crashes \/ (crashes < MaxCrashes /\ crashes' = crashes + 1)
      /\ UNCHANGED <<job, receipt, leases, token, idle, late, doomed, begun>>
  BY DEF DaemonDies, Start, Rest
<1>2. sched' \in [Schedulers -> Scheduler] /\ \A t \in Schedulers : WorkFits(sched'[t])
  BY <1>1, SchedStep, RestFits
<1>3. worker' \in [Pids -> Worker] /\ \A q \in Pids : HasOutcome(q)'
  <2>1. CASE worker' = worker
    BY <2>1 DEF TypeInv, Shapes, HasOutcome
  <2>. QED
    BY <1>1, <2>1, OrphanedTypes
<1>4. crashes' \in 0..MaxCrashes
  BY <1>1, RuntimeAssumption DEF TypeInv, Shapes, RuntimeAssumption
<1>. QED
  BY <1>1, <1>2, <1>3, <1>4 DEF TypeInv, Shapes, Conclusive, Counted

LEMMA TimeTypes ==
    ASSUME TypeInv, NEW j \in Jobs, Quiet(j) \/ Deadline(j)
    PROVE  TypeInv'
<1>1. /\ \/ idle' = idle
         \/ idle[j] < 2 /\ idle' = [idle EXCEPT ![j] = idle[j] + 1]
      /\ late' = late \/ late' = [late EXCEPT ![j] = TRUE]
      /\ leases' = leases \/ leases' = {l \in leases : l.owner # j}
      /\ UNCHANGED <<job, receipt, token, worker, sched, epoch, doomed, crashes, begun>>
  BY DEF Quiet, Deadline
<1>2. idle' \in [Jobs -> 0..2]
  BY <1>1 DEF TypeInv, Shapes
<1>. QED
  BY <1>1, <1>2 DEF TypeInv, Shapes, HasOutcome, Conclusive, Counted

LEMMA StutterTypes ==
    ASSUME TypeInv, UNCHANGED vars
    PROVE  TypeInv'
BY DEF vars, TypeInv, Shapes, HasOutcome, Conclusive, Counted

LEMMA NextTypes == TypeInv /\ [Next]_vars => TypeInv'
<1>. SUFFICES ASSUME TypeInv, [Next]_vars PROVE TypeInv'
  OBVIOUS
<1>1. ASSUME NEW s \in Schedulers, Dispatch(s) PROVE TypeInv'
  BY <1>1, ExpireTypes, AcquireTypes, ClaimTypes, ClaimIndexBusyTypes, SpawnTypes,
     AttachTypes, AttachBusyTypes, Zenon DEF Dispatch
<1>2. ASSUME NEW s \in Schedulers, Reconciliation(s) PROVE TypeInv'
  BY <1>2, ReconcileTypes, SkipTypes, ExamineTypes, FinalizeTypes, SettleTypes, Zenon
     DEF Reconciliation
<1>3. ASSUME NEW p \in Pids, WorkerSteps(p) PROVE TypeInv'
  BY <1>3, BootTypes, FirstBeatTypes, BeginTypes, FinishTypes, GiveUpTypes, CompleteTypes,
     PublishTypes, MovingTypes, Zenon DEF WorkerSteps
<1>. QED
  BY <1>1, <1>2, <1>3, DaemonTypes, BeatTypes, MovingTypes, CancelKillTypes, CancelTypes,
     TimeTypes, StutterTypes, Zenon DEF Next, Stopped

LEMMA AlwaysTypes == Spec => []TypeInv
BY InitTypes, NextTypes, PTL DEF Spec

(* Records, receipts, leases, workers and schedulers keep their form, and  *)
(* a scheduler has at most one job in hand, whatever the number of daemons *)
(* (runtime/execution/jobs, workers, global-scheduler).                    *)
THEOREM RuntimeTypes == Spec => []TypeOK
<1>1. ASSUME TypeInv PROVE TypeOK
  <2>1. ASSUME NEW s \in Schedulers PROVE Cardinality(sched[s].work) <= 1
    <3>1. sched[s].work = {} \/ \E w : sched[s].work = {w}
      BY <1>1 DEF TypeInv, Shapes, WorkFits, Scheduler, Resting, Examining
    <3>2. \A w : Cardinality({w}) = 1
      BY FS_Singleton
    <3>3. Cardinality({}) = 0
      BY FS_EmptySet
    <3>. QED
      BY <3>1, <3>2, <3>3
  <2>2. ASSUME NEW s \in Schedulers
        PROVE  /\ sched[s] \in Scheduler
               /\ \A w \in sched[s].work : w.id \in Jobs
    BY <1>1 DEF TypeInv, Shapes, Scheduler, Task
  <2>. QED
    BY <1>1, <2>1, <2>2 DEF TypeOK, TypeInv, Shapes, Scheduler, Resting, Examining
<1>. QED
  BY <1>1, AlwaysTypes, PTL

-----------------------------------------------------------------------------
(* Verdicts                                                                *)

StaysFinal == \A j \in Jobs : job[j].status \in Terminal => job'[j].status = job[j].status

LEMMA OneRecordStays ==
    ASSUME TypeInv, NEW j \in Jobs, NEW r, job' = [job EXCEPT ![j] = r],
           job[j].status \in Terminal => r.status = job[j].status
    PROVE  StaysFinal
BY DEF TypeInv, Shapes, StaysFinal

LEMMA GivenUpIsFinal ==
    ASSUME TypeInv, NEW p \in Pids, job[p[1]].status \in Terminal
    PROVE  GivenUp(p[1], p[2]).status = job[p[1]].status
BY DEF GivenUp, Terminal

LEMMA DispatchKeepsVerdicts ==
    ASSUME TypeInv, NEW s \in Schedulers, Dispatch(s)
    PROVE  StaysFinal
<1>1. ASSUME NEW j \in Jobs, ExpireWaiting(s, j) PROVE StaysFinal
  BY <1>1, OneRecordStays DEF ExpireWaiting, Terminal
<1>2. ASSUME Claim(s) PROVE StaysFinal
  <2>1. PICK j \in Jobs :
            \/ job[j].status = "waiting" /\ job' = [job EXCEPT ![j] = Dispatched(job[j], sched[s].grant)]
            \/ job' = job
    BY <1>2, ClaimForm
  <2>. QED
    BY <2>1, OneRecordStays DEF Terminal, StaysFinal
<1>3. ASSUME ClaimIndexBusy(s) PROVE StaysFinal
  <2>1. PICK j \in Jobs :
            job[j].status = "waiting" /\ job' = [job EXCEPT ![j] = Dispatched(job[j], sched[s].grant)]
    BY <1>3, ClaimIndexBusyForm
  <2>. QED
    BY <2>1, OneRecordStays DEF Terminal
<1>4. ASSUME Attach(s) PROVE StaysFinal
  <2>1. PICK j \in Jobs, a \in Attempts :
            \/ /\ Attachable(job[j])
               /\ job' = [job EXCEPT ![j] = [job[j] EXCEPT !.status = "running", !.pid = a]]
            \/ job' = job
    BY <1>4, AttachForm
  <2>2. Attachable(job[j]) => job[j].status \notin Terminal
    BY DEF Attachable, Terminal
  <2>. QED
    BY <2>1, <2>2, OneRecordStays DEF StaysFinal
<1>5. ASSUME job' = job PROVE StaysFinal
  BY <1>5 DEF StaysFinal
<1>6. ASSUME NEW j \in Jobs, Acquire(s, j) PROVE job' = job
  BY <1>6 DEF Acquire
<1>7. ASSUME SpawnChild(s) \/ AttachBusy(s) PROVE job' = job
  BY <1>7, Zenon DEF SpawnChild, AttachBusy
<1>. QED
  BY <1>1, <1>2, <1>3, <1>4, <1>5, <1>6, <1>7, Zenon DEF Dispatch

LEMMA WorkersKeepVerdicts ==
    ASSUME TypeInv, NEW p \in Pids, WorkerSteps(p)
    PROVE  StaysFinal
<1>1. ASSUME Publish(p) PROVE StaysFinal
  <2>1. \/ job' = job
        \/ /\ job[p[1]].status = "running"
           /\ job' = [job EXCEPT ![p[1]] = Ended(job[p[1]], worker[p].outcome)]
    BY <1>1 DEF Publish, Publishable
  <2>. QED
    BY <2>1, PidFacts, OneRecordStays DEF StaysFinal, Terminal
<1>2. ASSUME LoseOwnership(p) \/ Fail(p) PROVE StaysFinal
  <2>1. job' = [job EXCEPT ![p[1]] = GivenUp(p[1], p[2])]
    BY <1>2, Zenon DEF LoseOwnership, Fail
  <2>. QED
    BY <2>1, PidFacts, OneRecordStays, GivenUpIsFinal
<1>3. ASSUME Boot(p) \/ BootRefused(p) \/ FirstBeat(p) \/ Begin(p) \/ Finish(p)
               \/ Complete(p) \/ Leave(p)
      PROVE  job' = job
  BY <1>3 DEF Boot, BootRefused, FirstBeat, Begin, Finish, Complete, Leave
<1>. QED
  BY <1>1, <1>2, <1>3, Zenon DEF WorkerSteps, StaysFinal

LEMMA NextKeepsVerdicts == TypeInv /\ [Next]_vars => StaysFinal
<1>. SUFFICES ASSUME TypeInv, [Next]_vars PROVE StaysFinal
  OBVIOUS
<1>1. ASSUME NEW s \in Schedulers, Settle(s) PROVE StaysFinal
  <2>1. PICK j \in Jobs, x \in Verdicts :
            \/ /\ TransitionAllowed(job[j].status, x)
               /\ job' = [job EXCEPT ![j] = Ended(job[j], x)]
            \/ job' = job
    BY <1>1, SettleForm
  <2>2. job[j] \in JobRecord /\ Ended(job[j], x).status = x
    BY EndedShape, Bounds DEF TypeInv, Shapes, Verdicts
  <2>3. job[j].status \in Terminal /\ TransitionAllowed(job[j].status, x) => x = job[j].status
    BY DEF TransitionAllowed, Terminal
  <2>. QED
    BY <2>1, <2>2, <2>3, OneRecordStays DEF StaysFinal
<1>2. ASSUME NEW s \in Schedulers, Reconciliation(s), ~Settle(s) PROVE job' = job
  BY <1>2, Zenon DEF Reconciliation, Reconcile, Skip, Examine, Finalize
<1>3. ASSUME NEW j \in Jobs, Cancel(j) PROVE StaysFinal
  <2>1. job[j].status \notin Terminal /\ job' = [job EXCEPT ![j] = Ended(job[j], "cancelled")]
    BY <1>3, Zenon DEF Cancel
  <2>. QED
    BY <2>1, OneRecordStays
<1>4. ASSUME \/ \E s \in Schedulers : DaemonDies(s) \/ Start(s)
             \/ \E p \in Pids : Beat(p) \/ WorkerDies(p) \/ CancelKill(p)
             \/ \E j \in Jobs : Quiet(j) \/ Deadline(j)
             \/ UNCHANGED vars
      PROVE  job' = job
  BY <1>4, Zenon DEF DaemonDies, Start, Beat, WorkerDies, CancelKill, Quiet, Deadline, vars
<1>5. ASSUME job' = job PROVE StaysFinal
  BY <1>5 DEF StaysFinal
<1>. QED
  BY <1>1, <1>2, <1>3, <1>4, <1>5, DispatchKeepsVerdicts, WorkersKeepVerdicts, Zenon
     DEF Next, Stopped, Reconciliation

(* A job that is over keeps its verdict, however many daemons, workers and *)
(* cancellations are still busy with it: every writer of a record checks   *)
(* the status it finds under the lock (store.ts), not the one it read.     *)
THEOREM VerdictsStand == Spec => VerdictIsFinal
<1>1. TypeInv /\ [Next]_vars =>
          [\A j \in Jobs : job[j].status \in Terminal => job'[j].status = job[j].status]_vars
  BY NextKeepsVerdicts DEF StaysFinal
<1>. QED
  BY <1>1, AlwaysTypes, PTL DEF Spec, VerdictIsFinal

-----------------------------------------------------------------------------
(* The life of a job: steps that neither dispatch a job, start a worker    *)
(* nor write a receipt.                                                    *)

CalmJob(j) ==
    /\ job'[j].attempt = job[j].attempt /\ job'[j].writes = job[j].writes
    /\ Named(j)'
    /\ job'[j].status = "waiting" =>
          job[j].status = "waiting" \/ (Quelled(j) /\ ~Mutated(j))
    /\ job'[j].status = "succeeded" => Succeeded(j)
CalmWorker(p) ==
    /\ Alive(p)' => Alive(p)
    /\ worker[p].pc \in Over => worker'[p].pc \in Over
    /\ worker[p].pc \notin Unstarted => worker'[p].pc \notin Unstarted
    /\ worker'[p].pc = "receipted" =>
          worker[p].pc = "receipted" /\ worker'[p].outcome = worker[p].outcome
Calm ==
    /\ receipt' = receipt /\ begun' = begun
    /\ \A j \in Jobs : CalmJob(j)
    /\ \A p \in Pids : CalmWorker(p)

LEMMA CurrentPid ==
    ASSUME NEW j \in Jobs, job[j].attempt \in Attempts
    PROVE  Current(j) \in Pids
BY DEF Current, Pids

LEMMA CalmFacts ==
    ASSUME Calm, NEW j \in Jobs
    PROVE  /\ Current(j)' = Current(j) /\ (Mutated(j) <=> Mutated(j)')
           /\ Quelled(j) => Quelled(j)'
           /\ Succeeded(j) => Succeeded(j)'
           /\ Completed(j) <=> Completed(j)'
<1>1. job'[j].attempt = job[j].attempt /\ job'[j].writes = job[j].writes
  BY DEF Calm, CalmJob
<1>2. Current(j)' = Current(j) /\ (Mutated(j) <=> Mutated(j)')
  BY <1>1 DEF Current, Mutated, Calm
<1>3. Quelled(j) => Quelled(j)'
  BY <1>1, <1>2, CurrentPid DEF Quelled, Calm, CalmWorker
<1>. QED
  BY <1>1, <1>2, <1>3 DEF Succeeded, Completed, Calm

LEMMA CalmInHand ==
    ASSUME Calm, TypeInv, NEW d \in Scheduler, WorkFits(d), InHand(d)
    PROVE  InHand(d)'
<1>1. ASSUME NEW v \in Snapshot, Recent(v) PROVE Recent(v)'
  BY <1>1 DEF Recent, Calm, CalmJob, Snapshot
<1>2. ASSUME NEW w \in d.work
      PROVE  /\ w.id \in Jobs /\ (d.pc \in Examining => w.seen \in Snapshot)
  BY DEF Scheduler, Task, WorkFits
<1>3. ASSUME NEW j \in Jobs
      PROVE  /\ job'[j].attempt = job[j].attempt /\ receipt'[j] = receipt[j]
             /\ (Mutated(j) <=> Mutated(j)') /\ (Quelled(j) => Quelled(j)')
             /\ Succeeded(j) => Succeeded(j)'
  BY CalmFacts DEF Calm, CalmJob
<1>4. \A v \in d.todo : Recent(v)'
  BY <1>1 DEF InHand, Scheduler
<1>5. ASSUME NEW w \in d.work
      PROVE  /\ d.pc = "claimed" => /\ job'[w.id].attempt \in Attempts
                                    /\ Quelled(w.id)' /\ ~Mutated(w.id)'
                                    /\ receipt'[w.id].attempt # job'[w.id].attempt
             /\ d.pc = "spawned" => w.pid = job'[w.id].attempt
             /\ d.pc \in Examining => Recent(w.seen)' /\ w.seen.status = "running"
             /\ d.pc = "killed" => Quelled(w.id)'
             /\ d.pc = "settling" /\ w.verdict = "waiting" => Quelled(w.id)' /\ ~Mutated(w.id)'
             /\ d.pc = "settling" /\ w.verdict = "succeeded" => Succeeded(w.id)'
  BY <1>1, <1>2, <1>3 DEF InHand
<1>6. d.pc \notin Examining \cup {"reconciling", "settling"} => d.todo = {}
  BY DEF InHand
<1>. QED
  BY <1>4, <1>5, <1>6 DEF InHand

LEMMA CalmState ==
    ASSUME Calm, TypeInv, LifeInv
    PROVE  /\ \A p \in Pids : (OnlyCurrent(p) /\ Receipted(p))'
           /\ \A j \in Jobs : (Named(j) /\ ReceiptFits(j) /\ BegunOnce(j))'
<1>1. ASSUME NEW p \in Pids PROVE OnlyCurrent(p)' /\ Receipted(p)'
  <2>1. /\ p[1] \in Jobs /\ p[2] \in Attempts /\ p = <<p[1], p[2]>>
        /\ OnlyCurrent(p) /\ Receipted(p) /\ CalmWorker(p) /\ CalmJob(p[1])
    BY PidFacts DEF LifeInv, Calm
  <2>2. Quelled(p[1]) /\ Alive(p) => p[2] # job[p[1]].attempt
    BY <2>1 DEF Quelled, Current
  <2>3. OnlyCurrent(p)'
    BY <2>1, <2>2 DEF OnlyCurrent, CalmWorker, CalmJob
  <2>4. Receipted(p)'
    BY <2>1 DEF Receipted, CalmWorker, Calm
  <2>. QED
    BY <2>3, <2>4
<1>2. ASSUME NEW j \in Jobs PROVE Named(j)' /\ ReceiptFits(j)' /\ BegunOnce(j)'
  <2>1. CalmJob(j) /\ ReceiptFits(j) /\ BegunOnce(j) /\ receipt' = receipt /\ begun' = begun
    BY DEF LifeInv, Calm
  <2>2. /\ Current(j)' = Current(j) /\ (Mutated(j) <=> Mutated(j)')
        /\ (Completed(j) <=> Completed(j)') /\ (Succeeded(j) => Succeeded(j)')
    BY CalmFacts
  <2>3. job[j].attempt \in Attempts => CalmWorker(Current(j))
    BY CurrentPid DEF Calm
  <2>4. ReceiptFits(j)'
    BY <2>1, <2>2, <2>3 DEF ReceiptFits, CalmJob, CalmWorker
  <2>5. BegunOnce(j)'
    BY <2>1, <2>2, <2>3 DEF BegunOnce, CalmJob, CalmWorker
  <2>. QED
    BY <2>1, <2>4, <2>5 DEF CalmJob
<1>. QED
  BY <1>1, <1>2

(* A calm step of one scheduler.                                           *)
LEMMA CalmSched ==
    ASSUME Calm, TypeInv, LifeInv, NEW s \in Schedulers, NEW d \in Scheduler, WorkFits(d),
           InHand(d)', sched' = [sched EXCEPT ![s] = d]
    PROVE  LifeInv'
<1>1. ASSUME NEW t \in Schedulers PROVE InHand(sched[t])'
  <2>1. sched[t] \in Scheduler /\ WorkFits(sched[t]) /\ InHand(sched[t])
    BY DEF TypeInv, Shapes, LifeInv
  <2>2. ASSUME NEW f \in Scheduler, WorkFits(f), InHand(f) PROVE InHand(f)'
    BY <2>2, CalmInHand
  <2>3. sched'[t] = IF t = s THEN d ELSE sched[t]
    BY DEF TypeInv, Shapes
  <2>4. CASE t = s
    BY <2>3, <2>4 DEF InHand
  <2>5. CASE t # s
    BY <2>1, <2>2, <2>3, <2>5 DEF InHand
  <2>. QED
    BY <2>4, <2>5
<1>. QED
  BY <1>1, CalmState DEF LifeInv

LEMMA CalmStep ==
    ASSUME Calm, TypeInv, LifeInv, sched' = sched
    PROVE  LifeInv'
<1>1. ASSUME NEW t \in Schedulers PROVE InHand(sched[t])'
  <2>1. sched[t] \in Scheduler /\ WorkFits(sched[t]) /\ InHand(sched[t])
    BY DEF TypeInv, Shapes, LifeInv
  <2>2. ASSUME NEW f \in Scheduler, WorkFits(f), InHand(f) PROVE InHand(f)'
    BY <2>2, CalmInHand
  <2>. QED
    BY <2>1, <2>2 DEF InHand
<1>. QED
  BY <1>1, CalmState DEF LifeInv

-----------------------------------------------------------------------------
(* When a step is calm.                                                    *)

LEMMA RestIsFree == InHand(Idle) /\ InHand(Down) /\ InHand(Idle)' /\ InHand(Down)'
<1>1. Idle.pc = "idle" /\ Down.pc = "down" /\ \A d \in {Idle, Down} : d.work = {} /\ d.todo = {}
  BY DEF Idle, Down
<1>. QED
  BY <1>1 DEF InHand, Examining

LEMMA SameJobs ==
    ASSUME LifeInv, job' = job
    PROVE  \A j \in Jobs : CalmJob(j)
BY DEF LifeInv, CalmJob, Named, ReceiptFits

LEMMA OneJob ==
    ASSUME TypeInv, LifeInv, NEW j \in Jobs, NEW r \in JobRecord, job' = [job EXCEPT ![j] = r],
           r.attempt = job[j].attempt, r.writes = job[j].writes,
           r.status = "running" => r.pid = r.attempt /\ r.attempt \in Attempts,
           r.status = "waiting" => job[j].status = "waiting" \/ (Quelled(j) /\ ~Mutated(j)),
           r.status = "succeeded" => Succeeded(j)
    PROVE  \A i \in Jobs : CalmJob(i)
<1>. SUFFICES ASSUME NEW i \in Jobs PROVE CalmJob(i)
  OBVIOUS
<1>1. job'[i] = IF i = j THEN r ELSE job[i]
  BY DEF TypeInv, Shapes
<1>2. CASE i = j
  BY <1>1, <1>2 DEF CalmJob, Named
<1>3. CASE i # j
  BY <1>1, <1>3 DEF CalmJob, Named, LifeInv, ReceiptFits
<1>. QED
  BY <1>2, <1>3

LEMMA SameWorkers ==
    ASSUME \A p \in Pids : worker'[p].pc = worker[p].pc /\ worker'[p].outcome = worker[p].outcome
    PROVE  \A p \in Pids : CalmWorker(p)
BY DEF CalmWorker, Alive

LEMMA MovedOver ==
    ASSUME TypeInv, NEW p \in Pids, NEW pc \in {"failing", "leaving", "gone"}, Move(p, pc),
           Alive(p) \/ pc = "gone"
    PROVE  \A q \in Pids : CalmWorker(q)
BY DEF TypeInv, Shapes, Move, CalmWorker, Alive, Over, Unstarted, Worker

LEMMA MovedOn ==
    ASSUME TypeInv, NEW p \in Pids, NEW r, worker' = [worker EXCEPT ![p] = r],
           <<worker[p].pc, r.pc>> \in {<<"boot", "owned">>, <<"owned", "beating">>,
                                       <<"executing", "checked">>}
    PROVE  \A q \in Pids : CalmWorker(q)
BY DEF TypeInv, Shapes, CalmWorker, Alive, Over, Unstarted

-----------------------------------------------------------------------------
LEMMA ExpireLife ==
    ASSUME TypeInv, LifeInv, NEW s \in Schedulers, NEW j \in Jobs, ExpireWaiting(s, j)
    PROVE  LifeInv'
<1>. DEFINE r == [job[j] EXCEPT !.status = "timed_out", !.pid = 0]
<1>1. job[j] \in JobRecord
  BY DEF TypeInv, Shapes
<1>2. /\ r \in JobRecord /\ r.status = "timed_out"
      /\ r.attempt = job[j].attempt /\ r.writes = job[j].writes
  BY <1>1, Bounds DEF JobRecord, Terminal
<1>3. job' = [job EXCEPT ![j] = r] /\ UNCHANGED <<receipt, begun, worker, sched>>
  BY DEF ExpireWaiting
<1>. HIDE DEF r
<1>4. \A i \in Jobs : CalmJob(i)
  BY <1>2, <1>3, OneJob
<1>. QED
  BY <1>3, <1>4, SameWorkers, CalmStep DEF Calm

LEMMA AcquireLife ==
    ASSUME TypeInv, LifeInv, NEW s \in Schedulers, NEW j \in Jobs, Acquire(s, j), TypeInv'
    PROVE  LifeInv'
<1>1. PICK g : Busy(s, "leased", j, g)
  BY DEF Acquire
<1>. DEFINE d == [sched[s] EXCEPT !.pc = "leased", !.work = {[id |-> j]}, !.grant = g]
<1>2. UNCHANGED <<job, receipt, begun, worker>> /\ sched' = [sched EXCEPT ![s] = d]
  BY <1>1 DEF Acquire, Busy
<1>3. sched[s] \in Scheduler /\ sched[s].pc = "idle" /\ InHand(sched[s])
  BY DEF Acquire, LifeInv, TypeInv, Shapes
<1>4. sched'[s] = d /\ d \in Scheduler /\ WorkFits(d)
  BY <1>2 DEF TypeInv, Shapes
<1>5. d.todo = {} /\ d.pc = "leased"
  BY <1>3 DEF InHand, Examining, Scheduler
<1>6. PICK e \in Scheduler : /\ WorkFits(e) /\ e.todo = {} /\ e.pc = "leased"
                            /\ sched' = [sched EXCEPT ![s] = e]
  <2>. HIDE DEF d
  <2>. QED
    BY <1>2, <1>4, <1>5
<1>7. InHand(e)'
  BY <1>6 DEF InHand, Examining
<1>8. Calm
  BY <1>2, SameJobs, SameWorkers DEF Calm
<1>. QED
  BY <1>6, <1>7, <1>8, CalmSched

LEMMA AttachLife ==
    ASSUME TypeInv, LifeInv, NEW s \in Schedulers, Attach(s), TypeInv'
    PROVE  LifeInv'
<1>1. PICK j \in Jobs, a \in Attempts :
          /\ sched[s].work = {[id |-> j, pid |-> a]}
          /\ \/ /\ worker' = worker
                /\ job' = [job EXCEPT ![j] = [job[j] EXCEPT !.status = "running", !.pid = a]]
             \/ job' = job /\ Move(<<j, a>>, "gone")
  BY AttachForm
<1>2. sched' = [sched EXCEPT ![s] = Idle] /\ UNCHANGED <<receipt, begun>>
  BY DEF Attach, Rest
<1>3. a = job[j].attempt
  BY <1>1 DEF Attach, LifeInv, InHand
<1>4. Calm
  <2>1. CASE worker' = worker /\ job' = [job EXCEPT ![j] = [job[j] EXCEPT !.status = "running", !.pid = a]]
    <3>. DEFINE r == [job[j] EXCEPT !.status = "running", !.pid = a]
    <3>1. /\ r.status = "running" /\ r.pid = a
          /\ r.attempt = job[j].attempt /\ r.writes = job[j].writes
      BY DEF TypeInv, Shapes, JobRecord
    <3>2. job' = [job EXCEPT ![j] = r] /\ r \in JobRecord
      BY <2>1, Bounds DEF TypeInv, Shapes, JobRecord
    <3>. HIDE DEF r
    <3>3. \A i \in Jobs : CalmJob(i)
      BY <1>3, <3>1, <3>2, OneJob
    <3>. QED
      BY <1>2, <2>1, <3>3, SameWorkers DEF Calm
  <2>2. CASE job' = job /\ Move(<<j, a>>, "gone")
    <3>1. <<j, a>> \in Pids
      BY DEF Pids
    <3>. QED
      BY <1>2, <2>2, <3>1, SameJobs, MovedOver DEF Calm
  <2>. QED
    BY <1>1, <2>1, <2>2
<1>. QED
  BY <1>2, <1>4, RestFits, RestIsFree, CalmSched

LEMMA RestLife ==
    ASSUME TypeInv, LifeInv, NEW s \in Schedulers, Rest(s),
           UNCHANGED <<job, receipt, begun, worker>>
    PROVE  LifeInv'
<1>1. Calm
  BY SameJobs, SameWorkers DEF Calm
<1>. QED
  BY <1>1, RestFits, RestIsFree, CalmSched DEF Rest

LEMMA CalmWorkers ==
    ASSUME TypeInv, LifeInv, NEW p \in Pids,
           Boot(p) \/ BootRefused(p) \/ FirstBeat(p) \/ Finish(p) \/ Leave(p)
                \/ WorkerDies(p) \/ Beat(p)
    PROVE  LifeInv'
<1>1. UNCHANGED <<job, receipt, begun, sched>>
  BY Zenon DEF Boot, BootRefused, FirstBeat, Finish, Leave, WorkerDies, Beat
<1>2. worker[p] \in Worker
  BY DEF TypeInv, Shapes
<1>3. ASSUME Boot(p) PROVE \A q \in Pids : CalmWorker(q)
  <2>. DEFINE r == [worker[p] EXCEPT !.pc = "owned", !.refs = job[p[1]].refs]
  <2>1. worker' = [worker EXCEPT ![p] = r] /\ worker[p].pc = "boot" /\ r.pc = "owned"
    BY <1>2, <1>3 DEF Boot, At, Worker
  <2>. QED
    BY <2>1, MovedOn
<1>4. ASSUME FirstBeat(p) PROVE \A q \in Pids : CalmWorker(q)
  <2>1. worker[p].pc = "owned" /\ (Move(p, "beating") \/ Move(p, "failing"))
    BY <1>4 DEF FirstBeat, At
  <2>2. CASE Move(p, "beating")
    <3>. DEFINE r == [worker[p] EXCEPT !.pc = "beating"]
    <3>1. worker' = [worker EXCEPT ![p] = r] /\ r.pc = "beating"
      BY <1>2, <2>2 DEF Move, Worker
    <3>. QED
      BY <2>1, <3>1, MovedOn
  <2>3. CASE Move(p, "failing")
    BY <2>1, <2>3, MovedOver DEF Alive
  <2>. QED
    BY <2>1, <2>2, <2>3
<1>5. ASSUME Finish(p) PROVE \A q \in Pids : CalmWorker(q)
  <2>1. PICK x \in {"succeeded", "failed"} :
            worker' = [worker EXCEPT ![p] = [worker[p] EXCEPT !.pc = "checked", !.outcome = x]]
    BY <1>5 DEF Finish
  <2>. DEFINE r == [worker[p] EXCEPT !.pc = "checked", !.outcome = x]
  <2>2. worker[p].pc = "executing" /\ r.pc = "checked" /\ worker' = [worker EXCEPT ![p] = r]
    BY <1>2, <1>5, <2>1 DEF Finish, At, Worker
  <2>. QED
    BY <2>2, MovedOn
<1>6. ASSUME BootRefused(p) \/ Leave(p) \/ WorkerDies(p) PROVE \A q \in Pids : CalmWorker(q)
  <2>1. Alive(p) /\ (Move(p, "failing") \/ Move(p, "gone"))
    BY <1>6 DEF BootRefused, Leave, WorkerDies, At, Alive
  <2>. QED
    BY <2>1, MovedOver
<1>7. ASSUME Beat(p) PROVE \A q \in Pids : CalmWorker(q)
  <2>1. worker' = worker
    BY <1>7, Zenon DEF Beat
  <2>. QED
    BY <2>1, SameWorkers
<1>8. \A q \in Pids : CalmWorker(q)
  BY <1>3, <1>4, <1>5, <1>6, <1>7, Zenon
<1>. QED
  BY <1>1, <1>8, SameJobs, CalmStep DEF Calm

LEMMA GivenUpFacts ==
    ASSUME TypeInv, NEW p \in Pids
    PROVE  LET r == GivenUp(p[1], p[2]) IN
           /\ r = job[p[1]] \/ r.status \in {"failed", "human_attention_required"}
           /\ r \in JobRecord
           /\ r.attempt = job[p[1]].attempt /\ r.writes = job[p[1]].writes
<1>1. /\ job[p[1]] \in JobRecord /\ {"failed", "human_attention_required"} \subseteq Statuses
      /\ GivenUp(p[1], p[2]) \in JobRecord
  BY PidFacts, Bounds, GivenUpShape DEF TypeInv, Shapes, Terminal
<1>2. \A x \in {"failed", "human_attention_required"} :
          LET e == Ended(job[p[1]], x) IN
          e.status = x /\ e.attempt = job[p[1]].attempt /\ e.writes = job[p[1]].writes
  BY <1>1, EndedShape
<1>. QED
  BY <1>1, <1>2 DEF GivenUp

LEMMA GiveUpLife ==
    ASSUME TypeInv, LifeInv, NEW p \in Pids, LoseOwnership(p) \/ Fail(p)
    PROVE  LifeInv'
<1>1. /\ job' = [job EXCEPT ![p[1]] = GivenUp(p[1], p[2])]
      /\ UNCHANGED <<receipt, begun, sched>>
      /\ Move(p, "gone") \/ (At(p, "failing") /\ Move(p, "leaving"))
  BY Zenon DEF LoseOwnership, Fail
<1>2. \A q \in Pids : CalmWorker(q)
  BY <1>1, MovedOver DEF At, Alive
<1>. DEFINE r == GivenUp(p[1], p[2])
<1>3. p[1] \in Jobs /\ Named(p[1]) /\ ReceiptFits(p[1])
  BY PidFacts DEF LifeInv
<1>4. /\ r = job[p[1]] \/ r.status \in {"failed", "human_attention_required"}
      /\ r \in JobRecord /\ job' = [job EXCEPT ![p[1]] = r]
      /\ r.attempt = job[p[1]].attempt /\ r.writes = job[p[1]].writes
  BY <1>1, GivenUpFacts
<1>. HIDE DEF r
<1>5. \A i \in Jobs : CalmJob(i)
  <2>1. /\ r.status = "running" => r.pid = r.attempt /\ r.attempt \in Attempts
        /\ r.status = "waiting" => job[p[1]].status = "waiting"
        /\ r.status = "succeeded" => Succeeded(p[1])
    BY <1>3, <1>4 DEF Named, ReceiptFits
  <2>. QED
    BY <1>3, <1>4, <2>1, OneJob
<1>. QED
  BY <1>1, <1>2, <1>5, CalmStep DEF Calm

LEMMA PublishLife ==
    ASSUME TypeInv, LifeInv, NEW p \in Pids, Publish(p)
    PROVE  LifeInv'
<1>1. /\ UNCHANGED <<receipt, begun, sched>> /\ worker[p].pc = "receipted"
      /\ \/ /\ Publishable(p) /\ Move(p, "leaving")
            /\ job' = [job EXCEPT ![p[1]] = Ended(job[p[1]], worker[p].outcome)]
         \/ job' = job /\ Move(p, "failing")
  BY DEF Publish, At
<1>2. \A q \in Pids : CalmWorker(q)
  BY <1>1, MovedOver DEF Alive
<1>3. CASE job' = job
  BY <1>1, <1>2, <1>3, SameJobs, CalmStep DEF Calm
<1>4. CASE Publishable(p) /\ job' = [job EXCEPT ![p[1]] = Ended(job[p[1]], worker[p].outcome)]
  <2>. DEFINE r == Ended(job[p[1]], worker[p].outcome)
  <2>1. worker[p].outcome \in {"succeeded", "failed"} /\ job[p[1]] \in JobRecord
    BY <1>1, PidFacts DEF TypeInv, Shapes, HasOutcome, Worker
  <2>2. /\ r \in JobRecord /\ r.status = worker[p].outcome
        /\ r.attempt = job[p[1]].attempt /\ r.writes = job[p[1]].writes
    <3>1. worker[p].outcome \in Statuses
      BY <2>1, Bounds DEF Terminal
    <3>. QED
      BY <2>1, <3>1, EndedShape
  <2>3. worker[p].outcome = "succeeded" => Succeeded(p[1])
    BY <1>1, <1>4 DEF LifeInv, Receipted, Publishable, Succeeded
  <2>4. job' = [job EXCEPT ![p[1]] = r]
    BY <1>4
  <2>. HIDE DEF r
  <2>5. \A i \in Jobs : CalmJob(i)
    BY <2>1, <2>2, <2>3, <2>4, PidFacts, OneJob
  <2>. QED
    BY <1>1, <1>2, <2>5, CalmStep DEF Calm
<1>. QED
  BY <1>1, <1>3, <1>4

-----------------------------------------------------------------------------
LEMMA ReconcileLife ==
    ASSUME TypeInv, LifeInv, NEW s \in Schedulers, Reconcile(s)
    PROVE  LifeInv'
<1>. DEFINE d == [sched[s] EXCEPT !.pc = "reconciling", !.todo = {Seen(j) : j \in Active}]
<1>1. /\ UNCHANGED <<job, receipt, begun, worker>> /\ sched' = [sched EXCEPT ![s] = d]
      /\ sched[s] \in Scheduler /\ sched[s].work = {}
  BY DEF Reconcile, TypeInv, Shapes, WorkFits, Resting
<1>2. ASSUME NEW j \in Jobs PROVE Seen(j) \in Snapshot /\ Recent(Seen(j))
  <2>1. Named(j)
    BY DEF LifeInv
  <2>. QED
    BY <2>1, SeenShape DEF Seen, Recent, Named
<1>3. d \in Scheduler /\ d.todo = {Seen(j) : j \in Active} /\ d.work = {} /\ d.pc = "reconciling"
  BY <1>1, <1>2 DEF Scheduler, Resting, Active
<1>4. PICK e \in Scheduler : /\ sched' = [sched EXCEPT ![s] = e] /\ e.pc = "reconciling"
                            /\ e.todo = {Seen(j) : j \in Active} /\ e.work = {}
  <2>. HIDE DEF d
  <2>. QED
    BY <1>1, <1>3
<1>5. InHand(e) /\ WorkFits(e)
  BY <1>2, <1>4 DEF InHand, WorkFits, Resting, Examining, Active
<1>6. Calm
  BY <1>1, SameJobs, SameWorkers DEF Calm
<1>. QED
  BY <1>4, <1>5, <1>6, CalmInHand, CalmSched

LEMMA SkipLife ==
    ASSUME TypeInv, LifeInv, NEW s \in Schedulers, Skip(s)
    PROVE  LifeInv'
<1>1. PICK v \in sched[s].todo :
          Rest(s) \/ sched' = [sched EXCEPT ![s].todo = sched[s].todo \ {v}]
  BY DEF Skip
<1>2. UNCHANGED <<job, receipt, begun, worker>> /\ sched[s].pc = "reconciling"
  BY DEF Skip
<1>3. CASE Rest(s)
  BY <1>2, <1>3, RestLife
<1>4. CASE sched' = [sched EXCEPT ![s].todo = sched[s].todo \ {v}]
  <2>1. sched[s] \in Scheduler /\ WorkFits(sched[s]) /\ InHand(sched[s])
    BY DEF TypeInv, Shapes, LifeInv
  <2>2. \E e \in Scheduler : /\ sched' = [sched EXCEPT ![s] = e] /\ e.pc = "reconciling"
                             /\ e.todo = sched[s].todo \ {v} /\ e.work = {}
    <3>. DEFINE d == [sched[s] EXCEPT !.todo = sched[s].todo \ {v}]
    <3>1. /\ d \in Scheduler /\ d.pc = "reconciling" /\ d.todo = sched[s].todo \ {v}
          /\ d.work = {} /\ sched' = [sched EXCEPT ![s] = d]
      BY <1>2, <1>4, <2>1 DEF Scheduler, WorkFits, Resting
    <3>. HIDE DEF d
    <3>. QED
      BY <3>1
  <2>3. PICK e \in Scheduler : /\ sched' = [sched EXCEPT ![s] = e] /\ e.pc = "reconciling"
                               /\ e.todo = sched[s].todo \ {v} /\ e.work = {}
    BY <2>2
  <2>4. InHand(e) /\ WorkFits(e)
    BY <2>1, <2>3 DEF InHand, WorkFits, Resting, Examining
  <2>5. Calm
    BY <1>2, SameJobs, SameWorkers DEF Calm
  <2>. QED
    BY <2>3, <2>4, <2>5, CalmInHand, CalmSched
<1>. QED
  BY <1>1, <1>3, <1>4

LEMMA ExamineLife ==
    ASSUME TypeInv, LifeInv, NEW s \in Schedulers, Examine(s)
    PROVE  LifeInv'
<1>0. PICK v \in sched[s].todo, d \in Scheduler : Examined(s, v, d)
  BY ExamineForm
<1>1. /\ v \in Snapshot /\ WorkFits(d)
      /\ d.todo = sched[s].todo \ {v}
      /\ sched' = [sched EXCEPT ![s] = d]
      /\ \/ /\ d.pc = "settling" /\ worker' = worker
            /\ d.work = {[id |-> v.id, verdict |-> "timed_out"]}
         \/ /\ v.status = "running" /\ d.pc = "killed"
            /\ d.work = {[id |-> v.id, seen |-> v, late |-> late[v.id]]}
            /\ worker' = IF v.pid # 0 /\ Alive(<<v.id, v.pid>>)
                         THEN [worker EXCEPT ![<<v.id, v.pid>>].pc = "gone"] ELSE worker
         \/ /\ v.status = "running" /\ d.pc = "survived" /\ worker' = worker
            /\ d.work = {[id |-> v.id, seen |-> v, late |-> late[v.id]]}
  BY <1>0 DEF Examined
<1>2. UNCHANGED <<job, receipt, begun>>
  BY Zenon DEF Examine
<1>3. InHand(sched[s]) /\ Recent(v) /\ \A u \in d.todo : Recent(u)
  BY <1>1 DEF LifeInv, InHand
<1>4. v.id \in Jobs /\ v.pid \in PIDs /\ (v.pid # 0 => <<v.id, v.pid>> \in Pids)
  BY <1>1, Bounds DEF Snapshot, Pids
<1>5. \/ worker' = worker
      \/ v.pid # 0 /\ Move(<<v.id, v.pid>>, "gone")
  BY <1>1 DEF Move
<1>6. \A q \in Pids : CalmWorker(q)
  BY <1>4, <1>5, SameWorkers, MovedOver
<1>7. Calm
  BY <1>2, <1>6, SameJobs DEF Calm
<1>8. ASSUME NEW u \in Snapshot, Recent(u) PROVE Recent(u)'
  BY <1>2, <1>8 DEF Recent
<1>9. (\A u \in d.todo : Recent(u)') /\ Recent(v)'
  BY <1>1, <1>3, <1>8 DEF Scheduler
<1>10. CASE d.pc = "settling"
  <2>1. d.work = {[id |-> v.id, verdict |-> "timed_out"]}
    BY <1>1, <1>10
  <2>2. InHand(d)'
    BY <1>9, <1>10, <2>1 DEF InHand, Examining
  <2>. QED
    BY <1>1, <1>7, <2>2, CalmSched
<1>11. CASE d.pc \in Examining
  <2>1. v.status = "running" /\ d.work = {[id |-> v.id, seen |-> v, late |-> late[v.id]]}
    BY <1>1, <1>11 DEF Examining
  <2>2. ASSUME d.pc = "killed" PROVE Quelled(v.id)'
    <3>1. v.pid = job[v.id].attempt /\ <<v.id, v.pid>> \in Pids /\ v.pid # 0
      BY <1>3, <1>4, <2>1 DEF Recent, Attempts, Pids
    <3>2. ~Alive(<<v.id, v.pid>>)'
      <4>1. worker' = IF v.pid # 0 /\ Alive(<<v.id, v.pid>>)
                      THEN [worker EXCEPT ![<<v.id, v.pid>>].pc = "gone"] ELSE worker
        BY <1>1, <2>2
      <4>. QED
        BY <3>1, <4>1 DEF Alive, TypeInv, Shapes, Worker
    <3>. QED
      BY <1>2, <3>1, <3>2 DEF Quelled, Current
  <2>3. InHand(d)'
    BY <1>9, <1>11, <2>1, <2>2 DEF InHand, Examining
  <2>. QED
    BY <1>1, <1>7, <2>3, CalmSched
<1>. QED
  BY <1>1, <1>10, <1>11 DEF Examining

LEMMA FinalizeLife ==
    ASSUME TypeInv, LifeInv, NEW s \in Schedulers, Finalize(s)
    PROVE  LifeInv'
<1>0. PICK v \in Snapshot, b \in BOOLEAN, x \in Verdicts : Finalized(s, v, b, x)
  BY FinalizeForm
<1>. DEFINE w == [id |-> v.id, seen |-> v, late |-> b]
<1>1. /\ sched[s].work = {w} /\ x = Verdict(w, sched[s].pc = "survived")
      /\ sched' = [sched EXCEPT ![s] = [sched[s] EXCEPT !.pc = "settling",
                      !.work = {[id |-> v.id, verdict |-> x]}]]
  BY <1>0 DEF Finalized
<1>2. /\ UNCHANGED <<job, receipt, begun, worker>> /\ sched[s].pc \in Examining
      /\ InHand(sched[s]) /\ sched[s] \in Scheduler /\ v.id \in Jobs
  BY DEF Finalize, LifeInv, TypeInv, Shapes, Examining, Snapshot
<1>3. w \in sched[s].work /\ w.id = v.id /\ w.seen = v /\ w.late = b
  BY <1>1
<1>4. /\ Recent(v) /\ v.status = "running" /\ (\A u \in sched[s].todo : Recent(u))
      /\ sched[s].pc = "killed" => Quelled(v.id)
  BY <1>2, <1>3 DEF InHand
<1>5. x = "waiting" => Quelled(v.id) /\ ~Mutated(v.id)
  <2>. SUFFICES ASSUME x = "waiting" PROVE Quelled(v.id) /\ ~Mutated(v.id)
    OBVIOUS
  <2>1. receipt[v.id].outcome \in {"none", "succeeded", "failed"}
    BY <1>2 DEF TypeInv, Shapes, Receipt
  <2>2. /\ sched[s].pc # "survived"
        /\ ~(receipt[v.id].attempt = v.attempt /\ receipt[v.id].state = "completed")
        /\ ~(receipt[v.id].attempt = v.attempt /\ receipt[v.id].state = "started" /\ job[v.id].writes)
    BY <1>1, <1>3, <2>1 DEF Verdict
  <2>3. BegunOnce(v.id)
    BY <1>2 DEF LifeInv
  <2>. QED
    BY <1>2, <1>4, <2>2, <2>3 DEF BegunOnce, Mutated, Recent, Examining
<1>6. x = "succeeded" => Succeeded(v.id)
  <2>. SUFFICES ASSUME x = "succeeded" PROVE Succeeded(v.id)
    OBVIOUS
  <2>1. /\ receipt[v.id].attempt = v.attempt /\ receipt[v.id].state = "completed"
        /\ receipt[v.id].outcome = "succeeded"
    BY <1>1, <1>3 DEF Verdict
  <2>2. receipt[v.id] \in Receipt
    BY <1>2 DEF TypeInv, Shapes
  <2>. QED
    BY <1>4, <2>1, <2>2 DEF Succeeded, Recent, Receipt
<1>7. PICK d \in Scheduler :
          /\ sched' = [sched EXCEPT ![s] = d] /\ d.pc = "settling"
          /\ d.todo = sched[s].todo /\ d.work = {[id |-> v.id, verdict |-> x]}
  <2>. DEFINE e == [sched[s] EXCEPT !.pc = "settling", !.work = {[id |-> v.id, verdict |-> x]}]
  <2>1. [id |-> v.id, verdict |-> x] \in Task
    BY <1>2, TaskShapes
  <2>2. /\ e \in Scheduler /\ e.pc = "settling" /\ e.todo = sched[s].todo
        /\ e.work = {[id |-> v.id, verdict |-> x]}
    BY <1>2, <2>1 DEF Scheduler
  <2>3. sched' = [sched EXCEPT ![s] = e]
    BY <1>1
  <2>. HIDE DEF e
  <2>. QED
    BY <2>2, <2>3
<1>8. InHand(d) /\ WorkFits(d)
  BY <1>2, <1>4, <1>5, <1>6, <1>7 DEF InHand, WorkFits, Resting, Examining
<1>9. Calm
  BY <1>2, SameJobs, SameWorkers DEF Calm
<1>. QED
  BY <1>7, <1>8, <1>9, CalmInHand, CalmSched

LEMMA SettleLife ==
    ASSUME TypeInv, LifeInv, NEW s \in Schedulers, Settle(s)
    PROVE  LifeInv'
<1>1. PICK j \in Jobs, x \in Verdicts :
          /\ sched[s].work = {[id |-> j, verdict |-> x]}
          /\ \/ /\ job' = [job EXCEPT ![j] = Ended(job[j], x)]
                /\ \/ Rest(s)
                   \/ sched' = [sched EXCEPT ![s] =
                          [sched[s] EXCEPT !.pc = "reconciling", !.work = {}]]
             \/ Rest(s) /\ job' = job
  BY SettleForm
<1>2. /\ UNCHANGED <<receipt, begun, worker>> /\ sched[s].pc = "settling"
      /\ InHand(sched[s]) /\ sched[s] \in Scheduler
  BY DEF Settle, LifeInv, TypeInv, Shapes
<1>3. /\ x = "waiting" => Quelled(j) /\ ~Mutated(j)
      /\ x = "succeeded" => Succeeded(j)
      /\ \A u \in sched[s].todo : Recent(u)
  BY <1>1, <1>2 DEF InHand
<1>4. \A i \in Jobs : CalmJob(i)
  <2>1. CASE job' = job
    BY <2>1, SameJobs
  <2>2. CASE job' = [job EXCEPT ![j] = Ended(job[j], x)]
    <3>. DEFINE r == Ended(job[j], x)
    <3>1. /\ r \in JobRecord /\ r.status = x /\ x # "running"
          /\ r.attempt = job[j].attempt /\ r.writes = job[j].writes
      <4>1. x \in Statuses /\ x # "running" /\ job[j] \in JobRecord
        BY Bounds DEF TypeInv, Shapes, Verdicts, Terminal
      <4>. QED
        BY <4>1, EndedShape
    <3>2. job' = [job EXCEPT ![j] = r]
      BY <2>2
    <3>. HIDE DEF r
    <3>. QED
      BY <1>3, <3>1, <3>2, OneJob
  <2>. QED
    BY <1>1, <2>1, <2>2
<1>5. Calm
  BY <1>2, <1>4, SameWorkers DEF Calm
<1>6. CASE Rest(s)
  BY <1>5, <1>6, RestFits, RestIsFree, CalmSched DEF Rest
<1>7. CASE sched' = [sched EXCEPT ![s] = [sched[s] EXCEPT !.pc = "reconciling", !.work = {}]]
  <2>1. PICK d \in Scheduler :
          /\ sched' = [sched EXCEPT ![s] = d] /\ d.pc = "reconciling"
          /\ d.todo = sched[s].todo /\ d.work = {}
    <3>. DEFINE e == [sched[s] EXCEPT !.pc = "reconciling", !.work = {}]
    <3>1. /\ e \in Scheduler /\ e.pc = "reconciling" /\ e.todo = sched[s].todo
          /\ e.work = {} /\ sched' = [sched EXCEPT ![s] = e]
      BY <1>2, <1>7 DEF Scheduler, Resting
    <3>. HIDE DEF e
    <3>. QED
      BY <3>1
  <2>2. InHand(d) /\ WorkFits(d)
    BY <1>3, <2>1 DEF InHand, WorkFits, Resting, Examining
  <2>. QED
    BY <1>5, <2>1, <2>2, CalmInHand, CalmSched
<1>. QED
  BY <1>1, <1>6, <1>7

-----------------------------------------------------------------------------
LEMMA CancelLife ==
    ASSUME TypeInv, LifeInv, NEW j \in Jobs, Cancel(j)
    PROVE  LifeInv'
<1>. DEFINE r == Ended(job[j], "cancelled")
<1>1. job' = [job EXCEPT ![j] = r] /\ UNCHANGED <<receipt, begun, worker, sched>>
  BY Zenon DEF Cancel
<1>2. /\ r \in JobRecord /\ r.status = "cancelled"
      /\ r.attempt = job[j].attempt /\ r.writes = job[j].writes
  BY EndedShape, Bounds DEF TypeInv, Shapes, Terminal
<1>. HIDE DEF r
<1>3. \A i \in Jobs : CalmJob(i)
  BY <1>1, <1>2, OneJob
<1>. QED
  BY <1>1, <1>3, SameWorkers, CalmStep DEF Calm

LEMMA CancelKillLife ==
    ASSUME TypeInv, LifeInv, NEW p \in Pids, CancelKill(p)
    PROVE  LifeInv'
<1>1. Move(p, "gone") \/ worker' = worker
  BY Zenon DEF CancelKill, Move
<1>2. UNCHANGED <<job, receipt, begun, sched>>
  BY Zenon DEF CancelKill
<1>3. \A q \in Pids : CalmWorker(q)
  BY <1>1, MovedOver, SameWorkers
<1>. QED
  BY <1>2, <1>3, SameJobs, CalmStep DEF Calm

LEMMA DaemonLife ==
    ASSUME TypeInv, LifeInv, NEW s \in Schedulers, DaemonDies(s) \/ Start(s)
    PROVE  LifeInv'
<1>1. /\ sched' = [sched EXCEPT ![s] = Down] \/ sched' = [sched EXCEPT ![s] = Idle]
      /\ \/ worker' = [p \in Pids |-> [worker[p] EXCEPT !.parented = FALSE]]
         \/ worker' = worker
      /\ UNCHANGED <<job, receipt, begun>>
  BY DEF DaemonDies, Start, Rest
<1>2. \A p \in Pids : CalmWorker(p)
  BY <1>1, OrphanedTypes, SameWorkers
<1>3. Calm
  BY <1>1, <1>2, SameJobs DEF Calm
<1>. QED
  BY <1>1, <1>3, RestFits, RestIsFree, CalmSched

LEMMA TimeLife ==
    ASSUME TypeInv, LifeInv,
           (\E j \in Jobs : Quiet(j) \/ Deadline(j)) \/ UNCHANGED vars
    PROVE  LifeInv'
<1>1. UNCHANGED <<job, receipt, begun, worker, sched>>
  BY DEF Quiet, Deadline, vars
<1>. QED
  BY <1>1, SameJobs, SameWorkers, CalmStep DEF Calm

-----------------------------------------------------------------------------
(* The steps that change an attempt, start a worker or write a receipt.    *)
(* They are the only daemon's, or the current worker's.                    *)

ScheduledBy(s) == \A t \in Schedulers : t = s

LEMMA DispatchedLife ==
    ASSUME TypeInv, LifeInv, NEW s \in Schedulers, ScheduledBy(s),
           NEW j \in Jobs, job[j].status = "waiting", job[j].attempt < MaxAttempts + 1,
           job' = [job EXCEPT ![j] = Dispatched(job[j], sched[s].grant)],
           UNCHANGED <<receipt, begun, worker>>, NEW d \in Scheduler,
           d.todo = {}, d.pc = "idle" \/ (d.pc = "claimed" /\ d.work = {[id |-> j]}),
           sched' = [sched EXCEPT ![s] = d]
    PROVE  LifeInv'
<1>1. ReceiptFits(j) /\ BegunOnce(j)
  BY DEF LifeInv
<1>2. job[j] \in JobRecord /\ receipt[j] \in Receipt
  BY DEF TypeInv, Shapes
<1>3. /\ job'[j].status = "dispatched" /\ job'[j].attempt = job[j].attempt + 1
      /\ job'[j].attempt \in Attempts /\ job'[j].writes = job[j].writes
      /\ \A i \in Jobs \ {j} : job'[i] = job[i]
  BY <1>2, DispatchedShape DEF TypeInv, Shapes, Dispatched, JobRecord
<1>4. ASSUME NEW p \in Pids, p[1] = j PROVE ~Alive(p) /\ worker[p].pc # "receipted"
  BY <1>4 DEF LifeInv, OnlyCurrent, Alive
<1>5. ~Mutated(j) /\ receipt[j].attempt < job'[j].attempt
  BY <1>1, <1>2, <1>3 DEF BegunOnce, ReceiptFits, Receipt, JobRecord, PIDs
<1>6. ASSUME NEW p \in Pids PROVE OnlyCurrent(p)' /\ Receipted(p)'
  BY <1>3, <1>4, PidFacts DEF LifeInv, OnlyCurrent, Receipted, Alive
<1>7. ASSUME NEW i \in Jobs PROVE Named(i)' /\ ReceiptFits(i)' /\ BegunOnce(i)'
  <2>1. CASE i = j
    <3>1. Named(j)' /\ BegunOnce(j)'
      BY <1>3, <1>5 DEF Named, BegunOnce, Mutated
    <3>2. ReceiptFits(j)'
      BY <1>2, <1>3, <1>5 DEF ReceiptFits, Completed, Receipt, Attempts, PIDs
    <3>. QED
      BY <2>1, <3>1, <3>2
  <2>2. CASE i # j
    BY <1>3, <2>2 DEF LifeInv, Named, ReceiptFits, BegunOnce, Mutated, Completed, Succeeded, Current
  <2>. QED
    BY <2>1, <2>2
<1>8. InHand(d)'
  <2>1. Quelled(j)' /\ ~Mutated(j)' /\ receipt'[j].attempt # job'[j].attempt
    <3>1. Current(j)' \in Pids /\ Current(j)'[1] = j
      BY <1>3 DEF Current, Pids
    <3>2. ~Alive(Current(j)')
      BY <1>4, <3>1
    <3>. QED
      BY <1>2, <1>3, <1>5, <3>2 DEF Quelled, Alive, Mutated, Receipt, PIDs, Attempts
  <2>. QED
    BY <1>3, <2>1 DEF InHand, Examining
<1>9. \A t \in Schedulers : sched'[t] = d
  BY DEF ScheduledBy, TypeInv, Shapes
<1>. QED
  BY <1>6, <1>7, <1>8, <1>9 DEF LifeInv, InHand

LEMMA ClaimLife ==
    ASSUME TypeInv, LifeInv, NEW s \in Schedulers, ScheduledBy(s), Claim(s)
    PROVE  LifeInv'
<1>1. PICK j \in Jobs :
          /\ sched[s].work = {[id |-> j]}
          /\ \/ /\ job[j].status = "waiting" /\ job[j].attempt < MaxAttempts + 1
                /\ job' = [job EXCEPT ![j] = Dispatched(job[j], sched[s].grant)]
                /\ sched' = [sched EXCEPT ![s] = [sched[s] EXCEPT !.pc = "claimed"]]
             \/ job' = job /\ Rest(s)
  BY ClaimForm, Zenon
<1>2. UNCHANGED <<receipt, begun, worker>> /\ sched[s].pc = "leased"
  BY DEF Claim
<1>3. CASE job' = job /\ Rest(s)
  BY <1>2, <1>3, RestLife
<1>4. CASE /\ job[j].status = "waiting" /\ job[j].attempt < MaxAttempts + 1
           /\ job' = [job EXCEPT ![j] = Dispatched(job[j], sched[s].grant)]
           /\ sched' = [sched EXCEPT ![s] = [sched[s] EXCEPT !.pc = "claimed"]]
  <2>1. sched[s] \in Scheduler /\ sched[s].todo = {}
    BY <1>2 DEF TypeInv, Shapes, LifeInv, InHand, Examining
  <2>. DEFINE d == [sched[s] EXCEPT !.pc = "claimed"]
  <2>2. d \in Scheduler /\ d.pc = "claimed" /\ d.todo = {} /\ d.work = {[id |-> j]}
    BY <1>1, <2>1 DEF Scheduler
  <2>3. sched' = [sched EXCEPT ![s] = d]
    BY <1>4
  <2>. HIDE DEF d
  <2>. QED
    BY <1>2, <1>4, <2>2, <2>3, DispatchedLife
<1>. QED
  BY <1>1, <1>3, <1>4

LEMMA ClaimIndexBusyLife ==
    ASSUME TypeInv, LifeInv, NEW s \in Schedulers, ScheduledBy(s), ClaimIndexBusy(s)
    PROVE  LifeInv'
<1>1. PICK j \in Jobs :
          /\ job[j].status = "waiting" /\ job[j].attempt < MaxAttempts + 1
          /\ job' = [job EXCEPT ![j] = Dispatched(job[j], sched[s].grant)]
  BY ClaimIndexBusyForm
<1>2. UNCHANGED <<receipt, begun, worker>> /\ sched' = [sched EXCEPT ![s] = Idle]
  BY Zenon DEF ClaimIndexBusy, Rest
<1>3. Idle \in Scheduler /\ Idle.pc = "idle" /\ Idle.todo = {}
  BY RestFits DEF Idle
<1>. QED
  BY <1>1, <1>2, <1>3, DispatchedLife

LEMMA SpawnLife ==
    ASSUME TypeInv, LifeInv, NEW s \in Schedulers, ScheduledBy(s), SpawnChild(s)
    PROVE  LifeInv'
<1>1. PICK j \in Jobs :
          /\ sched[s].work = {[id |-> j]}
          /\ \/ /\ job[j].status \in {"dispatched", "running"}
                /\ job[j].attempt \in Attempts
                /\ worker' = [worker EXCEPT ![Current(j)] =
                      [worker[Current(j)] EXCEPT !.pc = "boot", !.parented = (s = epoch)]]
                /\ sched' = [sched EXCEPT ![s] = [sched[s] EXCEPT !.pc = "spawned",
                                !.work = {[id |-> j, pid |-> job[j].attempt]}]]
             \/ /\ Rest(s) /\ worker' = worker
  BY SpawnForm, Zenon
<1>2. UNCHANGED <<job, receipt, begun>> /\ sched[s].pc = "claimed"
  BY DEF SpawnChild
<1>3. CASE Rest(s) /\ worker' = worker
  BY <1>2, <1>3, RestLife
<1>4. CASE /\ job[j].status \in {"dispatched", "running"} /\ job[j].attempt \in Attempts
           /\ worker' = [worker EXCEPT ![Current(j)] =
                 [worker[Current(j)] EXCEPT !.pc = "boot", !.parented = (s = epoch)]]
           /\ sched' = [sched EXCEPT ![s] = [sched[s] EXCEPT !.pc = "spawned",
                           !.work = {[id |-> j, pid |-> job[j].attempt]}]]
  <2>1. /\ sched[s] \in Scheduler /\ sched[s].todo = {}
        /\ ~Mutated(j) /\ receipt[j].attempt # job[j].attempt
    <3>1. [id |-> j] \in sched[s].work /\ [id |-> j].id = j /\ InHand(sched[s])
      BY <1>1 DEF LifeInv
    <3>2. ~Mutated(j) /\ receipt[j].attempt # job[j].attempt
      BY <1>2, <3>1 DEF InHand
    <3>. QED
      BY <1>2, <3>1, <3>2 DEF TypeInv, Shapes, InHand, Examining
  <2>2. /\ Current(j) \in Pids /\ Current(j) = <<j, job[j].attempt>>
        /\ worker'[Current(j)].pc = "boot"
        /\ \A p \in Pids : p # Current(j) => worker'[p] = worker[p]
    BY <1>4, CurrentPid DEF Current, TypeInv, Shapes, Worker
  <2>3. ASSUME NEW p \in Pids PROVE OnlyCurrent(p)' /\ Receipted(p)'
    <3>1. CASE p = Current(j)
      BY <1>2, <1>4, <2>2, <3>1 DEF OnlyCurrent, Receipted
    <3>2. CASE p # Current(j)
      BY <1>2, <2>2, <3>2 DEF LifeInv, OnlyCurrent, Receipted, Alive
    <3>. QED
      BY <3>1, <3>2
  <2>4. ASSUME NEW i \in Jobs PROVE Named(i)' /\ ReceiptFits(i)' /\ BegunOnce(i)'
    <3>1. /\ Named(i) /\ ReceiptFits(i) /\ BegunOnce(i)
          /\ Current(i)' = Current(i) /\ (Mutated(i) <=> Mutated(i)')
          /\ (Completed(i) <=> Completed(i)') /\ (Succeeded(i) <=> Succeeded(i)')
      BY <1>2 DEF LifeInv, Current, Mutated, Completed, Succeeded
    <3>2. CASE i = j
      BY <1>2, <2>1, <3>1, <3>2 DEF Named, ReceiptFits, BegunOnce, Completed
    <3>3. CASE i # j
      <4>1. job[i].attempt \in Attempts => worker'[Current(i)] = worker[Current(i)]
        BY <2>2, <3>3, CurrentPid DEF Current
      <4>. QED
        BY <1>2, <3>1, <4>1 DEF Named, ReceiptFits, BegunOnce
    <3>. QED
      BY <3>2, <3>3
  <2>5. PICK d \in Scheduler :
            /\ sched' = [sched EXCEPT ![s] = d] /\ d.pc = "spawned" /\ d.todo = {}
            /\ d.work = {[id |-> j, pid |-> job[j].attempt]}
    <3>. DEFINE e == [sched[s] EXCEPT !.pc = "spawned",
                         !.work = {[id |-> j, pid |-> job[j].attempt]}]
    <3>1. [id |-> j, pid |-> job[j].attempt] \in Task
      BY <1>4, TaskShapes
    <3>2. /\ e \in Scheduler /\ e.pc = "spawned" /\ e.todo = {}
          /\ e.work = {[id |-> j, pid |-> job[j].attempt]}
      BY <2>1, <3>1 DEF Scheduler
    <3>3. sched' = [sched EXCEPT ![s] = e]
      BY <1>4
    <3>. HIDE DEF e
    <3>. QED
      BY <3>2, <3>3
  <2>6. InHand(d)'
    BY <1>2, <2>5 DEF InHand, Examining
  <2>7. \A t \in Schedulers : sched'[t] = d
    BY <2>5 DEF ScheduledBy, TypeInv, Shapes
  <2>. QED
    BY <2>3, <2>4, <2>6, <2>7 DEF LifeInv, InHand
<1>. QED
  BY <1>1, <1>3, <1>4

(* A worker at work is the worker of the current attempt, and its receipt  *)
(* is not complete.                                                        *)
LEMMA AtWork ==
    ASSUME TypeInv, LifeInv, NEW p \in Pids, worker[p].pc \in {"beating", "executing", "checked"}
    PROVE  /\ p[1] \in Jobs /\ p[2] = job[p[1]].attempt /\ p = Current(p[1])
           /\ job[p[1]].attempt \in Attempts /\ job[p[1]].status # "waiting"
           /\ ~Completed(p[1]) /\ job[p[1]].status # "succeeded" /\ ~Quelled(p[1])
           /\ \A q \in Pids : q[1] = p[1] /\ q # p => ~Alive(q) /\ worker[q].pc # "receipted"
<1>1. p[1] \in Jobs /\ p[2] \in Attempts /\ p = <<p[1], p[2]>> /\ Alive(p)
  BY PidFacts DEF Alive
<1>2. p[2] = job[p[1]].attempt /\ job[p[1]].status # "waiting"
  BY <1>1 DEF LifeInv, OnlyCurrent
<1>3. p = Current(p[1])
  BY <1>1, <1>2 DEF Current
<1>4. ReceiptFits(p[1])
  BY <1>1 DEF LifeInv
<1>5. ~Completed(p[1])
  BY <1>1, <1>2, <1>3, <1>4 DEF ReceiptFits, Over
<1>6. job[p[1]].status # "succeeded"
  BY <1>4, <1>5 DEF ReceiptFits, Succeeded, Completed
<1>7. ASSUME NEW q \in Pids, q[1] = p[1], q # p PROVE ~Alive(q) /\ worker[q].pc # "receipted"
  <2>1. q = <<q[1], q[2]>> /\ q[2] # p[2]
    BY <1>1, <1>7, PidFacts
  <2>. QED
    BY <1>2, <1>7, <2>1 DEF LifeInv, OnlyCurrent, Alive
<1>. QED
  BY <1>1, <1>2, <1>3, <1>5, <1>6, <1>7 DEF Quelled

(* A step of a worker at work on its own receipt.                          *)
LEMMA ReceiptLife ==
    ASSUME TypeInv, LifeInv, NEW p \in Pids, worker[p].pc \in {"beating", "executing", "checked"},
           NEW r \in Receipt, r.attempt = p[2],
           receipt' = [receipt EXCEPT ![p[1]] = r],
           NEW pc, Move(p, pc), UNCHANGED <<job, sched>>,
           \/ r.state = "started" /\ pc = "executing"
           \/ /\ pc = "receipted"
              /\ r = [attempt |-> p[2], state |-> "completed", outcome |-> worker[p].outcome],
           NEW n \in Nat, begun' = [begun EXCEPT ![p[1]] = n],
           n = begun[p[1]] \/ (worker[p].pc = "beating" /\ n = begun[p[1]] + 1)
    PROVE  LifeInv'
<1>. DEFINE j == p[1]
<1>1. /\ j \in Jobs /\ p[2] = job[j].attempt /\ p = Current(j)
      /\ job[j].attempt \in Attempts /\ job[j].status # "waiting"
      /\ ~Completed(j) /\ job[j].status # "succeeded" /\ ~Quelled(j)
      /\ \A q \in Pids : q[1] = j /\ q # p => ~Alive(q) /\ worker[q].pc # "receipted"
  BY AtWork
<1>2. /\ receipt'[j] = r /\ begun'[j] = n /\ begun[j] \in Nat
      /\ \A i \in Jobs \ {j} : receipt'[i] = receipt[i] /\ begun'[i] = begun[i]
      /\ worker'[p].pc = pc /\ worker'[p].outcome = worker[p].outcome
      /\ \A q \in Pids \ {p} : worker'[q] = worker[q]
  BY <1>1 DEF TypeInv, Shapes, Move, Worker
<1>3. ASSUME NEW q \in Pids PROVE OnlyCurrent(q)' /\ Receipted(q)'
  <2>1. CASE q = p
    BY <1>1, <1>2, <2>1 DEF OnlyCurrent, Receipted
  <2>2. CASE q # p
    <3>1. OnlyCurrent(q) /\ Receipted(q) /\ q[1] \in Jobs
      BY PidFacts DEF LifeInv
    <3>. QED
      BY <1>1, <1>2, <2>2, <3>1 DEF OnlyCurrent, Receipted, Alive
  <2>. QED
    BY <2>1, <2>2
<1>4. ASSUME NEW i \in Jobs PROVE Named(i)' /\ ReceiptFits(i)' /\ BegunOnce(i)'
  <2>1. Named(i) /\ ReceiptFits(i) /\ BegunOnce(i) /\ Current(i)' = Current(i)
    BY DEF LifeInv, Current
  <2>2. CASE i = j
    <3>1. ReceiptFits(j)'
      <4>1. ReceiptFits(j) /\ Current(j)' = p /\ job'[j] = job[j] /\ job[j].attempt <= job[j].attempt
        BY <1>1, <2>1, <2>2 DEF Current, Attempts
      <4>2. Completed(j)' => worker'[p].pc \in Over
        BY <1>1, <1>2 DEF Completed, Over
      <4>. QED
        BY <1>1, <1>2, <4>1, <4>2 DEF ReceiptFits
    <3>2. Mutated(j)' => begun'[j] = 1
      BY <1>1, <1>2, <2>1, <2>2 DEF BegunOnce, Mutated, Unstarted
    <3>3. BegunOnce(j)'
      BY <1>1, <1>2, <3>2 DEF BegunOnce, Unstarted, Current
    <3>. QED
      BY <2>1, <2>2, <3>1, <3>3 DEF Named
  <2>3. CASE i # j
    <3>1. job[i].attempt \in Attempts => worker'[Current(i)] = worker[Current(i)]
      BY <1>1, <1>2, <2>3, CurrentPid DEF Current
    <3>. QED
      BY <1>2, <2>1, <2>3, <3>1
         DEF Named, ReceiptFits, BegunOnce, Completed, Succeeded, Mutated
  <2>. QED
    BY <2>2, <2>3
<1>5. ASSUME NEW d \in Scheduler, WorkFits(d), InHand(d) PROVE InHand(d)'
  <2>1. \A i \in Jobs : (Quelled(i) => i # j /\ Quelled(i)') /\ (Succeeded(i) => i # j)
    <3>1. ASSUME NEW i \in Jobs, Quelled(i) PROVE i # j /\ Quelled(i)'
      <4>1. i # j
        BY <1>1, <3>1
      <4>2. job[i].attempt \in Attempts => worker'[Current(i)] = worker[Current(i)]
        BY <1>1, <1>2, <4>1, CurrentPid DEF Current
      <4>. QED
        BY <3>1, <4>1, <4>2 DEF Quelled, Alive, Current
    <3>2. ~Succeeded(j)
      BY <1>1 DEF Succeeded, Completed
    <3>. QED
      BY <3>1, <3>2
  <2>2. \A i \in Jobs \ {j} : /\ Mutated(i)' <=> Mutated(i)
                              /\ Succeeded(i)' <=> Succeeded(i)
                              /\ receipt'[i] = receipt[i]
    BY <1>2 DEF Mutated, Succeeded
  <2>3. \A w \in d.work : w.id \in Jobs
    BY DEF Scheduler, Task
  <2>4. \A v \in d.todo : Recent(v)'
    BY <1>5 DEF InHand, Recent
  <2>5. ASSUME NEW w \in d.work
        PROVE  /\ d.pc = "claimed" => /\ job'[w.id].attempt \in Attempts
                                      /\ Quelled(w.id)' /\ ~Mutated(w.id)'
                                      /\ receipt'[w.id].attempt # job'[w.id].attempt
               /\ d.pc = "spawned" => w.pid = job'[w.id].attempt
               /\ d.pc \in Examining => Recent(w.seen)' /\ w.seen.status = "running"
               /\ d.pc = "killed" => Quelled(w.id)'
               /\ d.pc = "settling" /\ w.verdict = "waiting" => Quelled(w.id)' /\ ~Mutated(w.id)'
               /\ d.pc = "settling" /\ w.verdict = "succeeded" => Succeeded(w.id)'
    <3>1. w.id \in Jobs
      BY <2>3
    <3>. QED
      BY <1>5, <2>1, <2>2, <3>1 DEF InHand, Recent
  <2>. QED
    BY <1>5, <2>4, <2>5 DEF InHand
<1>6. ASSUME NEW t \in Schedulers PROVE InHand(sched[t])'
  <2>1. sched[t] \in Scheduler /\ WorkFits(sched[t]) /\ InHand(sched[t]) /\ sched' = sched
    BY DEF TypeInv, Shapes, LifeInv
  <2>. QED
    BY <1>5, <2>1 DEF InHand
<1>. QED
  BY <1>3, <1>4, <1>6 DEF LifeInv

LEMMA BeginLife ==
    ASSUME TypeInv, LifeInv, NEW p \in Pids, Begin(p)
    PROVE  LifeInv'
<1>1. worker[p].pc = "beating" /\ Move(p, "executing") /\ UNCHANGED <<job, sched>>
  BY DEF Begin, At
<1>2. p[1] \in Jobs /\ p[2] = job[p[1]].attempt /\ ~Completed(p[1])
  BY <1>1, AtWork
<1>. DEFINE r == [attempt |-> p[2], state |-> "started", outcome |-> "none"]
<1>3. receipt' = [receipt EXCEPT ![p[1]] = r]
  BY <1>2 DEF Begin, Completed
<1>4. r \in Receipt /\ r.attempt = p[2] /\ r.state = "started"
  BY PidFacts, Bounds DEF Receipt
<1>5. begun' = [begun EXCEPT ![p[1]] = begun[p[1]] + 1] /\ begun[p[1]] + 1 \in Nat
  BY <1>2 DEF Begin, TypeInv, Shapes
<1>. HIDE DEF r
<1>. QED
  BY <1>1, <1>3, <1>4, <1>5, ReceiptLife

LEMMA CompleteLife ==
    ASSUME TypeInv, LifeInv, NEW p \in Pids, Complete(p)
    PROVE  LifeInv'
<1>1. /\ worker[p].pc = "checked" /\ Move(p, "receipted") /\ UNCHANGED <<job, sched, begun>>
      /\ p[1] \in Jobs /\ worker[p].outcome \in {"none", "succeeded", "failed"}
  BY PidFacts DEF Complete, At, TypeInv, Shapes, Worker
<1>. DEFINE r == [attempt |-> p[2], state |-> "completed", outcome |-> worker[p].outcome]
<1>2. receipt' = [receipt EXCEPT ![p[1]] = r]
  BY DEF Complete
<1>3. r \in Receipt /\ r.attempt = p[2]
  BY <1>1, PidFacts, Bounds DEF Receipt
<1>4. begun' = [begun EXCEPT ![p[1]] = begun[p[1]]] /\ begun[p[1]] \in Nat
  BY <1>1 DEF TypeInv, Shapes
<1>. QED
  BY <1>1, <1>2, <1>3, <1>4, ReceiptLife

LEMMA InitLife == Init => LifeInv
<1>. SUFFICES ASSUME Init PROVE LifeInv
  OBVIOUS
<1>1. ASSUME NEW j \in Jobs
      PROVE  /\ job[j].status = "waiting" /\ job[j].attempt = 0
             /\ receipt[j] = [attempt |-> 0, state |-> "none", outcome |-> "none"] /\ begun[j] = 0
  BY DEF Init
<1>2. ASSUME NEW p \in Pids PROVE worker[p].pc = "unborn"
  BY DEF Init
<1>3. ASSUME NEW s \in Schedulers PROVE InHand(sched[s])
  BY RestIsFree DEF Init
<1>4. ASSUME NEW j \in Jobs PROVE Named(j) /\ ReceiptFits(j) /\ BegunOnce(j)
  BY <1>1 DEF Named, ReceiptFits, Completed, BegunOnce, Mutated
<1>. QED
  BY <1>2, <1>3, <1>4 DEF LifeInv, OnlyCurrent, Receipted, Alive

LEMMA NextLife == OneDaemon /\ TypeInv /\ TypeInv' /\ LifeInv /\ [Next]_vars => LifeInv'
<1>. SUFFICES ASSUME OneDaemon, TypeInv, TypeInv', LifeInv, [Next]_vars PROVE LifeInv'
  OBVIOUS
<1>1. ASSUME NEW s \in Schedulers, Dispatch(s) PROVE LifeInv'
  <2>1. ScheduledBy(s)
    BY DEF OneDaemon, ScheduledBy
  <2>2. ASSUME AttachBusy(s) PROVE LifeInv'
    <3>1. Rest(s) /\ UNCHANGED <<job, receipt, begun, worker>>
      BY <2>2, Zenon DEF AttachBusy
    <3>. QED
      BY <3>1, RestLife
  <2>. QED
    BY <1>1, <2>1, <2>2, ExpireLife, AcquireLife, ClaimLife, ClaimIndexBusyLife, SpawnLife,
       AttachLife, Zenon DEF Dispatch
<1>2. ASSUME NEW s \in Schedulers, Reconciliation(s) PROVE LifeInv'
  BY <1>2, ReconcileLife, SkipLife, ExamineLife, FinalizeLife, SettleLife, Zenon
     DEF Reconciliation
<1>3. ASSUME NEW p \in Pids, WorkerSteps(p) PROVE LifeInv'
  BY <1>3, CalmWorkers, GiveUpLife, PublishLife, BeginLife, CompleteLife, Zenon
     DEF WorkerSteps
<1>. QED
  BY <1>1, <1>2, <1>3, DaemonLife, CalmWorkers, CancelKillLife, CancelLife, TimeLife, Zenon
     DEF Next, Stopped

LEMMA AlwaysLife == OneDaemon => (Spec => [](TypeInv /\ LifeInv))
<1>. SUFFICES ASSUME OneDaemon PROVE Spec => [](TypeInv /\ LifeInv)
  OBVIOUS
<1>1. (TypeInv /\ LifeInv) /\ [Next]_vars => (TypeInv /\ LifeInv)'
  BY NextTypes, NextLife
<1>. QED
  BY <1>1, InitTypes, InitLife, PTL DEF Spec

(* With one daemon a mutating operation is begun at most once, whatever    *)
(* dies, stalls, survives its termination or is cancelled, and however     *)
(* often the job is dispatched: markOperationStarted writes the receipt    *)
(* before the operation, and finalizeRunningJob requeues no job whose      *)
(* receipt it finds.                                                       *)
THEOREM OneDaemonNeverReplays == OneDaemon => (Spec => []NoBlindReplay)
<1>1. TypeInv /\ LifeInv => NoBlindReplay
  BY DEF TypeInv, Shapes, LifeInv, BegunOnce, Mutated, NoBlindReplay
<1>. QED
  BY <1>1, AlwaysLife, PTL

(* With one daemon a record that says "succeeded" is backed by the         *)
(* completed receipt of its current attempt (markOperationCompleted before *)
(* transitionExecutionJobFromWorker; finalizeRunningJob reads the receipt). *)
THEOREM SuccessIsReceipted == OneDaemon => (Spec => []SuccessHasReceipt)
<1>1. LifeInv => SuccessHasReceipt
  BY DEF LifeInv, ReceiptFits, Succeeded, SuccessHasReceipt
<1>. QED
  BY <1>1, AlwaysLife, PTL

-----------------------------------------------------------------------------
(* What a verdict says is so: the runtime of one daemon implements         *)
(* JobPromise.                                                             *)

(* Where a worker may be, by the status of its job; what the receipt says  *)
(* while the operation is under way.                                       *)
Unwaited == {"running", "cancelled", "orphaned"}
Placed(p) ==
    /\ worker[p].pc \in {"owned", "beating"} => job[p[1]].status \in Unwaited
    /\ worker[p].pc \in {"executing", "checked"} =>
          /\ job[p[1]].status \in Unwaited \cup {"human_attention_required"}
          /\ receipt[p[1]] = [attempt |-> p[2], state |-> "started", outcome |-> "none"]

(* A receipt is written of what was begun, and a completed one is the last *)
(* word: the job is not dispatched again.                                  *)
Upcoming(j) == job[j].status \in {"waiting", "dispatched"}
Told(j) == receipt[j].state = "completed"
Recorded(j) ==
    /\ receipt[j].state # "none" => begun[j] # 0
    /\ Told(j) => receipt[j].attempt = job[j].attempt
    /\ Upcoming(j) => ~Mutated(j) /\ ~Told(j)

(* The verdict that a scheduler has in hand is still justified when it is  *)
(* written down.                                                           *)
Grounded(j, x) ==
    /\ x = "failed" => Completed(j) /\ receipt[j].outcome = "failed"
    /\ x = "human_attention_required" => Mutated(j)
    /\ x = "timed_out" => job[j].status # "running" \/ (Quelled(j) /\ ~Mutated(j) /\ ~Told(j))
    /\ x = "waiting" => ~Told(j)
Honest(d) ==
    /\ \A v \in d.todo : v.status # "running" => job[v.id].status # "running"
    /\ d.pc = "settling" => \A w \in d.work : Grounded(w.id, w.verdict)

PromiseInv ==
    /\ \A p \in Pids : Placed(p)
    /\ \A j \in Jobs : Recorded(j)
    /\ \A s \in Schedulers : Honest(sched[s])

AtTask == {"owned", "beating", "executing", "checked"}

-----------------------------------------------------------------------------
(* What keeps the parts of the invariant.                                  *)

LEMMA SamePlaced ==
    ASSUME PromiseInv, UNCHANGED <<job, receipt>>,
           \A q \in Pids : worker'[q].pc = worker[q].pc \/ worker'[q].pc \notin AtTask
    PROVE  \A q \in Pids : Placed(q)'
BY DEF PromiseInv, Placed, AtTask

LEMMA OnePlaced ==
    ASSUME TypeInv, PromiseInv, NEW j \in Jobs, NEW r, job' = [job EXCEPT ![j] = r],
           receipt' = receipt,
           \A q \in Pids : worker'[q].pc = worker[q].pc \/ worker'[q].pc \notin AtTask,
           \/ r.status \in Unwaited \/ r.status = job[j].status
           \/ \A q \in Pids : q[1] = j => worker'[q].pc \notin AtTask
           \/ /\ r.status = "human_attention_required"
              /\ \A q \in Pids : q[1] = j => worker'[q].pc \notin {"owned", "beating"}
    PROVE  \A q \in Pids : Placed(q)'
<1>. SUFFICES ASSUME NEW q \in Pids PROVE Placed(q)'
  OBVIOUS
<1>1. /\ q[1] \in Jobs /\ job'[q[1]] = IF q[1] = j THEN r ELSE job[q[1]]
      /\ Placed(q) /\ receipt'[q[1]] = receipt[q[1]]
      /\ worker'[q].pc = worker[q].pc \/ worker'[q].pc \notin AtTask
  BY PidFacts DEF TypeInv, Shapes, PromiseInv
<1>2. CASE q[1] # j
  BY <1>1, <1>2 DEF Placed, AtTask
<1>3. CASE q[1] = j
  BY <1>1, <1>3 DEF Placed, AtTask, Unwaited
<1>. QED
  BY <1>2, <1>3

LEMMA SameRecorded ==
    ASSUME PromiseInv, UNCHANGED <<job, receipt, begun>>
    PROVE  \A i \in Jobs : Recorded(i)'
BY DEF PromiseInv, Recorded, Told, Upcoming, Mutated

LEMMA OneRecorded ==
    ASSUME TypeInv, PromiseInv, NEW j \in Jobs, NEW r, job' = [job EXCEPT ![j] = r],
           UNCHANGED <<receipt, begun>>, r.writes = job[j].writes,
           r.attempt = job[j].attempt \/ ~Told(j),
           r.status \in {"waiting", "dispatched"} => ~Mutated(j) /\ ~Told(j)
    PROVE  \A i \in Jobs : Recorded(i)'
<1>. SUFFICES ASSUME NEW i \in Jobs PROVE Recorded(i)'
  OBVIOUS
<1>1. job'[i] = (IF i = j THEN r ELSE job[i]) /\ Recorded(i)
  BY DEF TypeInv, Shapes, PromiseInv
<1>2. CASE i = j
  BY <1>1, <1>2 DEF Recorded, Told, Upcoming, Mutated
<1>3. CASE i # j
  BY <1>1, <1>3 DEF Recorded, Told, Upcoming, Mutated
<1>. QED
  BY <1>2, <1>3

(* Nobody comes to life or back to running, and nothing is begun or told.  *)
Settling ==
    /\ UNCHANGED <<receipt, begun>>
    /\ \A j \in Jobs : /\ job'[j].attempt = job[j].attempt /\ job'[j].writes = job[j].writes
                       /\ job'[j].status = "running" => job[j].status = "running"
    /\ \A p \in Pids : Alive(p)' => Alive(p)

LEMMA GroundedStays ==
    ASSUME Settling, NEW j \in Jobs, NEW x, Grounded(j, x)
    PROVE  Grounded(j, x)'
<1>1. /\ job'[j].attempt = job[j].attempt /\ job'[j].writes = job[j].writes
      /\ job'[j].status = "running" => job[j].status = "running"
      /\ receipt' = receipt /\ begun' = begun
  BY DEF Settling
<1>2. Quelled(j) => Quelled(j)'
  BY <1>1, CurrentPid DEF Settling, Quelled, Current
<1>3. /\ Mutated(j)' <=> Mutated(j)
      /\ Told(j)' <=> Told(j)
      /\ Completed(j)' <=> Completed(j)
  BY <1>1 DEF Mutated, Told, Completed
<1>. QED
  BY <1>1, <1>2, <1>3 DEF Grounded

LEMMA HonestStays ==
    ASSUME Settling, NEW d \in Scheduler, Honest(d)
    PROVE  Honest(d)'
<1>1. ASSUME NEW v \in d.todo, v.status # "running" PROVE job'[v.id].status # "running"
  <2>1. v.id \in Jobs
    BY DEF Scheduler, Snapshot
  <2>. QED
    BY <1>1, <2>1 DEF Settling, Honest
<1>2. ASSUME d.pc = "settling", NEW w \in d.work PROVE Grounded(w.id, w.verdict)'
  <2>1. w.id \in Jobs /\ Grounded(w.id, w.verdict)
    BY <1>2 DEF Scheduler, Task, Honest
  <2>. DEFINE j == w.id  x == w.verdict
  <2>2. j \in Jobs /\ Grounded(j, x)
    BY <2>1
  <2>. HIDE DEF j, x
  <2>3. Grounded(j, x)'
    BY <2>2, GroundedStays
  <2>. QED
    BY <2>3 DEF j, x
<1>. QED
  BY <1>1, <1>2 DEF Honest

LEMMA HandsStay ==
    ASSUME TypeInv, PromiseInv, Settling, sched' = sched
    PROVE  \A t \in Schedulers : Honest(sched[t])'
<1>. SUFFICES ASSUME NEW t \in Schedulers PROVE Honest(sched[t])'
  OBVIOUS
<1>1. sched[t] \in Scheduler /\ Honest(sched[t])
  BY DEF TypeInv, Shapes, PromiseInv
<1>2. ASSUME NEW d \in Scheduler, Honest(d) PROVE Honest(d)'
  BY <1>2, HonestStays
<1>. QED
  BY <1>1, <1>2 DEF Honest

LEMMA OnlyHand ==
    ASSUME TypeInv, OneDaemon, NEW s \in Schedulers, NEW d, Honest(d)',
           sched' = [sched EXCEPT ![s] = d]
    PROVE  \A t \in Schedulers : Honest(sched[t])'
<1>1. \A t \in Schedulers : sched'[t] = d
  BY DEF OneDaemon, TypeInv, Shapes
<1>. QED
  BY <1>1 DEF Honest

LEMMA EmptyHanded ==
    ASSUME NEW d, d.todo = {}, d.pc # "settling"
    PROVE  Honest(d) /\ Honest(d)'
BY DEF Honest

LEMMA RestHonest ==
    ASSUME TypeInv, OneDaemon, NEW s \in Schedulers,
           Rest(s) \/ sched' = [sched EXCEPT ![s] = Down]
    PROVE  \A t \in Schedulers : Honest(sched[t])'
<1>1. \A d \in {Idle, Down} : d.todo = {} /\ d.pc # "settling"
  BY DEF Idle, Down
<1>. QED
  BY <1>1, EmptyHanded, OnlyHand DEF Rest

-----------------------------------------------------------------------------
(* Each step keeps the invariant.                                          *)

LEMMA ExpirePromise ==
    ASSUME TypeInv, LifeInv, PromiseInv, NEW s \in Schedulers, NEW j \in Jobs, ExpireWaiting(s, j)
    PROVE  PromiseInv'
<1>. DEFINE r == [job[j] EXCEPT !.status = "timed_out", !.pid = 0]
<1>1. /\ r.status = "timed_out" /\ r.attempt = job[j].attempt /\ r.writes = job[j].writes
      /\ job' = [job EXCEPT ![j] = r] /\ UNCHANGED <<receipt, begun, worker, sched>>
      /\ job[j].status = "waiting"
  BY DEF ExpireWaiting, TypeInv, Shapes, JobRecord
<1>. HIDE DEF r
<1>2. \A q \in Pids : q[1] = j => worker'[q].pc \notin AtTask
  BY <1>1 DEF LifeInv, OnlyCurrent, Alive, AtTask
<1>3. \A q \in Pids : Placed(q)'
  BY <1>1, <1>2, OnePlaced
<1>4. \A i \in Jobs : Recorded(i)'
  BY <1>1, OneRecorded
<1>5. Settling
  BY <1>1 DEF Settling, Alive, TypeInv, Shapes
<1>. QED
  BY <1>1, <1>3, <1>4, <1>5, HandsStay DEF PromiseInv

(* The worker of the current attempt is the only one that may be at work.  *)
LEMMA OthersIdle ==
    ASSUME LifeInv, NEW j \in Jobs, NEW q \in Pids, q[1] = j, worker[q].pc \in AtTask
    PROVE  job[j].attempt \in Attempts /\ q = Current(j)
<1>1. q[2] \in Attempts /\ q = <<j, q[2]>> /\ q[2] = job[j].attempt
  BY PidFacts DEF LifeInv, OnlyCurrent, Alive, AtTask
<1>. QED
  BY <1>1 DEF Current

(* Nobody is at work on a job that is yet to be dispatched, or is just so. *)
LEMMA UpcomingIdle ==
    ASSUME LifeInv, PromiseInv, NEW j \in Jobs, job[j].status \in {"waiting", "dispatched"},
           NEW q \in Pids, q[1] = j
    PROVE  worker[q].pc \notin AtTask
BY DEF PromiseInv, Placed, AtTask, Unwaited

(* A step that leaves records, receipts and workers as they are.           *)
LEMMA HandPromise ==
    ASSUME TypeInv, PromiseInv, OneDaemon, NEW s \in Schedulers, NEW d, Honest(d)',
           sched' = [sched EXCEPT ![s] = d], UNCHANGED <<job, receipt, begun, worker>>
    PROVE  PromiseInv'
BY SamePlaced, SameRecorded, OnlyHand DEF PromiseInv

LEMMA RestPromise ==
    ASSUME TypeInv, PromiseInv, OneDaemon, NEW s \in Schedulers, Rest(s),
           UNCHANGED <<job, receipt, begun, worker>>
    PROVE  PromiseInv'
BY SamePlaced, SameRecorded, RestHonest DEF PromiseInv

LEMMA AcquirePromise ==
    ASSUME TypeInv, LifeInv, PromiseInv, OneDaemon,
           NEW s \in Schedulers, NEW j \in Jobs, Acquire(s, j)
    PROVE  PromiseInv'
<1>1. PICK g : Busy(s, "leased", j, g)
  BY DEF Acquire
<1>. DEFINE d == [sched[s] EXCEPT !.pc = "leased", !.work = {[id |-> j]}, !.grant = g]
<1>2. UNCHANGED <<job, receipt, begun, worker>> /\ sched' = [sched EXCEPT ![s] = d]
  BY <1>1 DEF Acquire, Busy
<1>3. d.todo = {} /\ d.pc = "leased"
  BY DEF Acquire, LifeInv, InHand, Examining, TypeInv, Shapes, Scheduler
<1>. HIDE DEF d
<1>. QED
  BY <1>2, <1>3, EmptyHanded, HandPromise

LEMMA DispatchedPromise ==
    ASSUME TypeInv, LifeInv, PromiseInv, OneDaemon, NEW s \in Schedulers,
           NEW j \in Jobs, job[j].status = "waiting",
           job' = [job EXCEPT ![j] = Dispatched(job[j], sched[s].grant)],
           UNCHANGED <<receipt, begun, worker>>, NEW d, d.todo = {}, d.pc # "settling",
           sched' = [sched EXCEPT ![s] = d]
    PROVE  PromiseInv'
<1>. DEFINE r == Dispatched(job[j], sched[s].grant)
<1>1. r.status = "dispatched" /\ r.writes = job[j].writes /\ job' = [job EXCEPT ![j] = r]
  BY DEF Dispatched, TypeInv, Shapes, JobRecord
<1>2. Upcoming(j) /\ ~Mutated(j) /\ ~Told(j)
  BY DEF Upcoming, PromiseInv, Recorded
<1>. HIDE DEF r
<1>3. \A q \in Pids : q[1] = j => worker'[q].pc \notin AtTask
  BY DEF LifeInv, OnlyCurrent, Alive, AtTask
<1>4. \A q \in Pids : Placed(q)'
  BY <1>1, <1>3, OnePlaced
<1>5. \A i \in Jobs : Recorded(i)'
  BY <1>1, <1>2, OneRecorded
<1>. QED
  BY <1>4, <1>5, EmptyHanded, OnlyHand DEF PromiseInv

LEMMA ClaimPromise ==
    ASSUME TypeInv, LifeInv, PromiseInv, OneDaemon,
           NEW s \in Schedulers, Claim(s) \/ ClaimIndexBusy(s)
    PROVE  PromiseInv'
<1>1. UNCHANGED <<receipt, begun, worker>> /\ sched[s].pc = "leased"
  BY Zenon DEF Claim, ClaimIndexBusy
<1>2. sched[s] \in Scheduler /\ sched[s].todo = {}
  BY <1>1 DEF TypeInv, Shapes, LifeInv, InHand, Examining
<1>3. CASE Claim(s)
  <2>1. PICK j \in Jobs :
            \/ /\ job[j].status = "waiting"
               /\ job' = [job EXCEPT ![j] = Dispatched(job[j], sched[s].grant)]
               /\ sched' = [sched EXCEPT ![s] = [sched[s] EXCEPT !.pc = "claimed"]]
            \/ job' = job /\ Rest(s)
    BY <1>3, ClaimForm, Zenon
  <2>. DEFINE d == [sched[s] EXCEPT !.pc = "claimed"]
  <2>2. d.todo = {} /\ d.pc # "settling"
    BY <1>2 DEF Scheduler
  <2>3. \/ /\ job[j].status = "waiting"
           /\ job' = [job EXCEPT ![j] = Dispatched(job[j], sched[s].grant)]
           /\ sched' = [sched EXCEPT ![s] = d]
        \/ job' = job /\ Rest(s)
    BY <2>1
  <2>. HIDE DEF d
  <2>. QED
    BY <1>1, <2>2, <2>3, DispatchedPromise, RestPromise
<1>4. CASE ClaimIndexBusy(s)
  <2>1. PICK j \in Jobs :
            /\ job[j].status = "waiting"
            /\ job' = [job EXCEPT ![j] = Dispatched(job[j], sched[s].grant)]
    BY <1>4, ClaimIndexBusyForm
  <2>2. sched' = [sched EXCEPT ![s] = Idle]
    BY <1>4, Zenon DEF ClaimIndexBusy, Rest
  <2>3. Idle.todo = {} /\ Idle.pc # "settling"
    BY DEF Idle
  <2>. QED
    BY <1>1, <2>1, <2>2, <2>3, DispatchedPromise
<1>. QED
  BY <1>3, <1>4

LEMMA SpawnPromise ==
    ASSUME TypeInv, LifeInv, PromiseInv, OneDaemon, NEW s \in Schedulers, SpawnChild(s)
    PROVE  PromiseInv'
<1>1. UNCHANGED <<job, receipt, begun>> /\ sched[s].pc = "claimed"
  BY DEF SpawnChild
<1>2. sched[s] \in Scheduler /\ sched[s].todo = {}
  BY <1>1 DEF TypeInv, Shapes, LifeInv, InHand, Examining
<1>3. PICK j \in Jobs :
          \/ /\ worker' = [worker EXCEPT ![Current(j)] =
                   [worker[Current(j)] EXCEPT !.pc = "boot", !.parented = (s = epoch)]]
             /\ sched' = [sched EXCEPT ![s] = [sched[s] EXCEPT !.pc = "spawned",
                             !.work = {[id |-> j, pid |-> job[j].attempt]}]]
          \/ Rest(s) /\ worker' = worker
  BY SpawnForm, Zenon
<1>4. CASE Rest(s) /\ worker' = worker
  BY <1>1, <1>4, RestPromise
<1>5. CASE /\ worker' = [worker EXCEPT ![Current(j)] =
                 [worker[Current(j)] EXCEPT !.pc = "boot", !.parented = (s = epoch)]]
           /\ sched' = [sched EXCEPT ![s] = [sched[s] EXCEPT !.pc = "spawned",
                           !.work = {[id |-> j, pid |-> job[j].attempt]}]]
  <2>1. \A q \in Pids : worker'[q].pc = worker[q].pc \/ worker'[q].pc = "boot"
    BY <1>5 DEF TypeInv, Shapes, Worker
  <2>2. \A q \in Pids : Placed(q)'
    BY <1>1, <2>1, SamePlaced DEF AtTask
  <2>. DEFINE d == [sched[s] EXCEPT !.pc = "spawned",
                       !.work = {[id |-> j, pid |-> job[j].attempt]}]
  <2>3. d.todo = {} /\ d.pc # "settling" /\ sched' = [sched EXCEPT ![s] = d]
    BY <1>2, <1>5 DEF Scheduler
  <2>. HIDE DEF d
  <2>. QED
    BY <1>1, <2>2, <2>3, SameRecorded, EmptyHanded, OnlyHand DEF PromiseInv
<1>. QED
  BY <1>3, <1>4, <1>5

LEMMA AttachPromise ==
    ASSUME TypeInv, LifeInv, PromiseInv, OneDaemon, NEW s \in Schedulers, Attach(s)
    PROVE  PromiseInv'
<1>1. PICK j \in Jobs, a \in Attempts :
          \/ /\ worker' = worker
             /\ job' = [job EXCEPT ![j] = [job[j] EXCEPT !.status = "running", !.pid = a]]
          \/ job' = job /\ Move(<<j, a>>, "gone")
  BY AttachForm
<1>2. Rest(s) /\ UNCHANGED <<receipt, begun>>
  BY DEF Attach
<1>3. CASE worker' = worker /\ job' = [job EXCEPT ![j] = [job[j] EXCEPT !.status = "running", !.pid = a]]
  <2>. DEFINE r == [job[j] EXCEPT !.status = "running", !.pid = a]
  <2>1. /\ r.status = "running" /\ r.attempt = job[j].attempt /\ r.writes = job[j].writes
        /\ job' = [job EXCEPT ![j] = r]
    BY <1>3 DEF TypeInv, Shapes, JobRecord
  <2>. HIDE DEF r
  <2>2. \A q \in Pids : Placed(q)'
    BY <1>2, <1>3, <2>1, OnePlaced DEF Unwaited
  <2>3. \A i \in Jobs : Recorded(i)'
    BY <1>2, <2>1, OneRecorded
  <2>. QED
    BY <1>2, <2>2, <2>3, RestHonest DEF PromiseInv
<1>4. CASE job' = job /\ Move(<<j, a>>, "gone")
  <2>1. \A q \in Pids : worker'[q].pc = worker[q].pc \/ worker'[q].pc = "gone"
    BY <1>4 DEF Move, TypeInv, Shapes, Worker
  <2>. QED
    BY <1>2, <1>4, <2>1, SamePlaced, SameRecorded, RestHonest DEF PromiseInv, AtTask
<1>. QED
  BY <1>1, <1>3, <1>4

LEMMA AttachBusyPromise ==
    ASSUME TypeInv, PromiseInv, OneDaemon, NEW s \in Schedulers, AttachBusy(s)
    PROVE  PromiseInv'
<1>1. Rest(s) /\ UNCHANGED <<job, receipt, begun, worker>>
  BY Zenon DEF AttachBusy
<1>. QED
  BY <1>1, RestPromise

(* A worker moves on while its record, its receipt and the scheduler stay  *)
(* as they are.                                                            *)
LEMMA MovesPromise ==
    ASSUME TypeInv, PromiseInv, NEW p \in Pids, NEW r, worker' = [worker EXCEPT ![p] = r],
           UNCHANGED <<job, receipt, begun, sched>>,
           \/ r.pc \notin AtTask /\ (Alive(p) \/ r.pc = "gone")
           \/ worker[p].pc = "boot" /\ r.pc = "owned" /\ job[p[1]].status = "running"
           \/ <<worker[p].pc, r.pc>> \in {<<"owned", "beating">>, <<"executing", "checked">>}
    PROVE  PromiseInv'
<1>1. ASSUME NEW q \in Pids PROVE Placed(q)'
  <2>1. worker'[q] = (IF q = p THEN r ELSE worker[q]) /\ Placed(q)
    BY DEF TypeInv, Shapes, PromiseInv
  <2>. QED
    BY <2>1 DEF Placed, AtTask, Unwaited
<1>2. Settling
  BY DEF Settling, Alive, TypeInv, Shapes
<1>. QED
  BY <1>1, <1>2, SameRecorded, HandsStay DEF PromiseInv

LEMMA WorkPromise ==
    ASSUME TypeInv, PromiseInv, NEW p \in Pids,
           Boot(p) \/ BootRefused(p) \/ FirstBeat(p) \/ Finish(p) \/ Leave(p) \/ WorkerDies(p)
    PROVE  PromiseInv'
<1>1. UNCHANGED <<job, receipt, begun, sched>> /\ worker[p] \in Worker
  BY Zenon DEF Boot, BootRefused, FirstBeat, Finish, Leave, WorkerDies, TypeInv, Shapes
<1>2. PICK r :
          /\ worker' = [worker EXCEPT ![p] = r]
          /\ \/ r.pc \notin AtTask /\ (Alive(p) \/ r.pc = "gone")
             \/ worker[p].pc = "boot" /\ r.pc = "owned" /\ job[p[1]].status = "running"
             \/ <<worker[p].pc, r.pc>> \in {<<"owned", "beating">>, <<"executing", "checked">>}
  <2>1. CASE Boot(p)
    <3>. DEFINE r == [worker[p] EXCEPT !.pc = "owned", !.refs = job[p[1]].refs]
    <3>1. /\ worker' = [worker EXCEPT ![p] = r] /\ r.pc = "owned"
          /\ worker[p].pc = "boot" /\ job[p[1]].status = "running"
      BY <1>1, <2>1 DEF Boot, At, Worker
    <3>. QED
      BY <3>1
  <2>2. CASE Finish(p)
    <3>1. PICK x \in {"succeeded", "failed"} :
              worker' = [worker EXCEPT ![p] = [worker[p] EXCEPT !.pc = "checked", !.outcome = x]]
      BY <2>2 DEF Finish
    <3>. DEFINE r == [worker[p] EXCEPT !.pc = "checked", !.outcome = x]
    <3>2. worker[p].pc = "executing" /\ r.pc = "checked" /\ worker' = [worker EXCEPT ![p] = r]
      BY <1>1, <2>2, <3>1 DEF Finish, At, Worker
    <3>. QED
      BY <3>2
  <2>3. ASSUME NEW pc, Move(p, pc),
               \/ pc \notin AtTask /\ (Alive(p) \/ pc = "gone")
               \/ worker[p].pc = "owned" /\ pc = "beating"
        PROVE  \E r :
          /\ worker' = [worker EXCEPT ![p] = r]
          /\ \/ r.pc \notin AtTask /\ (Alive(p) \/ r.pc = "gone")
             \/ worker[p].pc = "boot" /\ r.pc = "owned" /\ job[p[1]].status = "running"
             \/ <<worker[p].pc, r.pc>> \in {<<"owned", "beating">>, <<"executing", "checked">>}
    <3>. DEFINE r == [worker[p] EXCEPT !.pc = pc]
    <3>1. r.pc = pc /\ worker' = [worker EXCEPT ![p] = r]
      BY <1>1, <2>3 DEF Move, Worker
    <3>. QED
      BY <2>3, <3>1
  <2>4. CASE FirstBeat(p)
    BY <2>3, <2>4 DEF FirstBeat, At, AtTask, Alive
  <2>5. CASE BootRefused(p) \/ Leave(p) \/ WorkerDies(p)
    BY <2>3, <2>5 DEF BootRefused, Leave, WorkerDies, At, AtTask, Alive
  <2>. QED
    BY <2>1, <2>2, <2>4, <2>5
<1>. QED
  BY <1>1, <1>2, MovesPromise

LEMMA SamePromise ==
    ASSUME TypeInv, PromiseInv, UNCHANGED <<job, receipt, begun, worker, sched>>
    PROVE  PromiseInv'
<1>1. Settling
  BY DEF Settling, Alive
<1>. QED
  BY <1>1, SamePlaced, SameRecorded, HandsStay DEF PromiseInv

LEMMA TimePromise ==
    ASSUME TypeInv, PromiseInv,
           \/ \E p \in Pids : Beat(p)
           \/ \E j \in Jobs : Quiet(j) \/ Deadline(j)
           \/ UNCHANGED vars
    PROVE  PromiseInv'
<1>1. UNCHANGED <<job, receipt, begun, worker, sched>>
  BY DEF Beat, Quiet, Deadline, vars
<1>. QED
  BY <1>1, SamePromise

LEMMA GiveUpPromise ==
    ASSUME TypeInv, LifeInv, PromiseInv, NEW p \in Pids, LoseOwnership(p) \/ Fail(p)
    PROVE  PromiseInv'
<1>. DEFINE r == GivenUp(p[1], p[2])
<1>1. /\ job' = [job EXCEPT ![p[1]] = r] /\ p[1] \in Jobs
      /\ UNCHANGED <<receipt, begun, sched>>
      /\ Move(p, "gone") \/ (At(p, "failing") /\ Move(p, "leaving"))
  BY PidFacts, Zenon DEF LoseOwnership, Fail
<1>2. \A q \in Pids : /\ q # p => worker'[q] = worker[q]
                      /\ q = p => worker'[q].pc \in {"gone", "leaving"}
                      /\ Alive(q)' => Alive(q)
  BY <1>1 DEF Move, At, Alive, TypeInv, Shapes, Worker
<1>3. /\ r = job[p[1]] \/ r.status \in {"failed", "human_attention_required"}
      /\ r.attempt = job[p[1]].attempt /\ r.writes = job[p[1]].writes
  BY GivenUpFacts
<1>4. r = job[p[1]] \/ \A q \in Pids : q[1] = p[1] => worker'[q].pc \notin AtTask
  <2>1. ASSUME r # job[p[1]], NEW q \in Pids, q[1] = p[1] PROVE worker'[q].pc \notin AtTask
    <3>1. job[p[1]].status = "running" /\ job[p[1]].pid = p[2]
      BY <2>1 DEF GivenUp
    <3>2. p[2] = job[p[1]].attempt
      BY <1>1, <3>1 DEF LifeInv, Named
    <3>3. CASE q = p
      BY <1>2, <3>3 DEF AtTask
    <3>4. CASE q # p
      <4>1. q[2] # p[2]
        BY <2>1, <3>4, PidFacts
      <4>2. ~Alive(q)
        BY <2>1, <3>2, <4>1 DEF LifeInv, OnlyCurrent
      <4>. QED
        BY <1>2, <3>4, <4>2 DEF Alive, AtTask
    <3>. QED
      BY <3>3, <3>4
  <2>. QED
    BY <2>1
<1>. HIDE DEF r
<1>5. \A q \in Pids : Placed(q)'
  BY <1>1, <1>2, <1>3, <1>4, OnePlaced DEF AtTask
<1>6. \A i \in Jobs : Recorded(i)'
  <2>1. r.status \in {"waiting", "dispatched"} => ~Mutated(p[1]) /\ ~Told(p[1])
    BY <1>1, <1>3 DEF PromiseInv, Recorded, Upcoming
  <2>. QED
    BY <1>1, <1>3, <2>1, OneRecorded
<1>7. Settling
  BY <1>1, <1>2, <1>3 DEF Settling, TypeInv, Shapes
<1>. QED
  BY <1>1, <1>5, <1>6, <1>7, HandsStay DEF PromiseInv

LEMMA PublishPromise ==
    ASSUME TypeInv, LifeInv, PromiseInv, NEW p \in Pids, Publish(p)
    PROVE  PromiseInv'
<1>1. /\ UNCHANGED <<receipt, begun, sched>> /\ worker[p].pc = "receipted" /\ p[1] \in Jobs
      /\ \/ /\ Publishable(p) /\ Move(p, "leaving")
            /\ job' = [job EXCEPT ![p[1]] = Ended(job[p[1]], worker[p].outcome)]
         \/ job' = job /\ Move(p, "failing")
  BY PidFacts DEF Publish, At
<1>2. \A q \in Pids : /\ q # p => worker'[q] = worker[q]
                      /\ q = p => worker'[q].pc \in {"leaving", "failing"}
                      /\ Alive(q)' => Alive(q)
  BY <1>1 DEF Move, Alive, TypeInv, Shapes, Worker
<1>3. CASE job' = job
  <2>1. Settling
    BY <1>1, <1>2, <1>3 DEF Settling
  <2>. QED
    BY <1>1, <1>2, <1>3, <2>1, SamePlaced, SameRecorded, HandsStay DEF PromiseInv, AtTask
<1>4. CASE Publishable(p) /\ job' = [job EXCEPT ![p[1]] = Ended(job[p[1]], worker[p].outcome)]
  <2>. DEFINE r == Ended(job[p[1]], worker[p].outcome)
  <2>1. worker[p].outcome \in {"succeeded", "failed"} /\ job[p[1]] \in JobRecord
    BY <1>1, PidFacts DEF TypeInv, Shapes, HasOutcome, Worker
  <2>2. /\ r.status \in {"succeeded", "failed"}
        /\ r.attempt = job[p[1]].attempt /\ r.writes = job[p[1]].writes
    <3>1. worker[p].outcome \in Statuses
      BY <2>1, Bounds DEF Terminal
    <3>. QED
      BY <2>1, <3>1, EndedShape
  <2>3. ASSUME NEW q \in Pids, q[1] = p[1] PROVE worker'[q].pc \notin AtTask
    <3>1. CASE q = p
      BY <1>2, <3>1 DEF AtTask
    <3>2. CASE q # p
      <4>1. q[2] # p[2] /\ p[2] = job[p[1]].attempt
        BY <1>4, <2>3, <3>2, PidFacts DEF Publishable
      <4>2. ~Alive(q)
        BY <2>3, <4>1 DEF LifeInv, OnlyCurrent
      <4>. QED
        BY <1>2, <3>2, <4>2 DEF Alive, AtTask
    <3>. QED
      BY <3>1, <3>2
  <2>4. job' = [job EXCEPT ![p[1]] = r]
    BY <1>4
  <2>. HIDE DEF r
  <2>5. \A q \in Pids : Placed(q)'
    BY <1>1, <1>2, <2>2, <2>3, <2>4, OnePlaced DEF AtTask
  <2>6. \A i \in Jobs : Recorded(i)'
    BY <1>1, <2>2, <2>4, OneRecorded
  <2>7. Settling
    BY <1>1, <1>2, <2>2, <2>4 DEF Settling, TypeInv, Shapes
  <2>. QED
    BY <1>1, <2>5, <2>6, <2>7, HandsStay DEF PromiseInv
<1>. QED
  BY <1>1, <1>3, <1>4

(* A worker at work writes its own receipt.                                *)
LEMMA ReceiptPromise ==
    ASSUME TypeInv, LifeInv, PromiseInv, NEW p \in Pids, NEW r, NEW pc, NEW n \in Nat \ {0},
           worker[p].pc \in {"beating", "checked"}, Move(p, pc), UNCHANGED <<job, sched>>,
           receipt' = [receipt EXCEPT ![p[1]] = r], begun' = [begun EXCEPT ![p[1]] = n],
           r.attempt = p[2], n = begun[p[1]] \/ r.state # "completed",
           \/ /\ r = [attempt |-> p[2], state |-> "started", outcome |-> "none"]
              /\ worker[p].pc = "beating" /\ pc = "executing"
           \/ r.state = "completed" /\ worker[p].pc = "checked" /\ pc = "receipted"
    PROVE  PromiseInv'
<1>. DEFINE j == p[1]
<1>1. /\ j \in Jobs /\ p[2] = job[j].attempt /\ ~Completed(j) /\ ~Quelled(j)
      /\ \A q \in Pids : q[1] = j /\ q # p => ~Alive(q)
  BY AtWork
<1>2. /\ receipt'[j] = r /\ begun'[j] = n
      /\ \A i \in Jobs \ {j} : receipt'[i] = receipt[i] /\ begun'[i] = begun[i]
      /\ worker'[p].pc = pc /\ \A q \in Pids \ {p} : worker'[q] = worker[q]
  BY <1>1 DEF TypeInv, Shapes, Move, Worker
<1>3. job[j].status \in Unwaited \cup {"human_attention_required"} /\ ~Upcoming(j)
  BY DEF PromiseInv, Placed, Unwaited, Upcoming
<1>4. ASSUME NEW q \in Pids PROVE Placed(q)'
  <2>1. Placed(q) /\ q[1] \in Jobs
    BY PidFacts DEF PromiseInv
  <2>2. CASE q = p
    <3>1. pc = "executing" => job[j].status \in Unwaited
      BY DEF PromiseInv, Placed
    <3>. QED
      BY <1>2, <2>2, <3>1 DEF Placed
  <2>3. CASE q # p /\ q[1] = j
    BY <1>1, <1>2, <2>3 DEF Placed, Alive
  <2>4. CASE q # p /\ q[1] # j
    BY <1>2, <2>1, <2>4 DEF Placed
  <2>. QED
    BY <2>2, <2>3, <2>4
<1>5. ASSUME NEW i \in Jobs PROVE Recorded(i)'
  <2>1. CASE i = j
    BY <1>1, <1>2, <1>3, <2>1 DEF Recorded, Told, Upcoming
  <2>2. CASE i # j
    BY <1>2, <2>2 DEF PromiseInv, Recorded, Told, Upcoming, Mutated
  <2>. QED
    BY <2>1, <2>2
<1>6. ASSUME NEW d \in Scheduler, Honest(d), InHand(d) PROVE Honest(d)'
  <2>1. ASSUME d.pc = "settling", NEW w \in d.work PROVE Grounded(w.id, w.verdict)'
    <3>1. w.id \in Jobs /\ Grounded(w.id, w.verdict) /\ (w.verdict = "waiting" => Quelled(w.id))
      BY <1>6, <2>1 DEF Scheduler, Task, Honest, InHand
    <3>2. CASE w.id = j
      <4>1. Mutated(j) => Mutated(j)'
        BY <1>2 DEF Mutated
      <4>. QED
        BY <1>1, <3>1, <3>2, <4>1 DEF Grounded
    <3>3. CASE w.id # j
      <4>. DEFINE i == w.id
      <4>1. i \in Jobs \ {j} /\ Grounded(i, w.verdict)
        BY <3>1, <3>3
      <4>. HIDE DEF i
      <4>2. job[i].attempt \in Attempts => worker'[Current(i)] = worker[Current(i)]
        BY <1>1, <1>2, <4>1, CurrentPid DEF Current
      <4>3. Quelled(i) => Quelled(i)'
        BY <4>2 DEF Quelled, Alive, Current
      <4>4. /\ Mutated(i)' <=> Mutated(i)
            /\ Told(i)' <=> Told(i)
            /\ Completed(i)' <=> Completed(i)
            /\ receipt'[i] = receipt[i]
        BY <1>2, <4>1 DEF Mutated, Told, Completed
      <4>5. Grounded(i, w.verdict)'
        BY <4>1, <4>3, <4>4 DEF Grounded
      <4>. QED
        BY <4>5 DEF i
    <3>. QED
      BY <3>2, <3>3
  <2>. QED
    BY <1>6, <2>1 DEF Honest
<1>7. ASSUME NEW t \in Schedulers PROVE Honest(sched[t])'
  <2>1. sched[t] \in Scheduler /\ Honest(sched[t]) /\ InHand(sched[t]) /\ sched' = sched
    BY DEF TypeInv, Shapes, PromiseInv, LifeInv
  <2>. QED
    BY <1>6, <2>1 DEF Honest
<1>. QED
  BY <1>4, <1>5, <1>7 DEF PromiseInv

LEMMA BeginPromise ==
    ASSUME TypeInv, LifeInv, PromiseInv, NEW p \in Pids, Begin(p)
    PROVE  PromiseInv'
<1>1. worker[p].pc = "beating" /\ Move(p, "executing") /\ UNCHANGED <<job, sched>>
  BY DEF Begin, At
<1>2. p[1] \in Jobs /\ p[2] = job[p[1]].attempt /\ ~Completed(p[1])
  BY <1>1, AtWork
<1>. DEFINE r == [attempt |-> p[2], state |-> "started", outcome |-> "none"]
            n == begun[p[1]] + 1
<1>3. receipt' = [receipt EXCEPT ![p[1]] = r]
  BY <1>2 DEF Begin, Completed
<1>4. begun' = [begun EXCEPT ![p[1]] = n] /\ n \in Nat \ {0}
  BY <1>2 DEF Begin, TypeInv, Shapes
<1>5. r.state # "completed" /\ r.attempt = p[2]
  OBVIOUS
<1>. HIDE DEF n
<1>. QED
  BY <1>1, <1>3, <1>4, <1>5, ReceiptPromise

LEMMA CompletePromise ==
    ASSUME TypeInv, LifeInv, PromiseInv, NEW p \in Pids, Complete(p)
    PROVE  PromiseInv'
<1>1. /\ worker[p].pc = "checked" /\ Move(p, "receipted") /\ UNCHANGED <<job, sched, begun>>
      /\ p[1] \in Jobs
  BY PidFacts DEF Complete, At
<1>. DEFINE r == [attempt |-> p[2], state |-> "completed", outcome |-> worker[p].outcome]
<1>2. receipt' = [receipt EXCEPT ![p[1]] = r] /\ r.state = "completed" /\ r.attempt = p[2]
  BY DEF Complete
<1>3. begun' = [begun EXCEPT ![p[1]] = begun[p[1]]] /\ begun[p[1]] \in Nat \ {0}
  <2>1. begun[p[1]] \in Nat /\ begun' = [begun EXCEPT ![p[1]] = begun[p[1]]]
    BY <1>1 DEF TypeInv, Shapes
  <2>2. receipt[p[1]].state = "started"
    <3>1. Placed(p)
      BY DEF PromiseInv
    <3>2. receipt[p[1]] = [attempt |-> p[2], state |-> "started", outcome |-> "none"]
      BY <1>1, <3>1 DEF Placed
    <3>. QED
      BY <3>2
  <2>3. begun[p[1]] # 0
    BY <1>1, <2>2 DEF PromiseInv, Recorded
  <2>. QED
    BY <2>1, <2>3
<1>. HIDE DEF r
<1>. QED
  BY <1>1, <1>2, <1>3, ReceiptPromise

-----------------------------------------------------------------------------
(* Reconciliation.                                                         *)

LEMMA ReconcilePromise ==
    ASSUME TypeInv, PromiseInv, OneDaemon, NEW s \in Schedulers, Reconcile(s)
    PROVE  PromiseInv'
<1>1. UNCHANGED <<job, receipt, begun, worker>> /\ sched[s] \in Scheduler
  BY DEF Reconcile, TypeInv, Shapes
<1>2. PICK d : /\ sched' = [sched EXCEPT ![s] = d] /\ d.pc = "reconciling"
               /\ d.todo = {Seen(j) : j \in Active}
  <2>. DEFINE e == [sched[s] EXCEPT !.pc = "reconciling", !.todo = {Seen(j) : j \in Active}]
  <2>1. /\ sched' = [sched EXCEPT ![s] = e] /\ e.pc = "reconciling"
        /\ e.todo = {Seen(j) : j \in Active}
    BY <1>1 DEF Reconcile, Scheduler
  <2>. HIDE DEF e
  <2>. QED
    BY <2>1
<1>3. ASSUME NEW v \in d.todo, v.status # "running" PROVE job'[v.id].status # "running"
  <2>1. PICK j \in Active : v = Seen(j)
    BY <1>2
  <2>2. v.id = j /\ v.status = job[j].status
    BY <2>1 DEF Seen
  <2>. QED
    BY <1>1, <1>3, <2>2
<1>4. Honest(d)'
  BY <1>2, <1>3 DEF Honest
<1>. QED
  BY <1>1, <1>2, <1>4, HandPromise

LEMMA SkipPromise ==
    ASSUME TypeInv, PromiseInv, OneDaemon, NEW s \in Schedulers, Skip(s)
    PROVE  PromiseInv'
<1>1. PICK v \in sched[s].todo :
          Rest(s) \/ sched' = [sched EXCEPT ![s].todo = sched[s].todo \ {v}]
  BY DEF Skip
<1>2. UNCHANGED <<job, receipt, begun, worker>> /\ sched[s].pc = "reconciling"
  BY DEF Skip
<1>3. CASE Rest(s)
  BY <1>2, <1>3, RestPromise
<1>4. CASE sched' = [sched EXCEPT ![s].todo = sched[s].todo \ {v}]
  <2>1. sched[s] \in Scheduler /\ Honest(sched[s])
    BY DEF TypeInv, Shapes, PromiseInv
  <2>2. PICK d : /\ sched' = [sched EXCEPT ![s] = d] /\ d.pc = "reconciling"
                 /\ d.todo = sched[s].todo \ {v}
    <3>. DEFINE e == [sched[s] EXCEPT !.todo = sched[s].todo \ {v}]
    <3>1. /\ sched' = [sched EXCEPT ![s] = e] /\ e.pc = "reconciling"
          /\ e.todo = sched[s].todo \ {v}
      BY <1>2, <1>4, <2>1 DEF Scheduler
    <3>. HIDE DEF e
    <3>. QED
      BY <3>1
  <2>3. Honest(d)'
    BY <1>2, <2>1, <2>2 DEF Honest
  <2>. QED
    BY <1>2, <2>2, <2>3, HandPromise
<1>. QED
  BY <1>1, <1>3, <1>4

LEMMA ExaminePromise ==
    ASSUME TypeInv, LifeInv, PromiseInv, OneDaemon, NEW s \in Schedulers, Examine(s)
    PROVE  PromiseInv'
<1>0. PICK v \in sched[s].todo, d \in Scheduler : Examined(s, v, d)
  BY ExamineForm
<1>1. /\ v.id \in Jobs /\ d.todo = sched[s].todo \ {v} /\ sched' = [sched EXCEPT ![s] = d]
      /\ \/ /\ v.status # "running" /\ d.pc = "settling" /\ worker' = worker
            /\ d.work = {[id |-> v.id, verdict |-> "timed_out"]}
         \/ /\ d.pc \in Examining
            /\ \/ worker' = worker
               \/ worker' = [worker EXCEPT ![<<v.id, v.pid>>].pc = "gone"]
  BY <1>0 DEF Examined, Snapshot, Examining
<1>2. UNCHANGED <<job, receipt, begun>>
  BY Zenon DEF Examine
<1>3. Honest(sched[s]) /\ \A u \in d.todo : u \in sched[s].todo
  BY <1>1 DEF PromiseInv
<1>4. \A q \in Pids : worker'[q].pc = worker[q].pc \/ worker'[q].pc = "gone"
  BY <1>1 DEF TypeInv, Shapes, Worker
<1>5. \A q \in Pids : Placed(q)'
  BY <1>2, <1>4, SamePlaced DEF AtTask
<1>6. d.pc = "settling" => \A w \in d.work : Grounded(w.id, w.verdict)'
  <2>1. v.status # "running" => job'[v.id].status # "running"
    BY <1>2, <1>3 DEF Honest
  <2>. QED
    BY <1>1, <2>1 DEF Grounded, Examining
<1>7. Honest(d)'
  BY <1>2, <1>3, <1>6 DEF Honest
<1>. QED
  BY <1>1, <1>2, <1>5, <1>7, SameRecorded, OnlyHand DEF PromiseInv

LEMMA FinalizePromise ==
    ASSUME TypeInv, LifeInv, PromiseInv, OneDaemon, NEW s \in Schedulers, Finalize(s)
    PROVE  PromiseInv'
<1>0. PICK v \in Snapshot, b \in BOOLEAN, x \in Verdicts : Finalized(s, v, b, x)
  BY FinalizeForm
<1>. DEFINE w == [id |-> v.id, seen |-> v, late |-> b]  j == v.id
<1>1. /\ sched[s].work = {w} /\ x = Verdict(w, sched[s].pc = "survived")
      /\ sched' = [sched EXCEPT ![s] = [sched[s] EXCEPT !.pc = "settling",
                      !.work = {[id |-> j, verdict |-> x]}]]
  BY <1>0 DEF Finalized
<1>2. /\ UNCHANGED <<job, receipt, begun, worker>> /\ sched[s].pc \in Examining
      /\ InHand(sched[s]) /\ Honest(sched[s]) /\ sched[s] \in Scheduler /\ j \in Jobs
  BY DEF Finalize, LifeInv, PromiseInv, TypeInv, Shapes, Examining, Snapshot
<1>3. w \in sched[s].work /\ w.id = j /\ w.seen = v /\ w.late = b
  BY <1>1
<1>4. v.attempt = job[j].attempt /\ (sched[s].pc = "killed" => Quelled(j))
  BY <1>2, <1>3 DEF InHand, Recent
<1>5. /\ Recorded(j) /\ BegunOnce(j) /\ Conclusive(j)
      /\ receipt[j].outcome \in {"none", "succeeded", "failed"}
  BY <1>2 DEF PromiseInv, LifeInv, TypeInv, Shapes, Receipt
<1>6. Grounded(j, x)
  <2>1. x = IF receipt[j].attempt = v.attempt /\ receipt[j].state = "completed"
            THEN receipt[j].outcome
            ELSE IF receipt[j].attempt = v.attempt /\ receipt[j].state = "started" /\ job[j].writes
                 THEN "human_attention_required"
            ELSE IF sched[s].pc = "survived" THEN "orphaned"
            ELSE IF b THEN "timed_out"
            ELSE IF v.attempt < MaxAttempts THEN "waiting"
            ELSE "orphaned"
    BY <1>1, <1>3 DEF Verdict
  <2>2. x = "failed" => Completed(j) /\ receipt[j].outcome = "failed"
    BY <1>4, <2>1 DEF Completed
  <2>3. x = "human_attention_required" => Mutated(j)
    BY <1>5, <2>1 DEF Mutated, Recorded
  <2>4. x \in {"timed_out", "waiting"} =>
            /\ sched[s].pc # "survived"
            /\ ~(receipt[j].attempt = v.attempt /\ receipt[j].state = "completed")
            /\ ~(receipt[j].attempt = v.attempt /\ receipt[j].state = "started" /\ job[j].writes)
    BY <1>5, <2>1
  <2>5. x \in {"timed_out", "waiting"} => Quelled(j) /\ ~Told(j) /\ ~Mutated(j)
    BY <1>2, <1>4, <1>5, <2>4 DEF Examining, Recorded, Told, BegunOnce, Mutated
  <2>. QED
    BY <2>2, <2>3, <2>5 DEF Grounded
<1>7. PICK d : /\ sched' = [sched EXCEPT ![s] = d] /\ d.pc = "settling"
               /\ d.todo = sched[s].todo /\ d.work = {[id |-> j, verdict |-> x]}
  <2>. DEFINE e == [sched[s] EXCEPT !.pc = "settling", !.work = {[id |-> j, verdict |-> x]}]
  <2>1. /\ sched' = [sched EXCEPT ![s] = e] /\ e.pc = "settling"
        /\ e.todo = sched[s].todo /\ e.work = {[id |-> j, verdict |-> x]}
    BY <1>1, <1>2 DEF Scheduler
  <2>. HIDE DEF e
  <2>. QED
    BY <2>1
<1>. HIDE DEF j, w
<1>8. Settling
  BY <1>2 DEF Settling, Alive
<1>9. ASSUME NEW i, i = v.id PROVE Grounded(i, x)'
  BY <1>2, <1>6, <1>8, <1>9, GroundedStays DEF j
<1>10. Honest(d)'
  <2>1. \A u \in d.todo : u.status # "running" => job'[u.id].status # "running"
    BY <1>2, <1>7 DEF Honest
  <2>2. ASSUME NEW u \in d.work PROVE Grounded(u.id, u.verdict)'
    <3>1. u.id = v.id /\ u.verdict = x
      BY <1>7 DEF j
    <3>. QED
      BY <1>9, <3>1
  <2>. QED
    BY <2>1, <2>2 DEF Honest
<1>. QED
  BY <1>2, <1>7, <1>10, HandPromise

(* What the verdict in hand is grounded on when it is written down.        *)
LEMMA SettledFacts ==
    ASSUME TypeInv, LifeInv, PromiseInv, NEW s \in Schedulers, Settle(s)
    PROVE  \E j \in Jobs, x \in Verdicts :
             /\ Grounded(j, x) /\ UNCHANGED <<receipt, begun, worker>>
             /\ x = "succeeded" => Succeeded(j)
             /\ x = "waiting" => Quelled(j) /\ ~Mutated(j)
             /\ \/ /\ TransitionAllowed(job[j].status, x)
                   /\ job' = [job EXCEPT ![j] = Ended(job[j], x)]
                   /\ \/ Rest(s)
                      \/ sched' = [sched EXCEPT ![s] =
                             [sched[s] EXCEPT !.pc = "reconciling", !.work = {}]]
                \/ Rest(s) /\ job' = job
<1>1. PICK j \in Jobs, x \in Verdicts :
          /\ sched[s].work = {[id |-> j, verdict |-> x]}
          /\ \/ /\ TransitionAllowed(job[j].status, x)
                /\ job' = [job EXCEPT ![j] = Ended(job[j], x)]
                /\ \/ Rest(s)
                   \/ sched' = [sched EXCEPT ![s] =
                          [sched[s] EXCEPT !.pc = "reconciling", !.work = {}]]
             \/ Rest(s) /\ job' = job
  BY SettleForm
<1>2. /\ UNCHANGED <<receipt, begun, worker>> /\ sched[s].pc = "settling"
      /\ InHand(sched[s]) /\ Honest(sched[s])
  BY DEF Settle, LifeInv, PromiseInv
<1>3. /\ x = "waiting" => Quelled(j) /\ ~Mutated(j)
      /\ x = "succeeded" => Succeeded(j)
  BY <1>1, <1>2 DEF InHand
<1>4. Grounded(j, x)
  BY <1>1, <1>2 DEF Honest
<1>. QED
  BY <1>1, <1>2, <1>3, <1>4

LEMMA SettlePromise ==
    ASSUME TypeInv, LifeInv, PromiseInv, OneDaemon, NEW s \in Schedulers, Settle(s)
    PROVE  PromiseInv'
<1>1. PICK j \in Jobs, x \in Verdicts :
          /\ Grounded(j, x) /\ UNCHANGED <<receipt, begun, worker>>
          /\ x = "succeeded" => Succeeded(j)
          /\ x = "waiting" => Quelled(j) /\ ~Mutated(j)
          /\ \/ /\ TransitionAllowed(job[j].status, x)
                /\ job' = [job EXCEPT ![j] = Ended(job[j], x)]
                /\ \/ Rest(s)
                   \/ sched' = [sched EXCEPT ![s] =
                          [sched[s] EXCEPT !.pc = "reconciling", !.work = {}]]
             \/ Rest(s) /\ job' = job
  BY SettledFacts
<1>2. CASE Rest(s) /\ job' = job
  BY <1>1, <1>2, RestPromise
<1>3. CASE /\ TransitionAllowed(job[j].status, x)
           /\ job' = [job EXCEPT ![j] = Ended(job[j], x)]
           /\ \/ Rest(s)
              \/ sched' = [sched EXCEPT ![s] =
                     [sched[s] EXCEPT !.pc = "reconciling", !.work = {}]]
  <2>. DEFINE r == Ended(job[j], x)
  <2>1. /\ r.status = x /\ x # "running" /\ x # "dispatched"
        /\ r.attempt = job[j].attempt /\ r.writes = job[j].writes
        /\ job' = [job EXCEPT ![j] = r]
    <3>1. x \in Statuses /\ x \notin {"running", "dispatched"} /\ job[j] \in JobRecord
      BY Bounds DEF TypeInv, Shapes, Verdicts, Terminal
    <3>. QED
      BY <1>3, <3>1, EndedShape
  <2>. HIDE DEF r
  <2>2. \A i \in Jobs : Recorded(i)'
    BY <1>1, <2>1, OneRecorded DEF Grounded
  <2>3. Settling
    BY <1>1, <2>1 DEF Settling, Alive, TypeInv, Shapes
  <2>4. \A t \in Schedulers : Honest(sched[t])'
    <3>1. CASE Rest(s)
      BY <3>1, RestHonest
    <3>2. CASE sched' = [sched EXCEPT ![s] = [sched[s] EXCEPT !.pc = "reconciling", !.work = {}]]
      <4>1. sched[s] \in Scheduler /\ Honest(sched[s])
        BY DEF TypeInv, Shapes, PromiseInv
      <4>2. PICK d \in Scheduler : /\ sched' = [sched EXCEPT ![s] = d]
                                   /\ d.pc = "reconciling" /\ d.todo = sched[s].todo
        <5>. DEFINE e == [sched[s] EXCEPT !.pc = "reconciling", !.work = {}]
        <5>1. /\ sched' = [sched EXCEPT ![s] = e] /\ e.pc = "reconciling"
              /\ e.todo = sched[s].todo /\ e \in Scheduler
          BY <3>2, <4>1 DEF Scheduler, Resting
        <5>. HIDE DEF e
        <5>. QED
          BY <5>1
      <4>3. Honest(d)
        BY <4>1, <4>2 DEF Honest
      <4>4. Honest(d)'
        BY <2>3, <4>3, HonestStays
      <4>. QED
        BY <4>2, <4>4, OnlyHand
    <3>. QED
      BY <1>3, <3>1, <3>2
  <2>5. \A q \in Pids : Placed(q)'
    <3>1. \/ x \in Unwaited \cup {"human_attention_required"} \/ x = job[j].status
          \/ \A q \in Pids : q[1] = j => worker[q].pc \notin AtTask
      <4>1. CASE x = "succeeded" \/ x = "failed"
        <5>1. Completed(j)
          BY <1>1, <4>1 DEF Succeeded, Completed, Grounded
        <5>2. CASE job[j].attempt \in Attempts
          <6>1. worker[Current(j)].pc \in Over
            BY <5>1, <5>2 DEF LifeInv, ReceiptFits
          <6>. QED
            BY <6>1, OthersIdle DEF Over, AtTask
        <5>3. CASE job[j].attempt \notin Attempts
          BY <5>3, OthersIdle
        <5>. QED
          BY <5>2, <5>3
      <4>2. CASE x = "waiting"
        BY <1>1, <4>2, OthersIdle DEF Quelled, Alive, AtTask
      <4>3. CASE x = "timed_out"
        <5>1. CASE Quelled(j)
          BY <5>1, OthersIdle DEF Quelled, Alive, AtTask
        <5>2. CASE job[j].status # "running"
          <6>1. job[j].status \in {"waiting", "dispatched"} \/ x = job[j].status
            BY <1>3, <4>3, <5>2 DEF TransitionAllowed
          <6>. QED
            BY <6>1, UpcomingIdle
        <5>. QED
          BY <1>1, <4>3, <5>1, <5>2 DEF Grounded
      <4>. QED
        BY <4>1, <4>2, <4>3 DEF Verdicts, Terminal, Unwaited
    <3>2. x = "human_attention_required" =>
              \A q \in Pids : q[1] = j => worker[q].pc \notin {"owned", "beating"}
      <4>1. ASSUME Mutated(j) PROVE \A q \in Pids : q[1] = j => worker[q].pc \notin {"owned", "beating"}
        <5>1. BegunOnce(j)
          BY DEF LifeInv
        <5>2. job[j].attempt \in Attempts /\ worker[Current(j)].pc \notin Unstarted
          BY <4>1, <5>1 DEF BegunOnce
        <5>. QED
          BY <5>2, OthersIdle DEF AtTask, Unstarted
      <4>. QED
        BY <1>1, <4>1 DEF Grounded
    <3>. QED
      BY <1>1, <2>1, <3>1, <3>2, OnePlaced
  <2>. QED
    BY <2>2, <2>4, <2>5 DEF PromiseInv
<1>. QED
  BY <1>1, <1>2, <1>3

-----------------------------------------------------------------------------
(* Cancellation and the daemon.                                            *)

LEMMA CancelPromise ==
    ASSUME TypeInv, LifeInv, PromiseInv, NEW j \in Jobs, Cancel(j)
    PROVE  PromiseInv'
<1>. DEFINE r == Ended(job[j], "cancelled")
<1>1. job' = [job EXCEPT ![j] = r] /\ UNCHANGED <<receipt, begun, worker, sched>>
  BY Zenon DEF Cancel
<1>2. /\ r.status = "cancelled"
      /\ r.attempt = job[j].attempt /\ r.writes = job[j].writes
  BY EndedShape, Bounds DEF TypeInv, Shapes, Terminal
<1>. HIDE DEF r
<1>3. \A q \in Pids : Placed(q)'
  BY <1>1, <1>2, OnePlaced DEF Unwaited
<1>4. \A i \in Jobs : Recorded(i)'
  BY <1>1, <1>2, OneRecorded
<1>5. Settling
  BY <1>1, <1>2 DEF Settling, Alive, TypeInv, Shapes
<1>. QED
  BY <1>1, <1>3, <1>4, <1>5, HandsStay DEF PromiseInv

LEMMA CancelKillPromise ==
    ASSUME TypeInv, PromiseInv, NEW p \in Pids, CancelKill(p)
    PROVE  PromiseInv'
<1>1. /\ UNCHANGED <<job, receipt, begun, sched>>
      /\ Move(p, "gone") \/ worker' = worker
  BY Zenon DEF CancelKill, Move
<1>2. \A q \in Pids : worker'[q].pc = worker[q].pc \/ worker'[q].pc = "gone"
  BY <1>1 DEF Move, TypeInv, Shapes, Worker
<1>3. Settling
  BY <1>1, <1>2 DEF Settling, Alive
<1>. QED
  BY <1>1, <1>2, <1>3, SamePlaced, SameRecorded, HandsStay DEF PromiseInv, AtTask

LEMMA DaemonPromise ==
    ASSUME TypeInv, PromiseInv, OneDaemon, NEW s \in Schedulers, DaemonDies(s) \/ Start(s)
    PROVE  PromiseInv'
<1>1. /\ Rest(s) \/ sched' = [sched EXCEPT ![s] = Down]
      /\ \/ worker' = [p \in Pids |-> [worker[p] EXCEPT !.parented = FALSE]]
         \/ worker' = worker
      /\ UNCHANGED <<job, receipt, begun>>
  BY DEF DaemonDies, Start
<1>2. \A q \in Pids : worker'[q].pc = worker[q].pc
  BY <1>1, OrphanedTypes
<1>. QED
  BY <1>1, <1>2, SamePlaced, SameRecorded, RestHonest DEF PromiseInv

LEMMA InitPromise == Init => PromiseInv
<1>. SUFFICES ASSUME Init PROVE PromiseInv
  OBVIOUS
<1>1. ASSUME NEW p \in Pids PROVE Placed(p)
  BY DEF Init, Placed
<1>2. ASSUME NEW j \in Jobs PROVE Recorded(j)
  BY DEF Init, Recorded, Told, Upcoming, Mutated
<1>3. ASSUME NEW s \in Schedulers PROVE Honest(sched[s])
  BY EmptyHanded DEF Init, Idle, Down
<1>. QED
  BY <1>1, <1>2, <1>3 DEF PromiseInv

LEMMA NextPromise ==
    OneDaemon /\ TypeInv /\ LifeInv /\ PromiseInv /\ [Next]_vars => PromiseInv'
<1>. SUFFICES ASSUME OneDaemon, TypeInv, LifeInv, PromiseInv, [Next]_vars PROVE PromiseInv'
  OBVIOUS
<1>1. ASSUME NEW s \in Schedulers, Dispatch(s) PROVE PromiseInv'
  BY <1>1, ExpirePromise, AcquirePromise, ClaimPromise, SpawnPromise, AttachPromise,
     AttachBusyPromise, Zenon DEF Dispatch
<1>2. ASSUME NEW s \in Schedulers, Reconciliation(s) PROVE PromiseInv'
  BY <1>2, ReconcilePromise, SkipPromise, ExaminePromise, FinalizePromise, SettlePromise,
     Zenon DEF Reconciliation
<1>3. ASSUME NEW p \in Pids, WorkerSteps(p) PROVE PromiseInv'
  BY <1>3, WorkPromise, GiveUpPromise, PublishPromise, BeginPromise, CompletePromise, Zenon
     DEF WorkerSteps
<1>. QED
  BY <1>1, <1>2, <1>3, DaemonPromise, WorkPromise, CancelKillPromise, CancelPromise,
     TimePromise, Zenon DEF Next, Stopped

LEMMA AlwaysPromise == OneDaemon => (Spec => [](TypeInv /\ LifeInv /\ PromiseInv))
<1>. SUFFICES ASSUME OneDaemon PROVE Spec => [](TypeInv /\ LifeInv /\ PromiseInv)
  OBVIOUS
<1>1. (TypeInv /\ LifeInv /\ PromiseInv) /\ [Next]_vars => PromiseInv'
  BY NextPromise
<1>. QED
  BY <1>1, AlwaysLife, InitPromise, PTL DEF Spec

-----------------------------------------------------------------------------
(* Each step is a step of JobPromise, or none.                             *)

Warranted(j, v) ==
    /\ v = "succeeded" => Told(j) /\ receipt[j].outcome = "succeeded"
    /\ v = "failed" /\ job[j].writes => Told(j) /\ receipt[j].outcome = "failed"
    /\ v = "timed_out" => ~Told(j) /\ ~Mutated(j)

Kept == [Promise!Next]_(Promise!promiseVars)

LEMMA SameKept ==
    ASSUME UNCHANGED <<receipt, begun>>,
           \A j \in Jobs : job'[j].writes = job[j].writes /\ Ending(j)' = Ending(j)
    PROVE  Kept
<1>1. [j \in Jobs |-> job[j].writes]' = [j \in Jobs |-> job[j].writes]
  OBVIOUS
<1>2. [j \in Jobs |-> Outcome(j)]' = [j \in Jobs |-> Outcome(j)]
  BY DEF Outcome
<1>3. [j \in Jobs |-> Ending(j)]' = [j \in Jobs |-> Ending(j)]
  OBVIOUS
<1>. QED
  BY <1>1, <1>2, <1>3 DEF Kept, Promise!promiseVars

LEMMA OneKept ==
    ASSUME TypeInv, NEW j \in Jobs, NEW r, job' = [job EXCEPT ![j] = r],
           UNCHANGED <<receipt, begun>>, r.writes = job[j].writes,
           \/ r.status = job[j].status
           \/ r.status \notin Terminal /\ job[j].status \notin Terminal
           \/ /\ job[j].status \notin Terminal /\ r.status \in Terminal
              /\ Warranted(j, r.status)
    PROVE  Kept
<1>1. \A i \in Jobs : job'[i] = IF i = j THEN r ELSE job[i]
  BY DEF TypeInv, Shapes
<1>2. CASE r.status = job[j].status \/ (r.status \notin Terminal /\ job[j].status \notin Terminal)
  BY <1>1, <1>2, SameKept DEF Ending
<1>3. CASE /\ job[j].status \notin Terminal /\ r.status \in Terminal
           /\ Warranted(j, r.status)
  <2>. DEFINE v == r.status
              mutates == [i \in Jobs |-> job[i].writes]
              outcome == [i \in Jobs |-> Outcome(i)]
              verdict == [i \in Jobs |-> Ending(i)]
  <2>1. mutates' = mutates
    BY <1>1
  <2>2. outcome' = outcome
    BY DEF Outcome
  <2>3. verdict[j] = "open"
    BY <1>3 DEF Ending
  <2>4. verdict' = [verdict EXCEPT ![j] = v]
    <3>1. \A i \in Jobs : Ending(i)' = IF i = j THEN v ELSE Ending(i)
      BY <1>1, <1>3 DEF Ending
    <3>. QED
      BY <3>1
  <2>5. Promise!Justified(j, v)
    <3>1. outcome[j] = Outcome(j) /\ mutates[j] = job[j].writes
      OBVIOUS
    <3>. QED
      BY <1>3, <3>1 DEF Promise!Justified, Warranted, Told, Outcome, Mutated
  <2>6. v \in Promise!Verdicts
    BY <1>3 DEF Promise!Verdicts, Terminal
  <2>7. Promise!Conclude(j, v)
    BY <2>1, <2>2, <2>3, <2>4, <2>5 DEF Promise!Conclude
  <2>. QED
    BY <2>6, <2>7 DEF Kept, Promise!Next
<1>. QED
  BY <1>2, <1>3

LEMMA DispatchKept ==
    ASSUME TypeInv, LifeInv, PromiseInv, NEW s \in Schedulers, Dispatch(s)
    PROVE  Kept
<1>1. ASSUME NEW j \in Jobs, ExpireWaiting(s, j) PROVE Kept
  <2>. DEFINE r == [job[j] EXCEPT !.status = "timed_out", !.pid = 0]
  <2>1. /\ r.status = "timed_out" /\ r.writes = job[j].writes /\ job[j].status = "waiting"
        /\ job' = [job EXCEPT ![j] = r] /\ UNCHANGED <<receipt, begun>>
    BY <1>1 DEF ExpireWaiting, TypeInv, Shapes, JobRecord
  <2>2. Warranted(j, "timed_out")
    BY <2>1 DEF PromiseInv, Recorded, Upcoming, Warranted
  <2>. HIDE DEF r
  <2>. QED
    BY <2>1, <2>2, OneKept DEF Terminal
<1>2. ASSUME UNCHANGED <<receipt, begun>>, NEW j \in Jobs, job[j].status = "waiting",
             job' = [job EXCEPT ![j] = Dispatched(job[j], sched[s].grant)]
      PROVE  Kept
  <2>. DEFINE r == Dispatched(job[j], sched[s].grant)
  <2>1. r.status = "dispatched" /\ r.writes = job[j].writes /\ job' = [job EXCEPT ![j] = r]
    BY <1>2 DEF Dispatched, TypeInv, Shapes, JobRecord
  <2>. HIDE DEF r
  <2>. QED
    BY <1>2, <2>1, OneKept DEF Terminal
<1>3. ASSUME UNCHANGED <<job, receipt, begun>> PROVE Kept
  BY <1>3, SameKept DEF Ending
<1>4. ASSUME Claim(s) PROVE Kept
  <2>1. UNCHANGED <<receipt, begun>>
    BY <1>4, Zenon DEF Claim
  <2>2. PICK j \in Jobs :
            \/ /\ job[j].status = "waiting"
               /\ job' = [job EXCEPT ![j] = Dispatched(job[j], sched[s].grant)]
            \/ job' = job
    BY <1>4, ClaimForm
  <2>. QED
    BY <1>2, <1>3, <2>1, <2>2
<1>5. ASSUME ClaimIndexBusy(s) PROVE Kept
  <2>1. UNCHANGED <<receipt, begun>>
    BY <1>5, Zenon DEF ClaimIndexBusy
  <2>2. PICK j \in Jobs :
            /\ job[j].status = "waiting"
            /\ job' = [job EXCEPT ![j] = Dispatched(job[j], sched[s].grant)]
    BY <1>5, ClaimIndexBusyForm
  <2>. QED
    BY <1>2, <2>1, <2>2
<1>6. ASSUME Attach(s) PROVE Kept
  <2>1. UNCHANGED <<receipt, begun>>
    BY <1>6, Zenon DEF Attach
  <2>2. PICK j \in Jobs, a \in Attempts :
            \/ /\ Attachable(job[j])
               /\ job' = [job EXCEPT ![j] = [job[j] EXCEPT !.status = "running", !.pid = a]]
            \/ job' = job
    BY <1>6, AttachForm
  <2>3. CASE /\ Attachable(job[j])
             /\ job' = [job EXCEPT ![j] = [job[j] EXCEPT !.status = "running", !.pid = a]]
    <3>. DEFINE r == [job[j] EXCEPT !.status = "running", !.pid = a]
    <3>1. r.status = "running" /\ r.writes = job[j].writes /\ job' = [job EXCEPT ![j] = r]
      BY <2>3 DEF TypeInv, Shapes, JobRecord
    <3>. HIDE DEF r
    <3>. QED
      BY <2>1, <2>3, <3>1, OneKept DEF Attachable, Terminal
  <2>. QED
    BY <1>3, <2>1, <2>2, <2>3
<1>7. ASSUME SpawnChild(s) \/ AttachBusy(s) \/ \E j \in Jobs : Acquire(s, j) PROVE Kept
  <2>1. UNCHANGED <<job, receipt, begun>>
    BY <1>7, Zenon DEF SpawnChild, AttachBusy, Acquire
  <2>. QED
    BY <1>3, <2>1
<1>. QED
  BY <1>1, <1>4, <1>5, <1>6, <1>7, Zenon DEF Dispatch

LEMMA ReconciliationKept ==
    ASSUME TypeInv, LifeInv, PromiseInv, NEW s \in Schedulers, Reconciliation(s)
    PROVE  Kept
<1>1. ASSUME Settle(s) PROVE Kept
  <2>1. PICK j \in Jobs, x \in Verdicts :
            /\ Grounded(j, x) /\ UNCHANGED <<receipt, begun>>
            /\ x = "succeeded" => Succeeded(j)
            /\ \/ /\ TransitionAllowed(job[j].status, x)
                  /\ job' = [job EXCEPT ![j] = Ended(job[j], x)]
               \/ job' = job
    BY <1>1, SettledFacts
  <2>2. CASE job' = job
    BY <2>1, <2>2, SameKept DEF Ending
  <2>3. CASE /\ TransitionAllowed(job[j].status, x)
             /\ job' = [job EXCEPT ![j] = Ended(job[j], x)]
    <3>. DEFINE r == Ended(job[j], x)
    <3>1. /\ r.status = x /\ r.writes = job[j].writes /\ job' = [job EXCEPT ![j] = r]
      <4>1. x \in Statuses /\ job[j] \in JobRecord
        BY Bounds DEF TypeInv, Shapes, Verdicts
      <4>. QED
        BY <2>3, <4>1, EndedShape
    <3>2. x = job[j].status \/ job[j].status \in {"waiting", "running", "dispatched"}
      BY <2>3 DEF TransitionAllowed
    <3>3. ASSUME job[j].status \in {"waiting", "running", "dispatched"}, x \in Terminal
          PROVE  Warranted(j, x)
      <4>1. job[j].status # "running" => ~Told(j) /\ ~Mutated(j)
        BY <3>3 DEF PromiseInv, Recorded, Upcoming
      <4>2. x = "timed_out" => ~Told(j) /\ ~Mutated(j)
        BY <2>1, <4>1 DEF Grounded
      <4>3. x = "succeeded" => Told(j) /\ receipt[j].outcome = "succeeded"
        BY <2>1 DEF Succeeded, Told
      <4>4. x = "failed" => Told(j) /\ receipt[j].outcome = "failed"
        BY <2>1 DEF Grounded, Completed, Told
      <4>. QED
        BY <4>2, <4>3, <4>4 DEF Warranted
    <3>. HIDE DEF r
    <3>. QED
      BY <2>1, <3>1, <3>2, <3>3, OneKept DEF Terminal
  <2>. QED
    BY <2>1, <2>2, <2>3
<1>2. ASSUME Reconcile(s) \/ Skip(s) \/ Examine(s) \/ Finalize(s) PROVE Kept
  <2>1. UNCHANGED <<job, receipt, begun>>
    BY <1>2, Zenon DEF Reconcile, Skip, Examine, Finalize
  <2>. QED
    BY <2>1, SameKept DEF Ending
<1>. QED
  BY <1>1, <1>2, Zenon DEF Reconciliation

LEMMA BeginKept ==
    ASSUME TypeInv, LifeInv, PromiseInv, NEW p \in Pids, Begin(p)
    PROVE  Kept
<1>. DEFINE j == p[1]
            mutates == [i \in Jobs |-> job[i].writes]
            outcome == [i \in Jobs |-> Outcome(i)]
            verdict == [i \in Jobs |-> Ending(i)]
<1>1. /\ worker[p].pc = "beating" /\ UNCHANGED job
      /\ begun' = [begun EXCEPT ![j] = @ + 1]
  BY DEF Begin, At
<1>2. /\ j \in Jobs /\ p[2] = job[j].attempt /\ ~Completed(j) /\ p = Current(j)
  BY <1>1, AtWork
<1>3. receipt' = [receipt EXCEPT ![j] = [attempt |-> p[2], state |-> "started", outcome |-> "none"]]
  BY <1>2 DEF Begin, Completed
<1>4. ~Told(j)
  BY <1>2 DEF PromiseInv, Recorded, Told, Completed
<1>5. mutates' = mutates /\ verdict' = verdict
  BY <1>1 DEF Ending
<1>6. outcome' = outcome
  <2>1. \A i \in Jobs : Outcome(i)' = Outcome(i)
    BY <1>2, <1>3, <1>4 DEF Outcome, Told, TypeInv, Shapes
  <2>. QED
    BY <2>1
<1>7. outcome[j] = "none"
  BY <1>2, <1>4 DEF Told, Outcome
<1>8. verdict[j] \in {"open", "cancelled", "orphaned"}
  <2>1. job[j].status \in Unwaited
    BY <1>1 DEF PromiseInv, Placed
  <2>. QED
    BY <1>2, <2>1 DEF Ending, Unwaited, Terminal
<1>9. mutates[j] => begun[j] = 0
  <2>1. ~Mutated(j)
    BY <1>1, <1>2 DEF LifeInv, BegunOnce, Unstarted
  <2>. QED
    BY <1>2, <2>1 DEF Mutated
<1>10. Promise!Begin(j)
  BY <1>1, <1>5, <1>6, <1>7, <1>8, <1>9 DEF Promise!Begin
<1>. QED
  BY <1>2, <1>10 DEF Kept, Promise!Next

LEMMA CompleteKept ==
    ASSUME TypeInv, LifeInv, PromiseInv, NEW p \in Pids, Complete(p)
    PROVE  Kept
<1>. DEFINE j == p[1]
            x == worker[p].outcome
            mutates == [i \in Jobs |-> job[i].writes]
            outcome == [i \in Jobs |-> Outcome(i)]
            verdict == [i \in Jobs |-> Ending(i)]
<1>1. /\ worker[p].pc = "checked" /\ UNCHANGED <<job, begun>>
      /\ receipt' = [receipt EXCEPT ![j] = [attempt |-> p[2], state |-> "completed", outcome |-> x]]
  BY DEF Complete, At
<1>2. j \in Jobs /\ p[2] = job[j].attempt /\ ~Completed(j)
  BY <1>1, AtWork
<1>3. x \in {"succeeded", "failed"}
  BY <1>1 DEF TypeInv, Shapes, HasOutcome, Worker
<1>4. ~Told(j)
  BY <1>2 DEF PromiseInv, Recorded, Told, Completed
<1>5. mutates' = mutates /\ verdict' = verdict /\ begun' = begun
  BY <1>1 DEF Ending
<1>6. outcome' = [outcome EXCEPT ![j] = x]
  <2>1. \A i \in Jobs : Outcome(i)' = IF i = j THEN x ELSE Outcome(i)
    BY <1>1, <1>2 DEF Outcome, TypeInv, Shapes
  <2>. HIDE DEF x
  <2>. QED
    BY <2>1
<1>7. outcome[j] = "none"
  BY <1>2, <1>4 DEF Told, Outcome
<1>8. Placed(p)
  BY DEF PromiseInv
<1>9. verdict[j] \notin {"succeeded", "failed", "timed_out"}
  <2>1. job[j].status \in Unwaited \cup {"human_attention_required"}
    BY <1>1, <1>8 DEF Placed
  <2>. QED
    BY <1>2, <2>1 DEF Ending, Unwaited
<1>10. begun[j] > 0
  <2>1. receipt[j] = [attempt |-> p[2], state |-> "started", outcome |-> "none"]
    BY <1>1, <1>8 DEF Placed
  <2>2. receipt[j].state # "none"
    BY <2>1
  <2>3. begun[j] # 0 /\ begun[j] \in Nat
    BY <1>2, <2>2 DEF PromiseInv, Recorded, TypeInv, Shapes
  <2>. QED
    BY <2>3
<1>11. Promise!Return(j, x)
  <2>. HIDE DEF x
  <2>. QED
    BY <1>5, <1>6, <1>7, <1>9, <1>10 DEF Promise!Return
<1>. QED
  BY <1>2, <1>3, <1>11 DEF Kept, Promise!Next

LEMMA WorkKept ==
    ASSUME TypeInv, LifeInv, PromiseInv, NEW p \in Pids, WorkerSteps(p)
    PROVE  Kept
<1>1. ASSUME Publish(p) PROVE Kept
  <2>1. /\ UNCHANGED <<receipt, begun>> /\ worker[p].pc = "receipted" /\ p[1] \in Jobs
        /\ \/ /\ Publishable(p)
              /\ job' = [job EXCEPT ![p[1]] = Ended(job[p[1]], worker[p].outcome)]
           \/ job' = job
    BY <1>1, PidFacts DEF Publish, At
  <2>2. CASE job' = job
    BY <2>1, <2>2, SameKept DEF Ending
  <2>3. CASE /\ Publishable(p)
             /\ job' = [job EXCEPT ![p[1]] = Ended(job[p[1]], worker[p].outcome)]
    <3>. DEFINE r == Ended(job[p[1]], worker[p].outcome)
    <3>1. worker[p].outcome \in {"succeeded", "failed"} /\ job[p[1]] \in JobRecord
      BY <2>1 DEF TypeInv, Shapes, HasOutcome, Worker
    <3>2. r.status = worker[p].outcome /\ r.writes = job[p[1]].writes
      <4>1. worker[p].outcome \in Statuses
        BY <3>1, Bounds DEF Terminal
      <4>. QED
        BY <3>1, <4>1, EndedShape
    <3>3. receipt[p[1]] = [attempt |-> p[2], state |-> "completed", outcome |-> worker[p].outcome]
      BY <2>1 DEF LifeInv, Receipted
    <3>4. job[p[1]].status = "running" /\ job' = [job EXCEPT ![p[1]] = r]
      BY <2>3 DEF Publishable
    <3>5. Warranted(p[1], r.status)
      BY <3>1, <3>2, <3>3 DEF Warranted, Told
    <3>. HIDE DEF r
    <3>. QED
      BY <2>1, <3>1, <3>2, <3>4, <3>5, OneKept DEF Terminal
  <2>. QED
    BY <2>1, <2>2, <2>3
<1>2. ASSUME LoseOwnership(p) \/ Fail(p) PROVE Kept
  <2>. DEFINE r == GivenUp(p[1], p[2])
  <2>1. /\ job' = [job EXCEPT ![p[1]] = r] /\ p[1] \in Jobs /\ UNCHANGED <<receipt, begun>>
    BY <1>2, PidFacts, Zenon DEF LoseOwnership, Fail
  <2>2. r.writes = job[p[1]].writes
    BY GivenUpFacts
  <2>3. \/ r = job[p[1]]
        \/ /\ job[p[1]].status = "running"
           /\ r.status = IF job[p[1]].writes THEN "human_attention_required" ELSE "failed"
    <3>1. /\ job[p[1]] \in JobRecord
          /\ {"failed", "human_attention_required"} \subseteq Statuses
      BY <2>1, Bounds DEF TypeInv, Shapes, Terminal
    <3>. QED
      BY <3>1, EndedShape DEF GivenUp
  <2>. HIDE DEF r
  <2>4. CASE r = job[p[1]]
    BY <2>1, <2>4, OneKept
  <2>5. CASE /\ job[p[1]].status = "running"
             /\ r.status = IF job[p[1]].writes THEN "human_attention_required" ELSE "failed"
    <3>1. Warranted(p[1], r.status)
      BY <2>5 DEF Warranted
    <3>. QED
      BY <2>1, <2>2, <2>5, <3>1, OneKept DEF Terminal
  <2>. QED
    BY <2>3, <2>4, <2>5
<1>3. ASSUME Boot(p) \/ BootRefused(p) \/ FirstBeat(p) \/ Finish(p) \/ Leave(p) PROVE Kept
  <2>1. UNCHANGED <<job, receipt, begun>>
    BY <1>3, Zenon DEF Boot, BootRefused, FirstBeat, Finish, Leave
  <2>. QED
    BY <2>1, SameKept DEF Ending
<1>. QED
  BY <1>1, <1>2, <1>3, BeginKept, CompleteKept, Zenon DEF WorkerSteps

LEMMA NextKept == TypeInv /\ LifeInv /\ PromiseInv /\ [Next]_vars => Kept
<1>. SUFFICES ASSUME TypeInv, LifeInv, PromiseInv, [Next]_vars PROVE Kept
  OBVIOUS
<1>1. ASSUME NEW j \in Jobs, Cancel(j) PROVE Kept
  <2>. DEFINE r == Ended(job[j], "cancelled")
  <2>1. /\ job' = [job EXCEPT ![j] = r] /\ UNCHANGED <<receipt, begun>>
        /\ job[j].status \notin Terminal
    BY <1>1, Zenon DEF Cancel
  <2>2. r.status = "cancelled" /\ r.writes = job[j].writes
    BY EndedShape, Bounds DEF TypeInv, Shapes, Terminal
  <2>. HIDE DEF r
  <2>. QED
    BY <2>1, <2>2, OneKept DEF Warranted, Terminal
<1>2. ASSUME \/ \E s \in Schedulers : DaemonDies(s) \/ Start(s)
             \/ \E p \in Pids : Beat(p) \/ WorkerDies(p) \/ CancelKill(p)
             \/ \E j \in Jobs : Quiet(j) \/ Deadline(j)
             \/ UNCHANGED vars
      PROVE  Kept
  <2>1. UNCHANGED <<job, receipt, begun>>
    BY <1>2, Zenon DEF DaemonDies, Start, Beat, WorkerDies, CancelKill, Quiet, Deadline, vars
  <2>. QED
    BY <2>1, SameKept DEF Ending
<1>. QED
  BY <1>1, <1>2, DispatchKept, ReconciliationKept, WorkKept, Zenon DEF Next, Stopped

(* With one daemon the runtime implements JobPromise, whatever dies,       *)
(* stalls, survives its termination or is cancelled: a mutation begins     *)
(* once, and no verdict of the worker (execution-worker-entry.ts) or of    *)
(* the reconciler (reconciliation.ts) claims more than the operation said  *)
(* or is contradicted by what it says later.                               *)
THEOREM OneDaemonKeepsPromise == OneDaemon => (Spec => PromiseIsKept)
<1>. SUFFICES ASSUME OneDaemon PROVE Spec => PromiseIsKept
  OBVIOUS
<1>1. Init => Promise!Init
  <2>. SUFFICES ASSUME Init PROVE Promise!Init
    OBVIOUS
  <2>1. ASSUME NEW j \in Jobs
        PROVE  /\ job[j].status = "waiting" /\ job[j].writes \in BOOLEAN
               /\ receipt[j].state = "none"
    BY InitTypes DEF Init, TypeInv, Shapes, JobRecord
  <2>2. ASSUME NEW j \in Jobs PROVE Ending(j) = "open" /\ Outcome(j) = "none"
    BY <2>1 DEF Ending, Outcome, Terminal
  <2>. QED
    BY <2>1, <2>2 DEF Init, Promise!Init
<1>2. TypeInv /\ LifeInv /\ PromiseInv /\ [Next]_vars => [Promise!Next]_(Promise!promiseVars)
  BY NextKept DEF Kept
<1>. QED
  BY <1>1, <1>2, AlwaysPromise, PTL DEF Spec, PromiseIsKept, Promise!Spec

-----------------------------------------------------------------------------
(* One writer: the workers are heard from in time, can be terminated, and  *)
(* no job is cancelled (a cancellation gives the leases away before it     *)
(* terminates the worker).                                                 *)

Orderly == OneDaemon /\ Stalls = FALSE /\ Unkillable = FALSE /\ Cancels = FALSE

(* What happens to a job no worker of which is entitled afterwards.        *)
LEMMA OthersHold ==
    ASSUME TypeInv, LeaseInv, NEW j \in Jobs,
           \A i \in Jobs \ {j} : job'[i] = job[i], job'[j].writes = job[j].writes,
           \A l \in leases : l.owner # j => l \in leases',
           \A p \in Pids : /\ worker'[p].refs = worker[p].refs
                           /\ worker'[p].pc \in Entitled => worker[p].pc \in Entitled
                           /\ p[1] = j => worker'[p].pc \notin Entitled
    PROVE  \A p \in Pids : HoldsLease(p)'
<1>. SUFFICES ASSUME NEW p \in Pids PROVE HoldsLease(p)'
  OBVIOUS
<1>1. HoldsLease(p) /\ p[1] \in Jobs
  BY PidFacts DEF LeaseInv
<1>2. CASE p[1] = j
  BY <1>1, <1>2 DEF HoldsLease
<1>3. CASE p[1] # j
  BY <1>1, <1>3 DEF HoldsLease
<1>. QED
  BY <1>2, <1>3

LEMMA AllHold ==
    ASSUME TypeInv, LeaseInv, job' = job, leases' = leases,
           \A p \in Pids : /\ worker'[p].refs = worker[p].refs
                           /\ worker'[p].pc \in Entitled => worker[p].pc \in Entitled
    PROVE  \A p \in Pids : HoldsLease(p)'
BY DEF LeaseInv, HoldsLease

LEMMA FewerLeases ==
    ASSUME LeaseInv, leases' \subseteq leases
    PROVE  OneOwner'
BY DEF LeaseInv, OneOwner

LEMMA OneGranted ==
    ASSUME TypeInv, LeaseInv, NEW j \in Jobs, NEW r, job' = [job EXCEPT ![j] = r],
           r.writes /\ r.status \in {"dispatched", "running"} => r.refs # {},
           r.refs # {} => r.writes
    PROVE  \A i \in Jobs : Granted(i)'
BY DEF TypeInv, Shapes, LeaseInv, Granted

LEMMA SameGranted ==
    ASSUME LeaseInv, job' = job
    PROVE  \A i \in Jobs : Granted(i)'
BY DEF LeaseInv, Granted

(* What a scheduler has in hand while others take a step.                  *)
LEMMA StillSpares ==
    ASSUME TypeInv, LeaseInv, sched' = sched,
           \A j \in Jobs : /\ job'[j].writes = job[j].writes
                           /\ job'[j].status = "running" => job[j].status = "running"
                           /\ job[j].status = "waiting" => job'[j].status = "waiting"
                           /\ Quelled(j) => Quelled(j)'
    PROVE  \A s \in Schedulers : Spares(sched[s])'
<1>. SUFFICES ASSUME NEW s \in Schedulers PROVE Spares(sched[s])'
  OBVIOUS
<1>1. sched[s] \in Scheduler /\ Spares(sched[s])
  BY DEF TypeInv, Shapes, LeaseInv
<1>2. (\A w \in sched[s].work : w.id \in Jobs) /\ (\A v \in sched[s].todo : v.id \in Jobs)
  BY <1>1 DEF Scheduler, Task, Snapshot
<1>3. \A v \in sched[s].todo : NotRunning(v)'
  BY <1>1, <1>2 DEF Spares, NotRunning
<1>4. sched[s].pc \in {"leased", "claimed"} =>
          \A w \in sched[s].work : (sched[s].grant # {}) <=> job'[w.id].writes
  BY <1>1, <1>2 DEF Spares
<1>5. sched[s].pc = "leased" => \A w \in sched[s].work : job'[w.id].status = "waiting"
  BY <1>1, <1>2 DEF Spares
<1>6. sched[s].pc = "settling" =>
          \A w \in sched[s].work : Quelled(w.id)' \/ job'[w.id].status # "running"
  BY <1>1, <1>2 DEF Spares
<1>7. sched[s].pc # "survived"
  BY <1>1 DEF Spares
<1>. QED
  BY <1>3, <1>4, <1>5, <1>6, <1>7 DEF Spares

(* A step of the only daemon.                                              *)
LEMMA OnlySched ==
    ASSUME TypeInv, NEW s \in Schedulers, ScheduledBy(s), NEW d,
           sched' = [sched EXCEPT ![s] = d], Spares(d)'
    PROVE  \A t \in Schedulers : Spares(sched[t])'
<1>1. \A t \in Schedulers : sched'[t] = d
  BY DEF ScheduledBy, TypeInv, Shapes
<1>. QED
  BY <1>1 DEF Spares

LEMMA RestSpares == Spares(Idle)' /\ Spares(Down)'
<1>1. /\ Idle.pc = "idle" /\ Down.pc = "down"
      /\ Idle.todo = {} /\ Down.todo = {}
  BY DEF Idle, Down
<1>. QED
  BY <1>1 DEF Spares

(* Nobody of a job is entitled while it does not run, or is quelled.       *)
LEMMA NoneEntitled ==
    ASSUME TypeInv, LifeInv, LeaseInv, NEW j \in Jobs,
           job[j].status # "running" \/ Quelled(j)
    PROVE  \A p \in Pids : p[1] = j => worker[p].pc \notin Entitled
<1>. SUFFICES ASSUME NEW p \in Pids, p[1] = j, worker[p].pc \in Entitled PROVE FALSE
  OBVIOUS
<1>1. job[j].status = "running" /\ Alive(p) /\ OnlyCurrent(p)
  BY DEF LeaseInv, LifeInv, HoldsLease, Alive, Entitled
<1>2. p = Current(j) /\ job[j].attempt \in Attempts
  BY <1>1, PidFacts DEF OnlyCurrent, Current
<1>. QED
  BY <1>1, <1>2 DEF Quelled

-----------------------------------------------------------------------------
LEMMA ExpireLease ==
    ASSUME TypeInv, LifeInv, LeaseInv, NEW s \in Schedulers, ScheduledBy(s),
           NEW j \in Jobs, ExpireWaiting(s, j)
    PROVE  LeaseInv'
<1>. DEFINE r == [job[j] EXCEPT !.status = "timed_out", !.pid = 0]
<1>1. job' = [job EXCEPT ![j] = r] /\ UNCHANGED <<leases, worker, sched>> /\ job[j] \in JobRecord
  BY DEF ExpireWaiting, TypeInv, Shapes
<1>2. r.status = "timed_out" /\ r.refs = job[j].refs /\ r.writes = job[j].writes
  BY <1>1 DEF JobRecord
<1>. HIDE DEF r
<1>3. \A i \in Jobs : Granted(i)'
  BY <1>1, <1>2, OneGranted DEF LeaseInv, Granted
<1>4. /\ job'[j].writes = job[j].writes /\ \A i \in Jobs \ {j} : job'[i] = job[i]
  BY <1>1, <1>2 DEF TypeInv, Shapes
<1>5. \A p \in Pids : p[1] = j => worker[p].pc \notin Entitled
  BY NoneEntitled DEF ExpireWaiting
<1>6. \A p \in Pids : HoldsLease(p)'
  BY <1>1, <1>4, <1>5, OthersHold
<1>7. \A t \in Schedulers : Spares(sched[t])'
  <2>1. \A t \in Schedulers : sched'[t] = sched[s]
    BY <1>1 DEF ScheduledBy
  <2>2. sched[s].pc = "idle" /\ sched[s].todo = {}
    BY DEF ExpireWaiting, LifeInv, InHand, Examining
  <2>. QED
    BY <2>1, <2>2 DEF Spares
<1>. QED
  BY <1>1, <1>3, <1>6, <1>7, FewerLeases DEF LeaseInv

LEMMA AcquireLease ==
    ASSUME TypeInv, LifeInv, LeaseInv, NEW s \in Schedulers, ScheduledBy(s),
           NEW j \in Jobs, Acquire(s, j)
    PROVE  LeaseInv'
<1>1. UNCHANGED <<job, worker>> /\ sched[s].pc = "idle" /\ job[j].status = "waiting"
  BY DEF Acquire
<1>2. /\ \A l \in leases : l \in leases'
      /\ OneOwner'
      /\ \E g : Busy(s, "leased", j, g) /\ (g # {} <=> job[j].writes)
  <2>1. CASE job[j].writes
    <3>1. /\ \A l \in leases : l.owner = j
          /\ leases' = leases \cup {[owner |-> j, tok |-> token + 1]}
          /\ Busy(s, "leased", j, {token + 1})
      BY <2>1 DEF Acquire
    <3>2. \A l \in leases' : l.owner = j
      BY <3>1
    <3>. QED
      BY <2>1, <3>1, <3>2 DEF OneOwner
  <2>2. CASE ~job[j].writes
    <3>1. leases' = leases /\ Busy(s, "leased", j, {})
      BY <2>2 DEF Acquire
    <3>. QED
      BY <2>2, <3>1 DEF LeaseInv, OneOwner
  <2>. QED
    BY <2>1, <2>2
<1>3. \A p \in Pids : HoldsLease(p)'
  BY <1>1, <1>2 DEF LeaseInv, HoldsLease
<1>4. \A t \in Schedulers : Spares(sched[t])'
  <2>1. PICK g : Busy(s, "leased", j, g) /\ (g # {} <=> job[j].writes)
    BY <1>2
  <2>2. sched[s] \in Scheduler /\ sched[s].todo = {}
    BY <1>1 DEF TypeInv, Shapes, LifeInv, InHand, Examining
  <2>. DEFINE e == [sched[s] EXCEPT !.pc = "leased", !.work = {[id |-> j]}, !.grant = g]
  <2>3. /\ sched' = [sched EXCEPT ![s] = e]
        /\ e.pc = "leased" /\ e.work = {[id |-> j]} /\ e.grant = g /\ e.todo = {}
    BY <2>1, <2>2 DEF Busy, Scheduler
  <2>. HIDE DEF e
  <2>4. PICK d : /\ sched' = [sched EXCEPT ![s] = d]
                 /\ d.pc = "leased" /\ d.work = {[id |-> j]} /\ d.grant = g /\ d.todo = {}
    BY <2>3
  <2>5. Spares(d)'
    BY <1>1, <2>1, <2>4 DEF Spares
  <2>. QED
    BY <2>4, <2>5, OnlySched
<1>. QED
  BY <1>1, <1>2, <1>3, <1>4, SameGranted DEF LeaseInv

(* Both ways in which a claim writes the record of a waiting job.          *)
LEMMA DispatchedLease ==
    ASSUME TypeInv, LifeInv, LeaseInv, NEW s \in Schedulers, ScheduledBy(s),
           NEW j \in Jobs, sched[s].work = {[id |-> j]}, sched[s].pc = "leased",
           job[j].status = "waiting", job[j].attempt < MaxAttempts + 1,
           job' = [job EXCEPT ![j] = Dispatched(job[j], sched[s].grant)],
           UNCHANGED <<leases, worker>>, NEW d, sched' = [sched EXCEPT ![s] = d],
           d.todo = {}, \/ d.pc = "idle"
                        \/ /\ d.pc = "claimed" /\ d.work = {[id |-> j]}
                           /\ d.grant = sched[s].grant
    PROVE  LeaseInv'
<1>1. /\ job[j] \in JobRecord
      /\ (sched[s].grant # {}) <=> job[j].writes
  <2>1. [id |-> j] \in sched[s].work /\ [id |-> j].id = j
    OBVIOUS
  <2>. QED
    BY <2>1 DEF TypeInv, Shapes, LeaseInv, Spares
<1>. DEFINE r == Dispatched(job[j], sched[s].grant)
<1>2. r.writes = job[j].writes /\ r.refs = sched[s].grant
  BY <1>1 DEF Dispatched, JobRecord
<1>3. job' = [job EXCEPT ![j] = r]
  OBVIOUS
<1>. HIDE DEF r
<1>4. \A i \in Jobs : Granted(i)'
  BY <1>1, <1>2, <1>3, OneGranted
<1>5. /\ job'[j].writes = job[j].writes /\ \A i \in Jobs \ {j} : job'[i] = job[i]
  BY <1>2, <1>3 DEF TypeInv, Shapes
<1>6. \A p \in Pids : p[1] = j => worker[p].pc \notin Entitled
  BY NoneEntitled
<1>7. \A p \in Pids : HoldsLease(p)'
  BY <1>5, <1>6, OthersHold
<1>8. Spares(d)'
  BY <1>1, <1>5 DEF Spares
<1>. QED
  BY <1>4, <1>7, <1>8, OnlySched, FewerLeases DEF LeaseInv

LEMMA ClaimLease ==
    ASSUME TypeInv, LifeInv, LeaseInv, NEW s \in Schedulers, ScheduledBy(s),
           Claim(s) \/ ClaimIndexBusy(s)
    PROVE  LeaseInv'
<1>1. sched[s].pc = "leased" /\ sched[s] \in Scheduler /\ Spares(sched[s]) /\ sched[s].todo = {}
  <2>1. sched[s].pc = "leased"
    BY Zenon DEF Claim, ClaimIndexBusy
  <2>. QED
    BY <2>1 DEF TypeInv, Shapes, LeaseInv, LifeInv, InHand, Examining
<1>2. CASE Claim(s)
  <2>1. PICK j \in Jobs :
          /\ sched[s].work = {[id |-> j]}
          /\ \/ /\ job[j].status = "waiting" /\ job[j].attempt < MaxAttempts + 1
                /\ job' = [job EXCEPT ![j] = Dispatched(job[j], sched[s].grant)]
                /\ sched' = [sched EXCEPT ![s] = [sched[s] EXCEPT !.pc = "claimed"]]
                /\ leases' = leases
             \/ job[j].status # "waiting"
    BY <1>2, ClaimForm, Zenon
  <2>2. [id |-> j] \in sched[s].work /\ [id |-> j].id = j
    BY <2>1
  <2>3. job[j].status = "waiting"
    BY <1>1, <2>2 DEF Spares
  <2>. DEFINE d == [sched[s] EXCEPT !.pc = "claimed"]
  <2>4. /\ d.pc = "claimed" /\ d.work = {[id |-> j]} /\ d.todo = {} /\ d.grant = sched[s].grant
    BY <1>1, <2>1 DEF Scheduler
  <2>5. /\ sched' = [sched EXCEPT ![s] = d] /\ worker' = worker
        /\ job[j].attempt < MaxAttempts + 1 /\ leases' = leases
        /\ job' = [job EXCEPT ![j] = Dispatched(job[j], sched[s].grant)]
    BY <1>2, <2>1, <2>3 DEF Claim
  <2>. HIDE DEF d
  <2>. QED
    BY <1>1, <2>1, <2>3, <2>4, <2>5, DispatchedLease
<1>3. CASE ClaimIndexBusy(s)
  <2>1. PICK j \in Jobs :
             /\ sched[s].work = {[id |-> j]}
             /\ job[j].status = "waiting" /\ job[j].attempt < MaxAttempts + 1
             /\ job' = [job EXCEPT ![j] = Dispatched(job[j], sched[s].grant)]
    BY <1>3, ClaimIndexBusyForm
  <2>2. UNCHANGED <<leases, worker>> /\ sched' = [sched EXCEPT ![s] = Idle]
    BY <1>3, Zenon DEF ClaimIndexBusy, Rest
  <2>3. Idle.pc = "idle" /\ Idle.todo = {}
    BY DEF Idle
  <2>. QED
    BY <1>1, <2>1, <2>2, <2>3, DispatchedLease
<1>. QED
  BY <1>2, <1>3

LEMMA SpawnLease ==
    ASSUME TypeInv, LifeInv, LeaseInv, NEW s \in Schedulers, ScheduledBy(s), SpawnChild(s)
    PROVE  LeaseInv'
<1>1. PICK j \in Jobs :
          \/ /\ job[j].attempt \in Attempts
             /\ worker' = [worker EXCEPT ![Current(j)] =
                   [worker[Current(j)] EXCEPT !.pc = "boot", !.parented = (s = epoch)]]
             /\ sched' = [sched EXCEPT ![s] = [sched[s] EXCEPT !.pc = "spawned",
                             !.work = {[id |-> j, pid |-> job[j].attempt]}]]
          \/ /\ Rest(s) /\ worker' = worker
  BY SpawnForm, Zenon
<1>2. UNCHANGED <<job, leases>> /\ sched[s].pc = "claimed"
  BY DEF SpawnChild
<1>3. \A p \in Pids : /\ worker'[p].refs = worker[p].refs
                      /\ worker'[p].pc \in Entitled => worker[p].pc \in Entitled
  <2>1. CASE worker' = worker
    BY <2>1
  <2>2. CASE /\ job[j].attempt \in Attempts
             /\ worker' = [worker EXCEPT ![Current(j)] =
                   [worker[Current(j)] EXCEPT !.pc = "boot", !.parented = (s = epoch)]]
    <3>1. Current(j) \in Pids /\ worker[Current(j)] \in Worker
      BY <2>2, CurrentPid DEF TypeInv, Shapes
    <3>2. /\ worker'[Current(j)].pc = "boot" /\ worker'[Current(j)].refs = worker[Current(j)].refs
          /\ \A p \in Pids \ {Current(j)} : worker'[p] = worker[p]
      BY <2>2, <3>1 DEF TypeInv, Shapes, Worker
    <3>. QED
      BY <3>2 DEF Entitled
  <2>. QED
    BY <1>1, <2>1, <2>2
<1>4. \A t \in Schedulers : Spares(sched[t])'
  <2>1. CASE Rest(s)
    BY <2>1, RestSpares, OnlySched DEF Rest
  <2>2. CASE sched' = [sched EXCEPT ![s] = [sched[s] EXCEPT !.pc = "spawned",
                             !.work = {[id |-> j, pid |-> job[j].attempt]}]]
    <3>1. sched[s] \in Scheduler /\ sched[s].todo = {}
      BY <1>2 DEF TypeInv, Shapes, LifeInv, InHand, Examining
    <3>2. PICK d : /\ sched' = [sched EXCEPT ![s] = d] /\ d.pc = "spawned" /\ d.todo = {}
      <4>. DEFINE e == [sched[s] EXCEPT !.pc = "spawned",
                           !.work = {[id |-> j, pid |-> job[j].attempt]}]
      <4>1. sched' = [sched EXCEPT ![s] = e] /\ e.pc = "spawned" /\ e.todo = {}
        BY <2>2, <3>1 DEF Scheduler
      <4>. HIDE DEF e
      <4>. QED
        BY <4>1
    <3>3. Spares(d)'
      BY <3>2 DEF Spares
    <3>. QED
      BY <3>2, <3>3, OnlySched
  <2>. QED
    BY <1>1, <2>1, <2>2
<1>. QED
  BY <1>2, <1>3, <1>4, AllHold, SameGranted, FewerLeases DEF LeaseInv

LEMMA AttachLease ==
    ASSUME TypeInv, LifeInv, LeaseInv, NEW s \in Schedulers, ScheduledBy(s),
           Attach(s) \/ AttachBusy(s)
    PROVE  LeaseInv'
<1>1. Rest(s) /\ leases' = leases
  BY Zenon DEF Attach, AttachBusy
<1>2. \A t \in Schedulers : Spares(sched[t])'
  BY <1>1, RestSpares, OnlySched DEF Rest
<1>3. CASE AttachBusy(s)
  <2>1. job' = job /\ worker' = worker
    BY <1>3, Zenon DEF AttachBusy
  <2>. QED
    BY <1>1, <1>2, <2>1, AllHold, SameGranted, FewerLeases DEF LeaseInv
<1>4. CASE Attach(s)
  <2>1. PICK j \in Jobs, a \in Attempts :
          \/ /\ Attachable(job[j]) /\ worker' = worker
             /\ job' = [job EXCEPT ![j] = [job[j] EXCEPT !.status = "running", !.pid = a]]
          \/ job' = job /\ Move(<<j, a>>, "gone")
    BY <1>4, AttachForm, Zenon
  <2>2. CASE job' = job /\ Move(<<j, a>>, "gone")
    <3>1. \A p \in Pids : /\ worker'[p].refs = worker[p].refs
                          /\ worker'[p].pc \in Entitled => worker[p].pc \in Entitled
      BY <2>2 DEF TypeInv, Shapes, Move, Entitled, Worker
    <3>. QED
      BY <1>1, <1>2, <2>2, <3>1, AllHold, SameGranted, FewerLeases DEF LeaseInv
  <2>3. CASE /\ Attachable(job[j]) /\ worker' = worker
             /\ job' = [job EXCEPT ![j] = [job[j] EXCEPT !.status = "running", !.pid = a]]
    <3>. DEFINE r == [job[j] EXCEPT !.status = "running", !.pid = a]
    <3>1. /\ r.status = "running" /\ r.refs = job[j].refs /\ r.writes = job[j].writes
      BY DEF TypeInv, Shapes, JobRecord
    <3>2. job' = [job EXCEPT ![j] = r]
      BY <2>3
    <3>. HIDE DEF r
    <3>3. Granted(j) /\ job[j].status \in {"dispatched", "running"}
      BY <2>3 DEF LeaseInv, Attachable
    <3>4. \A i \in Jobs : Granted(i)'
      BY <3>1, <3>2, <3>3, OneGranted DEF Granted
    <3>5. \A i \in Jobs : /\ job'[i].writes = job[i].writes
                          /\ job[i].status = "running" => job'[i].status = "running"
      BY <3>1, <3>2 DEF TypeInv, Shapes
    <3>6. \A p \in Pids : HoldsLease(p)'
      BY <1>1, <2>3, <3>5, PidFacts DEF LeaseInv, HoldsLease
    <3>. QED
      BY <1>1, <1>2, <3>4, <3>6, FewerLeases DEF LeaseInv
  <2>. QED
    BY <2>1, <2>2, <2>3
<1>. QED
  BY <1>3, <1>4

-----------------------------------------------------------------------------
LEMMA ReleasesOwn ==
    ASSUME NEW j \in Jobs, NEW refs, leases' = Released(j, refs)
    PROVE  leases' \subseteq leases /\ \A l \in leases : l.owner # j => l \in leases'
BY DEF Released, Mine

LEMMA ReconcileLease ==
    ASSUME TypeInv, LifeInv, LeaseInv, NEW s \in Schedulers, ScheduledBy(s), Reconcile(s)
    PROVE  LeaseInv'
<1>1. UNCHANGED <<job, leases, worker>> /\ sched[s] \in Scheduler
  BY DEF Reconcile, TypeInv, Shapes
<1>2. PICK d : /\ sched' = [sched EXCEPT ![s] = d] /\ d.pc = "reconciling"
               /\ d.todo = {Seen(j) : j \in Active}
  <2>. DEFINE e == [sched[s] EXCEPT !.pc = "reconciling", !.todo = {Seen(j) : j \in Active}]
  <2>1. /\ sched' = [sched EXCEPT ![s] = e] /\ e.pc = "reconciling"
        /\ e.todo = {Seen(j) : j \in Active}
    BY <1>1 DEF Reconcile, Scheduler
  <2>. HIDE DEF e
  <2>. QED
    BY <2>1
<1>3. \A v \in d.todo : NotRunning(v)'
  BY <1>1, <1>2 DEF Seen, NotRunning
<1>4. Spares(d)'
  BY <1>2, <1>3 DEF Spares
<1>. QED
  BY <1>1, <1>2, <1>4, OnlySched, AllHold, SameGranted, FewerLeases DEF LeaseInv

LEMMA SkipLease ==
    ASSUME TypeInv, LifeInv, LeaseInv, NEW s \in Schedulers, ScheduledBy(s), Skip(s)
    PROVE  LeaseInv'
<1>1. /\ UNCHANGED <<job, leases, worker>> /\ sched[s].pc = "reconciling"
      /\ sched[s] \in Scheduler /\ Spares(sched[s])
  BY DEF Skip, TypeInv, Shapes, LeaseInv
<1>2. PICK v \in sched[s].todo :
          Rest(s) \/ sched' = [sched EXCEPT ![s].todo = sched[s].todo \ {v}]
  BY DEF Skip
<1>3. \E d : sched' = [sched EXCEPT ![s] = d] /\ Spares(d)'
  <2>1. CASE Rest(s)
    BY <2>1, RestSpares DEF Rest
  <2>2. CASE sched' = [sched EXCEPT ![s].todo = sched[s].todo \ {v}]
    <3>1. PICK d : /\ sched' = [sched EXCEPT ![s] = d] /\ d.pc = "reconciling"
                   /\ d.todo = sched[s].todo \ {v}
      <4>. DEFINE e == [sched[s] EXCEPT !.todo = sched[s].todo \ {v}]
      <4>1. /\ sched' = [sched EXCEPT ![s] = e] /\ e.pc = "reconciling"
            /\ e.todo = sched[s].todo \ {v}
        BY <1>1, <2>2 DEF Scheduler
      <4>. HIDE DEF e
      <4>. QED
        BY <4>1
    <3>2. \A u \in d.todo : NotRunning(u)'
      BY <1>1, <3>1 DEF Spares, NotRunning
    <3>3. Spares(d)'
      BY <3>1, <3>2 DEF Spares
    <3>. QED
      BY <3>1, <3>3
  <2>. QED
    BY <1>2, <2>1, <2>2
<1>4. \A t \in Schedulers : Spares(sched[t])'
  BY <1>3, OnlySched
<1>. QED
  BY <1>1, <1>4, AllHold, SameGranted, FewerLeases DEF LeaseInv

(* The leases of a job go only when it does not run, or after its worker.  *)
LEMMA ExamineLease ==
    ASSUME TypeInv, LifeInv, LeaseInv, Unkillable = FALSE,
           NEW s \in Schedulers, ScheduledBy(s), Examine(s)
    PROVE  LeaseInv'
<1>1. PICK v \in sched[s].todo, d \in Scheduler : Examined(s, v, d)
  BY ExamineForm
<1>2. /\ v \in Snapshot /\ v.id \in Jobs /\ v.pid \in PIDs
      /\ d.todo = sched[s].todo \ {v} /\ sched' = [sched EXCEPT ![s] = d]
  BY <1>1 DEF Examined, Snapshot
<1>3. job' = job /\ NotRunning(v) /\ \A u \in d.todo : NotRunning(u)'
  <2>1. job' = job
    BY Zenon DEF Examine
  <2>. QED
    BY <1>2, <2>1 DEF LeaseInv, Spares, NotRunning
<1>4. /\ \/ /\ v.status # "running" /\ d.pc = "settling" /\ worker' = worker
            /\ d.work = {[id |-> v.id, verdict |-> "timed_out"]}
            /\ leases' = Released(v.id, v.refs)
         \/ /\ d.pc = "killed" /\ leases' = leases
            /\ worker' = IF v.pid # 0 /\ Alive(<<v.id, v.pid>>)
                         THEN [worker EXCEPT ![<<v.id, v.pid>>].pc = "gone"] ELSE worker
  BY <1>1 DEF Examined
<1>5. CASE /\ v.status # "running" /\ d.pc = "settling" /\ worker' = worker
           /\ d.work = {[id |-> v.id, verdict |-> "timed_out"]}
           /\ leases' = Released(v.id, v.refs)
  <2>1. job[v.id].status # "running"
    BY <1>3, <1>5 DEF NotRunning
  <2>2. Spares(d)'
    BY <1>3, <1>5, <2>1 DEF Spares
  <2>3. leases' \subseteq leases /\ \A l \in leases : l.owner # v.id => l \in leases'
    BY <1>2, <1>5, ReleasesOwn
  <2>4. \A p \in Pids : p[1] = v.id => worker[p].pc \notin Entitled
    BY <1>2, <2>1, NoneEntitled
  <2>5. \A p \in Pids : HoldsLease(p)'
    BY <1>2, <1>3, <1>5, <2>3, <2>4, OthersHold
  <2>. QED
    BY <1>2, <1>3, <2>2, <2>3, <2>5, OnlySched, SameGranted, FewerLeases DEF LeaseInv
<1>6. CASE /\ d.pc = "killed" /\ leases' = leases
           /\ worker' = IF v.pid # 0 /\ Alive(<<v.id, v.pid>>)
                        THEN [worker EXCEPT ![<<v.id, v.pid>>].pc = "gone"] ELSE worker
  <2>1. Spares(d)'
    BY <1>3, <1>6 DEF Spares
  <2>2. \A p \in Pids : /\ worker'[p].refs = worker[p].refs
                        /\ worker'[p].pc \in Entitled => worker[p].pc \in Entitled
    <3>1. v.pid # 0 => <<v.id, v.pid>> \in Pids
      BY <1>2, Bounds DEF Pids
    <3>. QED
      BY <1>6, <3>1 DEF TypeInv, Shapes, Worker, Entitled
  <2>. QED
    BY <1>2, <1>3, <1>6, <2>1, <2>2, OnlySched, AllHold, SameGranted, FewerLeases DEF LeaseInv
<1>. QED
  BY <1>4, <1>5, <1>6

LEMMA FinalizeLease ==
    ASSUME TypeInv, LifeInv, LeaseInv, NEW s \in Schedulers, ScheduledBy(s), Finalize(s)
    PROVE  LeaseInv'
<1>1. PICK v \in Snapshot, b \in BOOLEAN, x \in Verdicts : Finalized(s, v, b, x)
  BY FinalizeForm
<1>2. /\ UNCHANGED <<job, worker>> /\ sched[s] \in Scheduler /\ Spares(sched[s])
      /\ sched[s].pc = "killed" /\ v.id \in Jobs
  <2>1. sched[s].pc \in {"killed", "survived"} /\ UNCHANGED <<job, worker>>
    BY Zenon DEF Finalize
  <2>. QED
    BY <2>1 DEF LeaseInv, Spares, TypeInv, Shapes, Snapshot
<1>3. Quelled(v.id)
  <2>. DEFINE w == [id |-> v.id, seen |-> v, late |-> b]
  <2>1. w \in sched[s].work /\ w.id = v.id
    BY <1>1 DEF Finalized
  <2>. HIDE DEF w
  <2>. QED
    BY <1>2, <2>1 DEF LifeInv, InHand
<1>4. PICK d : /\ sched' = [sched EXCEPT ![s] = d] /\ d.pc = "settling"
               /\ d.todo = sched[s].todo /\ d.work = {[id |-> v.id, verdict |-> x]}
  <2>. DEFINE e == [sched[s] EXCEPT !.pc = "settling", !.work = {[id |-> v.id, verdict |-> x]}]
  <2>1. /\ sched' = [sched EXCEPT ![s] = e] /\ e.pc = "settling"
        /\ e.todo = sched[s].todo /\ e.work = {[id |-> v.id, verdict |-> x]}
    BY <1>1, <1>2 DEF Finalized, Scheduler
  <2>. HIDE DEF e
  <2>. QED
    BY <2>1
<1>5. Spares(d)'
  <2>1. \A u \in d.todo : NotRunning(u)'
    BY <1>2, <1>4 DEF Spares, NotRunning
  <2>2. Quelled(v.id)'
    BY <1>2, <1>3 DEF Quelled, Alive, Current
  <2>. QED
    BY <1>4, <2>1, <2>2 DEF Spares
<1>6. leases' \subseteq leases /\ \A l \in leases : l.owner # v.id => l \in leases'
  BY <1>1, <1>2, ReleasesOwn DEF Finalized
<1>7. \A p \in Pids : HoldsLease(p)'
  <2>1. \A p \in Pids : p[1] = v.id => worker[p].pc \notin Entitled
    BY <1>2, <1>3, NoneEntitled
  <2>. QED
    BY <1>2, <1>6, <2>1, OthersHold
<1>. QED
  BY <1>2, <1>4, <1>5, <1>6, <1>7, OnlySched, SameGranted, FewerLeases DEF LeaseInv

LEMMA SettleLease ==
    ASSUME TypeInv, LifeInv, LeaseInv, NEW s \in Schedulers, ScheduledBy(s), Settle(s)
    PROVE  LeaseInv'
<1>1. PICK j \in Jobs, x \in Verdicts :
          /\ sched[s].work = {[id |-> j, verdict |-> x]}
          /\ \/ /\ job' = [job EXCEPT ![j] = Ended(job[j], x)]
                /\ \/ Rest(s)
                   \/ sched' = [sched EXCEPT ![s] =
                          [sched[s] EXCEPT !.pc = "reconciling", !.work = {}]]
             \/ Rest(s) /\ job' = job
  BY SettleForm
<1>2. /\ UNCHANGED <<leases, worker>> /\ sched[s].pc = "settling"
      /\ Spares(sched[s]) /\ sched[s] \in Scheduler
  BY DEF Settle, LeaseInv, TypeInv, Shapes
<1>3. CASE Rest(s) /\ job' = job
  BY <1>2, <1>3, RestSpares, OnlySched, AllHold, SameGranted, FewerLeases DEF Rest, LeaseInv
<1>4. CASE /\ job' = [job EXCEPT ![j] = Ended(job[j], x)]
           /\ \/ Rest(s)
              \/ sched' = [sched EXCEPT ![s] = [sched[s] EXCEPT !.pc = "reconciling", !.work = {}]]
  <2>. DEFINE r == Ended(job[j], x)
  <2>1. /\ r.status = x /\ x \notin {"running", "dispatched"} /\ r.refs = {} /\ r.writes = job[j].writes
    <3>1. x \in Statuses /\ x \notin {"running", "dispatched"} /\ job[j] \in JobRecord
      BY Bounds DEF TypeInv, Shapes, Verdicts, Terminal
    <3>. QED
      BY <3>1, EndedShape
  <2>2. job' = [job EXCEPT ![j] = r]
    BY <1>4
  <2>. HIDE DEF r
  <2>3. /\ job'[j].writes = job[j].writes /\ (\A i \in Jobs \ {j} : job'[i] = job[i])
        /\ \A i \in Jobs : job'[i].status = "running" => job[i].status = "running"
    BY <2>1, <2>2 DEF TypeInv, Shapes
  <2>4. \A i \in Jobs : Granted(i)'
    BY <2>1, <2>2, OneGranted
  <2>5. \A p \in Pids : p[1] = j => worker[p].pc \notin Entitled
    <3>. DEFINE w == [id |-> j, verdict |-> x]
    <3>1. w \in sched[s].work /\ w.id = j
      BY <1>1
    <3>. HIDE DEF w
    <3>. QED
      BY <1>2, <3>1, NoneEntitled DEF Spares
  <2>6. \A p \in Pids : HoldsLease(p)'
    BY <1>2, <2>3, <2>5, OthersHold
  <2>7. \E d : sched' = [sched EXCEPT ![s] = d] /\ Spares(d)'
    <3>1. CASE Rest(s)
      BY <3>1, RestSpares DEF Rest
    <3>2. CASE sched' = [sched EXCEPT ![s] = [sched[s] EXCEPT !.pc = "reconciling", !.work = {}]]
      <4>1. PICK d : /\ sched' = [sched EXCEPT ![s] = d] /\ d.pc = "reconciling"
                     /\ d.todo = sched[s].todo
        <5>. DEFINE e == [sched[s] EXCEPT !.pc = "reconciling", !.work = {}]
        <5>1. sched' = [sched EXCEPT ![s] = e] /\ e.pc = "reconciling" /\ e.todo = sched[s].todo
          BY <1>2, <3>2 DEF Scheduler
        <5>. HIDE DEF e
        <5>. QED
          BY <5>1
      <4>2. \A u \in d.todo : NotRunning(u)'
        <5>1. \A u \in d.todo : u.id \in Jobs
          BY <1>2, <4>1 DEF Scheduler, Snapshot
        <5>. QED
          BY <1>2, <2>3, <4>1, <5>1 DEF Spares, NotRunning
      <4>. QED
        BY <4>1, <4>2 DEF Spares
    <3>. QED
      BY <1>4, <3>1, <3>2
  <2>. QED
    BY <1>2, <2>4, <2>6, <2>7, OnlySched, FewerLeases DEF LeaseInv
<1>. QED
  BY <1>1, <1>3, <1>4

-----------------------------------------------------------------------------
(* Steps of a worker: whoever is alive is the worker of the current        *)
(* attempt, so that nobody else of its job is entitled.                    *)
LEMMA QuelledStays ==
    ASSUME TypeInv, NEW j \in Jobs, Quelled(j), job'[j].attempt = job[j].attempt,
           \A p \in Pids : Alive(p)' => Alive(p)
    PROVE  Quelled(j)'
<1>1. job[j].attempt \in Attempts => Current(j) \in Pids
  BY CurrentPid
<1>2. Current(j)' = Current(j)
  BY DEF Current
<1>. QED
  BY <1>1, <1>2 DEF Quelled

LEMMA MovesLease ==
    ASSUME TypeInv, LifeInv, LeaseInv, NEW p \in Pids, Alive(p), UNCHANGED <<job, leases, sched>>,
           NEW r, worker' = [worker EXCEPT ![p] = r], r.refs = worker[p].refs,
           r.pc \in Entitled => worker[p].pc \in Entitled
    PROVE  LeaseInv'
<1>1. \A q \in Pids : /\ worker'[q].refs = worker[q].refs
                      /\ worker'[q].pc \in Entitled => worker[q].pc \in Entitled
                      /\ Alive(q)' => Alive(q)
  BY DEF TypeInv, Shapes, Alive
<1>2. \A s \in Schedulers : Spares(sched[s])'
  BY <1>1, QuelledStays, StillSpares
<1>. QED
  BY <1>1, <1>2, AllHold, SameGranted, FewerLeases DEF LeaseInv

LEMMA StopsLease ==
    ASSUME TypeInv, LifeInv, LeaseInv, NEW p \in Pids, Alive(p), sched' = sched,
           NEW pc \in {"failing", "leaving", "gone"}, Move(p, pc),
           NEW r, job' = [job EXCEPT ![p[1]] = r],
           \/ r = job[p[1]]
           \/ /\ r.attempt = job[p[1]].attempt /\ r.writes = job[p[1]].writes
              /\ r.status \in Terminal /\ r.refs = {},
           leases' = leases \/ leases' = Released(p[1], worker[p].refs)
    PROVE  LeaseInv'
<1>. DEFINE j == p[1]
<1>1. j \in Jobs /\ OnlyCurrent(p) /\ job[j].status # "waiting"
  BY PidFacts DEF LifeInv, OnlyCurrent
<1>2. \A q \in Pids : /\ worker'[q].refs = worker[q].refs
                      /\ worker'[q].pc \in Entitled => worker[q].pc \in Entitled
                      /\ Alive(q)' => Alive(q)
                      /\ worker'[p].pc \notin Entitled
  BY DEF TypeInv, Shapes, Alive, Move, Worker, Entitled
<1>3. \A q \in Pids : q[1] = j => worker'[q].pc \notin Entitled
  <2>1. \A q \in Pids : q[1] = j /\ Alive(q) => q = p
    BY <1>1, PidFacts DEF LifeInv, OnlyCurrent
  <2>2. \A q \in Pids : worker[q].pc \in Entitled => Alive(q)
    BY DEF Entitled, Alive
  <2>. QED
    BY <1>2, <2>1, <2>2
<1>4. /\ leases' \subseteq leases /\ \A l \in leases : l.owner # j => l \in leases'
  BY <1>1, ReleasesOwn
<1>5. /\ job'[j].writes = job[j].writes /\ job'[j].attempt = job[j].attempt
      /\ \A i \in Jobs \ {j} : job'[i] = job[i]
      /\ job'[j].status = "running" => job[j].status = "running"
  BY <1>1 DEF TypeInv, Shapes, Terminal
<1>6. \A i \in Jobs : Granted(i)'
  BY <1>1, OneGranted DEF LeaseInv, Granted, Terminal
<1>7. \A q \in Pids : HoldsLease(q)'
  BY <1>1, <1>2, <1>3, <1>4, <1>5, OthersHold
<1>8. \A s \in Schedulers : Spares(sched[s])'
  <2>1. \A i \in Jobs : /\ job'[i].writes = job[i].writes /\ job'[i].attempt = job[i].attempt
                        /\ job'[i].status = "running" => job[i].status = "running"
                        /\ job[i].status = "waiting" => job'[i].status = "waiting"
    BY <1>1, <1>5
  <2>. QED
    BY <1>2, <2>1, QuelledStays, StillSpares
<1>. QED
  BY <1>4, <1>6, <1>7, <1>8, FewerLeases DEF LeaseInv

LEMMA WorkLease ==
    ASSUME TypeInv, LifeInv, LeaseInv, NEW p \in Pids,
           Begin(p) \/ Finish(p) \/ Complete(p) \/ Beat(p) \/ (FirstBeat(p) /\ Move(p, "beating"))
    PROVE  LeaseInv'
<1>1. /\ UNCHANGED <<job, leases, sched>> /\ Alive(p) /\ worker[p].pc \in Entitled
      /\ worker[p] \in Worker
  BY DEF Begin, Finish, Complete, Beat, FirstBeat, At, Alive, Entitled, TypeInv, Shapes
<1>2. \E r : worker' = [worker EXCEPT ![p] = r] /\ r.refs = worker[p].refs
  <2>1. CASE \E pc : Move(p, pc)
    <3>1. PICK pc : Move(p, pc)
      BY <2>1
    <3>2. worker' = [worker EXCEPT ![p] = [worker[p] EXCEPT !.pc = pc]]
      BY <3>1, <1>1 DEF Move, TypeInv, Shapes
    <3>3. [worker[p] EXCEPT !.pc = pc].refs = worker[p].refs
      BY <1>1 DEF Worker
    <3>. QED
      BY <3>2, <3>3
  <2>2. CASE Beat(p)
    <3>1. worker' = [worker EXCEPT ![p] = worker[p]]
      BY <2>2 DEF Beat, TypeInv, Shapes
    <3>. QED
      BY <3>1
  <2>3. CASE Finish(p)
    <3>1. PICK outcome \in {"succeeded", "failed"} : worker' =
             [worker EXCEPT ![p] = [worker[p] EXCEPT !.pc = "checked", !.outcome = outcome]]
      BY <2>3 DEF Finish
    <3>2. [worker[p] EXCEPT !.pc = "checked", !.outcome = outcome].refs = worker[p].refs
      BY <1>1 DEF Worker
    <3>. QED
      BY <3>1, <3>2
  <2>4. ASSUME Begin(p) \/ Complete(p) PROVE \E pc : Move(p, pc)
    BY <2>4 DEF Begin, Complete
  <2>. QED
    BY <2>1, <2>2, <2>3, <2>4
<1>. QED
  BY <1>1, <1>2, MovesLease

LEMMA StopLease ==
    ASSUME TypeInv, LifeInv, LeaseInv, NEW p \in Pids,
           \/ BootRefused(p) \/ LoseOwnership(p) \/ Publish(p) \/ Fail(p) \/ Leave(p)
           \/ WorkerDies(p) \/ (FirstBeat(p) /\ Move(p, "failing"))
    PROVE  LeaseInv'
<1>1. p[1] \in Jobs /\ job[p[1]] \in JobRecord /\ sched' = sched
  <2>1. sched' = sched
    BY Zenon DEF BootRefused, LoseOwnership, Publish, Fail, Leave, WorkerDies, FirstBeat
  <2>. QED
    BY <2>1, PidFacts DEF TypeInv, Shapes
<1>2. Alive(p)
  BY DEF BootRefused, LoseOwnership, Publish, Fail, Leave, WorkerDies, FirstBeat, At, Alive
<1>3. leases' = leases \/ leases' = Released(p[1], worker[p].refs)
  BY Zenon DEF BootRefused, LoseOwnership, Publish, Fail, Leave, WorkerDies, FirstBeat
<1>4. \E pc \in {"failing", "leaving", "gone"} : Move(p, pc)
  BY DEF BootRefused, LoseOwnership, Publish, Fail, Leave, WorkerDies
<1>5. \E r : /\ job' = [job EXCEPT ![p[1]] = r]
             /\ \/ r = job[p[1]]
                \/ /\ r.attempt = job[p[1]].attempt /\ r.writes = job[p[1]].writes
                   /\ r.status \in Terminal /\ r.refs = {}
  <2>1. ASSUME job' = job PROVE job' = [job EXCEPT ![p[1]] = job[p[1]]]
    BY <2>1 DEF TypeInv, Shapes
  <2>2. ASSUME NEW x \in Terminal
        PROVE  /\ Ended(job[p[1]], x).attempt = job[p[1]].attempt
               /\ Ended(job[p[1]], x).writes = job[p[1]].writes
               /\ Ended(job[p[1]], x).status \in Terminal /\ Ended(job[p[1]], x).refs = {}
    BY <1>1, Bounds, EndedShape
  <2>3. CASE Publish(p)
    <3>1. worker[p].outcome \in Terminal
      BY <2>3 DEF Publish, At, TypeInv, Shapes, HasOutcome, Worker, Terminal
    <3>2. \/ job' = job
          \/ job' = [job EXCEPT ![p[1]] = Ended(job[p[1]], worker[p].outcome)]
      BY <2>3 DEF Publish
    <3>. QED
      BY <2>1, <2>2, <3>1, <3>2
  <2>4. CASE LoseOwnership(p) \/ Fail(p)
    <3>1. job' = [job EXCEPT ![p[1]] = GivenUp(p[1], p[2])]
      BY <2>4, Zenon DEF LoseOwnership, Fail
    <3>2. \/ GivenUp(p[1], p[2]) = job[p[1]]
          \/ \E x \in Terminal : GivenUp(p[1], p[2]) = Ended(job[p[1]], x)
      BY DEF GivenUp, Terminal
    <3>. QED
      BY <2>2, <3>1, <3>2
  <2>5. ASSUME BootRefused(p) \/ Leave(p) \/ WorkerDies(p) \/ FirstBeat(p) PROVE job' = job
    BY <2>5, Zenon DEF BootRefused, Leave, WorkerDies, FirstBeat
  <2>. QED
    BY <2>1, <2>3, <2>4, <2>5
<1>6. PICK pc \in {"failing", "leaving", "gone"} : Move(p, pc)
  BY <1>4
<1>7. PICK r : /\ job' = [job EXCEPT ![p[1]] = r]
               /\ \/ r = job[p[1]]
                  \/ /\ r.attempt = job[p[1]].attempt /\ r.writes = job[p[1]].writes
                     /\ r.status \in Terminal /\ r.refs = {}
  BY <1>5
<1>. QED
  BY <1>1, <1>2, <1>3, <1>6, <1>7, StopsLease

(* The worker's check: its job runs and every lease of the record is there. *)
LEMMA BootLease ==
    ASSUME TypeInv, LifeInv, LeaseInv, NEW p \in Pids, Boot(p)
    PROVE  LeaseInv'
<1>1. /\ UNCHANGED <<job, leases, sched>> /\ Alive(p)
      /\ job[p[1]].status = "running" /\ Held(p[1], job[p[1]].refs)
      /\ worker' = [worker EXCEPT ![p] = [worker[p] EXCEPT !.pc = "owned", !.refs = job[p[1]].refs]]
  BY DEF Boot, Invalid, At, Alive
<1>2. p[1] \in Jobs /\ Granted(p[1])
  BY PidFacts DEF LeaseInv
<1>3. /\ worker'[p].refs = job[p[1]].refs
      /\ \A q \in Pids \ {p} : worker'[q] = worker[q]
      /\ \A q \in Pids : Alive(q)' => Alive(q)
  BY <1>1 DEF TypeInv, Shapes, Worker, Alive
<1>4. ASSUME NEW q \in Pids PROVE HoldsLease(q)'
  <2>1. CASE q = p
    <3>1. job[p[1]].writes => \E l \in leases : l.owner = p[1]
      BY <1>1, <1>2 DEF Granted, Held
    <3>. QED
      BY <1>1, <1>2, <1>3, <2>1, <3>1 DEF HoldsLease, Granted
  <2>2. CASE q # p
    BY <1>1, <1>3, <2>2 DEF LeaseInv, HoldsLease
  <2>. QED
    BY <2>1, <2>2
<1>5. \A s \in Schedulers : Spares(sched[s])'
  BY <1>1, <1>3, QuelledStays, StillSpares
<1>. QED
  BY <1>1, <1>4, <1>5, SameGranted, FewerLeases DEF LeaseInv

LEMMA CancelKillLease ==
    ASSUME TypeInv, LifeInv, LeaseInv, NEW p \in Pids, CancelKill(p)
    PROVE  LeaseInv'
<1>1. UNCHANGED <<job, leases, sched>> /\ (Move(p, "gone") \/ worker' = worker)
  BY Zenon DEF CancelKill, Move
<1>2. \A q \in Pids : /\ worker'[q].refs = worker[q].refs
                      /\ worker'[q].pc \in Entitled => worker[q].pc \in Entitled
                      /\ Alive(q)' => Alive(q)
  BY <1>1 DEF TypeInv, Shapes, Alive, Move, Worker, Entitled
<1>3. \A s \in Schedulers : Spares(sched[s])'
  BY <1>1, <1>2, QuelledStays, StillSpares
<1>. QED
  BY <1>1, <1>2, <1>3, AllHold, SameGranted, FewerLeases DEF LeaseInv

-----------------------------------------------------------------------------
LEMMA DaemonLease ==
    ASSUME TypeInv, LifeInv, LeaseInv, NEW s \in Schedulers, ScheduledBy(s),
           DaemonDies(s) \/ Start(s)
    PROVE  LeaseInv'
<1>1. /\ sched' = [sched EXCEPT ![s] = Down] \/ sched' = [sched EXCEPT ![s] = Idle]
      /\ \/ worker' = [p \in Pids |-> [worker[p] EXCEPT !.parented = FALSE]]
         \/ worker' = worker
      /\ UNCHANGED <<job, leases>>
  BY DEF DaemonDies, Start, Rest
<1>2. \A p \in Pids : worker'[p].pc = worker[p].pc /\ worker'[p].refs = worker[p].refs
  BY <1>1, OrphanedTypes
<1>3. \A t \in Schedulers : Spares(sched[t])'
  BY <1>1, RestSpares, OnlySched
<1>. QED
  BY <1>1, <1>2, <1>3, AllHold, SameGranted, FewerLeases DEF LeaseInv

(* Leases expire only when nobody is there to renew them.                  *)
LEMMA QuietLease ==
    ASSUME TypeInv, LifeInv, LeaseInv, Stalls = FALSE, NEW j \in Jobs, Quiet(j)
    PROVE  LeaseInv'
<1>1. /\ UNCHANGED <<job, worker, sched>> /\ leases' = {l \in leases : l.owner # j}
      /\ ~Tended(j)
  BY Zenon DEF Quiet
<1>2. \A p \in Pids : p[1] = j => worker[p].pc \notin Entitled
  <2>1. \A a \in Attempts : ~Alive(<<j, a>>)
    BY <1>1 DEF Tended
  <2>. QED
    BY <2>1, PidFacts DEF Alive, Entitled
<1>3. \A p \in Pids : HoldsLease(p)'
  BY <1>1, <1>2, OthersHold
<1>4. \A p \in Pids : Alive(p)' => Alive(p)
  BY <1>1 DEF Alive
<1>5. \A s \in Schedulers : Spares(sched[s])'
  BY <1>1, <1>4, QuelledStays, StillSpares
<1>. QED
  BY <1>1, <1>3, <1>5, SameGranted, FewerLeases DEF LeaseInv

LEMMA SameLease ==
    ASSUME TypeInv, LifeInv, LeaseInv, UNCHANGED <<job, leases, worker, sched>>
    PROVE  LeaseInv'
<1>1. \A p \in Pids : Alive(p)' => Alive(p)
  BY DEF Alive
<1>2. \A s \in Schedulers : Spares(sched[s])'
  BY <1>1, QuelledStays, StillSpares
<1>. QED
  BY <1>2, AllHold, SameGranted, FewerLeases DEF LeaseInv

LEMMA InitLease == Init => LeaseInv
<1>. SUFFICES ASSUME Init PROVE LeaseInv
  OBVIOUS
<1>1. ASSUME NEW j \in Jobs PROVE job[j].status = "waiting" /\ job[j].refs = {}
  BY DEF Init
<1>2. ASSUME NEW p \in Pids PROVE worker[p].pc = "unborn" /\ worker[p].refs = {}
  BY DEF Init
<1>3. ASSUME NEW s \in Schedulers PROVE Spares(sched[s])
  <2>1. /\ Idle.pc = "idle" /\ Down.pc = "down"
        /\ Idle.todo = {} /\ Down.todo = {}
    BY DEF Idle, Down
  <2>2. sched[s] = Idle \/ sched[s] = Down
    BY DEF Init
  <2>. QED
    BY <2>1, <2>2 DEF Spares
<1>4. \A j \in Jobs : Granted(j)
  BY <1>1 DEF Granted
<1>5. \A p \in Pids : HoldsLease(p)
  BY <1>2 DEF HoldsLease, Entitled
<1>6. OneOwner
  BY DEF Init, OneOwner
<1>. QED
  BY <1>3, <1>4, <1>5, <1>6 DEF LeaseInv

LEMMA NextLease == Orderly /\ TypeInv /\ LifeInv /\ LeaseInv /\ [Next]_vars => LeaseInv'
<1>. SUFFICES ASSUME Orderly, TypeInv, LifeInv, LeaseInv, [Next]_vars PROVE LeaseInv'
  OBVIOUS
<1>. Stalls = FALSE /\ Unkillable = FALSE /\ ~Cancels /\ OneDaemon
  BY DEF Orderly
<1>1. \A s \in Schedulers : ScheduledBy(s)
  BY DEF OneDaemon, ScheduledBy
<1>2. ASSUME NEW s \in Schedulers, Dispatch(s) PROVE LeaseInv'
  BY <1>1, <1>2, ExpireLease, AcquireLease, ClaimLease, SpawnLease, AttachLease, Zenon
     DEF Dispatch
<1>3. ASSUME NEW s \in Schedulers, Reconciliation(s) PROVE LeaseInv'
  BY <1>1, <1>3, ReconcileLease, SkipLease, ExamineLease, FinalizeLease, SettleLease, Zenon
     DEF Reconciliation
<1>4. ASSUME NEW p \in Pids, WorkerSteps(p) \/ Beat(p) \/ WorkerDies(p) PROVE LeaseInv'
  <2>1. FirstBeat(p) => Move(p, "beating") \/ Move(p, "failing")
    BY DEF FirstBeat
  <2>. QED
    BY <1>4, <2>1, WorkLease, StopLease, BootLease, Zenon DEF WorkerSteps
<1>5. ASSUME NEW j \in Jobs, Cancel(j) PROVE FALSE
  BY <1>5, Zenon DEF Cancel
<1>6. ASSUME (\E j \in Jobs : Deadline(j)) \/ UNCHANGED vars PROVE LeaseInv'
  <2>1. UNCHANGED <<job, leases, worker, sched>>
    BY <1>6, Zenon DEF Deadline, vars
  <2>. QED
    BY <2>1, SameLease
<1>. QED
  BY <1>1, <1>2, <1>3, <1>4, <1>5, <1>6, CancelKillLease, DaemonLease, QuietLease, Zenon
     DEF Next, Stopped

LEMMA AlwaysLease == Orderly => (Spec => [](TypeInv /\ LifeInv /\ LeaseInv))
<1>. SUFFICES ASSUME Orderly PROVE Spec => [](TypeInv /\ LifeInv /\ LeaseInv)
  OBVIOUS
<1>1. (TypeInv /\ LifeInv /\ LeaseInv) /\ [Next]_vars => (TypeInv /\ LifeInv /\ LeaseInv)'
  BY NextTypes, NextLife, NextLease DEF Orderly
<1>. QED
  BY <1>1, InitTypes, InitLife, InitLease, PTL DEF Spec

(* At most one process executes an operation that writes to the resource:  *)
(* whoever has passed the worker's check is the worker of the current      *)
(* attempt, and every lease of the resource belongs to its job, because    *)
(* acquireExecutionLeases finds a lease of another job in its way and the  *)
(* reconciler terminates a worker before it gives its leases back.         *)
THEOREM OneWriterAtATime == Orderly => (Spec => []OneWriter)
<1>1. TypeInv /\ LifeInv /\ LeaseInv => OneWriter
  <2>. SUFFICES ASSUME TypeInv, LifeInv, LeaseInv, NEW p \in Pids, NEW q \in Pids,
                       Writing(p), Writing(q)
                PROVE  p = q
    BY DEF OneWriter
  <2>1. HoldsLease(p) /\ HoldsLease(q) /\ OnlyCurrent(p) /\ OnlyCurrent(q)
    BY DEF LeaseInv, LifeInv
  <2>2. p[1] = q[1]
    BY <2>1 DEF Writing, HoldsLease, Entitled, LeaseInv, OneOwner
  <2>3. p[2] = q[2]
    BY <2>1, <2>2 DEF Writing, OnlyCurrent, Alive
  <2>. QED
    BY <2>2, <2>3, PidFacts
<1>. QED
  BY <1>1, AlwaysLease, PTL

(* transitionExecutionJobFromWorker compares a worker's references with    *)
(* the record, not with the lease files: a worker that publishes has not   *)
(* been overtaken, because while it is at work no other job's lease is     *)
(* there, newer or not.                                                    *)
THEOREM NoStalePublication == Orderly => (Spec => StaleNeverPublishes)
<1>1. TypeInv /\ LifeInv /\ LeaseInv =>
          \A p \in Pids : worker[p].pc = "receipted" => ~Overtaken(p)
  <2>. SUFFICES ASSUME TypeInv, LifeInv, LeaseInv, NEW p \in Pids,
                       worker[p].pc = "receipted", Overtaken(p)
                PROVE  FALSE
    OBVIOUS
  <2>1. HoldsLease(p) /\ worker[p].refs # {}
    BY DEF LeaseInv, Overtaken
  <2>2. \E l \in leases : l.owner = p[1]
    BY <2>1 DEF HoldsLease, Entitled
  <2>. QED
    BY <2>2 DEF LeaseInv, OneOwner, Overtaken
<1>2. TypeInv /\ LifeInv /\ LeaseInv /\ [Next]_vars =>
          [\A p \in Pids : worker[p].pc = "receipted" /\ worker'[p].pc = "leaving"
                               => ~Overtaken(p)]_vars
  BY <1>1
<1>. QED
  BY <1>2, AlwaysLease, PTL DEF Spec, StaleNeverPublishes
=============================================================================
