-------------------------- MODULE SchedulerDispatch --------------------------
(***************************************************************************)
(* Which waiting job is dispatched next: the dispatch part of              *)
(* GlobalScheduler.tick (control-plane/global-scheduler/scheduler.ts) and  *)
(* RepoActor.tryClaimNext (control-plane/repo-actor/actor.ts), with        *)
(* capacities, priority aging, dependencies, claims and automatic          *)
(* isolation, over several repositories.                                   *)
(*                                                                         *)
(* A job that was dispatched is "active" until it ends, and it holds       *)
(* leases for exactly its claims: ExecutionRuntime and LeaseStore show     *)
(* what an active job may go through.  One visit of a repository's actor   *)
(* is one action (it runs under the actor's mailbox lock); a tick visits   *)
(* several repositories, and jobs are submitted and end between visits.    *)
(***************************************************************************)
EXTENDS ResourceClaims, FiniteSets

CONSTANTS
    Repos, JobIds, Schedulers,
    Declared,       \* what a job is submitted with: [repo, kind, provider, priority,
                    \* depends, claims, isolatable, worktree]
    Limits,         \* [workers, repos, perRepo, heavy, agents, providers]
    Recurring,      \* jobs that are submitted anew after they ended
    Deadlined,      \* jobs whose deadline may pass
    Pressures,      \* the values the host pressure may take
    Contention      \* whether a visit may find one of its locks held

Providers == DOMAIN Limits.providers

ASSUME DispatchAssumption ==
    /\ \A j \in JobIds : /\ Declared[j].repo \in Repos
                         /\ Declared[j].kind \in {"check", "agent", "other"}
                         /\ Declared[j].provider \in Providers
                         /\ Declared[j].priority \in 0 .. 4
                         /\ Declared[j].depends \in Seq(JobIds)
                         /\ Declared[j].claims \in Seq(ToSet(Declared[j].claims))
                         /\ \A c \in ToSet(Declared[j].claims) : c.mode \in Modes
    /\ {Limits.workers, Limits.repos, Limits.perRepo, Limits.heavy, Limits.agents} \subseteq Nat \ {0}
    /\ \A p \in Providers : Limits.providers[p] \in Nat \ {0}
    /\ Recurring \subseteq JobIds /\ Deadlined \subseteq JobIds
    /\ Pressures \subseteq BOOLEAN /\ Pressures # {}
    /\ Contention \in BOOLEAN

Waiting == {"queued", "waiting_for_dependency", "waiting_for_workspace",
            "waiting_for_heavy_check", "waiting_for_integration", "waiting_for_release_barrier"}
Unsuccessful == {"failed", "timed_out", "human_attention_required"}
Ended == Unsuccessful \cup {"succeeded"}

VARIABLES
    status,         \* the status of each job
    queue,          \* the waiting jobs in the order of their queuedAt
    claims,         \* the list of resource claims in each job record
    age,            \* aging windows since queuedAt, as far as they promote the job
    late,           \* jobs whose deadline has passed
    pressured,      \* whether free memory or load is beyond its limit
    tick,           \* each scheduler's tick: what it read, and what is left to do
    recent          \* each scheduler's repositories, the latest dispatch last

dispatchVars == <<status, queue, claims, age, late, pressured, tick, recent>>

Idle == [capacity |-> 0, heavy |-> 0, agents |-> 0, providers |-> [p \in Providers |-> 0],
         repos |-> {}, visits |-> <<>>]

Repo(j) == Declared[j].repo
Active == {j \in JobIds : status[j] = "active"}
Heavy(j) == Declared[j].kind = "check"
Agent(j) == Declared[j].kind = "agent"

-----------------------------------------------------------------------------
(* Order of candidates                                                     *)

EffectivePriorityWithoutAging(j) == Declared[j].priority      \* faulty
EffectivePriority(j) == Declared[j].priority - age[j]

Position(seq, x) == CHOOSE i \in DOMAIN seq : seq[i] = x

(* candidateSort, and compareWaiting of the scheduler.                     *)
Before(i, j) ==
    \/ EffectivePriority(i) < EffectivePriority(j)
    \/ EffectivePriority(i) = EffectivePriority(j) /\ Position(queue, i) < Position(queue, j)

(* A repository's waiting jobs, and the one of some that comes last.       *)
Candidates(r) == {j \in ToSet(queue) : Repo(j) = r}
LastOf(jobs) == CHOOSE j \in jobs : \A i \in jobs \ {j} : Before(i, j)

(* The order in which a tick of s visits the repositories: each stands for *)
(* its first waiting job, the best of these first, then the one of the     *)
(* least recently dispatched repository.                                   *)
Recency(s, r) == IF r \in ToSet(recent[s]) THEN Position(recent[s], r) ELSE 0
VisitOrder(s) ==
    LET tops == SelectSeq(queue, LAMBDA j : \A i \in ToSet(queue) \ {j} : Repo(i) = Repo(j) => Before(j, i))
        sooner(i, j) ==
            \/ EffectivePriority(i) < EffectivePriority(j)
            \/ /\ EffectivePriority(i) = EffectivePriority(j)
               /\ \/ Recency(s, Repo(i)) < Recency(s, Repo(j))
                  \/ Recency(s, Repo(i)) = Recency(s, Repo(j)) /\ Position(queue, i) < Position(queue, j)
    IN SortSeq(tops, sooner)

-----------------------------------------------------------------------------
(* RepoActor.tryClaimNext                                                  *)

(* dependencyState: the first dependency that has not succeeded decides.   *)
DependencyStateAnyEnd(st, j) ==          \* faulty: any end of a dependency will do
    IF \E i \in DOMAIN Declared[j].depends : st[Declared[j].depends[i]] \notin Ended
    THEN "waiting" ELSE "ready"
DependencyState(st, j) ==
    LET open == {i \in DOMAIN Declared[j].depends : st[Declared[j].depends[i]] # "succeeded"} IN
    IF open = {} THEN "ready"
    ELSE IF st[Declared[j].depends[Min(open)]] \in Unsuccessful \cup {"absent"} THEN "blocked"
    ELSE "waiting"

(* The leases of an active job: its claims, one for each key.              *)
Leases(list) == NormalizeClaims(list, list = <<>>)

BlockedBy(list, j) ==
    {l \in UNION {Leases(claims[i]) : i \in {i \in Active : Repo(i) = Repo(j)}} :
        \E c \in Leases(list) : ClaimsConflict(c, l)}

(* A job that is moved to a worktree (named for its task, its issue or     *)
(* itself) keeps no other claim, and with no workspace claim left it is    *)
(* not moved again.                                                        *)
CanAutoIsolate(j) == Declared[j].isolatable /\ \E c \in ToSet(claims[j]) : c.key.space = "workspace"
OwnWorktree(j) == <<Claim(Key("worktree", <<Declared[j].worktree>>), "write")>>

(* The turn of one candidate, and the statuses it may be left with: a job  *)
(* blocked by several leases waits under the name of one of them.  An      *)
(* actor goes on to the next candidate until one is chosen.                *)
Outcomes(visit, j) ==
    LET depends == DependencyState(visit.status, j)
        wanted == IF BlockedBy(claims[j], j) # {} /\ CanAutoIsolate(j) THEN OwnWorktree(j) ELSE claims[j]
        blockers == BlockedBy(wanted, j)
        asks == j \notin late /\ depends = "ready"
        results == IF j \in late THEN {"timed_out"}
                   ELSE IF depends = "waiting" THEN {"waiting_for_dependency"}
                   ELSE IF depends = "blocked" THEN {"human_attention_required"}
                   ELSE IF blockers # {} THEN {WaitingStatus(l.key.space) : l \in blockers}
                   ELSE {"active"}
    IN {[status |-> [visit.status EXCEPT ![j] = result],
         claims |-> [visit.claims EXCEPT ![j] = IF asks THEN wanted ELSE @],
         chosen |-> IF result = "active" THEN {j} ELSE {}] : result \in results}

Turn(visits, j) == UNION {IF visit.chosen # {} THEN {visit} ELSE Outcomes(visit, j) : visit \in visits}

NoChoice == [status |-> status, claims |-> claims, chosen |-> {}]
TryClaimNext(r) ==
    IF Cardinality({j \in Active : Repo(j) = r}) >= Limits.perRepo THEN {NoChoice}
    ELSE MapThenFoldSet(LAMBDA j, visits : Turn(visits, j), {NoChoice}, LAMBDA j : j, LastOf, Candidates(r))

-----------------------------------------------------------------------------
(* The scheduler's tick                                                    *)

DispatchLockIgnored == TRUE                                   \* faulty
DispatchLockFree == \A s \in Schedulers : tick[s] = Idle

(* What the tick may still dispatch, counted from the records.             *)
Budget ==
    LET reserved == Active
        agents == {j \in reserved : Agent(j)}
        lessUnderPressure(n, most) == IF pressured /\ n > most THEN most ELSE n
    IN [capacity |-> lessUnderPressure(Limits.workers - Cardinality(reserved), 1),
        heavy |-> lessUnderPressure(Limits.heavy - Cardinality({j \in reserved : Heavy(j)}), 1),
        agents |-> IF pressured THEN 0 ELSE Limits.agents - Cardinality(agents),
        providers |-> [p \in Providers |->
            IF pressured THEN 0
            ELSE Limits.providers[p] - Cardinality({j \in agents : Declared[j].provider = p})],
        repos |-> {Repo(j) : j \in reserved},
        visits |-> <<>>]

TickStart(s) ==
    /\ tick[s] = Idle
    /\ DispatchLockFree
    /\ Budget.capacity > 0
    /\ queue # <<>>
    /\ tick' = [tick EXCEPT ![s] = [Budget EXCEPT !.visits = VisitOrder(s)]]
    /\ UNCHANGED <<status, queue, claims, age, late, pressured, recent>>

(* What the tick checks before it visits a repository: of the repository's *)
(* waiting jobs it looks at the first only.                                *)
RepoLimitReachedNot(t, r) == FALSE                            \* faulty
RepoLimitReached(t, r) == r \notin t.repos /\ Cardinality(t.repos) >= Limits.repos
Admits(t, top) ==
    /\ ~RepoLimitReached(t, Repo(top))
    /\ Heavy(top) => t.heavy > 0
    /\ Agent(top) => t.agents > 0 /\ t.providers[Declared[top].provider] > 0

(* The budget after j was dispatched, and the visits that remain.          *)
Spent(t, j) ==
    LET agents == IF Agent(j) THEN 1 ELSE 0 IN
    [capacity |-> t.capacity - 1,
     heavy |-> IF Heavy(j) THEN t.heavy - 1 ELSE t.heavy,
     agents |-> t.agents - agents,
     providers |-> [t.providers EXCEPT ![Declared[j].provider] = @ - agents],
     repos |-> t.repos \cup {Repo(j)},
     visits |-> IF t.capacity = 1 THEN <<>> ELSE Tail(t.visits)]

(* The lock is released when no visit is left.                             *)
Continue(t) == IF t.visits = <<>> THEN Idle ELSE t
NextVisit(t) == Continue([t EXCEPT !.visits = Tail(@)])

SkipRepo(s) ==
    /\ tick[s].visits # <<>>
    /\ ~Admits(tick[s], Head(tick[s].visits))
    /\ tick' = [tick EXCEPT ![s] = NextVisit(@)]
    /\ UNCHANGED <<status, queue, claims, age, late, pressured, recent>>

(* The active index keeps what may still be dispatched.                    *)
StillWaiting(kept, j) == IF status'[j] \in Waiting THEN Append(kept, j) ELSE kept

VisitRepo(s, r) ==
    /\ tick[s].visits # <<>> /\ Repo(Head(tick[s].visits)) = r
    /\ Admits(tick[s], Head(tick[s].visits))
    /\ \E visit \in TryClaimNext(r) :
       /\ status' = visit.status
       /\ claims' = visit.claims
       /\ queue' = FoldLeft(StillWaiting, <<>>, queue)
       /\ \/ /\ visit.chosen = {}
             /\ tick' = [tick EXCEPT ![s] = NextVisit(@)]
             /\ recent' = recent
          \/ /\ \E j \in visit.chosen : tick' = [tick EXCEPT ![s] = Continue(Spent(@, j))]
             /\ recent' = [recent EXCEPT ![s] = Append(RemoveFirst(@, r), r)]
    /\ UNCHANGED <<age, late, pressured>>

(* A lock of the actor, of a lease or of a job record was held: the error  *)
(* is taken for "another scheduler owns dispatch", and the tick is over.   *)
TickAbort(s) ==
    /\ Contention
    /\ tick[s].visits # <<>>
    /\ Admits(tick[s], Head(tick[s].visits))
    /\ tick' = [tick EXCEPT ![s] = Idle]
    /\ UNCHANGED <<status, queue, claims, age, late, pressured, recent>>

-----------------------------------------------------------------------------
(* Around the scheduler                                                    *)

Submit(j) ==
    /\ \/ status[j] = "absent"
       \/ j \in Recurring /\ status[j] \in Ended
    /\ status' = [status EXCEPT ![j] = "queued"]
    /\ queue' = Append(queue, j)
    /\ claims' = [claims EXCEPT ![j] = Declared[j].claims]
    /\ age' = [age EXCEPT ![j] = 0]
    /\ late' = late \ {j}
    /\ UNCHANGED <<pressured, tick, recent>>

Finish(j) ==
    /\ j \in Active
    /\ \E end \in {"succeeded", "failed"} : status' = [status EXCEPT ![j] = end]
    /\ UNCHANGED <<queue, claims, age, late, pressured, tick, recent>>

(* Another 30 minutes have passed since j was queued, and no fewer since   *)
(* any job queued before it.  What no longer promotes is not counted.      *)
AgeUp(j) ==
    /\ j \in ToSet(queue)
    /\ EffectivePriority(j) > 0 /\ age[j] < Declared[j].priority
    /\ \A i \in ToSet(queue) : Position(queue, i) < Position(queue, j) =>
           age[i] > age[j] \/ age[i] = Declared[i].priority
    /\ age' = [age EXCEPT ![j] = @ + 1]
    /\ UNCHANGED <<status, queue, claims, late, pressured, tick, recent>>

DeadlinePasses(j) ==
    /\ j \in ToSet(queue) \cap Deadlined
    /\ j \notin late
    /\ late' = late \cup {j}
    /\ UNCHANGED <<status, queue, claims, age, pressured, tick, recent>>

PressureChanges ==
    /\ \E p \in Pressures \ {pressured} : pressured' = p
    /\ UNCHANGED <<status, queue, claims, age, late, tick, recent>>

DispatchInit ==
    /\ status = [j \in JobIds |-> "absent"]
    /\ queue = <<>>
    /\ claims = [j \in JobIds |-> Declared[j].claims]
    /\ age = [j \in JobIds |-> 0]
    /\ late = {}
    /\ pressured \in Pressures
    /\ tick = [s \in Schedulers |-> Idle]
    /\ recent = [s \in Schedulers |-> <<>>]

DispatchNext ==
    \/ \E j \in JobIds : Submit(j) \/ Finish(j) \/ AgeUp(j) \/ DeadlinePasses(j)
    \/ \E s \in Schedulers : TickStart(s) \/ SkipRepo(s) \/ TickAbort(s)
    \/ \E s \in Schedulers, r \in Repos : VisitRepo(s, r)
    \/ PressureChanges

DispatchSpec == DispatchInit /\ [][DispatchNext]_dispatchVars

(* The loop of every daemon ticks at least every idleBackoffMaxMs; a visit *)
(* that is attempted again and again does not find a lock held every time; *)
(* a job that runs ends (its timeout, at the latest); time passes.         *)
FairDispatchSpec ==
    /\ DispatchSpec
    /\ \A s \in Schedulers : WF_dispatchVars(TickStart(s)) /\ WF_dispatchVars(SkipRepo(s))
    /\ \A s \in Schedulers, r \in Repos : SF_dispatchVars(VisitRepo(s, r))
    /\ \A j \in JobIds : WF_dispatchVars(Finish(j)) /\ WF_dispatchVars(AgeUp(j))
=============================================================================
