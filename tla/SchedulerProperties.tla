------------------------- MODULE SchedulerProperties -------------------------
(***************************************************************************)
(* What dispatching promises (docs: scheduler-and-resource-claims.md).     *)
(***************************************************************************)
EXTENDS SchedulerDispatch

(* Every variable has its type; the queue holds each waiting job once.     *)
DispatchTypeOK ==
    /\ status \in [JobIds -> {"absent", "active"} \cup Waiting \cup Ended]
    /\ \A j \in JobIds : Cardinality({i \in DOMAIN queue : queue[i] = j}) = (IF status[j] \in Waiting THEN 1 ELSE 0)
    /\ \A j \in JobIds : age[j] \in 0 .. Declared[j].priority
    /\ late \subseteq Deadlined
    /\ pressured \in Pressures
    /\ \A s \in Schedulers : tick[s].capacity \in 0 .. Limits.workers /\ tick[s].repos \subseteq Repos
    /\ \A s \in Schedulers : ToSet(recent[s]) \subseteq Repos

(* No more workers run than maxWorkers, however many schedulers tick and   *)
(* however jobs end between their visits: what a tick may still dispatch   *)
(* and what is active never exceed it together (tick, scheduler.ts:321).   *)
WorkerCap ==
    /\ Cardinality(Active) <= Limits.workers
    /\ \A s \in Schedulers : Cardinality(Active) + tick[s].capacity <= Limits.workers

(* A repository runs no more than its own limit, and no more repositories  *)
(* than maxConcurrentRepositories have active jobs (actor.ts:93,           *)
(* scheduler.ts:374).                                                      *)
RepoLimits ==
    /\ \A r \in Repos : Cardinality({j \in Active : Repo(j) = r}) <= Limits.perRepo
    /\ Cardinality({Repo(j) : j \in Active}) <= Limits.repos

(* Two active jobs of a repository have no conflicting claims in their     *)
(* records, whatever is merged before leases are taken, and also when one  *)
(* of them was moved to a worktree while it was chosen (actor.ts:118).     *)
CompatibleOwners ==
    \A i, j \in Active : i # j /\ Repo(i) = Repo(j) =>
        \A c \in ToSet(claims[i]), d \in ToSet(claims[j]) : ~ClaimsConflict(c, d)

(* A job becomes active only when every job it depends on has succeeded,   *)
(* and never after its deadline (actor.ts:99, 107).                        *)
DispatchIsDue ==
    [][\A j \in JobIds : status[j] # "active" /\ status'[j] = "active" =>
          /\ j \notin late
          /\ \A d \in ToSet(Declared[j].depends) : status[d] = "succeeded"]_dispatchVars

(* The heavy-check and agent quotas hold whatever is dispatched.           *)
GlobalQuotas ==
    /\ Cardinality({j \in Active : Heavy(j)}) <= Limits.heavy
    /\ Cardinality({j \in Active : Agent(j)}) <= Limits.agents
    /\ \A p \in Providers : Cardinality({j \in Active : Agent(j) /\ Declared[j].provider = p}) <= Limits.providers[p]

(* Aging: a waiting job of low priority is dispatched or ended in the end, *)
(* although jobs of a higher priority are submitted again and again.       *)
(* Agents are excepted: host pressure may hold them back for ever.         *)
NoStarvation ==
    \A j \in JobIds : (status[j] \in Waiting /\ ~Agent(j)) ~> status[j] \notin Waiting
=============================================================================
