----------------------------- MODULE LeaseStore -----------------------------
(***************************************************************************)
(* The execution leases of one repository                                  *)
(* (src/src/runtime/resources/leases/store.ts): one file per lease under   *)
(* leases/active and one fencing counter per resource under                *)
(* leases/counters.  acquire, renew and release run under the repository   *)
(* lock; listActiveLeases and assertFencingToken are also called without   *)
(* it, and they delete every file that they read as expired.               *)
(*                                                                         *)
(* The lease identifier (a UUID in the code) is the pair of the resource   *)
(* key and the fencing token: FencingIdentity shows that it names one      *)
(* lease.  The repository lock itself is taken to exclude; what its file   *)
(* protocol really guarantees is the subject of ControllerLock.            *)
(***************************************************************************)
EXTENDS ResourceClaims, FiniteSets

CONSTANTS
    Jobs,           \* execution jobs of the repository
    Keys,           \* resource keys in use
    ClaimsOf,       \* the normalized claims of each job
    Observers,      \* processes that list leases without the repository lock
    TTL,            \* lifetime of a lease, in clock ticks
    MaxTime,        \* bound: the clock stops here
    MaxToken,       \* bound: a resource is granted at most this often
    Free            \* the value of "lock" when nobody holds it

ASSUME LeaseAssumption ==
    /\ TTL \in Nat /\ MaxTime \in Nat /\ MaxToken \in Nat
    /\ \A j \in Jobs : ClaimsOf[j] \subseteq [key : Keys, mode : Modes]
    /\ \A j \in Jobs : \A c, d \in ClaimsOf[j] : c.key = d.key => c = d
    /\ Free \notin Jobs

Lease == [key : Keys, mode : Modes, owner : Jobs, token : Nat, expires : Nat]

VARIABLES
    now,            \* the clock of the host
    leases,         \* the lease files
    counter,        \* the fencing counter of every resource
    lock,           \* holder of the repository lock across a renewal, or Free
    renewing,       \* the leases that the lock holder is about to rewrite
    held,           \* the leases each job was last told it owns (job.leaseRefs)
    alive,          \* whether the job's worker process still runs
    sweeping,       \* the expired files each observer read and will delete
    grants          \* history: every lease ever granted

vars == <<now, leases, counter, lock, renewing, held, alive, sweeping, grants>>

-----------------------------------------------------------------------------
Expired(l) == l.expires <= now
Live == {l \in leases : ~Expired(l)}

SameFile(l, m) == l.key = m.key /\ l.token = m.token

BlockersByKey(j) ==                  \* faulty: only the very same key blocks
    {l \in Live : l.owner # j /\ \E c \in ClaimsOf[j] : c.key = l.key}

(* A job's own leases never block it.                                      *)
Blockers(j) == {l \in Live : /\ l.owner # j
                             /\ \E c \in ClaimsOf[j] : ClaimsConflict(c, l)}

ClaimsKey(j, k) == \E c \in ClaimsOf[j] : c.key = k

NewLeasesFromFiles(j) ==             \* faulty: derives the token from the files
    { [key |-> c.key, mode |-> c.mode, owner |-> j, expires |-> now + TTL,
       token |-> Cardinality({l \in Live : l.key = c.key}) + 1] : c \in ClaimsOf[j] }

NewLeases(j) ==
    { [key |-> c.key, mode |-> c.mode, owner |-> j,
       token |-> counter[c.key] + 1, expires |-> now + TTL] : c \in ClaimsOf[j] }

(* The live leases of job j among those it was told it owns.               *)
OwnedLive(j) == {l \in Live : l.owner = j /\ \E h \in held[j] : SameFile(l, h)}

ExtendedWithoutToken(ls) ==          \* faulty: loses the token of a renewed lease
    {[key |-> l.key, mode |-> l.mode, owner |-> l.owner, expires |-> now + TTL] : l \in ls}

Extended(ls) == {[l EXCEPT !.expires = now + TTL] : l \in ls}

(* Writing a lease replaces the file of that lease, or creates it again.   *)
Rewritten(ls) == {l \in leases : \A w \in ls : ~SameFile(l, w)} \cup Extended(ls)

-----------------------------------------------------------------------------
Init ==
    /\ now = 0
    /\ leases = {}
    /\ counter = [k \in Keys |-> 0]
    /\ lock = Free
    /\ renewing = {}
    /\ held = [j \in Jobs |-> {}]
    /\ alive = [j \in Jobs |-> FALSE]
    /\ sweeping = [o \in Observers |-> {}]
    /\ grants = {}

(* acquireExecutionLeases: all claims of the job or none.  Listing the     *)
(* active leases deletes the expired ones either way.                      *)
Acquire(j) ==
    /\ lock = Free
    /\ held[j] = {} /\ ClaimsOf[j] # {}
    /\ \A c \in ClaimsOf[j] : counter[c.key] < MaxToken
    /\ Blockers(j) = {}
    /\ leases' = Live \cup NewLeases(j)
    /\ counter' = [k \in Keys |-> IF ClaimsKey(j, k) THEN counter[k] + 1 ELSE counter[k]]
    /\ held' = [held EXCEPT ![j] = NewLeases(j)]
    /\ alive' = [alive EXCEPT ![j] = TRUE]
    /\ grants' = grants \cup NewLeases(j)
    /\ UNCHANGED <<now, lock, renewing, sweeping>>

AcquireBlocked(j) ==
    /\ lock = Free
    /\ held[j] = {}
    /\ Blockers(j) # {}
    /\ leases' = Live
    /\ UNCHANGED <<now, counter, lock, renewing, held, alive, sweeping, grants>>

(* The process dies while it writes the lease files one by one: all the    *)
(* counters have moved, some files exist, and nobody was told of them.     *)
AcquireCrash(j) ==
    /\ lock = Free
    /\ held[j] = {}
    /\ \A c \in ClaimsOf[j] : counter[c.key] < MaxToken
    /\ Blockers(j) = {}
    /\ \E written \in SUBSET NewLeases(j) :
          /\ leases' = Live \cup written
          /\ grants' = grants \cup written
    /\ counter' = [k \in Keys |-> IF ClaimsKey(j, k) THEN counter[k] + 1 ELSE counter[k]]
    /\ UNCHANGED <<now, lock, renewing, held, alive, sweeping>>

RenewReadUnchecked(j) ==             \* faulty: trusts the references it was given
    /\ lock = Free
    /\ alive[j] /\ held[j] # {}
    /\ lock' = j
    /\ renewing' = held[j]
    /\ leases' = Live
    /\ UNCHANGED <<now, counter, held, alive, sweeping, grants>>

(* renewExecutionLeases reads the files, compares them with the expected   *)
(* references, and only then writes the new expiry times.                  *)
RenewRead(j) ==
    /\ lock = Free
    /\ alive[j] /\ held[j] # {}
    /\ \A h \in held[j] : \E l \in OwnedLive(j) : SameFile(l, h)
    /\ lock' = j
    /\ renewing' = OwnedLive(j)
    /\ leases' = Live
    /\ UNCHANGED <<now, counter, held, alive, sweeping, grants>>

RenewWrite(j) ==
    /\ lock = j
    /\ leases' = Rewritten(renewing)
    /\ held' = [held EXCEPT ![j] = Extended(renewing)]
    /\ lock' = Free
    /\ renewing' = {}
    /\ UNCHANGED <<now, counter, alive, sweeping, grants>>

(* FENCING_TOKEN_STALE, or LEASE_EXPIRED from assertFencingToken: a lease  *)
(* the worker was told it owns is gone, and the worker exits.              *)
LeaseLost(j) ==
    /\ lock = Free
    /\ alive[j]
    /\ \E h \in held[j] : \A l \in OwnedLive(j) : ~SameFile(l, h)
    /\ leases' = Live
    /\ alive' = [alive EXCEPT ![j] = FALSE]
    /\ UNCHANGED <<now, counter, lock, renewing, held, sweeping, grants>>

(* releaseExecutionLeases with the job's recorded references, by its       *)
(* worker as it ends or by the reconciler after the worker died.           *)
Release(j) ==
    /\ lock = Free
    /\ held[j] # {}
    /\ leases' = Live \ OwnedLive(j)
    /\ held' = [held EXCEPT ![j] = {}]
    /\ alive' = [alive EXCEPT ![j] = FALSE]
    /\ UNCHANGED <<now, counter, lock, renewing, sweeping, grants>>

(* The worker dies; a dead lock holder's lock is taken from it, with any   *)
(* part of its renewal written.                                            *)
WorkerCrash(j) ==
    /\ alive[j]
    /\ alive' = [alive EXCEPT ![j] = FALSE]
    /\ IF lock = j
       THEN /\ \E written \in SUBSET renewing : leases' = Rewritten(written)
            /\ lock' = Free
            /\ renewing' = {}
       ELSE UNCHANGED <<leases, lock, renewing>>
    /\ UNCHANGED <<now, counter, held, sweeping, grants>>

(* A listing without the lock judges a file by what it read and deletes    *)
(* the path later, whatever the path holds by then.                        *)
SweepRead(o) ==
    /\ sweeping[o] = {}
    /\ \E l \in leases : /\ Expired(l)
                         /\ sweeping' = [sweeping EXCEPT ![o] = {l}]
    /\ UNCHANGED <<now, leases, counter, lock, renewing, held, alive, grants>>

SweepDelete(o) ==
    /\ sweeping[o] # {}
    /\ leases' = {l \in leases : \A s \in sweeping[o] : ~SameFile(l, s)}
    /\ sweeping' = [sweeping EXCEPT ![o] = {}]
    /\ UNCHANGED <<now, counter, lock, renewing, held, alive, grants>>

Tick ==
    /\ now < MaxTime
    /\ now' = now + 1
    /\ UNCHANGED <<leases, counter, lock, renewing, held, alive, sweeping, grants>>

Next ==
    \/ \E j \in Jobs :
          \/ Acquire(j) \/ AcquireBlocked(j) \/ AcquireCrash(j)
          \/ RenewRead(j) \/ RenewWrite(j) \/ LeaseLost(j)
          \/ Release(j) \/ WorkerCrash(j)
    \/ \E o \in Observers : SweepRead(o) \/ SweepDelete(o)
    \/ Tick

Spec == Init /\ [][Next]_vars
=============================================================================
