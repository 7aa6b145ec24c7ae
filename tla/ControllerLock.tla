--------------------------- MODULE ControllerLock ---------------------------
(***************************************************************************)
(* The lock file behind every short transaction on the controller home:    *)
(* readControllerLock, acquireControllerLock, releaseControllerLock and    *)
(* withControllerLock of cli/repositories/locks.ts, for one lock file and  *)
(* several operating system processes, each of which runs one transaction  *)
(* after another.  Every call of the file system is a step of its own.     *)
(*                                                                         *)
(* A lock file is created exclusively, then written through its            *)
(* descriptor.  Whoever finds a record that is past its lifetime, or whose *)
(* process is gone, removes the path, whatever is there by then.  A        *)
(* restarted process has a new pid and is another member of Procs.         *)
(***************************************************************************)
EXTENDS FiniteSets, Naturals

CONSTANTS
    Procs,
    MaxDeaths,      \* bound: processes that may die
    Overruns,       \* whether a lock may outlive its ttl
    TornDeaths      \* whether a process may die between creating and writing the file

ASSUME LockAssumption ==
    /\ IsFiniteSet(Procs)
    /\ MaxDeaths \in Nat
    /\ Overruns \in BOOLEAN /\ TornDeaths \in BOOLEAN

Stages == {"idle", "reap", "open", "refused", "write", "inside", "unlink", "reapOut", "dead"}

VARIABLES
    file,           \* the lock file: Absent, or a record [owner, written, late]
    pc,             \* the next step of each process
    overran         \* whether a lock has outlived its ttl

vars == <<file, pc, overran>>

Absent == [owner |-> "nobody"]
LockFile(p, written) == [owner |-> p, written |-> written, late |-> FALSE]

Dead(p) == pc[p] = "dead"
Deaths == {p \in Procs : Dead(p)}

(* A file that is not written yet does not parse: it counts as no lock.    *)
Record == file # Absent /\ file.written
StaleByTime == Record /\ file.late                            \* faulty: a dead owner's lock stays
Stale == Record /\ (file.late \/ Dead(file.owner))

Goto(p, stage) == pc' = [pc EXCEPT ![p] = stage]

-----------------------------------------------------------------------------
(* acquireControllerLock                                                   *)

(* A live record ends the attempt with LOCK_HELD: nothing has changed.     *)
Look(p) ==
    /\ pc[p] = "idle"
    /\ Record => Stale
    /\ Goto(p, IF Stale THEN "reap" ELSE "open")
    /\ UNCHANGED <<file, overran>>

Reap(p) ==
    /\ pc[p] \in {"reap", "refused", "reapOut"}
    /\ file' = Absent
    /\ Goto(p, IF pc[p] = "reap" THEN "open" ELSE "idle")
    /\ UNCHANGED overran

CreateOver(p) ==                     \* faulty: opened with "w"
    /\ pc[p] = "open"
    /\ file' = LockFile(p, FALSE)
    /\ Goto(p, "write")
    /\ UNCHANGED overran
Create(p) ==
    /\ pc[p] = "open"
    /\ file = Absent
    /\ file' = LockFile(p, FALSE)
    /\ Goto(p, "write")
    /\ UNCHANGED overran

(* The file exists by now: the record is read once more for the message.   *)
Refused(p) ==
    /\ pc[p] = "open"
    /\ file # Absent
    /\ Goto(p, IF Stale THEN "refused" ELSE "idle")
    /\ UNCHANGED <<file, overran>>

(* The descriptor may belong to a file that was removed from the path.     *)
Write(p) ==
    /\ pc[p] = "write"
    /\ file' = IF file = LockFile(p, FALSE) THEN LockFile(p, TRUE) ELSE file
    /\ Goto(p, "inside")
    /\ UNCHANGED overran

-----------------------------------------------------------------------------
(* releaseControllerLock, when the operation has returned or thrown.  A    *)
(* record of somebody else is left alone (LOCK_OWNERSHIP_MISMATCH).        *)
Leave(p) ==
    /\ pc[p] = "inside"
    /\ Goto(p, IF Stale THEN "reapOut"
               ELSE IF Record /\ file.owner = p THEN "unlink"
               ELSE "idle")
    /\ UNCHANGED <<file, overran>>

Unlink(p) ==
    /\ pc[p] = "unlink"
    /\ file' = Absent
    /\ Goto(p, "idle")
    /\ UNCHANGED overran

-----------------------------------------------------------------------------
ExpireUnwritten ==                   \* faulty: an empty file has no lifetime
    /\ Overruns /\ file # Absent /\ ~file.late
    /\ file' = [file EXCEPT !.late = TRUE]
    /\ overran' = TRUE
    /\ UNCHANGED pc
Expire ==
    /\ Overruns /\ Record /\ ~file.late
    /\ file' = [file EXCEPT !.late = TRUE]
    /\ overran' = TRUE
    /\ UNCHANGED pc

Die(p) ==
    /\ pc[p] # "dead"
    /\ Cardinality(Deaths) < MaxDeaths
    /\ pc[p] = "write" => TornDeaths
    /\ Goto(p, "dead")
    /\ UNCHANGED <<file, overran>>

Init ==
    /\ file = Absent
    /\ pc = [p \in Procs |-> "idle"]
    /\ overran = FALSE

Step(p) == Look(p) \/ Reap(p) \/ Create(p) \/ Refused(p) \/ Write(p) \/ Leave(p) \/ Unlink(p)

Next == Expire \/ \E p \in Procs : Step(p) \/ Die(p)

Spec == Init /\ [][Next]_vars

(* A process that lives goes on, and tries again when the lock was held:   *)
(* the daemon's loop and the workers' timers do.                           *)
FairSpec == Spec /\ \A p \in Procs : WF_vars(Step(p))

-----------------------------------------------------------------------------
Inside == {p \in Procs : pc[p] = "inside"}
Broken == overran \/ Deaths # {}

(* Every variable has its type; only a written record has a lifetime.      *)
TypeOK ==
    /\ file = Absent \/ /\ file \in [owner : Procs, written : BOOLEAN, late : BOOLEAN]
                        /\ file.late => file.written
    /\ pc \in [Procs -> Stages]
    /\ overran \in BOOLEAN

(* The lock keeps its promise: until a process dies or overruns, at most   *)
(* one transaction runs (withControllerLock, locks.ts:113).                *)
Abstract == INSTANCE ShortLock WITH holders <- Inside, broken <- Broken
KeepsPromise == Abstract!Spec

(* One transaction at a time, also after a lock was found stale.           *)
MutualExclusion == \A p, q \in Inside : p = q

(* A lock file is never left over: it is being written, somebody will      *)
(* remove it, or its owner is dead and whoever looks next finds it stale.  *)
(* Not so where a process dies before it has written the file.             *)
NoFileIsLeftOver ==
    file # Absent =>
        pc[file.owner] \in IF file.written THEN {"inside", "unlink", "reapOut", "dead"} ELSE {"write"}

(* A lock that was taken, by a process that may have died since, does not  *)
(* stay in the way: a transaction runs again (readControllerLock,          *)
(* locks.ts:63).                                                           *)
LockReturns == (file # Absent) ~> (Inside # {})
=============================================================================
