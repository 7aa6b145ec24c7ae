--------------------------- MODULE DaemonLifecycle ---------------------------
(***************************************************************************)
(* The daemon of one controller home: ensureControllerDaemon, which every  *)
(* gateway call makes (control-plane/daemon-client.ts); the daemon process *)
(* (daemon-entry.ts) and the loop of its scheduler; the wake signal that a *)
(* job's creation touches and the loop waits for (wake-signal.ts).         *)
(*                                                                         *)
(* A daemon is known by two files, its state and its pid, that clients and *)
(* daemons write, the latter without a lock; and it is taken for hung when *)
(* the scheduler's state, one file for all daemons, has no recent tick.    *)
(* One tick is one step: it dispatches what is in the index as it reads    *)
(* it.  A process that cannot be spawned is left out, and so are pids that *)
(* the system uses again.                                                  *)
(***************************************************************************)
EXTENDS Naturals

CONSTANTS Clients,      \* gateway processes
          Submitters,   \* those that submit a job, once
          MaxDaemons,   \* bound: daemon processes ever spawned
          MaxMishaps    \* bound: deaths, signals, ticks longer than 5 s, and
                        \* updates of other jobs, which touch the signal too

ASSUME LifecycleAssumption ==
    /\ Submitters \subseteq Clients
    /\ MaxDaemons \in Nat \ {0} /\ MaxMishaps \in Nat

Daemons == 1..MaxDaemons
NoPid == 0

VARIABLES state,        \* daemon/state.json; young: ready for less than the startup grace
          pidFile,      \* daemon/controller.pid, or NoPid
          fresh,        \* the scheduler's last recorded tick is at most 5 s old
          daemon,       \* what each daemon process does
          expects,      \* the revision each daemon read before it waited
          aborted,      \* daemons that were signalled
          revision,     \* of the wake signal
          caller,       \* what each client does
          noted,        \* the revision or the pid it read
          update,       \* the revision an update of another job will write, or 0
          submitted, seen, mishaps

lifecycleVars == <<state, pidFile, fresh, daemon, expects, aborted, revision,
                   caller, noted, update, submitted, seen, mishaps>>

Looping == {"tick", "read", "wait"}

LifecycleTypeOK ==
    /\ state \in [status : {"unavailable", "starting", "ready", "stopped"},
                  pid : Daemons \cup {NoPid}, young : BOOLEAN]
    /\ pidFile \in Daemons \cup {NoPid} /\ fresh \in BOOLEAN
    /\ daemon \in [Daemons -> {"none", "boot", "ready", "stop", "leave", "gone"} \cup Looping]
    /\ expects \in [Daemons -> Nat] /\ aborted \subseteq Daemons /\ revision \in Nat
    /\ caller \in [Clients -> {"idle", "touch", "clean", "ensure", "record"}]
    /\ noted \in [Clients -> Nat] /\ update \in Nat
    /\ seen \subseteq submitted /\ submitted \subseteq Submitters
    /\ mishaps \in 0..MaxMishaps

LifecycleInit ==
    /\ state = [status |-> "unavailable", pid |-> NoPid, young |-> FALSE]
    /\ pidFile = NoPid /\ fresh = FALSE
    /\ daemon = [d \in Daemons |-> "none"] /\ expects = [d \in Daemons |-> 0]
    /\ aborted = {} /\ revision = 0
    /\ caller = [c \in Clients |-> "idle"] /\ noted = [c \in Clients |-> 0]
    /\ update = 0 /\ submitted = {} /\ seen = {} /\ mishaps = 0

Alive(pid) == pid # NoPid /\ daemon[pid] \notin {"none", "gone"}

(* readControllerDaemonStatus, and whether a caller is content with it.    *)
KnownPid == IF pidFile # NoPid THEN pidFile ELSE state.pid
HealthyByPid == state.status \in {"starting", "ready"} /\ Alive(KnownPid)      \* faulty
Healthy ==
    /\ state.status \in {"starting", "ready"} /\ Alive(KnownPid)
    /\ state.status = "ready" => fresh \/ state.young

(* cleanupDaemonPidFile and updateDaemonStateForStalePid, for a pid that   *)
(* was found dead.                                                         *)
WithoutPid(pid) ==
    IF state.status \in {"starting", "ready"} /\ state.pid \in {pid, NoPid}
    THEN [state EXCEPT !.status = "stopped"] ELSE state

---------------------------------------------------------------------------
(* Clients.  The global lock covers a creation with its touch, and the     *)
(* decision to spawn with the record of it.                                *)

GlobalLockFree == \A c \in Clients : caller[c] \notin {"touch", "record"}
Goes(c, at, value) == caller' = [caller EXCEPT ![c] = at] /\ noted' = [noted EXCEPT ![c] = value]

SubmitJob(c) ==
    /\ caller[c] = "idle" /\ GlobalLockFree /\ c \in Submitters \ submitted
    /\ submitted' = submitted \cup {c}
    /\ Goes(c, "touch", revision)
    /\ UNCHANGED <<state, pidFile, fresh, daemon, expects, aborted, revision, update, seen, mishaps>>

Touch(c) ==
    /\ caller[c] = "touch"
    /\ revision' = noted[c] + 1
    /\ Goes(c, "idle", 0)
    /\ UNCHANGED <<state, pidFile, fresh, daemon, expects, aborted, update, submitted, seen, mishaps>>

(* The cleanup before the lock: the pid file is judged, then removed.      *)
CallEnsure(c) ==
    /\ caller[c] = "idle"
    /\ Goes(c, "clean", IF Alive(pidFile) THEN NoPid ELSE pidFile)
    /\ UNCHANGED <<state, pidFile, fresh, daemon, expects, aborted, revision, update,
                   submitted, seen, mishaps>>

Cleanup(c) ==
    /\ caller[c] = "clean"
    /\ IF noted[c] = NoPid THEN UNCHANGED <<state, pidFile>>
       ELSE pidFile' = NoPid /\ state' = WithoutPid(noted[c])
    /\ Goes(c, "ensure", 0)
    /\ UNCHANGED <<fresh, daemon, expects, aborted, revision, update, submitted, seen, mishaps>>

Ensure(c) ==
    /\ caller[c] = "ensure" /\ GlobalLockFree
    /\ IF Healthy THEN Goes(c, "idle", 0) /\ UNCHANGED daemon
       ELSE \E d \in Daemons :
               /\ daemon[d] = "none" /\ \A e \in 1..d-1 : daemon[e] # "none"
               /\ daemon' = [daemon EXCEPT ![d] = "boot"]
               /\ Goes(c, "record", d)
    /\ UNCHANGED <<state, pidFile, fresh, expects, aborted, revision, update, submitted, seen, mishaps>>

(* The daemon it spawned may have booted by now.                           *)
RecordSpawn(c) ==
    /\ caller[c] = "record"
    /\ state' = [status |-> "starting", pid |-> noted[c], young |-> FALSE]
    /\ pidFile' = noted[c]
    /\ Goes(c, "idle", 0)
    /\ UNCHANGED <<fresh, daemon, expects, aborted, revision, update, submitted, seen, mishaps>>

---------------------------------------------------------------------------
(* The daemon process.                                                     *)

DaemonGoes(d, at) == daemon' = [daemon EXCEPT ![d] = at]

WriteReady(d) ==
    /\ daemon[d] = "boot"
    /\ state' = [status |-> "ready", pid |-> d, young |-> TRUE]
    /\ DaemonGoes(d, "ready")
    /\ UNCHANGED <<pidFile, fresh, expects, aborted, revision, caller, noted, update,
                   submitted, seen, mishaps>>

StartLoop(d) ==
    /\ daemon[d] = "ready"
    /\ pidFile' = d /\ fresh' = TRUE
    /\ DaemonGoes(d, "tick")
    /\ UNCHANGED <<state, expects, aborted, revision, caller, noted, update, submitted, seen, mishaps>>

(* Every few minutes a tick cleans up first.                               *)
Tick(d) ==
    /\ daemon[d] = "tick"
    /\ seen' = submitted /\ fresh' = TRUE
    /\ \/ pidFile \notin {NoPid, d} /\ ~Alive(pidFile) /\ pidFile' = NoPid /\ state' = WithoutPid(pidFile)
       \/ UNCHANGED <<pidFile, state>>
    /\ DaemonGoes(d, "read")
    /\ UNCHANGED <<expects, aborted, revision, caller, noted, update, submitted, mishaps>>

ReadSignal(d) ==
    /\ daemon[d] = "read"
    /\ expects' = [expects EXCEPT ![d] = revision]
    /\ DaemonGoes(d, "wait")
    /\ UNCHANGED <<state, pidFile, fresh, aborted, revision, caller, noted, update,
                   submitted, seen, mishaps>>

WokenOnly(d) == revision # expects[d]                                      \* faulty
(* The signal has moved, or else the poll interval ends.                   *)
WaitIsOver(d) == TRUE

WaitEnds(d) ==
    /\ daemon[d] = "wait" /\ WaitIsOver(d)
    /\ DaemonGoes(d, IF d \in aborted THEN "stop" ELSE "tick")
    /\ expects' = [expects EXCEPT ![d] = 0]
    /\ UNCHANGED <<state, pidFile, fresh, aborted, revision, caller, noted, update,
                   submitted, seen, mishaps>>

RemovePid(d) ==
    /\ daemon[d] = "stop"
    /\ pidFile' = NoPid
    /\ DaemonGoes(d, "leave")
    /\ UNCHANGED <<state, fresh, expects, aborted, revision, caller, noted, update,
                   submitted, seen, mishaps>>

WriteStopped(d) ==
    /\ daemon[d] = "leave"
    /\ state' = [status |-> "stopped", pid |-> d, young |-> FALSE]
    /\ DaemonGoes(d, "gone")
    /\ UNCHANGED <<pidFile, fresh, expects, aborted, revision, caller, noted, update,
                   submitted, seen, mishaps>>

---------------------------------------------------------------------------
(* The rest of the world.                                                  *)

(* Other jobs and leases change, under locks of their own.                 *)
UpdateReads ==
    /\ mishaps < MaxMishaps /\ mishaps' = mishaps + 1
    /\ update = 0 /\ update' = revision + 1
    /\ UNCHANGED <<state, pidFile, fresh, daemon, expects, aborted, revision, caller, noted,
                   submitted, seen>>

UpdateTouches ==
    /\ update # 0
    /\ revision' = update /\ update' = 0
    /\ UNCHANGED <<state, pidFile, fresh, daemon, expects, aborted, caller, noted,
                   submitted, seen, mishaps>>

GraceEnds ==
    /\ state.young
    /\ state' = [state EXCEPT !.young = FALSE]
    /\ UNCHANGED <<pidFile, fresh, daemon, expects, aborted, revision, caller, noted, update,
                   submitted, seen, mishaps>>

(* No tick is recorded for 5 s: nobody's loop runs, or a tick takes longer.*)
HeartbeatFades ==
    /\ fresh /\ fresh' = FALSE
    /\ \A d \in Daemons : daemon[d] \notin {"read", "wait"}
    /\ IF \E d \in Daemons : daemon[d] = "tick"
       THEN mishaps < MaxMishaps /\ mishaps' = mishaps + 1 ELSE UNCHANGED mishaps
    /\ UNCHANGED <<state, pidFile, daemon, expects, aborted, revision, caller, noted, update,
                   submitted, seen>>

Signal(d) ==
    /\ mishaps < MaxMishaps /\ mishaps' = mishaps + 1
    /\ daemon[d] \in Looping /\ d \notin aborted
    /\ aborted' = aborted \cup {d}
    /\ UNCHANGED <<state, pidFile, fresh, daemon, expects, revision, caller, noted, update,
                   submitted, seen>>

Die(d) ==
    /\ mishaps < MaxMishaps /\ mishaps' = mishaps + 1
    /\ Alive(d) /\ DaemonGoes(d, "gone")
    /\ UNCHANGED <<state, pidFile, fresh, expects, aborted, revision, caller, noted, update,
                   submitted, seen>>

---------------------------------------------------------------------------
ClientStep(c) == Touch(c) \/ CallEnsure(c) \/ Cleanup(c) \/ Ensure(c) \/ RecordSpawn(c)
DaemonStep(d) ==
    WriteReady(d) \/ StartLoop(d) \/ Tick(d) \/ ReadSignal(d) \/ WaitEnds(d) \/ RemovePid(d) \/ WriteStopped(d)

LifecycleNext ==
    \/ \E c \in Clients : SubmitJob(c) \/ ClientStep(c)
    \/ \E d \in Daemons : DaemonStep(d) \/ Signal(d) \/ Die(d)
    \/ UpdateReads \/ UpdateTouches \/ GraceEnds \/ HeartbeatFades

(* A process goes on, the poll interval ends a wait, clients call again    *)
(* and again, and time passes.                                             *)
LifecycleFairness ==
    /\ \A c \in Clients : WF_lifecycleVars(ClientStep(c))
    /\ \A d \in Daemons : WF_lifecycleVars(DaemonStep(d))
    /\ WF_lifecycleVars(GraceEnds) /\ WF_lifecycleVars(HeartbeatFades)

LifecycleSpec == LifecycleInit /\ [][LifecycleNext]_lifecycleVars /\ LifecycleFairness

(* A submitted job is read by a tick in the end, whatever the client read  *)
(* about the daemon, whichever daemon overwrites the files of another, and *)
(* although touches of the signal are lost (daemon-client.ts:60,           *)
(* daemon-entry.ts:36, wake-signal.ts:25).                                 *)
SubmissionsAreSeen == \A c \in Submitters : c \in submitted ~> c \in seen

(* A daemon that is up is seen to be up: it records a tick within its      *)
(* startup grace, and every 5 s from then on.                              *)
KeepsUp == Alive(KnownPid) /\ state.status = "ready" => fresh \/ state.young

(* No two daemons run.  Not so where one that is slow is taken for hung.   *)
OneDaemon == \A d, e \in Daemons : Alive(d) /\ Alive(e) => d = e
=============================================================================
