------------------------------ MODULE MC_Progress ------------------------------
(***************************************************************************)
(* TLC instance of what has to come about: that a submitted job is read by *)
(* a tick of some daemon, and that ticks dispatch whatever waits.  A       *)
(* behaviour is one of either part; SchedulerDispatch takes a scheduler    *)
(* that ticks again and again, which DaemonLifecycle shows there to be.    *)
(***************************************************************************)
EXTENDS MC_SchedulerDispatch, DaemonLifecycle

VARIABLE part

progressVars == <<part, dispatchVars, lifecycleVars>>

ProgressInit ==
    /\ part \in {"dispatch", "daemon"}
    /\ DispatchInit /\ LifecycleInit
    /\ part = "daemon" => ~pressured

ProgressNext ==
    \/ part = "dispatch" /\ DispatchNext /\ UNCHANGED <<part, lifecycleVars>>
    \/ part = "daemon" /\ LifecycleNext /\ UNCHANGED <<part, dispatchVars>>

ProgressFairness ==
    /\ \A s \in Schedulers : /\ WF_dispatchVars(part = "dispatch" /\ TickStart(s))
                             /\ WF_dispatchVars(part = "dispatch" /\ SkipRepo(s))
    /\ \A s \in Schedulers, r \in Repos : SF_dispatchVars(part = "dispatch" /\ VisitRepo(s, r))
    /\ \A j \in JobIds : /\ WF_dispatchVars(part = "dispatch" /\ Finish(j))
                         /\ WF_dispatchVars(part = "dispatch" /\ AgeUp(j))
    /\ \A c \in Clients : WF_lifecycleVars(part = "daemon" /\ ClientStep(c))
    /\ \A d \in Daemons : WF_lifecycleVars(part = "daemon" /\ DaemonStep(d))
    /\ WF_lifecycleVars(part = "daemon" /\ GraceEnds)
    /\ WF_lifecycleVars(part = "daemon" /\ HeartbeatFades)

ProgressSpec == ProgressInit /\ [][ProgressNext]_progressVars /\ ProgressFairness
=============================================================================
