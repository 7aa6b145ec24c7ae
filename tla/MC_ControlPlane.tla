--------------------------- MODULE MC_ControlPlane ---------------------------
(***************************************************************************)
(* TLC instance of ControlPlane.  A behaviour is one of one part, and the  *)
(* others stay as they began: nothing else can be seen of parts that share *)
(* no state.                                                               *)
(***************************************************************************)
EXTENDS ControlPlane, TLC

CONSTANTS daemon, trigger

(* The trigger's windows are not the ones the daemon computes.             *)
MCKeysOf == (daemon :> {1}) @@ (trigger :> {2})

(* Two independent steps, and a third after the first.                     *)
MCDependsOn == (1 :> {}) @@ (2 :> {}) @@ (3 :> {1})

VARIABLE part

OneInit ==
    /\ part \in {"lock", "admission", "schedules", "portfolio"}
    /\ PlaneInit
    /\ part # "schedules" => ~schedule.shadow
    /\ part # "portfolio" => workflow.policy = "stop"

OneNext ==
    \/ part = "lock" /\ LockMoves /\ UNCHANGED part
    \/ part = "admission" /\ AdmissionMoves /\ UNCHANGED part
    \/ part = "schedules" /\ SchedulesMove /\ UNCHANGED part
    \/ part = "portfolio" /\ PortfolioMoves /\ UNCHANGED part

(* A process that lives goes on, a creation that is not cut off too, and   *)
(* clients try again until they are answered; the daemon ticks, and jobs   *)
(* end, if need be at their deadlines.                                     *)
OneFairness ==
    /\ \A p \in Procs : WF_vars(part = "lock" /\ Step(p))
    /\ WF_admissionVars(part = "admission" /\ CreationStep)
    /\ \A r \in Requests :
          SF_admissionVars(/\ part = "admission"
                           /\ \E k \in SemanticKeys : Deduplicate(r, k) \/ BeginCreation(r, k))
    /\ WF_portfolioVars(part = "portfolio" /\ Tick)
    /\ WF_portfolioVars(part = "portfolio" /\ OthersEnd)
    /\ WF_portfolioVars(part = "portfolio" /\ \E s \in Steps : JobEnds(s))

OneAtATime == OneInit /\ [][OneNext]_<<part, planeVars>> /\ OneFairness
=============================================================================
