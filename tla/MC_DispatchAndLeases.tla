------------------------- MODULE MC_DispatchAndLeases -------------------------
(***************************************************************************)
(* TLC instance of DispatchAndLeases.  A behaviour is one of either part,  *)
(* and the other stays as it began: nothing else can be seen of parts that *)
(* share no state.                                                         *)
(***************************************************************************)
EXTENDS DispatchAndLeases, MC_SchedulerDispatch, MC_LeaseStore

VARIABLE part

OneInit ==
    /\ part \in {"dispatch", "leases"}
    /\ BothInit
    /\ part = "leases" => ~pressured

OneNext ==
    \/ part = "dispatch" /\ DispatchMoves /\ UNCHANGED part
    \/ part = "leases" /\ LeasesMove /\ UNCHANGED part

OneAtATime == OneInit /\ [][OneNext]_<<part, bothVars>>
=============================================================================
