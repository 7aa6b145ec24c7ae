-------------------------- MODULE DispatchAndLeases --------------------------
(***************************************************************************)
(* The dispatch of jobs and the store of the leases it ends in, side by    *)
(* side: SchedulerDispatch takes the leases of a job at once and as a      *)
(* whole, which is what LeaseStore shows them to be, and a step of either  *)
(* leaves the state of the other alone.                                    *)
(***************************************************************************)
EXTENDS SchedulerProperties, LeaseProperties

bothVars == <<dispatchVars, vars>>

BothInit == DispatchInit /\ Init

DispatchMoves == DispatchNext /\ UNCHANGED vars
LeasesMove    == Next /\ UNCHANGED dispatchVars

BothNext == DispatchMoves \/ LeasesMove

BothSpec == BothInit /\ [][BothNext]_bothVars

(* Every variable of either part has its type.                             *)
BothTypeOK == DispatchTypeOK /\ TypeOK
=============================================================================
