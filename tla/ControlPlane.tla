---------------------------- MODULE ControlPlane ----------------------------
(***************************************************************************)
(* What the control plane keeps beside running jobs, side by side: the     *)
(* controller lock, the job admission it protects, schedules and           *)
(* portfolios.  JobAdmission takes the lock as ControllerLock shows it to  *)
(* be, and a schedule and a portfolio have no state in common, so that a   *)
(* step of one part leaves the state of the others alone.                  *)
(***************************************************************************)
EXTENDS ControllerLock, JobAdmission, ScheduleEngine, Portfolio

planeVars == <<vars, admissionVars, scheduleVars, portfolioVars>>

PlaneInit == Init /\ AdmissionInit /\ ScheduleInit /\ PortfolioInit

LockMoves      == Next /\ UNCHANGED <<admissionVars, scheduleVars, portfolioVars>>
AdmissionMoves == AdmissionNext /\ UNCHANGED <<vars, scheduleVars, portfolioVars>>
SchedulesMove  == ScheduleNext /\ UNCHANGED <<vars, admissionVars, portfolioVars>>
PortfolioMoves == PortfolioNext /\ UNCHANGED <<vars, admissionVars, scheduleVars>>

PlaneNext == LockMoves \/ AdmissionMoves \/ SchedulesMove \/ PortfolioMoves

PlaneSpec == PlaneInit /\ [][PlaneNext]_planeVars

(* Every variable of every part has its type.                              *)
AllTypeOK == TypeOK /\ AdmissionTypeOK /\ ScheduleTypeOK /\ PortfolioTypeOK
=============================================================================
