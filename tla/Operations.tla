----------------------------- MODULE Operations -----------------------------
(***************************************************************************)
(* The operations that change a repository or its jobs from outside the    *)
(* scheduler, side by side: Local Bridge jobs, edit sessions, checks and   *)
(* adoption transactions.  Each has its own files and processes, so that a *)
(* step of one leaves the state of the others alone.                       *)
(***************************************************************************)
EXTENDS LocalBridgeJobs, EditSessions, CheckRunner, AdoptionTransactions

operationsVars == <<bridgeVars, editVars, checkVars, adoptionVars>>

OperationsInit == BridgeInit /\ EditInit /\ CheckInit /\ AdoptionInit

BridgeMoves   == BridgeNext /\ UNCHANGED <<editVars, checkVars, adoptionVars>>
EditsMove     == EditNext /\ UNCHANGED <<bridgeVars, checkVars, adoptionVars>>
ChecksMove    == CheckNext /\ UNCHANGED <<bridgeVars, editVars, adoptionVars>>
AdoptionMoves == AdoptionNext /\ UNCHANGED <<bridgeVars, editVars, checkVars>>

OperationsNext == BridgeMoves \/ EditsMove \/ ChecksMove \/ AdoptionMoves

OperationsSpec == OperationsInit /\ [][OperationsNext]_operationsVars

(* Every variable of every part has its type.                              *)
OperationsTypeOK == BridgeTypeOK /\ EditTypeOK /\ CheckTypeOK /\ AdoptionTypeOK
=============================================================================
