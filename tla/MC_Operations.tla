---------------------------- MODULE MC_Operations ----------------------------
(***************************************************************************)
(* TLC instance of Operations.  A behaviour is one of one part, and the    *)
(* others stay as they began: nothing else can be seen of parts that share *)
(* no state.                                                               *)
(***************************************************************************)
EXTENDS Operations, TLC

CONSTANTS f1, f2, e1, e2, p1, p2, r1, r2, r3, t1, t2

MCAllowed == [s \in {e1, e2} |-> {f1}]
MCMaxRevision == (e1 :> 2) @@ (e2 :> 1)

(* Two requests of one process and a third of another.                     *)
MCProcessOf == (r1 :> p1) @@ (r2 :> p1) @@ (r3 :> p2)

Step(k, f) == [kind |-> k, file |-> f]

(* Two transactions that meet at the second file.                          *)
MCPlan == (t1 :> <<Step("block", f1), Step("create", f2)>>) @@ (t2 :> <<Step("install", f2)>>)

VARIABLE part

OneInit ==
    /\ part \in {"bridge", "edits", "checks", "adoption"}
    /\ OperationsInit
    /\ part # "bridge" => kind = "command"
    /\ tree = [f \in Files |-> Original]
    /\ part # "checks" => head = CHOOSE v \in Revisions : TRUE
    /\ part # "adoption" => files = [f \in Targets |-> {0}]

OneNext ==
    \/ part = "bridge" /\ BridgeMoves /\ UNCHANGED part
    \/ part = "edits" /\ EditsMove /\ UNCHANGED part
    \/ part = "checks" /\ ChecksMove /\ UNCHANGED part
    \/ part = "adoption" /\ AdoptionMoves /\ UNCHANGED part

(* Jobs are read, by a dashboard if by nobody else; the worker of a job    *)
(* goes on as long as it lives, and a run ends (AgentRuns!RunsSettle).     *)
OneFairness ==
    /\ WF_bridgeVars(part = "bridge" /\ Refresh)
    /\ WF_bridgeVars(part = "bridge" /\ WorkerOfJob)
    /\ WF_bridgeVars(part = "bridge" /\ RunMoves)

OneAtATime == OneInit /\ [][OneNext]_<<part, operationsVars>> /\ OneFairness
=============================================================================
