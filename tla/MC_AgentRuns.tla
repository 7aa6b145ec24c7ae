---------------------------- MODULE MC_AgentRuns ----------------------------
(***************************************************************************)
(* TLC instance of the agent runs of one task: a run and its retry.        *)
(***************************************************************************)
EXTENDS AgentRuns

Launching(r) == LaunchRecord(r) \/ LaunchIdle(r) \/ LaunchSpawn(r) \/ LaunchFails(r)

(* Processes that live go on, and somebody reads the run now and then: the *)
(* dashboard, a client that polls, or the next launch.                     *)
FairSpec ==
    /\ AgentSpec
    /\ \A r \in Runs :
          /\ WF_agentVars(Observe(r)) /\ WF_agentVars(WorkerSteps(r))
          /\ WF_agentVars(Launching(r)) /\ WF_agentVars(LauncherLeaves(r))
=============================================================================
