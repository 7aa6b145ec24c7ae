------------------------ MODULE MC_SchedulerDispatch ------------------------
(***************************************************************************)
(* Instances of SchedulerDispatch for TLC.                                 *)
(***************************************************************************)
EXTENDS SchedulerProperties

CONSTANTS r1, r2, urgent, patient, child, check

Job(repo, kind, priority, depends, wants) ==
    [repo |-> repo, kind |-> kind, provider |-> "codex", priority |-> priority,
     depends |-> depends, claims |-> wants, isolatable |-> FALSE, worktree |-> "task"]
Workspace(mode) == Claim(Key("workspace", <<"main">>), mode)
Content(mode) == Claim(Key("repo-content", <<>>), mode)

(* One repository whose urgent job comes back again and again; a patient   *)
(* one that it excludes; a job that may move to a worktree and depends on  *)
(* the patient one; and a second repository.                               *)
MCDeclared ==
    urgent  :> Job(r1, "other", 0, <<>>, <<Workspace("write"), Workspace("read")>>) @@
    patient :> Job(r1, "other", 1, <<>>, <<Content("read")>>) @@
    child   :> [Job(r1, "other", 0, <<patient>>, <<Workspace("write")>>) EXCEPT !.isolatable = TRUE] @@
    check   :> Job(r2, "check", 1, <<>>, <<>>)

(* The same jobs, first come first served.                                 *)
MCEqualPriority == [j \in DOMAIN MCDeclared |-> [MCDeclared[j] EXCEPT !.priority = 0]]

MCLimits == [workers |-> 2, repos |-> 1, perRepo |-> 2, heavy |-> 1, agents |-> 1,
             providers |-> "codex" :> 1]

(* A check is running in r2 while r1 waits with a job in front of another  *)
(* check, a job that has to wait for the first one to succeed.             *)
MCQuotaDeclared ==
    check   :> Job(r2, "check", 0, <<>>, <<>>) @@
    child   :> Job(r1, "other", 0, <<check>>, <<>>) @@
    patient :> Job(r1, "check", 0, <<>>, <<>>)

MCQuotaLimits == [MCLimits EXCEPT !.repos = 2]
=============================================================================
