---------------------------- MODULE WorkflowProofs ----------------------------
(***************************************************************************)
(* Proofs about what the daemon makes jobs from: portfolio workflows       *)
(* (Portfolio), for any steps, dependencies, compensations and number of   *)
(* daemon deaths, and schedules (ScheduleEngine), for any windows, limits  *)
(* and deaths.                                                             *)
(***************************************************************************)
EXTENDS ControlPlane, StoreProofs

(* What the record of a workflow, or the draft of a tick, says of a step   *)
(* is true of the jobs of the step and of its compensation.                *)
StepsAreTrue(steps, jobs, undos) ==
    \A s \in Steps :
       /\ steps[s].job => jobs[s] # "none"
       /\ steps[s].undo => jobs[s] = "succeeded" /\ undos[s] # "none"
       /\ steps[s].status \in {"succeeded", "compensating", "compensated"} => jobs[s] = "succeeded"
       /\ steps[s].status = "failed" => "failed" \in {jobs[s], undos[s]}

VerdictHolds(verdict, jobs, undos) ==
    /\ verdict = "succeeded" => \A s \in Steps : jobs[s] = "succeeded"
    /\ verdict = "failed" => \E s \in Steps : "failed" \in {jobs[s], undos[s]}

SomeFailed(jobs) == \E f \in Steps : jobs[f] = "failed"

DraftIsTrue ==
    draft.at # "none" =>
       /\ StepsAreTrue(draft.steps, stepJob, undoJob)
       /\ VerdictHolds(draft.status, stepJob, undoJob)
       /\ draft.at = "undoing" => SomeFailed(stepJob)

PortfolioInv ==
    /\ PortfolioTypeOK
    /\ StepsAreTrue(workflow.steps, stepJob, undoJob)
    /\ VerdictHolds(workflow.status, stepJob, undoJob)
    /\ DraftIsTrue /\ DependenciesDone /\ UndoesOnlyDone

-----------------------------------------------------------------------------
(* A job that has ended stays so, and one that exists goes on to exist.    *)
GoesOn(jobs, next) ==
    \A s \in Steps : /\ jobs[s] \in {"succeeded", "failed"} => next[s] = jobs[s]
                     /\ jobs[s] # "none" => next[s] # "none"

LEMMA TruthLasts ==
    ASSUME NEW steps, NEW verdict, NEW jobs, NEW undos, NEW jobs2, NEW undos2,
           GoesOn(jobs, jobs2), GoesOn(undos, undos2)
    PROVE  /\ StepsAreTrue(steps, jobs, undos) => StepsAreTrue(steps, jobs2, undos2)
           /\ VerdictHolds(verdict, jobs, undos) => VerdictHolds(verdict, jobs2, undos2)
           /\ SomeFailed(jobs) => SomeFailed(jobs2)
BY DEF GoesOn, StepsAreTrue, VerdictHolds, SomeFailed

(* Nothing an action does to the jobs makes a true statement false.        *)
LEMMA JobsGoOn ==
    ASSUME PortfolioTypeOK, PortfolioNext
    PROVE  GoesOn(stepJob, stepJob') /\ GoesOn(undoJob, undoJob')
<1>1. CASE QueueStep
  BY <1>1 DEF QueueStep, Requested, GoesOn, PortfolioTypeOK, Ready, HasStatus
<1>2. CASE BeginCompensation
  BY <1>2
     DEF BeginCompensation, Requested, GoesOn, PortfolioTypeOK, ToUndo, Undoable, HasStatus
<1>3. ASSUME NEW s \in Steps, StepJobAdvances(s) PROVE GoesOn(stepJob, stepJob') /\ GoesOn(undoJob, undoJob')
  BY <1>3 DEF StepJobAdvances, Advances, GoesOn, PortfolioTypeOK
<1>4. ASSUME NEW s \in Steps, UndoJobAdvances(s) PROVE GoesOn(stepJob, stepJob') /\ GoesOn(undoJob, undoJob')
  BY <1>4 DEF UndoJobAdvances, Advances, GoesOn, PortfolioTypeOK
<1>5. CASE CreateWorkflow \/ TickBegin \/ Save \/ DaemonDies \/ OthersEnd
  BY <1>5 DEF CreateWorkflow, TickBegin, Save, DaemonDies, OthersEnd, GoesOn
<1>. QED
  BY <1>1, <1>2, <1>3, <1>4, <1>5 DEF PortfolioNext

(* What a tick makes of a record by its jobs is true, and of its type.     *)
LEMMA SynchronizedIsTrue ==
    ASSUME PortfolioInv
    PROVE  /\ Synchronized \in [Steps -> StepRecord]
           /\ StepsAreTrue(Synchronized, stepJob, undoJob)
<1>1. workflow.steps \in [Steps -> StepRecord]
  BY DEF PortfolioInv, PortfolioTypeOK
<1>2. ASSUME NEW s \in Steps
      PROVE /\ FromJob(workflow.steps[s].status, stepJob[s]) \in StepStates
            /\ FromUndo(FromJob(workflow.steps[s].status, stepJob[s]), undoJob[s]) \in StepStates
            /\ FromUndo(workflow.steps[s].status, undoJob[s]) \in StepStates
  BY <1>1, <1>2 DEF FromJob, FromUndo, StepRecord, StepStates
<1>3. Synchronized \in [Steps -> StepRecord]
  BY <1>1, <1>2 DEF Synchronized, StepRecord
<1>4. ASSUME NEW s \in Steps
      PROVE  LET x == Synchronized[s] IN
             /\ x.job => stepJob[s] # "none"
             /\ x.undo => stepJob[s] = "succeeded" /\ undoJob[s] # "none"
             /\ x.status \in {"succeeded", "compensating", "compensated"} => stepJob[s] = "succeeded"
             /\ x.status = "failed" => "failed" \in {stepJob[s], undoJob[s]}
  <2>. DEFINE w == workflow.steps[s]
              forward == IF w.job THEN FromJob(w.status, stepJob[s]) ELSE w.status
  <2>1. w \in StepRecord
    BY <1>1
  <2>2. Synchronized[s] = [w EXCEPT !.status = IF w.undo THEN FromUndo(forward, undoJob[s]) ELSE forward]
    BY DEF Synchronized
  <2>3. /\ w.job => stepJob[s] # "none"
        /\ w.undo => stepJob[s] = "succeeded" /\ undoJob[s] # "none"
        /\ w.status \in {"succeeded", "compensating", "compensated"} => stepJob[s] = "succeeded"
        /\ w.status = "failed" => "failed" \in {stepJob[s], undoJob[s]}
    BY DEF PortfolioInv, StepsAreTrue
  <2>4. /\ forward \in {"succeeded", "compensating", "compensated"} => stepJob[s] = "succeeded"
        /\ forward = "failed" => "failed" \in {stepJob[s], undoJob[s]}
    BY <2>1, <2>3 DEF FromJob, StepRecord
  <2>5. w.undo => /\ FromUndo(forward, undoJob[s]) \in {"succeeded", "compensating", "compensated"} => stepJob[s] = "succeeded"
                  /\ FromUndo(forward, undoJob[s]) = "failed" => "failed" \in {stepJob[s], undoJob[s]}
    BY <2>3, <2>4 DEF FromUndo
  <2>6. /\ Synchronized[s].job = w.job /\ Synchronized[s].undo = w.undo
        /\ Synchronized[s].status = IF w.undo THEN FromUndo(forward, undoJob[s]) ELSE forward
    BY <2>1, <2>2 DEF StepRecord
  <2>. HIDE DEF w, forward
  <2>. QED
    BY <2>3, <2>4, <2>5, <2>6
<1>. QED
  BY <1>3, <1>4 DEF StepsAreTrue

-----------------------------------------------------------------------------
(* What a tick writes of a step it queues, and of one it begins to undo.   *)
LEMMA StepWritten ==
    ASSUME NEW x \in StepRecord
    PROVE  LET queued == [x EXCEPT !.status = "queued", !.job = TRUE]
               undone == [x EXCEPT !.status = "compensating", !.undo = TRUE]
           IN /\ queued \in StepRecord /\ undone \in StepRecord
              /\ queued.status = "queued" /\ queued.job /\ queued.undo = x.undo
              /\ undone.status = "compensating" /\ undone.job = x.job /\ undone.undo
BY DEF StepRecord, StepStates

(* The types, action by action.                                            *)
WorkflowStatus == {"absent", "active", "compensating", "succeeded", "compensated", "failed"}
Draft == [at : {"none", "queueing", "undoing", "saving"}, status : WorkflowStatus, steps : [Steps -> StepRecord]]

LEMMA TypesKept ==
    ASSUME PortfolioInv, [PortfolioNext]_portfolioVars
    PROVE  PortfolioTypeOK'
<1>. USE DEF PortfolioTypeOK, WorkflowStatus
<1>0. PortfolioTypeOK /\ PortfolioAssumption
  BY PortfolioAssumption DEF PortfolioInv, PortfolioAssumption
<1>1. CASE CreateWorkflow
  <2>1. workflow' \in [status : WorkflowStatus, policy : {"stop", "compensate"}, steps : [Steps -> StepRecord]]
    BY <1>0, <1>1 DEF CreateWorkflow
  <2>2. daemonDeaths' \in 0..MaxDaemonDeaths
    BY <1>0, <1>1 DEF CreateWorkflow, PortfolioAssumption
  <2>. QED
    BY <1>0, <1>1, <2>1, <2>2 DEF CreateWorkflow
<1>2. CASE TickBegin
  <2>1. Synchronized \in [Steps -> StepRecord]
    BY SynchronizedIsTrue
  <2>2. draft' \in Draft
    BY <1>0, <1>2, <2>1 DEF TickBegin, Draft
  <2>. QED
    BY <1>0, <1>2, <2>2 DEF TickBegin, Draft
<1>3. CASE QueueStep
  <2>1. PICK s \in Ready : /\ stepJob' = Requested(stepJob, s)
                           /\ draft' = [draft EXCEPT !.steps[s] =
                                           [draft.steps[s] EXCEPT !.status = "queued", !.job = TRUE]]
    BY <1>3 DEF QueueStep
  <2>2. s \in Steps
    BY DEF Ready, HasStatus
  <2>3. [draft.steps[s] EXCEPT !.status = "queued", !.job = TRUE] \in StepRecord
    BY <1>0, <2>2, StepWritten
  <2>4. draft' \in Draft
    BY <1>0, <2>1, <2>2, <2>3 DEF Draft
  <2>5. stepJob' \in [Steps -> JobStates]
    BY <1>0, <2>1, <2>2 DEF Requested, JobStates
  <2>. QED
    BY <1>0, <1>3, <2>4, <2>5 DEF QueueStep, Draft
<1>4. CASE BeginCompensation
  <2>1. PICK s \in ToUndo : /\ undoJob' = Requested(undoJob, s)
                            /\ draft' = [draft EXCEPT !.at = "saving", !.steps[s] =
                                            [draft.steps[s] EXCEPT !.status = "compensating", !.undo = TRUE]]
    BY <1>4 DEF BeginCompensation
  <2>2. s \in Steps
    BY DEF ToUndo, Undoable, HasStatus
  <2>3. [draft.steps[s] EXCEPT !.status = "compensating", !.undo = TRUE] \in StepRecord
    BY <1>0, <2>2, StepWritten
  <2>4. draft' \in Draft
    BY <1>0, <2>1, <2>2, <2>3 DEF Draft
  <2>5. undoJob' \in [Steps -> JobStates]
    BY <1>0, <2>1, <2>2 DEF Requested, JobStates
  <2>. QED
    BY <1>0, <1>4, <2>4, <2>5 DEF BeginCompensation, Draft
<1>a. NoDraft \in Draft
  BY DEF NoDraft, FreshStep, StepRecord, StepStates, Draft
<1>5. CASE Save
  <2>1. workflow' \in [status : WorkflowStatus, policy : {"stop", "compensate"}, steps : [Steps -> StepRecord]]
    BY <1>0, <1>5 DEF Save
  <2>. QED
    BY <1>0, <1>5, <1>a, <2>1 DEF Save, Open, Draft
<1>6. CASE DaemonDies
  BY <1>0, <1>6, <1>a DEF DaemonDies, Draft, PortfolioAssumption
<1>7. CASE OthersEnd
  BY <1>0, <1>7 DEF OthersEnd
<1>8. ASSUME NEW s \in Steps, StepJobAdvances(s) PROVE PortfolioTypeOK'
  BY <1>0, <1>8 DEF StepJobAdvances
<1>9. ASSUME NEW s \in Steps, UndoJobAdvances(s) PROVE PortfolioTypeOK'
  BY <1>0, <1>9 DEF UndoJobAdvances
<1>10. CASE UNCHANGED portfolioVars
  BY <1>0, <1>10 DEF portfolioVars
<1>. QED
  BY <1>1, <1>2, <1>3, <1>4, <1>5, <1>6, <1>7, <1>8, <1>9, <1>10 DEF PortfolioNext
-----------------------------------------------------------------------------
LEMMA PortfolioInitially == PortfolioInit => PortfolioInv
<1>. SUFFICES ASSUME PortfolioInit PROVE PortfolioInv
  OBVIOUS
<1>1. NoDraft.at = "none" /\ NoDraft \in Draft
  BY DEF NoDraft, FreshStep, StepRecord, StepStates, Draft, WorkflowStatus
<1>2. [s \in Steps |-> FreshStep] \in [Steps -> StepRecord]
  BY DEF FreshStep, StepRecord, StepStates
<1>3. PortfolioTypeOK
  <2>1. workflow \in [status : {"absent", "active", "compensating", "succeeded", "compensated", "failed"},
                      policy : {"stop", "compensate"}, steps : [Steps -> StepRecord]]
    BY <1>2 DEF PortfolioInit
  <2>2. draft \in [at : {"none", "queueing", "undoing", "saving"},
                   status : {"absent", "active", "compensating", "succeeded", "compensated", "failed"},
                   steps : [Steps -> StepRecord]]
    BY <1>2 DEF PortfolioInit, NoDraft
  <2>3. stepJob \in [Steps -> JobStates] /\ undoJob \in [Steps -> JobStates]
    BY DEF PortfolioInit, JobStates
  <2>4. indexed \in BOOLEAN /\ othersActive \in BOOLEAN
    BY DEF PortfolioInit
  <2>5. daemonDeaths \in 0..MaxDaemonDeaths
    <3>1. MaxDaemonDeaths \in Nat /\ daemonDeaths = 0
      BY PortfolioAssumption DEF PortfolioInit, PortfolioAssumption
    <3>. QED
      BY <3>1
  <2>. QED
    BY <2>1, <2>2, <2>3, <2>4, <2>5 DEF PortfolioTypeOK
<1>4. StepsAreTrue(workflow.steps, stepJob, undoJob) /\ VerdictHolds(workflow.status, stepJob, undoJob)
  BY DEF PortfolioInit, StepsAreTrue, VerdictHolds, FreshStep
<1>. QED
  BY <1>1, <1>3, <1>4, PortfolioAssumption
     DEF PortfolioInit, PortfolioInv, DraftIsTrue, DependenciesDone, UndoesOnlyDone,
         PortfolioAssumption

(* The jobs keep what the records say, and so does what is written of one  *)
(* step whose job, or whose compensation's job, has just been created.     *)
LEMMA TruthKept ==
    ASSUME PortfolioInv, [PortfolioNext]_portfolioVars
    PROVE  /\ StepsAreTrue(workflow.steps, stepJob, undoJob)'
           /\ VerdictHolds(workflow.status, stepJob, undoJob)'
           /\ DraftIsTrue'
<1>0. /\ PortfolioTypeOK /\ DraftIsTrue
      /\ StepsAreTrue(workflow.steps, stepJob, undoJob) /\ VerdictHolds(workflow.status, stepJob, undoJob)
  BY DEF PortfolioInv
<1>1. GoesOn(stepJob, stepJob') /\ GoesOn(undoJob, undoJob')
  BY <1>0, JobsGoOn DEF portfolioVars, GoesOn
<1>2. /\ StepsAreTrue(workflow.steps, stepJob', undoJob') /\ VerdictHolds(workflow.status, stepJob', undoJob')
      /\ draft.at # "none" =>
            /\ StepsAreTrue(draft.steps, stepJob', undoJob') /\ VerdictHolds(draft.status, stepJob', undoJob')
            /\ draft.at = "undoing" => SomeFailed(stepJob')
  BY <1>0, <1>1, TruthLasts DEF DraftIsTrue
<1>3. CASE UNCHANGED <<workflow, draft>>
  BY <1>2, <1>3 DEF DraftIsTrue
<1>4. CASE CreateWorkflow
  <2>1. workflow'.steps = workflow.steps /\ workflow'.status = "active"
    BY <1>0, <1>4 DEF CreateWorkflow, PortfolioTypeOK
  <2>. QED
    BY <1>2, <1>4, <2>1 DEF CreateWorkflow, DraftIsTrue, VerdictHolds
<1>5. CASE TickBegin
  <2>. DEFINE steps == Synchronized
  <2>1. StepsAreTrue(steps, stepJob, undoJob)
    BY SynchronizedIsTrue
  <2>2. UNCHANGED <<workflow, stepJob, undoJob>> /\ Open(workflow.status)
    BY <1>5 DEF TickBegin
  <2>3. draft'.steps = steps
    BY <1>5 DEF TickBegin
  <2>4. Failed(steps) => SomeFailed(stepJob)
    BY <1>0, <2>1
       DEF Failed, HasStatus, StepsAreTrue, SomeFailed, PortfolioInv, UndoesOnlyDone,
           PortfolioTypeOK, JobStates
  <2>5. AllDone(steps) => \A s \in Steps : stepJob[s] = "succeeded"
    BY <2>1 DEF AllDone, HasStatus, StepsAreTrue
  <2>6. /\ draft'.at = "undoing" => Failed(steps)
        /\ draft'.status = "failed" => Failed(steps)
        /\ draft'.status = "succeeded" => AllDone(steps)
    BY <1>5, <2>2 DEF TickBegin, Open
  <2>. HIDE DEF steps
  <2>7. VerdictHolds(draft'.status, stepJob, undoJob)
    BY <2>4, <2>5, <2>6 DEF VerdictHolds, SomeFailed
  <2>. QED
    BY <1>2, <2>1, <2>2, <2>3, <2>4, <2>6, <2>7 DEF DraftIsTrue
<1>6. CASE QueueStep
  <2>1. PICK s \in Ready : /\ stepJob' = Requested(stepJob, s)
                           /\ draft' = [draft EXCEPT !.steps[s] =
                                           [draft.steps[s] EXCEPT !.status = "queued", !.job = TRUE]]
    BY <1>6 DEF QueueStep
  <2>2. s \in Steps /\ draft.steps[s] \in StepRecord /\ draft.at = "queueing" /\ UNCHANGED <<workflow, undoJob>>
    BY <1>0, <1>6 DEF Ready, HasStatus, PortfolioTypeOK, QueueStep
  <2>3. /\ draft'.at = "queueing" /\ draft'.status = draft.status
        /\ \A q \in Steps : draft'.steps[q] =
              IF q = s THEN [draft.steps[s] EXCEPT !.status = "queued", !.job = TRUE] ELSE draft.steps[q]
    BY <1>0, <2>1, <2>2 DEF PortfolioTypeOK
  <2>4. stepJob'[s] # "none"
    BY <1>0, <2>1, <2>2 DEF Requested, PortfolioTypeOK
  <2>5. /\ draft'.steps[s].status = "queued" /\ draft'.steps[s].undo = draft.steps[s].undo
    BY <2>2, <2>3 DEF StepRecord
  <2>6. StepsAreTrue(draft.steps, stepJob', undoJob') /\ VerdictHolds(draft.status, stepJob', undoJob')
    BY <1>2, <2>2
  <2>7. StepsAreTrue(draft'.steps, stepJob', undoJob')
    BY <2>2, <2>3, <2>4, <2>5, <2>6 DEF StepsAreTrue
  <2>. QED
    BY <1>2, <2>2, <2>3, <2>6, <2>7 DEF DraftIsTrue
<1>7. CASE BeginCompensation
  <2>1. PICK s \in ToUndo : /\ undoJob' = Requested(undoJob, s)
                            /\ draft' = [draft EXCEPT !.at = "saving", !.steps[s] =
                                            [draft.steps[s] EXCEPT !.status = "compensating", !.undo = TRUE]]
    BY <1>7 DEF BeginCompensation
  <2>2. /\ s \in Steps /\ draft.steps[s] \in StepRecord /\ draft.at = "undoing" /\ UNCHANGED <<workflow, stepJob>>
        /\ draft.steps[s].status = "succeeded"
    BY <1>0, <1>7 DEF ToUndo, Undoable, HasStatus, PortfolioTypeOK, BeginCompensation
  <2>3. /\ draft'.at = "saving" /\ draft'.status = draft.status
        /\ \A q \in Steps : draft'.steps[q] =
              IF q = s THEN [draft.steps[s] EXCEPT !.status = "compensating", !.undo = TRUE] ELSE draft.steps[q]
    BY <1>0, <2>1, <2>2 DEF PortfolioTypeOK
  <2>4. undoJob'[s] # "none"
    BY <1>0, <2>1, <2>2 DEF Requested, PortfolioTypeOK
  <2>5. draft'.steps[s].status = "compensating" /\ draft'.steps[s].job = draft.steps[s].job
    BY <2>2, <2>3, StepWritten
  <2>6. StepsAreTrue(draft.steps, stepJob', undoJob') /\ VerdictHolds(draft.status, stepJob', undoJob')
    BY <1>2, <2>2
  <2>7. StepsAreTrue(draft'.steps, stepJob', undoJob')
    BY <2>2, <2>3, <2>4, <2>5, <2>6 DEF StepsAreTrue
  <2>. QED
    BY <1>2, <2>2, <2>3, <2>6, <2>7 DEF DraftIsTrue
<1>8. CASE Save
  <2>1. workflow'.steps = draft.steps /\ workflow'.status = draft.status /\ draft.at # "none" /\ draft'.at = "none"
    BY <1>0, <1>8 DEF Save, PortfolioTypeOK, NoDraft
  <2>. QED
    BY <1>2, <2>1 DEF DraftIsTrue
<1>9. CASE DaemonDies
  BY <1>2, <1>9 DEF DaemonDies, NoDraft, DraftIsTrue
<1>. QED
  BY <1>3, <1>4, <1>5, <1>6, <1>7, <1>8, <1>9
     DEF PortfolioNext, OthersEnd, StepJobAdvances, UndoJobAdvances, portfolioVars

LEMMA PromisesKept ==
    ASSUME PortfolioInv, [PortfolioNext]_portfolioVars
    PROVE  DependenciesDone' /\ UndoesOnlyDone'
<1>0. /\ PortfolioTypeOK /\ DraftIsTrue /\ DependenciesDone /\ UndoesOnlyDone
      /\ \A s \in Steps : DependsOn[s] \subseteq Steps
  BY PortfolioAssumption DEF PortfolioInv, PortfolioAssumption
<1>1. GoesOn(stepJob, stepJob') /\ GoesOn(undoJob, undoJob')
  BY <1>0, JobsGoOn DEF portfolioVars, GoesOn
<1>2. ASSUME NEW s \in Steps, stepJob[s] = "none", stepJob'[s] # "none"
      PROVE  \A d \in DependsOn[s] : stepJob[d] = "succeeded"
  <2>1. CASE QueueStep
    <3>1. PICK r \in Ready : stepJob' = Requested(stepJob, r)
      BY <2>1 DEF QueueStep
    <3>2. s = r
      BY <1>0, <1>2, <3>1 DEF Requested, PortfolioTypeOK, Ready, HasStatus
    <3>3. DependsOn[s] \subseteq HasStatus(draft.steps, "succeeded")
      BY <3>2 DEF Ready
    <3>. QED
      BY <1>0, <2>1, <3>3 DEF QueueStep, HasStatus, DraftIsTrue, StepsAreTrue
  <2>2. ASSUME NEW r \in Steps, StepJobAdvances(r) PROVE FALSE
    BY <1>0, <1>2, <2>2 DEF StepJobAdvances, Advances, PortfolioTypeOK
  <2>3. ~(UNCHANGED stepJob)
    BY <1>2
  <2>. QED
    BY <2>1, <2>2, <2>3
       DEF PortfolioNext, CreateWorkflow, TickBegin, BeginCompensation, Save, DaemonDies,
           OthersEnd, UndoJobAdvances, portfolioVars
<1>3. ASSUME NEW s \in Steps, undoJob[s] = "none", undoJob'[s] # "none"
      PROVE  stepJob[s] = "succeeded" /\ SomeFailed(stepJob)
  <2>1. CASE BeginCompensation
    <3>1. PICK r \in ToUndo : undoJob' = Requested(undoJob, r)
      BY <2>1 DEF BeginCompensation
    <3>2. s = r
      BY <1>0, <1>3, <3>1 DEF Requested, PortfolioTypeOK, ToUndo, Undoable, HasStatus
    <3>. QED
      BY <1>0, <2>1, <3>2
         DEF BeginCompensation, ToUndo, Undoable, HasStatus, DraftIsTrue, StepsAreTrue
  <2>2. ASSUME NEW r \in Steps, UndoJobAdvances(r) PROVE FALSE
    BY <1>0, <1>3, <2>2 DEF UndoJobAdvances, Advances, PortfolioTypeOK
  <2>3. ~(UNCHANGED undoJob)
    BY <1>3
  <2>. QED
    BY <2>1, <2>2, <2>3
       DEF PortfolioNext, CreateWorkflow, TickBegin, QueueStep, Save, DaemonDies, OthersEnd,
           StepJobAdvances, portfolioVars
<1>4. DependenciesDone'
  BY <1>0, <1>1, <1>2 DEF DependenciesDone, GoesOn
<1>5. UndoesOnlyDone'
  BY <1>0, <1>1, <1>3 DEF UndoesOnlyDone, GoesOn, SomeFailed
<1>. QED
  BY <1>4, <1>5

LEMMA PortfolioStep == PortfolioInv /\ [PortfolioNext]_portfolioVars => PortfolioInv'
BY TypesKept, TruthKept, PromisesKept DEF PortfolioInv

LEMMA PortfolioInvariant == PortfolioSpec => []PortfolioInv
BY PortfolioInitially, PortfolioStep, PTL DEF PortfolioSpec

-----------------------------------------------------------------------------
(* The types of the workflow, the draft and the jobs.                      *)
THEOREM PortfolioTypes == PortfolioSpec => []PortfolioTypeOK
<1>1. PortfolioInv => PortfolioTypeOK
  BY DEF PortfolioInv
<1>. QED
  BY <1>1, PortfolioInvariant, PTL

(* A step has a job only after the jobs of its dependencies succeeded,     *)
(* wherever the daemon died (queueStep, engine.ts:34).                     *)
THEOREM DependenciesFirst == PortfolioSpec => []DependenciesDone
<1>1. PortfolioInv => DependenciesDone
  BY DEF PortfolioInv
<1>. QED
  BY <1>1, PortfolioInvariant, PTL

(* Only what succeeded is compensated, and only after a failure            *)
(* (beginCompensation, engine.ts:56).                                      *)
THEOREM OnlyDoneIsUndone == PortfolioSpec => []UndoesOnlyDone
<1>1. PortfolioInv => UndoesOnlyDone
  BY DEF PortfolioInv
<1>. QED
  BY <1>1, PortfolioInvariant, PTL

(* A workflow ends as succeeded only if all its steps did, and as failed   *)
(* only if a job of it did (tickPortfolioWorkflow, engine.ts:82).          *)
THEOREM VerdictsAreTrue == PortfolioSpec => []VerdictIsTrue
<1>1. PortfolioInv => VerdictIsTrue
  BY DEF PortfolioInv, VerdictIsTrue, VerdictHolds
<1>. QED
  BY <1>1, PortfolioInvariant, PTL

-----------------------------------------------------------------------------
(***************************************************************************)
(* Schedules: the types, that no more occurrences of a schedule are at     *)
(* work than its limit, and that an occurrence of the daemon's ends once.  *)
(***************************************************************************)

(* No two callers compute the same window.                                 *)
Separate == \A d, e \in Evaluators : d # e => KeysOf[d] \cap KeysOf[e] = {}

(* An evaluation works on a window of its own: nothing is known of it      *)
(* until it is recorded, and no job exists until it is admitted.           *)
Evaluating(e, w) == evaluation[e].window = {w}

OwnWindow(e, w) ==
    Evaluating(e, w) =>
       /\ evaluation[e].at = "absent" => occurrence[w] = "none"
       /\ evaluation[e].at \in {"recorded", "clear", "accepted"} =>
             occurrence[w] = "created" /\ w \in activeIndex /\ job[w] = NoJob
       /\ e = Daemon /\ evaluation[e].at \in {"admitted", "stamped"} =>
             occurrence[w] = "created" /\ runner[w].at = "off"

JobOfWindow(w) ==
    /\ occurrence[w] = "none" => job[w] = NoJob
    /\ runner[w].at # "off" => job[w].status = "running"
    /\ job[w].status = "queued" => job[w].attempt < MaxAttempts
    /\ runner[w].at = "dead" => (runner[w].outcome = "none" \/ runner[w].outcome = "failed")

(* The windows that have passed the count of active occurrences and may    *)
(* have work to do, now or after a death: they are found active by the     *)
(* next count.                                                             *)
Passed(w) == \E e \in Evaluators : Evaluating(e, w) /\ evaluation[e].at \in {"clear", "accepted"}
AtWork(w) ==
    /\ job[w].status \in {"queued", "running"}
    /\ \/ runner[w].at \in {"off", "booted", "operating"}
       \/ runner[w].at = "dead" /\ runner[w].outcome = "none"
Held == {w \in Windows : Passed(w) \/ AtWork(w)}

ScheduleInv ==
    /\ ScheduleTypeOK
    /\ \A e \in Evaluators :
          /\ evaluation[e].at # "idle" => \E w \in KeysOf[e] : Evaluating(e, w)
          /\ \A w \in Windows : OwnWindow(e, w)
    /\ \A w \in Windows : JobOfWindow(w)
    /\ IsFiniteSet(activeIndex)
    /\ Held \subseteq activeIndex /\ Cardinality(Held) <= MaxActive

EvaluationOK ==
    evaluation \in [Evaluators ->
       [at : {"idle", "due", "absent", "recorded", "clear", "accepted", "admitted", "stamped"},
        window : {{}} \cup {{w} : w \in Windows}, copy : ScheduleRecord]]
WindowJob == [status : {"none", "queued", "running", "ended"}, attempt : 0..MaxAttempts]
WindowRunner == [at : {"off", "booted", "operating", "settling", "settled", "dead"},
           outcome : {"none", "succeeded", "failed"}, copy : ScheduleRecord]

OccurrenceOK ==
    /\ occurrence \in [Windows -> {"none"} \cup ActiveStatuses \cup FinalStatuses]
    /\ activeIndex \subseteq Windows

(* What an evaluation of w knows, and what its steps may do.               *)
WorksOn(e, w) ==
    /\ w \in Windows /\ Evaluating(e, w) /\ Window(e) = w
    /\ OwnWindow(e, w) /\ JobOfWindow(w)
    /\ AtWork(w) => w \in activeIndex

OnlyConcerns(w) ==
    \A v \in Windows \ {w} :
       /\ occurrence'[v] = occurrence[v] /\ job'[v] = job[v] /\ runner'[v] = runner[v]
       /\ v \in activeIndex' <=> v \in activeIndex

GoesOnWith(e, w) ==
    /\ \A d \in Evaluators \ {e} : evaluation'[d] = evaluation[d]
    /\ \/ Evaluating(e, w)'
       \/ evaluation'[e].at = "idle" /\ evaluation'[e].window = {}

HeldIfCounted(e, w) ==
    evaluation'[e].at \in {"clear", "accepted"} \/ AtWork(w)' =>
       /\ w \in activeIndex'
       /\ \/ Evaluating(e, w) /\ evaluation[e].at \in {"clear", "accepted"}
          \/ AtWork(w)
          \/ Cardinality(ActiveOthers(w)) < MaxActive

---------------------------------------------------------------------------
(* Where an evaluation is, the window it works on is its own.              *)
LEMMA WindowOf ==
  ASSUME NEW e \in Evaluators, NEW w \in Windows, Evaluating(e, w)
  PROVE  Window(e) = w
BY DEF Window, Evaluating

LEMMA Works ==
  ASSUME ScheduleInv, NEW e \in Evaluators, evaluation[e].at # "idle"
  PROVE  \E w \in KeysOf[e] : WorksOn(e, w)
<1>1. PICK w \in KeysOf[e] : Evaluating(e, w)
  BY DEF ScheduleInv
<1>2. w \in Windows
  BY ScheduleAssumption
<1> QED BY <1>1, <1>2, WindowOf DEF ScheduleInv, Held, WorksOn

LEMMA SettledTypes ==
  ASSUME NEW s \in ScheduleRecord, NEW outcome
  PROVE  Settled(s, outcome) \in ScheduleRecord
<1> DEFINE failures == IF s.failures = MaxFailures THEN MaxFailures ELSE s.failures + 1
<1>1. failures \in 0..MaxFailures
  BY ScheduleAssumption DEF ScheduleRecord
<1>2. (s.enabled /\ failures < MaxFailures) \in BOOLEAN
  OBVIOUS
<1> HIDE DEF failures
<1>3. [s EXCEPT !.failures = failures, !.enabled = s.enabled /\ failures < MaxFailures] \in ScheduleRecord
  <2>1. \A b \in BOOLEAN : [s EXCEPT !.failures = failures, !.enabled = b] \in ScheduleRecord
    BY <1>1 DEF ScheduleRecord
  <2> QED BY <1>2, <2>1
<1>4. [s EXCEPT !.failures = 0] \in ScheduleRecord
  BY ScheduleAssumption DEF ScheduleRecord
<1> QED BY <1>3, <1>4 DEF Settled, failures

LEMMA NoCopyTypes == NoCopy \in ScheduleRecord
BY ScheduleAssumption DEF NoCopy, ScheduleRecord

LEMMA EvaluationTypes ==
  ASSUME ScheduleTypeOK, NEW e \in Evaluators
  PROVE  /\ \A at \in {"idle", "due", "absent", "recorded", "clear", "accepted", "admitted", "stamped"} :
               Moves(e, at) => EvaluationOK'
         /\ Returns(e) => EvaluationOK'
         /\ UNCHANGED evaluation => EvaluationOK'
<1>1. Idle.copy \in ScheduleRecord
  BY NoCopyTypes DEF Idle
<1>2. Idle \in [at : {"idle"}, window : {{}}, copy : ScheduleRecord]
  BY <1>1 DEF Idle
<1>3. Returns(e) => EvaluationOK'
  <2> SUFFICES ASSUME Returns(e)
               PROVE  EvaluationOK'
    OBVIOUS
  <2> DEFINE idle == Idle
  <2>1. idle \in [at : {"idle"}, window : {{}}, copy : ScheduleRecord]
    BY <1>2
  <2>2. evaluation' = [evaluation EXCEPT ![e] = idle]
    BY DEF Returns
  <2> HIDE DEF idle
  <2> QED BY <2>1, <2>2 DEF ScheduleTypeOK, EvaluationOK
<1>4. ASSUME NEW at \in {"idle", "due", "absent", "recorded", "clear", "accepted", "admitted", "stamped"},
             Moves(e, at)
      PROVE  EvaluationOK'
  <2> DEFINE next == [evaluation[e] EXCEPT !.at = at]
  <2>1. next \in [at : {at}, window : {{}} \cup {{w} : w \in Windows}, copy : ScheduleRecord]
    BY
       DEF ScheduleTypeOK, WorksOn, OnlyConcerns, GoesOnWith, HeldIfCounted, WindowJob,
           WindowRunner
  <2>2. evaluation' = [evaluation EXCEPT ![e] = next]
    BY <1>4 DEF Moves
  <2> HIDE DEF next
  <2> QED BY <2>1, <2>2 DEF ScheduleTypeOK, EvaluationOK
<1>5. UNCHANGED evaluation => EvaluationOK'
  BY DEF ScheduleTypeOK, EvaluationOK
<1> QED BY <1>3, <1>4, <1>5

LEMMA OccurrenceTypes ==
  ASSUME ScheduleTypeOK, NEW w \in Windows
  PROVE  /\ \A outcome \in ActiveStatuses \cup FinalStatuses :
               SaveOccurrence(w, outcome) => OccurrenceOK'
         /\ OccurrenceUnchanged => OccurrenceOK'
BY DEF ScheduleTypeOK, OccurrenceOK, SaveOccurrence, OccurrenceUnchanged, Indexed

(* A step that concerns one window: the window is held only if it was, or  *)
(* if the count of the others left room for it.                            *)
LEMMA WindowStep ==
  ASSUME ScheduleInv, ScheduleTypeOK', NEW w \in Windows,
         OnlyConcerns(w),
         \A e \in Evaluators :
            /\ evaluation'[e] = evaluation[e] \/ \A v \in Windows : Evaluating(e, v)' => v = w
            /\ evaluation'[e].at # "idle" => \E v \in KeysOf[e] : Evaluating(e, v)'
            /\ OwnWindow(e, w)',
         JobOfWindow(w)',
         w \in Held' => w \in activeIndex' /\ (w \in Held \/ Cardinality(ActiveOthers(w)) < MaxActive)
  PROVE  ScheduleInv'
<1>1. \A e \in Evaluators, v \in Windows : OwnWindow(e, v)'
  BY DEF OwnWindow, Evaluating, ScheduleInv, OnlyConcerns
<1>2. \A v \in Windows : JobOfWindow(v)'
  BY DEF JobOfWindow, ScheduleInv, OnlyConcerns
<1>3. IsFiniteSet(activeIndex')
  <2>1. activeIndex' \subseteq activeIndex \cup {w}
    BY DEF ScheduleTypeOK, OnlyConcerns
  <2>2. IsFiniteSet(activeIndex \cup {w})
    BY FS_AddElement DEF ScheduleInv
  <2> QED BY <2>1, <2>2, FS_Subset
<1>4. Held' \subseteq Held \cup {w}
  BY DEF Held, Passed, AtWork, Evaluating, OnlyConcerns
<1>5. Held' \subseteq activeIndex'
  BY <1>4 DEF ScheduleInv, Held, OnlyConcerns
<1>6. Cardinality(Held') <= MaxActive
  <2>1. /\ IsFiniteSet(activeIndex) /\ IsFiniteSet(Held') /\ IsFiniteSet(Held)
        /\ Held \subseteq activeIndex /\ Cardinality(Held) <= MaxActive
    BY <1>3, <1>5, FS_Subset DEF ScheduleInv
  <2>2. CASE w \in Held' => w \in Held
    <3>1. Held' \subseteq Held
      BY <1>4, <2>2
    <3>2. Cardinality(Held') \in Nat /\ Cardinality(Held) \in Nat
      BY <2>1, FS_CardinalityType
    <3>3. Cardinality(Held') <= Cardinality(Held)
      BY <2>1, <3>1, FS_Subset
    <3> QED BY <2>1, <3>2, <3>3, ScheduleAssumption
  <2>3. CASE w \in Held' /\ w \notin Held
    <3> DEFINE others == activeIndex \ {w}
    <3>1. Held \subseteq others /\ IsFiniteSet(others)
      BY <2>1, <2>3, FS_Subset
    <3>2. Cardinality(Held) <= Cardinality(others)
      BY <3>1, FS_Subset
    <3>3. Cardinality(others) < MaxActive
      BY <2>3 DEF ActiveOthers
    <3>4. Cardinality(Held) \in Nat /\ Cardinality(others) \in Nat /\ Cardinality(Held') \in Nat
      BY <2>1, <3>1, FS_CardinalityType
    <3>5. Cardinality(Held \cup {w}) = Cardinality(Held) + 1
      BY <2>1, <2>3, FS_AddElement
    <3>6. Cardinality(Held') <= Cardinality(Held \cup {w})
      BY <1>4, <2>1, FS_AddElement, FS_Subset
    <3> HIDE DEF others
    <3> QED BY <3>2, <3>3, <3>4, <3>5, <3>6, ScheduleAssumption
  <2> QED BY <2>2, <2>3
<1> QED BY <1>1, <1>2, <1>3, <1>5, <1>6 DEF ScheduleInv

LEMMA EvaluatorStep ==
  ASSUME Separate, ScheduleInv, ScheduleTypeOK', NEW e \in Evaluators, NEW w \in KeysOf[e],
         GoesOnWith(e, w), OnlyConcerns(w),
         OwnWindow(e, w)', JobOfWindow(w)',
         HeldIfCounted(e, w)
  PROVE  ScheduleInv'
<1>1. w \in Windows
  BY ScheduleAssumption
<1>2. \A d \in Evaluators \ {e} : Evaluating(d, w) => evaluation[d].at = "idle"
  BY <1>1 DEF Separate, ScheduleInv, Evaluating
<1>3. \A d \in Evaluators : OwnWindow(d, w)'
  BY <1>2 DEF OwnWindow, Evaluating, GoesOnWith
<1>4. \A d \in Evaluators :
         /\ evaluation'[d] = evaluation[d] \/ \A v \in Windows : Evaluating(d, v)' => v = w
         /\ evaluation'[d].at # "idle" => \E v \in KeysOf[d] : Evaluating(d, v)'
  BY DEF Evaluating, ScheduleInv, GoesOnWith
<1>5. w \in Held' => w \in activeIndex' /\ (w \in Held \/ Cardinality(ActiveOthers(w)) < MaxActive)
  BY <1>1, <1>2 DEF Held, Passed, Evaluating, GoesOnWith, HeldIfCounted
<1> QED BY <1>1, <1>3, <1>4, <1>5, WindowStep

LEMMA FindOccurrenceKeeps == ASSUME Separate, ScheduleInv, NEW e \in Evaluators, FindOccurrence(e) PROVE ScheduleInv'
<1>1. PICK w \in KeysOf[e] : WorksOn(e, w)
  BY Works DEF FindOccurrence
<1>2. ScheduleTypeOK'
  <2>1. EvaluationOK' /\ OccurrenceOK'
    BY <1>1, EvaluationTypes, OccurrenceTypes
       DEF FindOccurrence, ScheduleInv, ScheduleTypeOK, OccurrenceOK
  <2>2. schedule' \in ScheduleRecord /\ UNCHANGED runner
        /\ job' \in [Windows -> WindowJob]
        /\ deaths' \in 0..MaxRunDeaths
    BY <1>1, ScheduleAssumption DEF FindOccurrence, ScheduleInv, ScheduleTypeOK, WindowJob
  <2> QED BY <2>1, <2>2 DEF ScheduleInv, ScheduleTypeOK, EvaluationOK, OccurrenceOK, WindowJob
<1>3. GoesOnWith(e, w) /\ OnlyConcerns(w)
  BY <1>1
     DEF ScheduleInv, ScheduleTypeOK, FindOccurrence, Moves, Returns, Idle, Evaluating,
         WorksOn, OnlyConcerns, GoesOnWith
<1>4. OwnWindow(e, w)' /\ JobOfWindow(w)'
  BY <1>1, ScheduleAssumption
     DEF ScheduleInv, ScheduleTypeOK, FindOccurrence, Moves, Returns, Idle, OwnWindow,
         JobOfWindow, WorksOn
<1>5. HeldIfCounted(e, w)
  BY <1>1
     DEF ScheduleInv, ScheduleTypeOK, FindOccurrence, Moves, Returns, Idle, AtWork, WorksOn,
         HeldIfCounted
<1> QED BY <1>1, <1>2, <1>3, <1>4, <1>5, EvaluatorStep

LEMMA RecordOccurrenceKeeps == ASSUME Separate, ScheduleInv, NEW e \in Evaluators, RecordOccurrence(e) PROVE ScheduleInv'
<1>1. PICK w \in KeysOf[e] : WorksOn(e, w)
  BY Works DEF RecordOccurrence
<1>2. ScheduleTypeOK'
  <2>1. EvaluationOK' /\ OccurrenceOK'
    BY <1>1, EvaluationTypes, OccurrenceTypes
       DEF RecordOccurrence, ScheduleInv, ActiveStatuses, WorksOn
  <2>2. schedule' \in ScheduleRecord /\ UNCHANGED runner
        /\ job' \in [Windows -> WindowJob]
        /\ deaths' \in 0..MaxRunDeaths
    BY <1>1, ScheduleAssumption DEF RecordOccurrence, ScheduleInv, ScheduleTypeOK, WindowJob
  <2> QED BY <2>1, <2>2 DEF ScheduleInv, ScheduleTypeOK, EvaluationOK, OccurrenceOK, WindowJob
<1>3. GoesOnWith(e, w) /\ OnlyConcerns(w)
  BY <1>1
     DEF RecordOccurrence, Moves, Evaluating, SaveOccurrence, Indexed, WorksOn,
         OnlyConcerns, GoesOnWith
<1>4. OwnWindow(e, w)' /\ JobOfWindow(w)'
  BY <1>1, ScheduleAssumption
     DEF ScheduleInv, ScheduleTypeOK, RecordOccurrence, Moves, OwnWindow, JobOfWindow,
         SaveOccurrence, Indexed, ActiveStatuses, WorksOn
<1>5. HeldIfCounted(e, w)
  BY <1>1
     DEF RecordOccurrence, Moves, AtWork, SaveOccurrence, Indexed, ActiveStatuses, WorksOn,
         HeldIfCounted
<1> QED BY <1>1, <1>2, <1>3, <1>4, <1>5, EvaluatorStep

LEMMA RefuseKeeps == ASSUME Separate, ScheduleInv, NEW e \in Evaluators, Refuse(e) PROVE ScheduleInv'
<1>1. PICK w \in KeysOf[e] : WorksOn(e, w)
  BY Works DEF Refuse
<1>2. ScheduleTypeOK'
  <2>1. EvaluationOK' /\ OccurrenceOK'
    BY <1>1, EvaluationTypes, OccurrenceTypes
       DEF Refuse, Stopped, Crowded, Paused, TooSoon, ScheduleInv, FinalStatuses, WorksOn
  <2>2. schedule' \in ScheduleRecord /\ UNCHANGED runner
        /\ job' \in [Windows -> WindowJob]
        /\ deaths' \in 0..MaxRunDeaths
    BY <1>1, ScheduleAssumption
       DEF Refuse, Stopped, Crowded, Paused, TooSoon, ScheduleRecord, ScheduleInv,
           ScheduleTypeOK, WindowJob
  <2> QED BY <2>1, <2>2 DEF ScheduleInv, ScheduleTypeOK, EvaluationOK, OccurrenceOK, WindowJob
<1>3. GoesOnWith(e, w) /\ OnlyConcerns(w)
  BY <1>1
     DEF ScheduleInv, ScheduleTypeOK, Refuse, Stopped, Crowded, Paused, TooSoon, Returns,
         Idle, SaveOccurrence, Indexed, WorksOn, OnlyConcerns, GoesOnWith
<1>4. OwnWindow(e, w)' /\ JobOfWindow(w)'
  BY <1>1, ScheduleAssumption
     DEF ScheduleInv, ScheduleTypeOK, Refuse, Returns, Idle, OwnWindow, JobOfWindow, WorksOn
<1>5. HeldIfCounted(e, w)
  BY <1>1 DEF Refuse, Returns, Idle, OwnWindow, NoJob, AtWork, WorksOn, HeldIfCounted
<1> QED BY <1>1, <1>2, <1>3, <1>4, <1>5, EvaluatorStep

LEMMA PermitKeeps == ASSUME Separate, ScheduleInv, NEW e \in Evaluators, Permit(e) PROVE ScheduleInv'
<1>1. PICK w \in KeysOf[e] : WorksOn(e, w)
  BY Works DEF Permit
<1>2. ScheduleTypeOK'
  <2>1. EvaluationOK' /\ OccurrenceOK'
    BY <1>1, EvaluationTypes, OccurrenceTypes
       DEF Permit, ScheduleInv, ScheduleTypeOK, OccurrenceOK
  <2>2. schedule' \in ScheduleRecord /\ UNCHANGED runner
        /\ job' \in [Windows -> WindowJob]
        /\ deaths' \in 0..MaxRunDeaths
    BY <1>1, ScheduleAssumption DEF Permit, ScheduleInv, ScheduleTypeOK, WindowJob
  <2> QED BY <2>1, <2>2 DEF ScheduleInv, ScheduleTypeOK, EvaluationOK, OccurrenceOK, WindowJob
<1>3. GoesOnWith(e, w) /\ OnlyConcerns(w)
  BY <1>1 DEF Permit, Moves, Evaluating, WorksOn, OnlyConcerns, GoesOnWith
<1>4. OwnWindow(e, w)' /\ JobOfWindow(w)'
  BY <1>1, ScheduleAssumption DEF Permit, Moves, OwnWindow, JobOfWindow, WorksOn
<1>5. HeldIfCounted(e, w)
  BY <1>1 DEF Permit, OwnWindow, WorksOn, HeldIfCounted
<1> QED BY <1>1, <1>2, <1>3, <1>4, <1>5, EvaluatorStep

LEMMA ShadowKeeps == ASSUME Separate, ScheduleInv, NEW e \in Evaluators, Shadow(e) PROVE ScheduleInv'
<1>1. PICK w \in KeysOf[e] : WorksOn(e, w)
  BY Works DEF Shadow
<1>2. ScheduleTypeOK'
  <2>1. EvaluationOK' /\ OccurrenceOK'
    BY <1>1, EvaluationTypes, OccurrenceTypes DEF Shadow, ScheduleInv, FinalStatuses, WorksOn
  <2>2. schedule' \in ScheduleRecord /\ UNCHANGED runner
        /\ job' \in [Windows -> WindowJob]
        /\ deaths' \in 0..MaxRunDeaths
    BY <1>1, ScheduleAssumption DEF Shadow, ScheduleInv, ScheduleTypeOK, WindowJob
  <2> QED BY <2>1, <2>2 DEF ScheduleInv, ScheduleTypeOK, EvaluationOK, OccurrenceOK, WindowJob
<1>3. GoesOnWith(e, w) /\ OnlyConcerns(w)
  BY <1>1
     DEF Shadow, Returns, Idle, Evaluating, SaveOccurrence, Indexed, WorksOn, OnlyConcerns,
         GoesOnWith
<1>4. OwnWindow(e, w)' /\ JobOfWindow(w)'
  BY <1>1, ScheduleAssumption
     DEF ScheduleInv, ScheduleTypeOK, Shadow, Returns, Idle, Evaluating, OwnWindow,
         JobOfWindow, SaveOccurrence
<1>5. HeldIfCounted(e, w)
  BY <1>1
     DEF ScheduleInv, ScheduleTypeOK, Shadow, Returns, Idle, OwnWindow, NoJob, AtWork,
         WorksOn, HeldIfCounted
<1> QED BY <1>1, <1>2, <1>3, <1>4, <1>5, EvaluatorStep

LEMMA AcceptKeeps == ASSUME Separate, ScheduleInv, NEW e \in Evaluators, Accept(e) PROVE ScheduleInv'
<1>1. PICK w \in KeysOf[e] : WorksOn(e, w)
  BY Works DEF Accept
<1>2. ScheduleTypeOK'
  <2>1. EvaluationOK' /\ OccurrenceOK'
    BY <1>1, EvaluationTypes, OccurrenceTypes DEF Accept, ScheduleInv, ActiveStatuses, WorksOn
  <2>2. schedule' \in ScheduleRecord /\ UNCHANGED runner
        /\ job' \in [Windows -> WindowJob]
        /\ deaths' \in 0..MaxRunDeaths
    BY <1>1, ScheduleAssumption DEF Accept, ScheduleInv, ScheduleTypeOK, WindowJob
  <2> QED BY <2>1, <2>2 DEF ScheduleInv, ScheduleTypeOK, EvaluationOK, OccurrenceOK, WindowJob
<1>3. GoesOnWith(e, w) /\ OnlyConcerns(w)
  BY <1>1
     DEF Accept, Moves, Evaluating, SaveOccurrence, Indexed, WorksOn, OnlyConcerns,
         GoesOnWith
<1>4. OwnWindow(e, w)' /\ JobOfWindow(w)'
  BY <1>1, ScheduleAssumption
     DEF Accept, Moves, OwnWindow, JobOfWindow, SaveOccurrence, Indexed, ActiveStatuses,
         WorksOn
<1>5. HeldIfCounted(e, w)
  BY <1>1 DEF Accept, SaveOccurrence, Indexed, ActiveStatuses, WorksOn, HeldIfCounted
<1> QED BY <1>1, <1>2, <1>3, <1>4, <1>5, EvaluatorStep

LEMMA AdmitKeeps == ASSUME Separate, ScheduleInv, NEW e \in Evaluators, Admit(e) PROVE ScheduleInv'
<1>1. PICK w \in KeysOf[e] : WorksOn(e, w)
  BY Works DEF Admit
<1>2. ScheduleTypeOK'
  <2>1. EvaluationOK' /\ OccurrenceOK'
    BY <1>1, EvaluationTypes, OccurrenceTypes
       DEF Admit, ScheduleInv, ScheduleTypeOK, OccurrenceOK
  <2>2. schedule' \in ScheduleRecord /\ UNCHANGED runner
        /\ job' \in [Windows -> WindowJob]
        /\ deaths' \in 0..MaxRunDeaths
    BY <1>1, ScheduleAssumption DEF Admit, NoJob, ScheduleInv, ScheduleTypeOK, WindowJob
  <2> QED BY <2>1, <2>2 DEF ScheduleInv, ScheduleTypeOK, EvaluationOK, OccurrenceOK, WindowJob
<1>3. GoesOnWith(e, w) /\ OnlyConcerns(w)
  BY <1>1 DEF Admit, Moves, Evaluating, WorksOn, OnlyConcerns, GoesOnWith
<1>4. OwnWindow(e, w)' /\ JobOfWindow(w)'
  BY <1>1, ScheduleAssumption
     DEF ScheduleInv, ScheduleTypeOK, Admit, NoJob, Moves, OwnWindow, JobOfWindow, WorksOn
<1>5. HeldIfCounted(e, w)
  BY <1>1 DEF Admit, OwnWindow, WorksOn, HeldIfCounted
<1> QED BY <1>1, <1>2, <1>3, <1>4, <1>5, EvaluatorStep

LEMMA StampScheduleKeeps == ASSUME Separate, ScheduleInv, NEW e \in Evaluators, StampSchedule(e) PROVE ScheduleInv'
<1>1. PICK w \in KeysOf[e] : WorksOn(e, w)
  BY Works DEF StampSchedule
<1>2. ScheduleTypeOK'
  <2>1. EvaluationOK' /\ OccurrenceOK'
    BY <1>1, EvaluationTypes, OccurrenceTypes
       DEF StampSchedule, ScheduleInv, ScheduleTypeOK, OccurrenceOK
  <2>2. schedule' \in ScheduleRecord /\ UNCHANGED runner
        /\ job' \in [Windows -> WindowJob]
        /\ deaths' \in 0..MaxRunDeaths
    BY <1>1, ScheduleAssumption DEF StampSchedule, ScheduleInv, ScheduleTypeOK, WindowJob
  <2> QED BY <2>1, <2>2 DEF ScheduleInv, ScheduleTypeOK, EvaluationOK, OccurrenceOK, WindowJob
<1>3. GoesOnWith(e, w) /\ OnlyConcerns(w)
  BY <1>1 DEF StampSchedule, Moves, Evaluating, WorksOn, OnlyConcerns, GoesOnWith
<1>4. OwnWindow(e, w)' /\ JobOfWindow(w)'
  BY <1>1, ScheduleAssumption DEF StampSchedule, Moves, OwnWindow, JobOfWindow, WorksOn
<1>5. HeldIfCounted(e, w)
  BY <1>1 DEF StampSchedule, Moves, AtWork, WorksOn, HeldIfCounted
<1> QED BY <1>1, <1>2, <1>3, <1>4, <1>5, EvaluatorStep

LEMMA QueueOccurrenceKeeps == ASSUME Separate, ScheduleInv, NEW e \in Evaluators, QueueOccurrence(e) PROVE ScheduleInv'
<1>1. PICK w \in KeysOf[e] : WorksOn(e, w)
  BY Works DEF QueueOccurrence
<1>2. ScheduleTypeOK'
  <2>1. EvaluationOK' /\ OccurrenceOK'
    BY <1>1, EvaluationTypes, OccurrenceTypes
       DEF QueueOccurrence, ScheduleInv, ActiveStatuses, WorksOn
  <2>2. schedule' \in ScheduleRecord /\ UNCHANGED runner
        /\ job' \in [Windows -> WindowJob]
        /\ deaths' \in 0..MaxRunDeaths
    BY <1>1, ScheduleAssumption DEF QueueOccurrence, ScheduleInv, ScheduleTypeOK, WindowJob
  <2> QED BY <2>1, <2>2 DEF ScheduleInv, ScheduleTypeOK, EvaluationOK, OccurrenceOK, WindowJob
<1>3. GoesOnWith(e, w) /\ OnlyConcerns(w)
  BY <1>1
     DEF QueueOccurrence, Returns, Idle, Evaluating, SaveOccurrence, Indexed, WorksOn,
         OnlyConcerns, GoesOnWith
<1>4. OwnWindow(e, w)' /\ JobOfWindow(w)'
  BY <1>1, ScheduleAssumption
     DEF ScheduleInv, ScheduleTypeOK, QueueOccurrence, Returns, Idle, OwnWindow,
         JobOfWindow, SaveOccurrence, WorksOn
<1>5. HeldIfCounted(e, w)
  BY <1>1
     DEF QueueOccurrence, Returns, Idle, AtWork, SaveOccurrence, Indexed, ActiveStatuses,
         WorksOn, HeldIfCounted
<1> QED BY <1>1, <1>2, <1>3, <1>4, <1>5, EvaluatorStep

LEMMA EvaluatorDiesKeeps == ASSUME Separate, ScheduleInv, NEW e \in Evaluators, EvaluatorDies(e) PROVE ScheduleInv'
<1>1. PICK w \in KeysOf[e] : WorksOn(e, w)
  BY Works DEF EvaluatorDies
<1>2. ScheduleTypeOK'
  <2>1. EvaluationOK' /\ OccurrenceOK'
    <3>1. EvaluationOK'
      BY EvaluationTypes DEF EvaluatorDies, ScheduleInv
    <3>2. OccurrenceOK'
      BY <1>1
         DEF EvaluatorDies, OccurrenceUnchanged, ScheduleInv, ScheduleTypeOK, OccurrenceOK,
             ActiveStatuses
    <3> QED BY <3>1, <3>2
  <2>2. schedule' \in ScheduleRecord /\ UNCHANGED runner
        /\ job' \in [Windows -> WindowJob]
        /\ deaths' \in 0..MaxRunDeaths
    BY <1>1, ScheduleAssumption DEF EvaluatorDies, ScheduleInv, ScheduleTypeOK, WindowJob
  <2> QED BY <2>1, <2>2 DEF ScheduleInv, ScheduleTypeOK, EvaluationOK, OccurrenceOK, WindowJob
<1>3. GoesOnWith(e, w) /\ OnlyConcerns(w)
  BY <1>1
     DEF ScheduleInv, ScheduleTypeOK, EvaluatorDies, OccurrenceUnchanged, Returns, Idle,
         WorksOn, OnlyConcerns, GoesOnWith
<1>4. OwnWindow(e, w)' /\ JobOfWindow(w)'
  BY <1>1, ScheduleAssumption
     DEF ScheduleInv, ScheduleTypeOK, EvaluatorDies, OccurrenceUnchanged, Returns, Idle,
         OwnWindow, JobOfWindow, WorksOn
<1>5. HeldIfCounted(e, w)
  BY <1>1
     DEF EvaluatorDies, OccurrenceUnchanged, Returns, Idle, OwnWindow, AtWork, WorksOn,
         HeldIfCounted
<1> QED BY <1>1, <1>2, <1>3, <1>4, <1>5, EvaluatorStep

LEMMA EvaluateKeeps == ASSUME Separate, ScheduleInv, NEW e \in Evaluators, Evaluate(e) PROVE ScheduleInv'
<1>1. PICK w \in KeysOf[e] :
        evaluation' = [evaluation EXCEPT ![e] = [at |-> "due", window |-> {w}, copy |-> schedule]]
  BY DEF Evaluate
<1>2. w \in Windows
  BY ScheduleAssumption
<1>3. ScheduleTypeOK'
  BY <1>1, <1>2 DEF Evaluate, ScheduleInv, ScheduleTypeOK
<1>4. evaluation'[e].at = "due" /\ Evaluating(e, w)' /\ GoesOnWith(e, w)
  BY <1>1 DEF Evaluating, GoesOnWith, ScheduleInv, ScheduleTypeOK
<1>5. OwnWindow(e, w)' /\ JobOfWindow(w)'
  BY <1>2, <1>4 DEF Evaluate, OwnWindow, JobOfWindow, ScheduleInv
<1>6. AtWork(w)' => AtWork(w) /\ w \in activeIndex'
  BY <1>2 DEF Evaluate, AtWork, Held, ScheduleInv
<1>7. OnlyConcerns(w) /\ HeldIfCounted(e, w)
  BY <1>4, <1>6 DEF Evaluate, OnlyConcerns, HeldIfCounted
<1> QED BY <1>3, <1>4, <1>5, <1>7, EvaluatorStep

---------------------------------------------------------------------------
(* The job of a window: it exists, so no evaluation between its record and *)
(* its admission is at the window, and while the daemon evaluates it the   *)
(* job is not taken up.                                                    *)
LEMMA JobStep ==
  ASSUME ScheduleInv, ScheduleTypeOK', NEW w \in Windows, UNCHANGED evaluation,
         job[w] # NoJob,
         OnlyConcerns(w),
         \/ DaemonFree \/ runner[w].at # "off"
         \/ occurrence'[w] = occurrence[w] /\ runner'[w] = runner[w],
         occurrence'[w] = "none" => occurrence[w] = "none",
         JobOfWindow(w)', AtWork(w)' => AtWork(w) /\ w \in activeIndex'
  PROVE  ScheduleInv'
<1>1. \A e \in Evaluators : OwnWindow(e, w)'
  BY DEF OwnWindow, Evaluating, JobOfWindow, DaemonFree, ScheduleInv
<1>2. \A e \in Evaluators : evaluation'[e].at # "idle" => \E v \in KeysOf[e] : Evaluating(e, v)'
  BY DEF Evaluating, ScheduleInv
<1>3. w \in Held' => w \in activeIndex' /\ w \in Held
  BY DEF Held, Passed, Evaluating, OwnWindow, ScheduleInv
<1> QED BY <1>1, <1>2, <1>3, WindowStep

LEMMA DispatchKeeps == ASSUME ScheduleInv, NEW w \in Windows, Dispatch(w) PROVE ScheduleInv'
<1>1. JobOfWindow(w) /\ job[w] # NoJob /\ (AtWork(w) => w \in activeIndex)
  BY DEF ScheduleInv, NoJob, Held, Dispatch
<1>2. ScheduleTypeOK'
  <2>1. OccurrenceOK'
    BY OccurrenceTypes DEF Dispatch, ScheduleInv, OccurrenceUnchanged
  <2>2. schedule' \in ScheduleRecord /\ UNCHANGED evaluation /\ deaths' \in 0..MaxRunDeaths
    BY SettledTypes, ScheduleAssumption DEF Dispatch, ScheduleInv, ScheduleTypeOK
  <2>3. job' \in [Windows -> WindowJob]
    BY <1>1, ScheduleAssumption
       DEF Dispatch, ScheduleInv, ScheduleTypeOK, JobOfWindow, WindowJob
  <2>4. runner' \in [Windows -> WindowRunner]
    BY NoCopyTypes DEF Dispatch, ScheduleInv, ScheduleTypeOK, WindowRunner
  <2> QED BY <2>1, <2>2, <2>3, <2>4
             DEF ScheduleInv, ScheduleTypeOK, OccurrenceOK, WindowJob, WindowRunner
<1>3. OnlyConcerns(w)
  BY DEF Dispatch, OnlyConcerns
<1>4. JobOfWindow(w)' /\ (occurrence'[w] = "none" => occurrence[w] = "none")
  BY <1>1, ScheduleAssumption DEF ScheduleInv, ScheduleTypeOK, Dispatch, JobOfWindow
<1>5. AtWork(w)' => AtWork(w) /\ w \in activeIndex'
  BY <1>1 DEF Dispatch, AtWork
<1>6. UNCHANGED evaluation
      /\ (DaemonFree \/ runner[w].at # "off" \/ (occurrence'[w] = occurrence[w] /\ runner'[w] = runner[w]))
  BY DEF Dispatch
<1> QED BY <1>1, <1>2, <1>3, <1>4, <1>5, <1>6, JobStep

LEMMA MarkRunningKeeps == ASSUME ScheduleInv, NEW w \in Windows, MarkRunning(w) PROVE ScheduleInv'
<1>1. JobOfWindow(w) /\ job[w] # NoJob /\ (AtWork(w) => w \in activeIndex)
  BY DEF ScheduleInv, JobOfWindow, NoJob, Held, MarkRunning
<1>2. ScheduleTypeOK'
  <2>1. OccurrenceOK'
    BY OccurrenceTypes DEF MarkRunning, ScheduleInv, ActiveStatuses
  <2>2. schedule' \in ScheduleRecord /\ UNCHANGED evaluation /\ deaths' \in 0..MaxRunDeaths
    BY SettledTypes, ScheduleAssumption DEF MarkRunning, ScheduleInv, ScheduleTypeOK
  <2>3. job' \in [Windows -> WindowJob]
    BY <1>1, ScheduleAssumption DEF MarkRunning, ScheduleInv, ScheduleTypeOK, WindowJob
  <2>4. runner' \in [Windows -> WindowRunner]
    BY NoCopyTypes DEF MarkRunning, ScheduleInv, ScheduleTypeOK, WindowRunner
  <2> QED BY <2>1, <2>2, <2>3, <2>4
             DEF ScheduleInv, ScheduleTypeOK, OccurrenceOK, WindowJob, WindowRunner
<1>3. OnlyConcerns(w)
  BY
     DEF ScheduleInv, ScheduleTypeOK, MarkRunning, SaveOccurrence, Indexed,
         OccurrenceUnchanged, OnlyConcerns
<1>4. JobOfWindow(w)' /\ (occurrence'[w] = "none" => occurrence[w] = "none")
  BY <1>1, ScheduleAssumption
     DEF ScheduleInv, ScheduleTypeOK, MarkRunning, JobOfWindow, SaveOccurrence,
         OccurrenceUnchanged
<1>5. AtWork(w)' => AtWork(w) /\ w \in activeIndex'
  BY <1>1 DEF MarkRunning, AtWork, SaveOccurrence, Indexed, OccurrenceUnchanged, ActiveStatuses
<1>6. UNCHANGED evaluation
      /\ (DaemonFree \/ runner[w].at # "off" \/ (occurrence'[w] = occurrence[w] /\ runner'[w] = runner[w]))
  BY DEF MarkRunning
<1> QED BY <1>1, <1>2, <1>3, <1>4, <1>5, <1>6, JobStep

LEMMA SettleOccurrenceKeeps == ASSUME ScheduleInv, NEW w \in Windows, SettleOccurrence(w) PROVE ScheduleInv'
<1>1. JobOfWindow(w) /\ job[w] # NoJob /\ (AtWork(w) => w \in activeIndex)
  BY DEF ScheduleInv, JobOfWindow, NoJob, Held, SettleOccurrence
<1>2. ScheduleTypeOK'
  <2>1. OccurrenceOK'
    BY OccurrenceTypes DEF SettleOccurrence, SettleStatus, ScheduleInv, FinalStatuses
  <2>2. schedule' \in ScheduleRecord /\ UNCHANGED evaluation /\ deaths' \in 0..MaxRunDeaths
    BY SettledTypes, ScheduleAssumption DEF SettleOccurrence, ScheduleInv, ScheduleTypeOK
  <2>3. job' \in [Windows -> WindowJob]
    BY <1>1, ScheduleAssumption DEF SettleOccurrence, ScheduleInv, ScheduleTypeOK, WindowJob
  <2>4. runner' \in [Windows -> WindowRunner]
    BY NoCopyTypes DEF SettleOccurrence, ScheduleInv, ScheduleTypeOK, WindowRunner
  <2> QED BY <2>1, <2>2, <2>3, <2>4
             DEF ScheduleInv, ScheduleTypeOK, OccurrenceOK, WindowJob, WindowRunner
<1>3. OnlyConcerns(w)
  BY
     DEF ScheduleInv, ScheduleTypeOK, SettleOccurrence, SettleStatus, SaveOccurrence,
         Indexed, OccurrenceUnchanged, OnlyConcerns
<1>4. JobOfWindow(w)' /\ (occurrence'[w] = "none" => occurrence[w] = "none")
  BY <1>1, ScheduleAssumption
     DEF ScheduleInv, ScheduleTypeOK, SettleOccurrence, SettleStatus, JobOfWindow,
         SaveOccurrence, OccurrenceUnchanged
<1>5. AtWork(w)' => AtWork(w) /\ w \in activeIndex'
  BY <1>1 DEF ScheduleInv, ScheduleTypeOK, SettleOccurrence, AtWork
<1>6. UNCHANGED evaluation
      /\ (DaemonFree \/ runner[w].at # "off" \/ (occurrence'[w] = occurrence[w] /\ runner'[w] = runner[w]))
  BY DEF SettleOccurrence
<1> QED BY <1>1, <1>2, <1>3, <1>4, <1>5, <1>6, JobStep

LEMMA SettleScheduleKeeps == ASSUME ScheduleInv, NEW w \in Windows, SettleSchedule(w) PROVE ScheduleInv'
<1>1. JobOfWindow(w) /\ job[w] # NoJob /\ (AtWork(w) => w \in activeIndex)
  BY DEF ScheduleInv, JobOfWindow, NoJob, Held, SettleSchedule
<1>2. ScheduleTypeOK'
  <2>1. OccurrenceOK'
    BY OccurrenceTypes DEF SettleSchedule, ScheduleInv, OccurrenceUnchanged
  <2>2. schedule' \in ScheduleRecord /\ UNCHANGED evaluation /\ deaths' \in 0..MaxRunDeaths
    BY SettledTypes, ScheduleAssumption DEF SettleSchedule, ScheduleInv, ScheduleTypeOK
  <2>3. job' \in [Windows -> WindowJob]
    BY <1>1, ScheduleAssumption DEF SettleSchedule, ScheduleInv, ScheduleTypeOK, WindowJob
  <2>4. runner' \in [Windows -> WindowRunner]
    <3> DEFINE next == [runner[w] EXCEPT !.at = "settled", !.copy = NoCopy]
    <3>1. next \in [at : {"settled"}, outcome : {"none", "succeeded", "failed"}, copy : ScheduleRecord]
      BY NoCopyTypes DEF ScheduleInv, ScheduleTypeOK
    <3>2. runner' = [runner EXCEPT ![w] = next]
      BY DEF SettleSchedule
    <3> HIDE DEF next
    <3> QED BY <3>1, <3>2 DEF ScheduleInv, ScheduleTypeOK, WindowRunner
  <2> QED BY <2>1, <2>2, <2>3, <2>4
             DEF ScheduleInv, ScheduleTypeOK, OccurrenceOK, WindowJob, WindowRunner
<1>3. OnlyConcerns(w)
  BY DEF ScheduleInv, ScheduleTypeOK, SettleSchedule, OnlyConcerns
<1>4. JobOfWindow(w)' /\ (occurrence'[w] = "none" => occurrence[w] = "none")
  BY <1>1, ScheduleAssumption DEF ScheduleInv, ScheduleTypeOK, SettleSchedule, JobOfWindow
<1>5. AtWork(w)' => AtWork(w) /\ w \in activeIndex'
  BY <1>1 DEF ScheduleInv, ScheduleTypeOK, SettleSchedule, AtWork
<1>6. UNCHANGED evaluation
      /\ (DaemonFree \/ runner[w].at # "off" \/ (occurrence'[w] = occurrence[w] /\ runner'[w] = runner[w]))
  BY DEF SettleSchedule
<1> QED BY <1>1, <1>2, <1>3, <1>4, <1>5, <1>6, JobStep

LEMMA ThrowKeeps == ASSUME ScheduleInv, NEW w \in Windows, Throw(w) PROVE ScheduleInv'
<1>1. JobOfWindow(w) /\ job[w] # NoJob /\ (AtWork(w) => w \in activeIndex)
  BY DEF ScheduleInv, JobOfWindow, NoJob, Held, Throw
<1>2. ScheduleTypeOK'
  <2>1. OccurrenceOK'
    BY OccurrenceTypes DEF Throw, ScheduleInv, OccurrenceUnchanged
  <2>2. schedule' \in ScheduleRecord /\ UNCHANGED evaluation /\ deaths' \in 0..MaxRunDeaths
    BY SettledTypes, ScheduleAssumption DEF Throw, ScheduleInv, ScheduleTypeOK
  <2>3. job' \in [Windows -> WindowJob]
    BY <1>1, ScheduleAssumption DEF Throw, ScheduleInv, ScheduleTypeOK, WindowJob
  <2>4. runner' \in [Windows -> WindowRunner]
    <3> DEFINE next == [runner[w] EXCEPT !.at = "settled", !.outcome = "failed"]
    <3>1. next \in [at : {"settled"}, outcome : {"failed"}, copy : ScheduleRecord]
      BY DEF ScheduleInv, ScheduleTypeOK
    <3>2. runner' = [runner EXCEPT ![w] = next]
      BY DEF Throw
    <3> HIDE DEF next
    <3> QED BY <3>1, <3>2 DEF ScheduleInv, ScheduleTypeOK, WindowRunner
  <2> QED BY <2>1, <2>2, <2>3, <2>4
             DEF ScheduleInv, ScheduleTypeOK, OccurrenceOK, WindowJob, WindowRunner
<1>3. OnlyConcerns(w)
  BY DEF ScheduleInv, ScheduleTypeOK, Throw, OnlyConcerns
<1>4. JobOfWindow(w)' /\ (occurrence'[w] = "none" => occurrence[w] = "none")
  BY <1>1, ScheduleAssumption DEF ScheduleInv, ScheduleTypeOK, Throw, JobOfWindow
<1>5. AtWork(w)' => AtWork(w) /\ w \in activeIndex'
  BY <1>1 DEF Throw, AtWork
<1>6. UNCHANGED evaluation
      /\ (DaemonFree \/ runner[w].at # "off" \/ (occurrence'[w] = occurrence[w] /\ runner'[w] = runner[w]))
  BY DEF Throw
<1> QED BY <1>1, <1>2, <1>3, <1>4, <1>5, <1>6, JobStep

LEMMA PublishKeeps == ASSUME ScheduleInv, NEW w \in Windows, Publish(w) PROVE ScheduleInv'
<1>1. JobOfWindow(w) /\ job[w] # NoJob /\ (AtWork(w) => w \in activeIndex)
  BY DEF ScheduleInv, JobOfWindow, NoJob, Held, Publish
<1>2. ScheduleTypeOK'
  <2>1. OccurrenceOK'
    BY OccurrenceTypes DEF Publish, ScheduleInv, OccurrenceUnchanged
  <2>2. schedule' \in ScheduleRecord /\ UNCHANGED evaluation /\ deaths' \in 0..MaxRunDeaths
    BY SettledTypes, ScheduleAssumption DEF Publish, ScheduleInv, ScheduleTypeOK
  <2>3. job' \in [Windows -> WindowJob]
    BY <1>1, ScheduleAssumption DEF Publish, ScheduleInv, ScheduleTypeOK, WindowJob
  <2>4. runner' \in [Windows -> WindowRunner]
    BY NoCopyTypes DEF Publish, NoRunner, ScheduleInv, ScheduleTypeOK, WindowRunner
  <2> QED BY <2>1, <2>2, <2>3, <2>4
             DEF ScheduleInv, ScheduleTypeOK, OccurrenceOK, WindowJob, WindowRunner
<1>3. OnlyConcerns(w)
  BY DEF Publish, OnlyConcerns
<1>4. JobOfWindow(w)' /\ (occurrence'[w] = "none" => occurrence[w] = "none")
  BY <1>1, ScheduleAssumption DEF ScheduleInv, ScheduleTypeOK, Publish, NoRunner, JobOfWindow
<1>5. AtWork(w)' => AtWork(w) /\ w \in activeIndex'
  BY <1>1 DEF ScheduleInv, ScheduleTypeOK, Publish, AtWork
<1>6. UNCHANGED evaluation
      /\ (DaemonFree \/ runner[w].at # "off" \/ (occurrence'[w] = occurrence[w] /\ runner'[w] = runner[w]))
  BY DEF Publish
<1> QED BY <1>1, <1>2, <1>3, <1>4, <1>5, <1>6, JobStep

LEMMA RunnerDiesKeeps == ASSUME ScheduleInv, NEW w \in Windows, RunnerDies(w) PROVE ScheduleInv'
<1>1. JobOfWindow(w) /\ job[w] # NoJob /\ (AtWork(w) => w \in activeIndex)
  BY DEF ScheduleInv, JobOfWindow, NoJob, Held, RunnerDies
<1>2. ScheduleTypeOK'
  <2>1. OccurrenceOK'
    BY OccurrenceTypes DEF RunnerDies, ScheduleInv, OccurrenceUnchanged
  <2>2. schedule' \in ScheduleRecord /\ UNCHANGED evaluation /\ deaths' \in 0..MaxRunDeaths
    BY SettledTypes, ScheduleAssumption DEF RunnerDies, ScheduleInv, ScheduleTypeOK
  <2>3. job' \in [Windows -> WindowJob]
    BY <1>1, ScheduleAssumption DEF RunnerDies, ScheduleInv, ScheduleTypeOK, WindowJob
  <2>4. runner' \in [Windows -> WindowRunner]
    BY NoCopyTypes DEF RunnerDies, ScheduleInv, ScheduleTypeOK, WindowRunner
  <2> QED BY <2>1, <2>2, <2>3, <2>4
             DEF ScheduleInv, ScheduleTypeOK, OccurrenceOK, WindowJob, WindowRunner
<1>3. OnlyConcerns(w)
  BY DEF RunnerDies, OnlyConcerns
<1>4. JobOfWindow(w)' /\ (occurrence'[w] = "none" => occurrence[w] = "none")
  BY <1>1, ScheduleAssumption DEF RunnerDies, JobOfWindow
<1>5. AtWork(w)' => AtWork(w) /\ w \in activeIndex'
  BY <1>1 DEF RunnerDies, AtWork
<1>6. UNCHANGED evaluation
      /\ (DaemonFree \/ runner[w].at # "off" \/ (occurrence'[w] = occurrence[w] /\ runner'[w] = runner[w]))
  BY DEF RunnerDies
<1> QED BY <1>1, <1>2, <1>3, <1>4, <1>5, <1>6, JobStep

LEMMA ReconcileKeeps == ASSUME ScheduleInv, NEW w \in Windows, Reconcile(w) PROVE ScheduleInv'
<1>1. JobOfWindow(w) /\ job[w] # NoJob /\ (AtWork(w) => w \in activeIndex)
  BY DEF ScheduleInv, NoJob, Held, Reconcile
<1>2. ScheduleTypeOK'
  <2>1. OccurrenceOK'
    BY OccurrenceTypes DEF Reconcile, EndAsFailed, SettleStatus, ScheduleInv, FinalStatuses
  <2>2. schedule' \in ScheduleRecord /\ UNCHANGED evaluation /\ deaths' \in 0..MaxRunDeaths
    BY SettledTypes, ScheduleAssumption DEF Reconcile, EndAsFailed, ScheduleInv, ScheduleTypeOK
  <2>3. job' \in [Windows -> WindowJob]
    <3>1. job' = [job EXCEPT ![w].status = "queued"] \/ job' = [job EXCEPT ![w].status = "ended"]
      BY DEF Reconcile, EndAsFailed
    <3>2. \A s \in {"queued", "ended"} :
             [job[w] EXCEPT !.status = s] \in [status : {"queued", "ended"}, attempt : 0..MaxAttempts]
      BY DEF ScheduleInv, ScheduleTypeOK
    <3>3. CASE job' = [job EXCEPT ![w].status = "queued"]
      BY <3>2, <3>3 DEF ScheduleInv, ScheduleTypeOK, WindowJob
    <3>4. CASE job' = [job EXCEPT ![w].status = "ended"]
      BY <3>2, <3>4 DEF ScheduleInv, ScheduleTypeOK, WindowJob
    <3> QED BY <3>1, <3>3, <3>4
  <2>4. runner' \in [Windows -> WindowRunner]
    BY NoCopyTypes DEF Reconcile, NoRunner, ScheduleInv, ScheduleTypeOK, WindowRunner
  <2> QED BY <2>1, <2>2, <2>3, <2>4
             DEF ScheduleInv, ScheduleTypeOK, OccurrenceOK, WindowJob, WindowRunner
<1>3. OnlyConcerns(w)
  BY
     DEF ScheduleInv, ScheduleTypeOK, Reconcile, EndAsFailed, SettleStatus, SaveOccurrence,
         Indexed, OccurrenceUnchanged, OnlyConcerns
<1>4. JobOfWindow(w)' /\ (occurrence'[w] = "none" => occurrence[w] = "none")
  BY <1>1, ScheduleAssumption
     DEF ScheduleInv, ScheduleTypeOK, Reconcile, TriedAgain, EndAsFailed, SettleStatus,
         NoRunner, JobOfWindow, SaveOccurrence, OccurrenceUnchanged
<1>5. AtWork(w)' => AtWork(w) /\ w \in activeIndex'
  BY <1>1
     DEF ScheduleInv, ScheduleTypeOK, Reconcile, TriedAgain, EndAsFailed, AtWork,
         OccurrenceUnchanged
<1>6. UNCHANGED evaluation
      /\ (DaemonFree \/ runner[w].at # "off" \/ (occurrence'[w] = occurrence[w] /\ runner'[w] = runner[w]))
  BY DEF Reconcile
<1> QED BY <1>1, <1>2, <1>3, <1>4, <1>5, <1>6, JobStep

LEMMA RecoverReceiptKeeps == ASSUME ScheduleInv, NEW w \in Windows, RecoverReceipt(w) PROVE ScheduleInv'
<1>1. JobOfWindow(w) /\ job[w] # NoJob /\ (AtWork(w) => w \in activeIndex)
  BY DEF ScheduleInv, NoJob, Held, RecoverReceipt
<1>2. ScheduleTypeOK'
  <2>1. OccurrenceOK'
    BY OccurrenceTypes DEF RecoverReceipt, ScheduleInv, OccurrenceUnchanged
  <2>2. schedule' \in ScheduleRecord /\ UNCHANGED evaluation /\ deaths' \in 0..MaxRunDeaths
    BY SettledTypes, ScheduleAssumption DEF RecoverReceipt, ScheduleInv, ScheduleTypeOK
  <2>3. job' \in [Windows -> WindowJob]
    BY <1>1, ScheduleAssumption
       DEF RecoverReceipt, NoRunner, ScheduleInv, ScheduleTypeOK, WindowJob
  <2>4. runner' \in [Windows -> WindowRunner]
    BY NoCopyTypes DEF RecoverReceipt, NoRunner, ScheduleInv, ScheduleTypeOK, WindowRunner
  <2> QED BY <2>1, <2>2, <2>3, <2>4
             DEF ScheduleInv, ScheduleTypeOK, OccurrenceOK, WindowJob, WindowRunner
<1>3. OnlyConcerns(w)
  BY DEF RecoverReceipt, OnlyConcerns
<1>4. JobOfWindow(w)' /\ (occurrence'[w] = "none" => occurrence[w] = "none")
  BY <1>1, ScheduleAssumption
     DEF ScheduleInv, ScheduleTypeOK, RecoverReceipt, NoRunner, JobOfWindow
<1>5. AtWork(w)' => AtWork(w) /\ w \in activeIndex'
  BY <1>1 DEF ScheduleInv, ScheduleTypeOK, RecoverReceipt, AtWork
<1>6. UNCHANGED evaluation
      /\ (DaemonFree \/ runner[w].at # "off" \/ (occurrence'[w] = occurrence[w] /\ runner'[w] = runner[w]))
  BY DEF RecoverReceipt
<1> QED BY <1>1, <1>2, <1>3, <1>4, <1>5, <1>6, JobStep

LEMMA ExpireWaitingKeeps == ASSUME ScheduleInv, NEW w \in Windows, ExpireWaiting(w) PROVE ScheduleInv'
<1>1. JobOfWindow(w) /\ job[w] # NoJob /\ (AtWork(w) => w \in activeIndex)
  BY DEF ScheduleInv, NoJob, Held, ExpireWaiting
<1>2. ScheduleTypeOK'
  <2>1. OccurrenceOK'
    BY OccurrenceTypes DEF ExpireWaiting, EndAsFailed, SettleStatus, ScheduleInv, FinalStatuses
  <2>2. schedule' \in ScheduleRecord /\ UNCHANGED evaluation /\ deaths' \in 0..MaxRunDeaths
    BY SettledTypes, ScheduleAssumption
       DEF ExpireWaiting, EndAsFailed, ScheduleInv, ScheduleTypeOK
  <2>3. job' \in [Windows -> WindowJob]
    BY <1>1, ScheduleAssumption
       DEF ExpireWaiting, EndAsFailed, ScheduleInv, ScheduleTypeOK, WindowJob
  <2>4. runner' \in [Windows -> WindowRunner]
    BY NoCopyTypes DEF ExpireWaiting, ScheduleInv, ScheduleTypeOK, WindowRunner
  <2> QED BY <2>1, <2>2, <2>3, <2>4
             DEF ScheduleInv, ScheduleTypeOK, OccurrenceOK, WindowJob, WindowRunner
<1>3. OnlyConcerns(w)
  BY
     DEF ScheduleInv, ScheduleTypeOK, ExpireWaiting, EndAsFailed, SettleStatus,
         SaveOccurrence, Indexed, OccurrenceUnchanged, OnlyConcerns
<1>4. JobOfWindow(w)' /\ (occurrence'[w] = "none" => occurrence[w] = "none")
  BY <1>1, ScheduleAssumption
     DEF ScheduleInv, ScheduleTypeOK, ExpireWaiting, EndAsFailed, SettleStatus, JobOfWindow,
         SaveOccurrence, OccurrenceUnchanged
<1>5. AtWork(w)' => AtWork(w) /\ w \in activeIndex'
  BY <1>1 DEF ScheduleInv, ScheduleTypeOK, ExpireWaiting, EndAsFailed, AtWork
<1>6. UNCHANGED evaluation
      /\ (DaemonFree \/ runner[w].at # "off" \/ (occurrence'[w] = occurrence[w] /\ runner'[w] = runner[w]))
  BY DEF ExpireWaiting
<1> QED BY <1>1, <1>2, <1>3, <1>4, <1>5, <1>6, JobStep

LEMMA EndUnsettledKeeps == ASSUME ScheduleInv, NEW w \in Windows, EndUnsettled(w) PROVE ScheduleInv'
<1>1. JobOfWindow(w) /\ job[w] # NoJob /\ (AtWork(w) => w \in activeIndex)
  BY DEF ScheduleInv, NoJob, Held, EndUnsettled
<1>2. ScheduleTypeOK'
  <2>1. OccurrenceOK'
    BY OccurrenceTypes DEF EndUnsettled, ScheduleInv, OccurrenceUnchanged
  <2>2. schedule' \in ScheduleRecord /\ UNCHANGED evaluation /\ deaths' \in 0..MaxRunDeaths
    BY SettledTypes, ScheduleAssumption DEF EndUnsettled, ScheduleInv, ScheduleTypeOK
  <2>3. job' \in [Windows -> WindowJob]
    BY <1>1, ScheduleAssumption DEF EndUnsettled, ScheduleInv, ScheduleTypeOK, WindowJob
  <2>4. runner' \in [Windows -> WindowRunner]
    BY NoCopyTypes DEF EndUnsettled, ScheduleInv, ScheduleTypeOK, WindowRunner
  <2> QED BY <2>1, <2>2, <2>3, <2>4
             DEF ScheduleInv, ScheduleTypeOK, OccurrenceOK, WindowJob, WindowRunner
<1>3. OnlyConcerns(w)
  BY DEF EndUnsettled, OnlyConcerns
<1>4. JobOfWindow(w)' /\ (occurrence'[w] = "none" => occurrence[w] = "none")
  BY <1>1, ScheduleAssumption DEF EndUnsettled, JobOfWindow
<1>5. AtWork(w)' => AtWork(w) /\ w \in activeIndex'
  BY <1>1 DEF EndUnsettled, AtWork
<1>6. UNCHANGED evaluation
      /\ (DaemonFree \/ runner[w].at # "off" \/ (occurrence'[w] = occurrence[w] /\ runner'[w] = runner[w]))
  BY DEF EndUnsettled
<1> QED BY <1>1, <1>2, <1>3, <1>4, <1>5, <1>6, JobStep

LEMMA PauseKeeps == ASSUME ScheduleInv, Pause PROVE ScheduleInv'
<1>1. ScheduleTypeOK'
  BY DEF Pause, ScheduleInv, ScheduleTypeOK, ScheduleRecord
<1> QED BY <1>1
           DEF Pause, ScheduleInv, Evaluating, OwnWindow, JobOfWindow, Held, Passed, AtWork

LEMMA ScheduleInitially == ASSUME ScheduleInit PROVE ScheduleInv
<1>1. ScheduleTypeOK
  <2>1. schedule \in ScheduleRecord
    <3>1. 0 \in 0..MaxFailures
      BY ScheduleAssumption
    <3>2. schedule \in [enabled : BOOLEAN, shadow : BOOLEAN, failures : 0..MaxFailures]
      BY <3>1, Zenon DEF ScheduleInit
    <3> QED BY <3>2 DEF ScheduleRecord
  <2>2. /\ Idle \in [at : {"idle"}, window : {{}}, copy : ScheduleRecord]
        /\ NoRunner \in [at : {"off"}, outcome : {"none"}, copy : ScheduleRecord]
        /\ NoJob \in [status : {"none"}, attempt : 0..MaxAttempts]
    BY NoCopyTypes, ScheduleAssumption DEF Idle, NoRunner, NoJob
  <2> QED BY <2>1, <2>2, ScheduleAssumption DEF ScheduleInit, ScheduleTypeOK
<1>2. Held = {}
  BY DEF ScheduleInit, Held, Passed, AtWork, Idle, NoJob
<1>3. IsFiniteSet({}) /\ Cardinality({}) = 0
  BY FS_EmptySet
<1> QED BY <1>1, <1>2, <1>3, ScheduleAssumption
           DEF ScheduleInit, ScheduleInv, Idle, OwnWindow, JobOfWindow, NoRunner, NoJob

LEMMA ScheduleStep == ASSUME Separate, ScheduleInv, [ScheduleNext]_scheduleVars PROVE ScheduleInv'
<1>1. ASSUME NEW e \in Evaluators,
             \/ Evaluate(e) \/ FindOccurrence(e) \/ RecordOccurrence(e)
             \/ Refuse(e) \/ Permit(e) \/ Shadow(e) \/ Accept(e) \/ Admit(e)
             \/ StampSchedule(e) \/ QueueOccurrence(e) \/ EvaluatorDies(e)
      PROVE  ScheduleInv'
  BY <1>1, EvaluateKeeps, FindOccurrenceKeeps, RecordOccurrenceKeeps, RefuseKeeps,
     PermitKeeps, ShadowKeeps, AcceptKeeps, AdmitKeeps, StampScheduleKeeps,
     QueueOccurrenceKeeps, EvaluatorDiesKeeps
<1>2. ASSUME NEW w \in Windows,
             \/ Dispatch(w) \/ MarkRunning(w) \/ SettleOccurrence(w) \/ SettleSchedule(w)
             \/ Throw(w) \/ Publish(w) \/ RunnerDies(w) \/ Reconcile(w) \/ RecoverReceipt(w)
             \/ ExpireWaiting(w) \/ EndUnsettled(w)
      PROVE  ScheduleInv'
  BY <1>2, DispatchKeeps, MarkRunningKeeps, SettleOccurrenceKeeps, SettleScheduleKeeps,
     ThrowKeeps, PublishKeeps, RunnerDiesKeeps, ReconcileKeeps, RecoverReceiptKeeps,
     ExpireWaitingKeeps, EndUnsettledKeeps
<1>3. CASE UNCHANGED scheduleVars
  BY <1>3
     DEF scheduleVars, ScheduleInv, ScheduleTypeOK, Evaluating, OwnWindow, JobOfWindow,
         Held, Passed, AtWork
<1> QED BY <1>1, <1>2, <1>3, PauseKeeps DEF ScheduleNext

LEMMA ScheduleInvariant == Separate => (ScheduleSpec => []ScheduleInv)
<1> SUFFICES ASSUME Separate
             PROVE  ScheduleSpec => []ScheduleInv
  OBVIOUS
<1>1. ScheduleInit => ScheduleInv
  BY ScheduleInitially
<1>2. ScheduleInv /\ [ScheduleNext]_scheduleVars => ScheduleInv'
  BY ScheduleStep
<1> QED BY <1>1, <1>2, PTL DEF ScheduleSpec

(* Every variable of a schedule keeps its type, as long as no two callers  *)
(* compute the same window (KeysOf).                                       *)
THEOREM ScheduleTypes == Separate => (ScheduleSpec => []ScheduleTypeOK)
<1> SUFFICES ASSUME Separate
             PROVE  ScheduleSpec => []ScheduleTypeOK
  OBVIOUS
<1>1. ScheduleInv => ScheduleTypeOK
  BY DEF ScheduleInv
<1> QED BY <1>1, ScheduleInvariant, PTL

(* At most maxActiveOccurrences windows of a schedule have work at a time, *)
(* for any windows and evaluators, provided that no two evaluators compute *)
(* the same window: each records its occurrence before it counts those of  *)
(* the others (engine.ts, evaluateSchedule).                               *)
THEOREM LimitIsKept == Separate => (ScheduleSpec => []OccurrenceLimit)
<1> SUFFICES ASSUME Separate
             PROVE  ScheduleSpec => []OccurrenceLimit
  OBVIOUS
<1>1. ASSUME ScheduleInv PROVE OccurrenceLimit
  <2> DEFINE working == {w \in Windows : /\ job[w].status \in {"queued", "running"}
                                         /\ runner[w].at \notin {"settled", "settling", "dead"}}
  <2>1. working \subseteq Held
    BY <1>1 DEF ScheduleInv, ScheduleTypeOK, Held, AtWork
  <2>2. IsFiniteSet(Held)
    BY <1>1, FS_Subset DEF ScheduleInv
  <2>3. /\ Cardinality(working) <= Cardinality(Held)
        /\ Cardinality(working) \in Nat /\ Cardinality(Held) \in Nat
    BY <2>1, <2>2, FS_Subset, FS_CardinalityType
  <2> HIDE DEF working
  <2>4. Cardinality(working) <= MaxActive
    BY <1>1, <2>3, ScheduleAssumption DEF ScheduleInv
  <2> QED BY <2>4 DEF OccurrenceLimit, working
<1> QED BY <1>1, ScheduleInvariant, PTL

(* An occurrence of a window that only the daemon evaluates keeps the      *)
(* status it ended with: settlement leaves it alone, and the evaluation    *)
(* writes it for the last time before its job can run.                     *)
THEOREM OccurrenceEndsOnce == Separate => (ScheduleSpec => EndIsKept)
<1> SUFFICES ASSUME Separate
             PROVE  ScheduleSpec => EndIsKept
  OBVIOUS
<1> DEFINE Kept == \A w \in KeysOf[Daemon] :
                      occurrence[w] \in FinalStatuses => occurrence'[w] = occurrence[w]
<1>1. ASSUME ScheduleInv, [ScheduleNext]_scheduleVars
      PROVE  Kept
  <2> SUFFICES ASSUME NEW w \in KeysOf[Daemon], occurrence[w] \in FinalStatuses
               PROVE  occurrence'[w] = occurrence[w]
    OBVIOUS
  <2>0. w \in Windows
    BY ScheduleAssumption
  <2>1. ASSUME NEW e \in Evaluators,
               \/ Evaluate(e) \/ FindOccurrence(e) \/ Permit(e) \/ Admit(e) \/ StampSchedule(e)
        PROVE  occurrence'[w] = occurrence[w]
    BY <2>1 DEF Evaluate, FindOccurrence, Permit, Admit, StampSchedule
  <2>2. ASSUME NEW e \in Evaluators,
               RecordOccurrence(e) \/ Refuse(e) \/ Shadow(e) \/ Accept(e) \/ QueueOccurrence(e) \/ EvaluatorDies(e)
        PROVE  occurrence'[w] = occurrence[w]
    <3>1. PICK v \in KeysOf[e] : /\ v \in Windows /\ Evaluating(e, v) /\ Window(e) = v /\ OwnWindow(e, v)
      BY <1>1, <2>2, Works
         DEF RecordOccurrence, Refuse, Shadow, Accept, QueueOccurrence, EvaluatorDies,
             WorksOn
    <3>2. \A u \in Windows \ {v} : occurrence'[u] = occurrence[u]
      BY <1>1, <2>2, <3>1
         DEF RecordOccurrence, Refuse, Stopped, Crowded, Paused, TooSoon, Shadow, Accept,
             QueueOccurrence, EvaluatorDies, SaveOccurrence, OccurrenceUnchanged,
             ScheduleInv, ScheduleTypeOK
    <3>3. CASE v = w
      <4>1. e = Daemon
        BY <3>1, <3>3, ScheduleAssumption DEF Separate
      <4>2. evaluation[e].at \in {"absent", "recorded", "clear", "accepted", "stamped"} => occurrence[w] \notin FinalStatuses
        BY <3>1, <3>3, <4>1 DEF OwnWindow, FinalStatuses
      <4> QED BY <2>2, <4>2
                 DEF RecordOccurrence, Refuse, Shadow, Accept, QueueOccurrence,
                     EvaluatorDies, OccurrenceUnchanged
    <3> QED BY <2>0, <3>2, <3>3
  <2>3. ASSUME NEW v \in Windows, \/ MarkRunning(v) \/ SettleOccurrence(v) \/ Reconcile(v) \/ ExpireWaiting(v)
        PROVE  occurrence'[w] = occurrence[w]
    BY <1>1, <2>0, <2>3
       DEF MarkRunning, SettleOccurrence, Reconcile, ExpireWaiting, EndAsFailed,
           SettleStatus, SaveOccurrence, OccurrenceUnchanged, ScheduleInv, ScheduleTypeOK,
           FinalStatuses
  <2>4. ASSUME NEW v \in Windows,
               \/ Dispatch(v) \/ SettleSchedule(v) \/ Throw(v) \/ Publish(v) \/ RunnerDies(v)
               \/ RecoverReceipt(v) \/ EndUnsettled(v)
        PROVE  occurrence'[w] = occurrence[w]
    BY <2>4
       DEF Dispatch, SettleSchedule, Throw, Publish, RunnerDies, RecoverReceipt,
           EndUnsettled
  <2>5. CASE Pause \/ UNCHANGED scheduleVars
    BY <2>5 DEF Pause, scheduleVars
  <2> QED BY <1>1, <2>1, <2>2, <2>3, <2>4, <2>5 DEF ScheduleNext
<1>2. ScheduleInv /\ [ScheduleNext]_scheduleVars => [Kept]_scheduleVars
  BY <1>1
<1> QED BY <1>2, ScheduleInvariant, PTL DEF ScheduleSpec, EndIsKept

-----------------------------------------------------------------------------
(***************************************************************************)
(* Side by side, each part of the control plane behaves as it does alone:  *)
(* what is proved of a part here and in StoreProofs holds of the whole.    *)
(***************************************************************************)
LEMMA PartsBegin == PlaneInit => Init /\ AdmissionInit /\ ScheduleInit /\ PortfolioInit
BY DEF PlaneInit

LEMMA PartsMove ==
    [PlaneNext]_planeVars =>
        /\ [Next]_vars /\ [AdmissionNext]_admissionVars
        /\ [ScheduleNext]_scheduleVars /\ [PortfolioNext]_portfolioVars
<1>1. CASE UNCHANGED planeVars
  BY <1>1 DEF planeVars
<1>2. CASE LockMoves \/ AdmissionMoves \/ SchedulesMove \/ PortfolioMoves
  BY <1>2 DEF LockMoves, AdmissionMoves, SchedulesMove, PortfolioMoves
<1>. QED
  BY <1>1, <1>2 DEF PlaneNext

(* The control plane implements each of its parts: a step of one is a step *)
(* or a stutter of every other (ControlPlane.tla).                         *)
THEOREM PlaneParts == PlaneSpec => Spec /\ AdmissionSpec /\ ScheduleSpec /\ PortfolioSpec
BY PartsBegin, PartsMove, PTL DEF PlaneSpec, Spec, AdmissionSpec, ScheduleSpec, PortfolioSpec

(* Every variable of the control plane has its type, in any interleaving,  *)
(* as long as no two callers compute the same window of a schedule.        *)
THEOREM PlaneTypes == Separate => (PlaneSpec => []AllTypeOK)
<1>. SUFFICES ASSUME Separate PROVE PlaneSpec => []AllTypeOK
  OBVIOUS
<1>1. Spec => []TypeOK
  <2>1. LockInv => TypeOK
    BY DEF LockInv
  <2>. QED
    BY <2>1, LockInvariant, PTL
<1>2. ScheduleSpec => []ScheduleTypeOK
  BY ScheduleTypes
<1>3. TypeOK /\ AdmissionTypeOK /\ ScheduleTypeOK /\ PortfolioTypeOK => AllTypeOK
  BY DEF AllTypeOK
<1>. QED
  BY <1>1, <1>2, <1>3, PlaneParts, AdmissionTypes, PortfolioTypes, PTL
===============================================================================
