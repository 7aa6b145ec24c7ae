----------------------------- MODULE EditSessions -----------------------------
(***************************************************************************)
(* Direct edits: sessions that change files of one tree in revisions, keep *)
(* a backup of what each operation replaced, have their changes checked,   *)
(* and are finalized or rolled back.  Applying, rolling back and           *)
(* finalizing hold the workspace and exclude each other; a verification    *)
(* holds only the check slot, reads the session before its checks and      *)
(* writes it back after them.                                              *)
(*                                                                         *)
(* A file's content is named by who wrote it; text operations, limits on   *)
(* their number (which refuse a batch before it changes anything),         *)
(* savepoints (names of revisions) and the patch files are left out.       *)
(***************************************************************************)
EXTENDS Naturals, SequencesExt

CONSTANTS Sessions, Files, Allowed, MaxRevision, MaxForeign

ASSUME EditAssumption ==
    /\ Allowed \in [Sessions -> SUBSET Files] /\ IsFiniteSet(Files)
    /\ MaxRevision \in [Sessions -> Nat] /\ MaxForeign \in Nat

VARIABLES tree,       \* content of each file
          edit,       \* session.json of each session
          verifying,  \* the copy that a verification of it holds, or NoEdit
          foreign     \* edits of the tree by others, and deaths

editVars == <<tree, edit, verifying, foreign>>

Missing == <<"missing", 0>>
Original == <<"original", 0>>
Foreign == <<"foreign", 0>>
OwnContents(s) == {s} \X (1..MaxRevision[s])
Contents == {Missing, Original, Foreign} \cup UNION {OwnContents(s) : s \in Sessions}
EditOperation(s) == [revision : 1..MaxRevision[s], file : Files, before : Contents,
                     after : {Missing} \cup OwnContents(s)]
Closed == {"finalized", "rolled_back"}
NoEdit == [status |-> "none"]
EditSession(s) == [status : {"open", "dirty", "checked", "check_failed"} \cup Closed,
                   revision : 0..MaxRevision[s], operations : Seq(EditOperation(s)),
                   asked : BOOLEAN, passed : BOOLEAN]

EditTypeOK ==
    /\ tree \in [Files -> Contents] /\ foreign \in 0..MaxForeign
    /\ DOMAIN edit = Sessions /\ DOMAIN verifying = Sessions
    /\ \A s \in Sessions : {edit[s], verifying[s]} \subseteq {NoEdit} \cup EditSession(s)

EditInit ==
    /\ tree \in [Files -> {Missing, Original}]
    /\ edit = [s \in Sessions |-> NoEdit] /\ verifying = [s \in Sessions |-> NoEdit]
    /\ foreign = 0

(* assertCurrentHashes: every file is as its last operation left it.       *)
PresentAsLeft(content, op) == (content = Missing) = (op.after = Missing)        \* faulty
AsLeft(content, op) == content = op.after

Latest(ops) == {i \in 1..Len(ops) : \A k \in i+1..Len(ops) : ops[k].file # ops[i].file}
Intact(e) == \A i \in Latest(e.operations) : AsLeft(tree[e.operations[i].file], e.operations[i])

---------------------------------------------------------------------------
BeginSession(s) ==
    /\ edit[s] = NoEdit
    /\ \E asked \in BOOLEAN :
          edit' = [edit EXCEPT ![s] = [status |-> "open", revision |-> 0,
                                       operations |-> <<>>, asked |-> asked, passed |-> FALSE]]
    /\ UNCHANGED <<tree, verifying, foreign>>

(* One batch of operations, one for each of some files: what was read of a *)
(* file is what is in it, or the batch is refused.                         *)
Batch(s, changed) ==
    {after \in [changed -> {Missing, <<s, edit[s].revision + 1>>}] :
        \A f \in changed : after[f] # tree[f]}

Applicable(s) == /\ edit[s] # NoEdit /\ edit[s].status \notin Closed
                 /\ Intact(edit[s]) /\ edit[s].revision < MaxRevision[s]

Apply(s) ==
    /\ Applicable(s)
    /\ \E changed \in SUBSET Allowed[s] \ {{}} : \E after \in Batch(s, changed) :
          LET r == edit[s].revision + 1
              records == {[revision |-> r, file |-> f, before |-> tree[f], after |-> after[f]] : f \in changed}
          IN /\ tree' = [f \in Files |-> IF f \in changed THEN after[f] ELSE tree[f]]
             /\ edit' = [edit EXCEPT ![s].operations = @ \o SetToSeq(records),
                            ![s].revision = r, ![s].status = "dirty", ![s].passed = FALSE]
    /\ UNCHANGED <<verifying, foreign>>

(* The process dies after it changed some of the files.                    *)
ApplyDies(s) ==
    /\ Applicable(s) /\ foreign < MaxForeign
    /\ \E changed \in SUBSET Allowed[s] \ {{}} : \E after \in Batch(s, changed) :
          tree' = [f \in Files |-> IF f \in changed THEN after[f] ELSE tree[f]]
    /\ foreign' = foreign + 1
    /\ UNCHANGED <<edit, verifying>>

(* verifyEditSessionAsync, before its checks and after them; the checks    *)
(* that are asked for replace the configured ones.                         *)
VerifyBegin(s) ==
    /\ edit[s].status \in {"dirty", "check_failed", "checked"} /\ Intact(edit[s])
    /\ verifying[s] = NoEdit
    /\ \E asked \in {edit[s].asked, FALSE} : verifying' = [verifying EXCEPT ![s] = [edit[s] EXCEPT !.asked = asked]]
    /\ UNCHANGED <<tree, edit, foreign>>

VerifyEnd(s) ==
    /\ verifying[s] # NoEdit
    /\ verifying' = [verifying EXCEPT ![s] = NoEdit]
    /\ \E ok \in BOOLEAN :
          /\ ~verifying[s].asked => ok
          /\ edit' = IF Intact(verifying[s])
                     THEN [edit EXCEPT ![s] = [verifying[s] EXCEPT !.passed = ok,
                              !.status = IF ok THEN "checked" ELSE "check_failed"]]
                     ELSE edit
    /\ UNCHANGED <<tree, foreign>>

(* rollbackEditSession to a revision.  Revisions grow along the            *)
(* operations, so those of the target and before come first; the others    *)
(* are undone in reverse order, and the first one whose file is not as it  *)
(* left it stops it.                                                       *)
Retained(ops, target) == Cardinality({i \in DOMAIN ops : ops[i].revision <= target})

Undo(state, op) ==
    IF state.ok /\ AsLeft(state.tree[op.file], op)
    THEN [ok |-> TRUE, tree |-> [state.tree EXCEPT ![op.file] = op.before]]
    ELSE [ok |-> FALSE, tree |-> state.tree]

Undone(ops, target) ==
    FoldLeft(Undo, [ok |-> TRUE, tree |-> tree],
             Reverse(SubSeq(ops, Retained(ops, target) + 1, Len(ops))))

Rollback(s) ==
    /\ edit[s].status \in {"dirty", "checked", "check_failed"} /\ Intact(edit[s])
    /\ \E target \in 0..MaxRevision[s] :
          LET ops == edit[s].operations
              undone == Undone(ops, target)
          IN /\ target < edit[s].revision
             /\ tree' = undone.tree
             /\ edit' = IF ~undone.ok THEN edit
                        ELSE [edit EXCEPT ![s] = [edit[s] EXCEPT
                                !.operations = SubSeq(ops, 1, Retained(ops, target)),
                                !.revision = target, !.passed = FALSE,
                                !.status = IF target = 0 THEN "rolled_back" ELSE "dirty"]]
    /\ UNCHANGED <<verifying, foreign>>

CloseEmpty(s) ==
    /\ edit[s].status = "open"
    /\ \E status \in Closed : edit' = [edit EXCEPT ![s].status = status]
    /\ UNCHANGED <<tree, verifying, foreign>>

Finalize(s) ==
    /\ edit[s].status \in {"dirty", "checked", "check_failed"} /\ Intact(edit[s])
    /\ edit[s].asked => edit[s].passed
    /\ edit' = [edit EXCEPT ![s].status = "finalized"]
    /\ UNCHANGED <<tree, verifying, foreign>>

(* Somebody else edits a file.                                             *)
ForeignEdit(f) ==
    /\ foreign < MaxForeign /\ foreign' = foreign + 1
    /\ tree[f] # Foreign /\ tree' = [tree EXCEPT ![f] = Foreign]
    /\ UNCHANGED <<edit, verifying>>

EditNext ==
    \/ \E s \in Sessions :
          \/ BeginSession(s) \/ Apply(s) \/ ApplyDies(s) \/ VerifyBegin(s)
          \/ VerifyEnd(s) \/ Rollback(s) \/ CloseEmpty(s) \/ Finalize(s)
    \/ \E f \in Files : ForeignEdit(f)

EditSpec == EditInit /\ [][EditNext]_editVars

---------------------------------------------------------------------------
(* Properties.                                                             *)

(* A rollback changes only what the session itself left in the tree:       *)
(* neither a later session's work nor anybody else's is overwritten.       *)
RollbackKeepsOthersWork ==
    [][\A s \in Sessions, f \in Files :
          Rollback(s) /\ tree'[f] # tree[f]
             => tree[f] \in {Missing} \cup OwnContents(s)]_editVars

(* A session that was finalized or rolled back stays so.                   *)
ClosedStaysClosed ==
    [][\A s \in Sessions : edit[s].status \in Closed => edit'[s].status = edit[s].status]_editVars
=============================================================================
