------------------------ MODULE AdoptionTransactions ------------------------
(***************************************************************************)
(* The adoption of a repository: a transaction applies the operations of a *)
(* plan one after the other, keeps a backup of every file it replaces, and *)
(* if all went well leaves a manifest, by which it can be rolled back.     *)
(* Several processes may adopt, or roll back, at once: only the            *)
(* replacement of one file is guarded, by a lock file next to it.          *)
(*                                                                         *)
(* Content is the set of its parts: blocks of transactions and edits of    *)
(* users.  Users edit a file before or after a process is at it, not in    *)
(* the instant between its last look and its change.  Directories, checks  *)
(* of paths and dry runs are left out.                                     *)
(***************************************************************************)
EXTENDS Naturals, Sequences

CONSTANTS Transactions, Targets, Plan, Absence, MaxEdits, MaxKills

ASSUME AdoptionAssumption ==
    /\ Plan \in [Transactions -> Seq([kind : {"create", "install", "block"}, file : Targets])]
    /\ \A t \in Transactions : Plan[t] # <<>>
    /\ MaxEdits \in Nat /\ MaxKills \in Nat
    /\ Absence \notin Transactions \cup (0..MaxEdits) /\ Transactions \cap (0..MaxEdits) = {}

VARIABLES files,     \* content of each file, or NoFile
          locked,    \* its lock file exists
          backups,   \* backups ever taken of it
          adopter,   \* the process of each transaction
          manifest,  \* its manifest: the result of each operation
          edits,     \* edits of each file by users
          kills

adoptionVars == <<files, locked, backups, adopter, manifest, edits, kills>>

NoFile == {Absence}
Edit == 0..MaxEdits            \* 0 is what was there before
Content == {NoFile} \cup SUBSET (Transactions \cup Edit)
Result == [status : {"skipped", "applied", "failed"}, backup : Content, written : Content]
Nothing(status) == [status |-> status, backup |-> NoFile, written |-> NoFile]

(* What a process does: the operation it is at, where in it, and what it   *)
(* means to write over which content.                                      *)
Steps == {"look", "lock", "replace", "remove", "unlock"}
Resting == [mode |-> "idle", at |-> 1, step |-> "look", backup |-> NoFile,
            content |-> NoFile, results |-> <<>>]

AdoptionTypeOK ==
    /\ files \in [Targets -> Content] /\ locked \in [Targets -> BOOLEAN]
    /\ \A f \in Targets : backups[f] \subseteq Content
    /\ \A t \in Transactions :
          /\ adopter[t].mode \in {"idle", "apply", "rollback"} /\ adopter[t].step \in Steps
          /\ adopter[t].at \in DOMAIN Plan[t]
          /\ adopter[t].content \in Content /\ adopter[t].backup \in Content
          /\ adopter[t].results \in Seq(Result) /\ manifest[t] \in Seq(Result)
          /\ manifest[t] # <<>> => Len(manifest[t]) = Len(Plan[t])
    /\ edits \in [Targets -> Edit] /\ kills \in 0..MaxKills

AdoptionInit ==
    /\ files \in [Targets -> {NoFile, {0}}] /\ locked = [f \in Targets |-> FALSE]
    /\ backups = [f \in Targets |-> {}]
    /\ adopter = [t \in Transactions |-> Resting]
    /\ manifest = [t \in Transactions |-> <<>>]
    /\ edits = [f \in Targets |-> 0] /\ kills = 0

Operation(t) == Plan[t][adopter[t].at]
File(t) == Operation(t).file
At(t, mode, step) == adopter[t].mode = mode /\ adopter[t].step = step

(* Proceed to a step of the same operation, or to the next operation.      *)
Goes(t, step, content) ==
    adopter' = [adopter EXCEPT ![t] = [adopter[t] EXCEPT !.step = step, !.content = content]]
Moves(t, at, results) ==
    adopter' = [adopter EXCEPT ![t] = [Resting EXCEPT !.mode = adopter[t].mode, !.at = at, !.results = results]]

(* applyAdoptionPlan: the manifest is written if no operation failed.      *)
MoreToDoInclusive(t, results) == Len(results) <= Len(Plan[t])                   \* faulty
MoreToDo(t, results) == Len(results) < Len(Plan[t])

Applied(t, result) ==
    LET results == Append(adopter[t].results, result) IN
    IF MoreToDo(t, results)
    THEN Moves(t, adopter[t].at + 1, results) /\ UNCHANGED manifest
    ELSE /\ adopter' = [adopter EXCEPT ![t] = Resting]
         /\ manifest' = IF \E i \in DOMAIN results : results[i].status = "failed"
                        THEN manifest ELSE [manifest EXCEPT ![t] = results]

(* rollbackAdoptionTransaction: the operations in reverse.                 *)
Reverted(t) ==
    /\ IF adopter[t].at > 1 THEN Moves(t, adopter[t].at - 1, <<>>)
       ELSE adopter' = [adopter EXCEPT ![t] = Resting]
    /\ UNCHANGED manifest

Ends(t, result) == IF adopter[t].mode = "apply" THEN Applied(t, result) ELSE Reverted(t)

---------------------------------------------------------------------------
Begin(t) ==
    /\ adopter[t] = Resting
    /\ adopter' = [adopter EXCEPT ![t] =
                      IF manifest[t] = <<>> THEN [Resting EXCEPT !.mode = "apply"]
                      ELSE [Resting EXCEPT !.mode = "rollback", !.at = Len(Plan[t])]]
    /\ UNCHANGED <<files, locked, backups, manifest, edits, kills>>

(* applyWriteFileOperation and applyAppendManagedBlockOperation: what the  *)
(* file is to be, from what it is.  A block replaces an older one.         *)
Wanted(t) ==
    LET content == files[File(t)] IN
    CASE Operation(t).kind = "create" -> IF content = NoFile THEN {t} ELSE content
      [] Operation(t).kind = "install" -> {t}
      [] OTHER -> (content \cap Edit) \cup {t}

Look(t) ==
    /\ At(t, "apply", "look")
    /\ IF Wanted(t) = files[File(t)] THEN Applied(t, Nothing("skipped"))
       ELSE Goes(t, "lock", Wanted(t)) /\ UNCHANGED manifest
    /\ UNCHANGED <<files, locked, backups, edits, kills>>

(* rollbackFileOperation: a file that is not as the transaction left it is *)
(* not touched.                                                            *)
Diverged(t, r) == files[File(t)] \notin {NoFile, r.written}

LookBack(t) ==
    /\ At(t, "rollback", "look")
    /\ LET r == manifest[t][adopter[t].at] IN
       IF \/ r.status # "applied" \/ Diverged(t, r)
          \/ r.backup = NoFile /\ files[File(t)] = NoFile
       THEN Reverted(t)
       ELSE Goes(t, IF r.backup = NoFile THEN "remove" ELSE "lock", r.backup) /\ UNCHANGED manifest
    /\ UNCHANGED <<files, locked, backups, edits, kills>>

(* atomicWriteFile.                                                        *)
BackedUpIfSeen(t, f) ==                                                         \* faulty
    IF Operation(t).kind = "create" THEN NoFile ELSE files[f]
BackedUp(t, f) == files[f]

Lock(t) ==
    /\ adopter[t].mode # "idle" /\ adopter[t].step = "lock"
    /\ LET f == File(t) IN
       IF locked[f] THEN Ends(t, Nothing("failed")) /\ UNCHANGED <<locked, backups>>
       ELSE /\ locked' = [locked EXCEPT ![f] = TRUE]
            /\ backups' = [backups EXCEPT ![f] = backups[f] \cup ({BackedUp(t, f)} \ {NoFile})]
            /\ adopter' = [adopter EXCEPT ![t] = [adopter[t] EXCEPT !.step = "replace",
                                                                    !.backup = BackedUp(t, f)]]
            /\ UNCHANGED manifest
    /\ UNCHANGED <<files, edits, kills>>

Replace(t) ==
    /\ adopter[t].mode # "idle" /\ adopter[t].step = "replace"
    /\ files' = [files EXCEPT ![File(t)] = adopter[t].content]
    /\ Goes(t, "unlock", adopter[t].content)
    /\ UNCHANGED <<locked, backups, manifest, edits, kills>>

Unlock(t) ==
    /\ adopter[t].mode # "idle" /\ adopter[t].step = "unlock"
    /\ locked' = [locked EXCEPT ![File(t)] = FALSE]
    /\ Ends(t, [status |-> "applied", backup |-> adopter[t].backup, written |-> adopter[t].content])
    /\ UNCHANGED <<files, backups, edits, kills>>

(* A file that the transaction created is removed, without the lock.       *)
RemoveCreated(t) ==
    /\ At(t, "rollback", "remove")
    /\ files' = [files EXCEPT ![File(t)] = NoFile]
    /\ Reverted(t)
    /\ UNCHANGED <<locked, backups, edits, kills>>

(* A process that dies leaves its lock file, and nobody removes it.        *)
Killed(t) ==
    /\ adopter[t].mode # "idle" /\ kills < MaxKills
    /\ adopter' = [adopter EXCEPT ![t] = Resting] /\ kills' = kills + 1
    /\ UNCHANGED <<files, locked, backups, manifest, edits>>

UserEdits(f) ==
    /\ edits[f] < MaxEdits
    /\ \A t \in Transactions : adopter[t].step \in {"replace", "remove"} => File(t) # f
    /\ edits' = [edits EXCEPT ![f] = @ + 1]
    /\ files' = [files EXCEPT ![f] = (@ \ NoFile) \cup {edits[f] + 1}]
    /\ UNCHANGED <<locked, backups, adopter, manifest, kills>>

AdoptionNext ==
    \/ \E t \in Transactions : Begin(t) \/ Look(t) \/ LookBack(t) \/ Lock(t) \/ Replace(t)
                               \/ Unlock(t) \/ RemoveCreated(t) \/ Killed(t)
    \/ \E f \in Targets : UserEdits(f)

AdoptionSpec == AdoptionInit /\ [][AdoptionNext]_adoptionVars

---------------------------------------------------------------------------
(* Property.                                                               *)

Kept(f) == files[f] \cup UNION backups[f]

(* What a user wrote is in the file or in a backup of it for ever, however *)
(* transactions and rollbacks overlap and wherever they die.               *)
UserWorkSurvives ==
    [][\A f \in Targets, n \in Edit : n \in Kept(f) => n \in Kept(f)']_adoptionVars
=============================================================================
