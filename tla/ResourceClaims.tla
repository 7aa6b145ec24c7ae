--------------------------- MODULE ResourceClaims ---------------------------
(***************************************************************************)
(* Resource claims of one repository: what a job declares before it may    *)
(* be dispatched, and when a claim conflicts with a lease another job      *)
(* holds (src/src/runtime/resources/claims/conflicts.ts).                  *)
(*                                                                         *)
(* A resource key "<space>:<name>" is a record.  Its name is a sequence of *)
(* path segments, of length one for every space but "path".  The text of a *)
(* segment is abstract; only the glob segments "*" and "**" are told apart *)
(* because pathOverlaps strips one of them from the end of a path.         *)
(***************************************************************************)
EXTENDS Naturals, Sequences, SequencesExt

Modes == {"read", "write", "exclusive"}

(* What one claim covers.  repo-content:* is [space |-> "repo-content"].   *)
Key(space, name) == [space |-> space, name |-> name]
Claim(key, mode) == [key |-> key, mode |-> mode]

GlobSegments == {"*", "**"}

-----------------------------------------------------------------------------
(* pathOverlaps: one trailing "*" or "**" is dropped, then the paths must  *)
(* be equal or one a proper directory prefix of the other.  The empty path *)
(* ("**" alone) is a prefix of nothing: the code asks for "" + "/".        *)
StripGlob(path) ==
    IF path # <<>> /\ path[Len(path)] \in GlobSegments THEN Front(path) ELSE path

PathOverlaps(left, right) ==
    LET a == StripGlob(left)
        b == StripGlob(right)
    IN \/ a = b
       \/ b # <<>> /\ IsPrefix(b, a)
       \/ a # <<>> /\ IsPrefix(a, b)

(* repo-content:* covers itself, every path and every workspace.           *)
CoveredByRepoContent == {"repo-content", "path", "workspace"}

KeysOverlap(left, right) ==
    \/ left = right
    \/ left.space = "repo-content" /\ right.space \in CoveredByRepoContent
    \/ right.space = "repo-content" /\ left.space \in CoveredByRepoContent
    \/ /\ left.space = "path" /\ right.space = "path"
       /\ PathOverlaps(left.name, right.name)

(* A release claim is the release freeze: it conflicts with every claim    *)
(* that is not a read and with every other release claim, whatever mode.   *)
ClaimsConflict(claim, lease) ==
    LET claimRelease == claim.key.space = "release"
        leaseRelease == lease.key.space = "release"
    IN IF claimRelease /\ leaseRelease THEN TRUE
       ELSE IF claimRelease THEN lease.mode # "read"
       ELSE IF leaseRelease THEN claim.mode # "read"
       ELSE /\ KeysOverlap(claim.key, lease.key)
            /\ claim.mode # "read" \/ lease.mode # "read"

-----------------------------------------------------------------------------
MergeLastWins(kept, claim) == {c \in kept : c.key # claim.key} \cup {claim}   \* faulty

(* normalizeClaims keeps one claim per key.  Merge is one turn of its      *)
(* loop: the claim seen first stays unless the new one is stronger.        *)
Merge(kept, claim) ==
    LET same == {c \in kept : c.key = claim.key}
        replaces == \A c \in same : \/ c.mode = "read" /\ claim.mode # "read"
                                    \/ c.mode = "write" /\ claim.mode = "exclusive"
    IN IF replaces THEN (kept \ same) \cup {claim} ELSE kept

UnknownScope == Claim(Key("repo-content", <<>>), "write")

NormalizeClaims(claims, readOnly) ==
    IF claims = <<>> THEN IF readOnly THEN {} ELSE {UnknownScope}
    ELSE FoldLeft(Merge, {}, claims)

(* RepoActor.waitingStatusForResource: where a blocked job waits, by the   *)
(* space of the lease that blocks it.                                      *)
WaitingStatus(space) ==
    CASE space \in {"workspace", "path", "repo-content"} -> "waiting_for_workspace"
      [] space = "heavy-check" -> "waiting_for_heavy_check"
      [] space \in {"integration", "git-refs"} -> "waiting_for_integration"
      [] space = "release" -> "waiting_for_release_barrier"
      [] OTHER -> "queued"
=============================================================================
