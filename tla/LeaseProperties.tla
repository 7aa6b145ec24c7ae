--------------------------- MODULE LeaseProperties ---------------------------
(* What the lease store of LeaseStore promises to the jobs that use it.     *)
EXTENDS LeaseStore

TypeOK ==
    /\ now \in Nat
    /\ leases \subseteq Lease
    /\ counter \in [Keys -> Nat]
    /\ lock \in Jobs \cup {Free}
    /\ renewing \subseteq Lease
    /\ held \in [Jobs -> SUBSET Lease]
    /\ alive \in [Jobs -> BOOLEAN]
    /\ sweeping \in [Observers -> SUBSET Lease]
    /\ grants \subseteq Lease

(* Two different jobs never have live lease files whose claims conflict,    *)
(* whatever crashes, expires or is renewed late: acquireExecutionLeases     *)
(* admits nobody next to a conflicting holder, and a renewal that finds its *)
(* leases expired by the time it writes them still meets no newcomer.       *)
NoConflictingLeases ==
    \A l, m \in Live : l.owner # m.owner => ~ClaimsConflict(l, m)

(* A resource key and a fencing token name one grant for ever: a counter    *)
(* never hands out a token twice, not even after a crash between writing    *)
(* the counter and writing the lease file.                                  *)
FencingIdentity ==
    /\ \A g \in grants : g.token <= counter[g.key]
    /\ \A g, h \in grants : SameFile(g, h) => g.owner = h.owner /\ g.mode = h.mode
    /\ \A l \in leases : \E g \in grants : SameFile(l, g) /\ l.owner = g.owner /\ l.mode = g.mode

(* A lease file that is written again (a renewal) is never behind a grant   *)
(* of the same resource to a conflicting job: a stale owner cannot revive   *)
(* its lease once a newer fencing token has taken ownership.                *)
StaleOwnerNeverRenews ==
    [][\A l \in leases' \ leases :
          l.token <= counter[l.key]
             => \A g \in grants : (/\ g.key = l.key /\ g.owner # l.owner
                                   /\ ClaimsConflict(g, l))
                                  => g.token < l.token]_vars

(* The jobs' own view agrees: two live workers that were each told they own *)
(* conflicting leases never both believe those leases to be current.        *)
OneBelievedOwner ==
    \A j, k \in Jobs : (j # k /\ alive[j] /\ alive[k]) =>
       \A l \in held[j], m \in held[k] :
          ClaimsConflict(l, m) => Expired(l) \/ Expired(m)
=============================================================================
