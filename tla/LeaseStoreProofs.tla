-------------------------- MODULE LeaseStoreProofs --------------------------
(***************************************************************************)
(* Proofs about LeaseStore, for any jobs, claims, observers, TTL and       *)
(* bounds: the types, the identity of fencing tokens, the exclusion of     *)
(* conflicting leases and the order of renewals, and what workers believe  *)
(* that they own.                                                          *)
(***************************************************************************)
EXTENDS LeaseProperties, TLAPS

(* A renewal in flight: what the lock holder is about to rewrite is its    *)
(* own, was granted once, and still excludes every other live lease.       *)
RenewalGuarded ==
    /\ lock = Free => renewing = {}
    /\ \A l \in renewing :
          /\ l.owner = lock
          /\ \E g \in grants : SameFile(l, g) /\ l.owner = g.owner /\ l.mode = g.mode
          /\ \A m \in Live : l.owner # m.owner => ~ClaimsConflict(l, m)

(* A live lease, or one being renewed, is newer than every conflicting     *)
(* grant of its resource to another job.                                   *)
NewerThanConflicts ==
    \A l \in Live \cup renewing : \A g \in grants :
       (g.key = l.key /\ g.owner # l.owner /\ ClaimsConflict(g, l)) => g.token < l.token

Inv == TypeOK /\ NoConflictingLeases /\ FencingIdentity /\ RenewalGuarded /\ NewerThanConflicts

-----------------------------------------------------------------------------
LEMMA OverlapSymmetric ==
    ASSUME NEW a, NEW b
    PROVE  KeysOverlap(a, b) <=> KeysOverlap(b, a)
BY DEF KeysOverlap, PathOverlaps

(* Whether two claims conflict does not depend on their order              *)
(* (claimsConflict in conflicts.ts).                                       *)
LEMMA ConflictSymmetric ==
    ASSUME NEW c, NEW d
    PROVE  ClaimsConflict(c, d) <=> ClaimsConflict(d, c)
BY OverlapSymmetric DEF ClaimsConflict

(* Only the resource key and the mode of a lease matter to a conflict.     *)
LEMMA ConflictOfKeyAndMode ==
    ASSUME NEW c, NEW d, NEW e, c.key = d.key, c.mode = d.mode
    PROVE  /\ ClaimsConflict(c, e) <=> ClaimsConflict(d, e)
           /\ ClaimsConflict(e, c) <=> ClaimsConflict(e, d)
BY DEF ClaimsConflict

(* The leases of one acquisition: one per claim, with the next token of    *)
(* its resource.                                                           *)
LEMMA NewLeaseFacts ==
    ASSUME TypeOK, NEW j \in Jobs
    PROVE  /\ NewLeases(j) \subseteq Lease
           /\ \A n \in NewLeases(j) :
                 /\ n.owner = j /\ n.token = counter[n.key] + 1
                 /\ \E c \in ClaimsOf[j] : c.key = n.key /\ c.mode = n.mode
           /\ \A n, m \in NewLeases(j) : n.key = m.key => n = m
<1>1. ClaimsOf[j] \subseteq [key : Keys, mode : Modes]
  BY LeaseAssumption
<1>2. \A c, d \in ClaimsOf[j] : c.key = d.key => c = d
  BY LeaseAssumption
<1>3. now + TTL \in Nat
  BY LeaseAssumption DEF TypeOK
<1>4. \A c \in ClaimsOf[j] : c.key \in Keys /\ c.mode \in Modes /\ counter[c.key] + 1 \in Nat
  BY <1>1 DEF TypeOK
<1>. QED
  BY <1>2, <1>3, <1>4 DEF NewLeases, Lease

LEMMA ExtendedFacts ==
    ASSUME now \in Nat, NEW ls, ls \subseteq Lease
    PROVE  /\ Extended(ls) \subseteq Lease
           /\ \A x \in Extended(ls) : \E l \in ls :
                 /\ x.key = l.key /\ x.mode = l.mode
                 /\ x.owner = l.owner /\ x.token = l.token
<1>1. now + TTL \in Nat
  BY LeaseAssumption
<1>. QED
  BY <1>1 DEF Extended, Lease

-----------------------------------------------------------------------------
THEOREM InitInv == Init => Inv
BY LeaseAssumption DEF Init, Inv, TypeOK, Lease, NoConflictingLeases, FencingIdentity,
      RenewalGuarded, NewerThanConflicts, Live, Expired

(* The file of a live lease stays what it was under every step that only   *)
(* removes lease files, lets time pass or changes nothing of the store.    *)
LEMMA ShrinkingStep ==
    ASSUME Inv, TypeOK', now' >= now, leases' \subseteq leases,
           counter' = counter, grants' = grants,
           \/ renewing' = renewing /\ lock' = lock
           \/ renewing' = {}
    PROVE  Inv'
<1>1. Live' \subseteq Live
  BY DEF Live, Expired, Inv, TypeOK, Lease
<1>2. NoConflictingLeases'
  BY <1>1 DEF NoConflictingLeases, Inv
<1>3. FencingIdentity'
  BY DEF FencingIdentity, Inv, SameFile
<1>4. RenewalGuarded'
  BY <1>1 DEF RenewalGuarded, Inv, SameFile
<1>5. NewerThanConflicts'
  BY <1>1 DEF NewerThanConflicts, Inv
<1>. QED
  BY <1>2, <1>3, <1>4, <1>5 DEF Inv

(* A (complete or interrupted) acquisition by a job that nobody blocks.    *)
LEMMA GrantingStep ==
    ASSUME Inv, TypeOK', NEW j \in Jobs, NEW written, written \subseteq NewLeases(j),
           lock = Free, Blockers(j) = {},
           leases' = Live \cup written, grants' = grants \cup written,
           counter' = [k \in Keys |-> IF ClaimsKey(j, k) THEN counter[k] + 1 ELSE counter[k]],
           now' = now, lock' = lock, renewing' = renewing
    PROVE  Inv'
<1>. DEFINE New == NewLeases(j)
<1>0. TypeOK /\ renewing = {}
  BY DEF Inv, RenewalGuarded
<1>1. /\ \A n \in New : /\ n \in Lease /\ n.owner = j /\ n.token = counter[n.key] + 1
                         /\ \E c \in ClaimsOf[j] : c.key = n.key /\ c.mode = n.mode
      /\ \A n, m \in New : n.key = m.key => n = m
  BY <1>0, NewLeaseFacts
<1>2. \A n \in New : counter'[n.key] = counter[n.key] + 1
  BY <1>0, <1>1 DEF ClaimsKey, Lease, TypeOK
<1>3. \A k \in Keys : counter[k] \in Nat /\ counter'[k] \in Nat /\ counter[k] <= counter'[k]
  BY <1>0 DEF TypeOK
<1>4. \A n \in New, m \in Live : m.owner # j => ~ClaimsConflict(n, m) /\ ~ClaimsConflict(m, n)
  <2>. SUFFICES ASSUME NEW n \in New, NEW m \in Live, m.owner # j
                PROVE  ~ClaimsConflict(n, m) /\ ~ClaimsConflict(m, n)
    OBVIOUS
  <2>1. PICK c \in ClaimsOf[j] : c.key = n.key /\ c.mode = n.mode
    BY <1>1
  <2>2. ~ClaimsConflict(c, m)
    BY DEF Blockers
  <2>3. ~ClaimsConflict(n, m)
    BY <2>1, <2>2, ConflictOfKeyAndMode
  <2>. QED
    BY <2>3, ConflictSymmetric
<1>5. Live' \subseteq Live \cup New
  BY DEF Live, Expired
<1>6. NoConflictingLeases'
  <2>. SUFFICES ASSUME NEW l \in Live \cup New, NEW m \in Live \cup New, l.owner # m.owner
                PROVE  ~ClaimsConflict(l, m)
    BY <1>5 DEF NoConflictingLeases
  <2>1. CASE l \in New
    BY <2>1, <1>1, <1>4
  <2>2. CASE m \in New
    BY <2>2, <1>1, <1>4
  <2>3. CASE l \in Live /\ m \in Live
    BY <2>3 DEF Inv, NoConflictingLeases
  <2>. QED
    BY <2>1, <2>2, <2>3
<1>7. \A g \in grants : g.key \in Keys /\ g.token \in Nat /\ g.token <= counter[g.key]
  BY <1>0 DEF Inv, FencingIdentity, TypeOK, Lease
<1>8. \A n \in New : n.key \in Keys /\ n.token \in Nat
                    /\ \A g \in grants : g.key = n.key => g.token < n.token
  <2>. SUFFICES ASSUME NEW n \in New
                PROVE  n.key \in Keys /\ n.token \in Nat
                    /\ \A g \in grants : g.key = n.key => g.token < n.token
    OBVIOUS
  <2>1. n.key \in Keys /\ n.token \in Nat
    BY <1>1 DEF Lease
  <2>2. ASSUME NEW g \in grants, g.key = n.key PROVE g.token < n.token
    BY <1>7, <1>1, <1>3, <2>1, <2>2
  <2>. QED
    BY <2>1, <2>2
<1>9. FencingIdentity'
  <2>1. \A g \in grants' : g.token <= counter'[g.key]
    <3>. SUFFICES ASSUME NEW g \in grants' PROVE g.token <= counter'[g.key]
      OBVIOUS
    <3>1. CASE g \in grants
      BY <3>1, <1>3, <1>7
    <3>2. CASE g \in written
      BY <3>2, <1>1, <1>2, <1>3, <1>8
    <3>. QED
      BY <3>1, <3>2
  <2>2. \A g, h \in grants' : SameFile(g, h) => g.owner = h.owner /\ g.mode = h.mode
    <3>. SUFFICES ASSUME NEW g \in grants', NEW h \in grants', SameFile(g, h)
                  PROVE  g.owner = h.owner /\ g.mode = h.mode
      OBVIOUS
    <3>1. CASE g \in grants /\ h \in grants
      BY <3>1 DEF Inv, FencingIdentity
    <3>2. CASE g \in written /\ h \in written
      BY <3>2, <1>1 DEF SameFile
    <3>3. CASE g \in written /\ h \in grants
      BY <3>3, <1>7, <1>8 DEF SameFile
    <3>4. CASE g \in grants /\ h \in written
      BY <3>4, <1>7, <1>8 DEF SameFile
    <3>. QED
      BY <3>1, <3>2, <3>3, <3>4
  <2>3. \A l \in leases' : \E g \in grants' :
            SameFile(l, g) /\ l.owner = g.owner /\ l.mode = g.mode
    <3>. SUFFICES ASSUME NEW l \in leases'
                  PROVE  \E g \in grants' :
                            SameFile(l, g) /\ l.owner = g.owner /\ l.mode = g.mode
      OBVIOUS
    <3>1. CASE l \in leases
      BY <3>1 DEF Inv, FencingIdentity
    <3>2. CASE l \in written
      BY <3>2 DEF SameFile
    <3>. QED
      BY <3>1, <3>2 DEF Live
  <2>. QED
    BY <2>1, <2>2, <2>3 DEF FencingIdentity
<1>10. RenewalGuarded'
  BY <1>0 DEF RenewalGuarded
<1>11. NewerThanConflicts'
  <2>. SUFFICES ASSUME NEW l \in Live \cup New, NEW g \in grants \cup written,
                       g.key = l.key, g.owner # l.owner, ClaimsConflict(g, l)
                PROVE  g.token < l.token
    BY <1>0, <1>5 DEF NewerThanConflicts
  <2>1. CASE l \in Live /\ g \in grants
    BY <2>1 DEF Inv, NewerThanConflicts
  <2>2. CASE l \in Live /\ g \in written
    BY <2>2, <1>1, <1>4
  <2>3. CASE l \in New /\ g \in grants
    BY <2>3, <1>8
  <2>4. CASE l \in New /\ g \in written
    BY <2>4, <1>1
  <2>. QED
    BY <2>1, <2>2, <2>3, <2>4
<1>. QED
  BY <1>6, <1>9, <1>10, <1>11 DEF Inv

(* The lock holder writes (some of) the leases it is renewing.             *)
LEMMA RewritingStep ==
    ASSUME Inv, TypeOK', NEW written, written \subseteq renewing,
           lock \in Jobs, leases' = Rewritten(written), renewing' = {},
           now' = now, counter' = counter, grants' = grants
    PROVE  Inv'
<1>0. TypeOK /\ written \subseteq Lease
  BY DEF Inv, TypeOK
<1>1. \A x \in Extended(written) : \E l \in renewing :
         x.key = l.key /\ x.mode = l.mode /\ x.owner = l.owner /\ x.token = l.token
  BY <1>0, ExtendedFacts DEF TypeOK
<1>2. Live' \subseteq Live \cup Extended(written)
  BY DEF Live, Expired, Rewritten
<1>3. \A x \in Extended(written) : x.owner = lock
  BY <1>1 DEF Inv, RenewalGuarded
<1>4. \A x \in Extended(written), m \in Live :
         x.owner # m.owner => ~ClaimsConflict(x, m) /\ ~ClaimsConflict(m, x)
  <2>. SUFFICES ASSUME NEW x \in Extended(written), NEW m \in Live, x.owner # m.owner
                PROVE  ~ClaimsConflict(x, m) /\ ~ClaimsConflict(m, x)
    OBVIOUS
  <2>1. PICK l \in renewing : x.key = l.key /\ x.mode = l.mode /\ x.owner = l.owner
    BY <1>1
  <2>2. ~ClaimsConflict(l, m)
    BY <2>1 DEF Inv, RenewalGuarded
  <2>. QED
    BY <2>1, <2>2, ConflictOfKeyAndMode, ConflictSymmetric
<1>5. NoConflictingLeases'
  <2>. SUFFICES ASSUME NEW l \in Live \cup Extended(written),
                       NEW m \in Live \cup Extended(written), l.owner # m.owner
                PROVE  ~ClaimsConflict(l, m)
    BY <1>2 DEF NoConflictingLeases
  <2>1. CASE l \in Live /\ m \in Live
    BY <2>1 DEF Inv, NoConflictingLeases
  <2>. QED
    BY <2>1, <1>3, <1>4
<1>6. FencingIdentity'
  <2>1. \A l \in leases' : \E g \in grants :
            SameFile(l, g) /\ l.owner = g.owner /\ l.mode = g.mode
    <3>. SUFFICES ASSUME NEW l \in leases'
                  PROVE  \E g \in grants : SameFile(l, g) /\ l.owner = g.owner /\ l.mode = g.mode
      OBVIOUS
    <3>1. CASE l \in leases
      BY <3>1 DEF Inv, FencingIdentity
    <3>2. CASE l \in Extended(written)
      BY <3>2, <1>1 DEF Inv, RenewalGuarded, SameFile
    <3>. QED
      BY <3>1, <3>2 DEF Rewritten
  <2>. QED
    BY <2>1 DEF Inv, FencingIdentity, SameFile
<1>7. RenewalGuarded'
  BY DEF RenewalGuarded
<1>8. NewerThanConflicts'
  <2>. SUFFICES ASSUME NEW l \in Live \cup Extended(written), NEW g \in grants,
                       g.key = l.key, g.owner # l.owner, ClaimsConflict(g, l)
                PROVE  g.token < l.token
    BY <1>2 DEF NewerThanConflicts
  <2>1. CASE l \in Live
    BY <2>1 DEF Inv, NewerThanConflicts
  <2>2. CASE l \in Extended(written)
    <3>1. PICK w \in renewing : l.key = w.key /\ l.mode = w.mode
                              /\ l.owner = w.owner /\ l.token = w.token
      BY <2>2, <1>1
    <3>2. ClaimsConflict(g, w)
      BY <3>1, ConflictOfKeyAndMode
    <3>. QED
      BY <3>1, <3>2 DEF Inv, NewerThanConflicts
  <2>. QED
    BY <2>1, <2>2
<1>. QED
  BY <1>5, <1>6, <1>7, <1>8 DEF Inv

-----------------------------------------------------------------------------
LEMMA TypeStep ==
    ASSUME TypeOK, [Next]_vars
    PROVE  TypeOK'
<1>0. Live \subseteq leases /\ \A j \in Jobs : OwnedLive(j) \subseteq Live
  BY DEF Live, OwnedLive
<1>1. \A j \in Jobs : NewLeases(j) \subseteq Lease
  BY NewLeaseFacts
<1>2. \A ls : ls \subseteq Lease => Rewritten(ls) \subseteq Lease
  BY ExtendedFacts DEF TypeOK, Rewritten
<1>3. Extended(renewing) \subseteq Lease
  BY ExtendedFacts DEF TypeOK
<1>4. ASSUME NEW j \in Jobs, Acquire(j) PROVE TypeOK'
  BY <1>0, <1>1, <1>4 DEF Acquire, TypeOK
<1>5. ASSUME NEW j \in Jobs, AcquireBlocked(j) PROVE TypeOK'
  BY <1>0, <1>5 DEF AcquireBlocked, TypeOK
<1>6. ASSUME NEW j \in Jobs, AcquireCrash(j) PROVE TypeOK'
  BY <1>0, <1>1, <1>6 DEF AcquireCrash, TypeOK
<1>7. ASSUME NEW j \in Jobs, RenewRead(j) PROVE TypeOK'
  BY <1>0, <1>7 DEF RenewRead, TypeOK
<1>8. ASSUME NEW j \in Jobs, RenewWrite(j) PROVE TypeOK'
  BY <1>2, <1>3, <1>8 DEF RenewWrite, TypeOK
<1>9. ASSUME NEW j \in Jobs, LeaseLost(j) PROVE TypeOK'
  BY <1>0, <1>9 DEF LeaseLost, TypeOK
<1>10. ASSUME NEW j \in Jobs, Release(j) PROVE TypeOK'
  BY <1>0, <1>10 DEF Release, TypeOK
<1>11. ASSUME NEW j \in Jobs, WorkerCrash(j) PROVE TypeOK'
  BY <1>2, <1>11 DEF WorkerCrash, TypeOK
<1>12. ASSUME NEW o \in Observers, SweepRead(o) PROVE TypeOK'
  BY <1>12 DEF SweepRead, TypeOK
<1>13. ASSUME NEW o \in Observers, SweepDelete(o) PROVE TypeOK'
  BY <1>13 DEF SweepDelete, TypeOK
<1>14. CASE Tick
  BY <1>14 DEF Tick, TypeOK
<1>15. CASE UNCHANGED vars
  BY <1>15 DEF vars, TypeOK
<1>. QED
  BY <1>4, <1>5, <1>6, <1>7, <1>8, <1>9, <1>10, <1>11, <1>12, <1>13, <1>14, <1>15 DEF Next

THEOREM StepInv == Inv /\ [Next]_vars => Inv'
<1>. SUFFICES ASSUME Inv, [Next]_vars PROVE Inv'
  OBVIOUS
<1>0. TypeOK /\ TypeOK'
  BY TypeStep DEF Inv
<1>t. now \in Nat /\ now >= now
  BY <1>0 DEF TypeOK
<1>1. ASSUME NEW j \in Jobs, Acquire(j) PROVE Inv'
  BY <1>0, <1>1, GrantingStep DEF Acquire
<1>2. ASSUME NEW j \in Jobs, AcquireBlocked(j) PROVE Inv'
  BY <1>0, <1>t, <1>2, ShrinkingStep DEF AcquireBlocked, Live
<1>3. ASSUME NEW j \in Jobs, AcquireCrash(j) PROVE Inv'
  BY <1>0, <1>3, GrantingStep DEF AcquireCrash
<1>4. ASSUME NEW j \in Jobs, RenewRead(j) PROVE Inv'
  <2>1. /\ Live' = Live /\ leases' = Live /\ renewing' = OwnedLive(j) /\ lock' = j
        /\ grants' = grants /\ counter' = counter
    BY <1>4 DEF RenewRead, Live, Expired
  <2>2. OwnedLive(j) \subseteq Live /\ \A l \in OwnedLive(j) : l.owner = j
    BY DEF OwnedLive
  <2>3. NoConflictingLeases'
    BY <2>1 DEF Inv, NoConflictingLeases
  <2>4. FencingIdentity'
    BY <2>1 DEF Inv, FencingIdentity, SameFile, Live
  <2>5. RenewalGuarded'
    BY <2>1, <2>2, LeaseAssumption
    DEF Inv, RenewalGuarded, NoConflictingLeases, FencingIdentity, SameFile, Live
  <2>6. NewerThanConflicts'
    BY <2>1, <2>2 DEF Inv, NewerThanConflicts
  <2>. QED
    BY <1>0, <2>3, <2>4, <2>5, <2>6 DEF Inv
<1>5. ASSUME NEW j \in Jobs, RenewWrite(j) PROVE Inv'
  BY <1>0, <1>5, RewritingStep DEF RenewWrite
<1>6. ASSUME NEW j \in Jobs, LeaseLost(j) PROVE Inv'
  BY <1>0, <1>t, <1>6, ShrinkingStep DEF LeaseLost, Live
<1>7. ASSUME NEW j \in Jobs, Release(j) PROVE Inv'
  BY <1>0, <1>t, <1>7, ShrinkingStep DEF Release, Live
<1>8. ASSUME NEW j \in Jobs, WorkerCrash(j) PROVE Inv'
  <2>1. CASE lock = j
    BY <1>0, <1>8, <2>1, RewritingStep DEF WorkerCrash
  <2>2. CASE lock # j
    BY <1>0, <1>t, <1>8, <2>2, ShrinkingStep DEF WorkerCrash
  <2>. QED
    BY <2>1, <2>2
<1>9. ASSUME NEW o \in Observers, SweepRead(o) PROVE Inv'
  BY <1>0, <1>t, <1>9, ShrinkingStep DEF SweepRead
<1>10. ASSUME NEW o \in Observers, SweepDelete(o) PROVE Inv'
  BY <1>0, <1>t, <1>10, ShrinkingStep DEF SweepDelete
<1>11. CASE Tick
  <2>1. now' >= now
    BY <1>t, <1>11 DEF Tick
  <2>. QED
    BY <1>0, <1>11, <2>1, ShrinkingStep DEF Tick
<1>12. CASE UNCHANGED vars
  BY <1>0, <1>t, <1>12, ShrinkingStep DEF vars
<1>. QED
  BY <1>1, <1>2, <1>3, <1>4, <1>5, <1>6, <1>7, <1>8, <1>9, <1>10, <1>11, <1>12 DEF Next

THEOREM AlwaysInv == Spec => []Inv
BY InitInv, StepInv, PTL DEF Spec

-----------------------------------------------------------------------------
(* Every variable keeps its type, for any jobs, claims and bounds.         *)
THEOREM LeaseTypes == Spec => []TypeOK
BY AlwaysInv, PTL DEF Inv

(* acquireExecutionLeases and renewExecutionLeases never leave two live    *)
(* leases of different jobs in conflict, however many jobs, resources,     *)
(* crashes and unlocked sweeps there are.                                  *)
THEOREM LeasesExclude == Spec => []NoConflictingLeases
BY AlwaysInv, PTL DEF Inv

(* nextFencingToken never gives the same token of a resource to two grants. *)
THEOREM TokensIdentify == Spec => []FencingIdentity
BY AlwaysInv, PTL DEF Inv

(* renewExecutionLeases never writes a lease that a newer conflicting      *)
(* grant of the same resource has overtaken.                               *)
THEOREM RenewalsAreCurrent == Spec => StaleOwnerNeverRenews
<1>. DEFINE Current == \A l \in leases' \ leases :
          l.token <= counter[l.key]
             => \A g \in grants : (/\ g.key = l.key /\ g.owner # l.owner
                                   /\ ClaimsConflict(g, l))
                                  => g.token < l.token
<1>1. ASSUME Inv, [Next]_vars PROVE [Current]_vars
  <2>0. TypeOK
    BY <1>1 DEF Inv
  <2>1. ASSUME NEW j \in Jobs, Acquire(j) \/ AcquireCrash(j) PROVE Current
    <3>1. \A l \in leases' \ leases : l \in NewLeases(j)
      BY <2>1 DEF Acquire, AcquireCrash, Live
    <3>2. \A n \in NewLeases(j) : n.token = counter[n.key] + 1 /\ counter[n.key] \in Nat
      BY <2>0, NewLeaseFacts DEF TypeOK, Lease
    <3>3. \A l \in leases' \ leases : ~(l.token <= counter[l.key])
      BY <3>1, <3>2
    <3>. QED
      BY <3>3
  <2>2. ASSUME NEW j \in Jobs, RenewWrite(j) \/ WorkerCrash(j) PROVE Current
    <3>1. \A l \in leases' \ leases : \E w \in renewing :
             l.key = w.key /\ l.mode = w.mode /\ l.owner = w.owner /\ l.token = w.token
      <4>1. \A ls : ls \subseteq renewing =>
               \A l \in Rewritten(ls) \ leases : \E w \in renewing :
                  l.key = w.key /\ l.mode = w.mode /\ l.owner = w.owner /\ l.token = w.token
        BY <2>0, ExtendedFacts DEF Rewritten, TypeOK
      <4>2. leases' = leases \/ \E ls : ls \subseteq renewing /\ leases' = Rewritten(ls)
        BY <2>2 DEF RenewWrite, WorkerCrash
      <4>. QED
        BY <4>1, <4>2
    <3>. SUFFICES ASSUME NEW l \in leases' \ leases, NEW g \in grants,
                         g.key = l.key, g.owner # l.owner, ClaimsConflict(g, l)
                  PROVE  g.token < l.token
      OBVIOUS
    <3>2. PICK w \in renewing : l.key = w.key /\ l.mode = w.mode
                              /\ l.owner = w.owner /\ l.token = w.token
      BY <3>1
    <3>3. ClaimsConflict(g, w)
      BY <3>2, ConflictOfKeyAndMode
    <3>. QED
      BY <1>1, <3>2, <3>3 DEF Inv, NewerThanConflicts
  <2>3. CASE leases' \subseteq leases
    BY <2>3
  <2>4. ASSUME NEW j \in Jobs,
               AcquireBlocked(j) \/ RenewRead(j) \/ LeaseLost(j) \/ Release(j)
        PROVE  Current
    BY <2>3, <2>4 DEF AcquireBlocked, RenewRead, LeaseLost, Release, Live
  <2>5. ASSUME NEW o \in Observers, SweepRead(o) \/ SweepDelete(o) PROVE Current
    BY <2>3, <2>5 DEF SweepRead, SweepDelete
  <2>6. CASE Tick
    BY <2>3, <2>6 DEF Tick
  <2>. QED
    BY <1>1, <2>1, <2>2, <2>4, <2>5, <2>6 DEF Next
<1>. QED
  BY <1>1, AlwaysInv, PTL DEF Spec, StaleOwnerNeverRenews

-----------------------------------------------------------------------------
(* What a live worker was told it owns and has not expired is on disk.     *)
BelievedIsHeld ==
    \A j \in Jobs : \A l \in held[j] :
       l.owner = j /\ (alive[j] /\ ~Expired(l) => l \in leases)

LEMMA OthersKeepTheirFiles ==
    ASSUME Inv, BelievedIsHeld, lock \in Jobs, NEW written, written \subseteq renewing,
           NEW k \in Jobs, k # lock, NEW l \in held[k], l \in leases
    PROVE  l \in Rewritten(written)
<1>. SUFFICES ASSUME NEW w \in written, SameFile(l, w) PROVE FALSE
  BY DEF Rewritten
<1>1. w.owner = lock
  BY DEF Inv, RenewalGuarded
<1>2. PICK g \in grants : SameFile(w, g) /\ w.owner = g.owner
  BY DEF Inv, RenewalGuarded
<1>3. PICK h \in grants : SameFile(l, h) /\ l.owner = h.owner
  BY DEF Inv, FencingIdentity
<1>4. SameFile(g, h)
  BY <1>2, <1>3 DEF SameFile
<1>5. l.owner = w.owner
  BY <1>2, <1>3, <1>4 DEF Inv, FencingIdentity
<1>. QED
  BY <1>1, <1>5 DEF BelievedIsHeld

LEMMA BelievedStep ==
    ASSUME Observers = {}, Inv, Inv', BelievedIsHeld, [Next]_vars
    PROVE  BelievedIsHeld'
<1>0. TypeOK /\ TypeOK'
  BY DEF Inv
<1>1. ASSUME now' = now, Live \subseteq leases', held' = held, \A j \in Jobs : alive'[j] => alive[j]
      PROVE  BelievedIsHeld'
  BY <1>1 DEF BelievedIsHeld, Live, Expired
<1>2. ASSUME NEW j \in Jobs, Acquire(j) PROVE BelievedIsHeld'
  <2>1. \A n \in NewLeases(j) : n.owner = j
    BY <1>0, NewLeaseFacts
  <2>2. /\ held' = [held EXCEPT ![j] = NewLeases(j)] /\ leases' = Live \cup NewLeases(j)
        /\ alive' = [alive EXCEPT ![j] = TRUE] /\ now' = now
    BY <1>2 DEF Acquire
  <2>3. ASSUME NEW k \in Jobs, NEW l \in held'[k]
        PROVE  l.owner = k /\ (alive'[k] /\ ~(l.expires <= now) => l \in leases')
    <3>1. CASE k = j
      BY <1>0, <2>1, <2>2, <3>1 DEF TypeOK
    <3>2. CASE k # j
      BY <1>0, <2>2, <3>2 DEF TypeOK, BelievedIsHeld, Live, Expired
    <3>. QED
      BY <3>1, <3>2
  <2>. QED
    BY <2>2, <2>3 DEF BelievedIsHeld, Expired
<1>3. ASSUME NEW j \in Jobs,
             AcquireBlocked(j) \/ AcquireCrash(j) \/ RenewRead(j) \/ LeaseLost(j)
      PROVE  BelievedIsHeld'
  <2>1. now' = now /\ held' = held /\ Live \subseteq leases'
    BY <1>3 DEF AcquireBlocked, AcquireCrash, RenewRead, LeaseLost
  <2>2. \A k \in Jobs : alive'[k] => alive[k]
    BY <1>0, <1>3 DEF AcquireBlocked, AcquireCrash, RenewRead, LeaseLost, TypeOK
  <2>. QED
    BY <1>1, <2>1, <2>2
<1>4. ASSUME NEW j \in Jobs, RenewWrite(j) PROVE BelievedIsHeld'
  <2>1. /\ lock = j /\ leases' = Rewritten(renewing) /\ alive' = alive /\ now' = now
        /\ held' = [held EXCEPT ![j] = Extended(renewing)]
    BY <1>4 DEF RenewWrite
  <2>2. \A x \in Extended(renewing) : x.owner = j /\ x \in leases'
    <3>1. \A x \in Extended(renewing) : \E l \in renewing : x.owner = l.owner
      BY <1>0, ExtendedFacts DEF TypeOK
    <3>2. \A l \in renewing : l.owner = j
      BY <2>1 DEF Inv, RenewalGuarded
    <3>3. Extended(renewing) \subseteq leases'
      BY <2>1 DEF Rewritten
    <3>. QED
      BY <3>1, <3>2, <3>3
  <2>3. ASSUME NEW k \in Jobs, NEW l \in held'[k]
        PROVE  l.owner = k /\ (alive'[k] /\ ~(l.expires <= now) => l \in leases')
    <3>1. CASE k = j
      BY <1>0, <2>1, <2>2, <3>1 DEF TypeOK
    <3>2. CASE k # j
      BY <1>0, <2>1, <3>2, OthersKeepTheirFiles DEF TypeOK, BelievedIsHeld, Expired
    <3>. QED
      BY <3>1, <3>2
  <2>. QED
    BY <2>1, <2>3 DEF BelievedIsHeld, Expired
<1>5. ASSUME NEW j \in Jobs, Release(j) PROVE BelievedIsHeld'
  <2>1. /\ leases' = Live \ OwnedLive(j) /\ held' = [held EXCEPT ![j] = {}]
        /\ alive' = [alive EXCEPT ![j] = FALSE] /\ now' = now
    BY <1>5 DEF Release
  <2>2. \A l \in OwnedLive(j) : l.owner = j
    BY DEF OwnedLive
  <2>3. ASSUME NEW k \in Jobs, NEW l \in held'[k]
        PROVE  k # j /\ l \in held[k] /\ alive'[k] = alive[k]
    BY <1>0, <2>1, <2>3 DEF TypeOK
  <2>4. ASSUME NEW k \in Jobs, NEW l \in held'[k], alive'[k], ~(l.expires <= now)
        PROVE  l \in leases'
    <3>1. k # j /\ l.owner = k /\ l \in leases
      BY <2>3, <2>4 DEF BelievedIsHeld, Expired
    <3>. QED
      BY <2>1, <2>2, <2>4, <3>1 DEF Live, Expired
  <2>. QED
    BY <2>1, <2>3, <2>4 DEF BelievedIsHeld, Expired
<1>6. ASSUME NEW j \in Jobs, WorkerCrash(j) PROVE BelievedIsHeld'
  <2>1. /\ alive' = [alive EXCEPT ![j] = FALSE] /\ now' = now /\ held' = held
        /\ \/ lock = j /\ \E written \in SUBSET renewing : leases' = Rewritten(written)
           \/ leases' = leases
    BY <1>6 DEF WorkerCrash
  <2>2. ASSUME NEW k \in Jobs, NEW l \in held[k]
        PROVE  l.owner = k /\ (alive'[k] /\ ~(l.expires <= now) => l \in leases')
    <3>1. CASE k = j
      BY <1>0, <2>1, <3>1 DEF TypeOK, BelievedIsHeld
    <3>2. CASE k # j
      <4>1. alive'[k] = alive[k]
        BY <1>0, <2>1, <3>2 DEF TypeOK
      <4>2. alive[k] /\ ~(l.expires <= now) => l \in leases
        BY DEF BelievedIsHeld, Expired
      <4>3. l \in leases => l \in leases'
        BY <2>1, <3>2, OthersKeepTheirFiles
      <4>. QED
        BY <4>1, <4>2, <4>3 DEF BelievedIsHeld
    <3>. QED
      BY <3>1, <3>2
  <2>. QED
    BY <2>1, <2>2 DEF BelievedIsHeld, Expired
<1>7. CASE Tick
  <2>1. \A l \in Lease : Expired(l) => l.expires <= now + 1
    BY <1>0 DEF TypeOK, Lease, Expired
  <2>2. \A j \in Jobs : \A l \in held[j] : l \in Lease
    BY <1>0 DEF TypeOK
  <2>. QED
    BY <1>7, <2>1, <2>2 DEF Tick, BelievedIsHeld, Expired
<1>8. CASE UNCHANGED vars
  BY <1>8 DEF vars, BelievedIsHeld, Expired
<1>. QED
  BY <1>2, <1>3, <1>4, <1>5, <1>6, <1>7, <1>8 DEF Next

(* Where nobody lists leases without the lock, two live workers never both *)
(* believe that they own conflicting leases: what one was told it owns and *)
(* has not expired is on disk, until it releases it or dies.  The sweep of *)
(* listActiveLeases (leases/store.ts:41) is what takes this away.          *)
THEOREM BeliefsExclude == Observers = {} => (Spec => []OneBelievedOwner)
<1>. SUFFICES ASSUME Observers = {} PROVE Spec => []OneBelievedOwner
  OBVIOUS
<1>1. Init => BelievedIsHeld
  BY DEF Init, BelievedIsHeld
<1>2. Inv /\ Inv' /\ BelievedIsHeld /\ [Next]_vars => BelievedIsHeld'
  BY BelievedStep
<1>3. Inv /\ BelievedIsHeld => OneBelievedOwner
  BY DEF Inv, NoConflictingLeases, BelievedIsHeld, OneBelievedOwner, Live
<1>. QED
  BY <1>1, <1>2, <1>3, AlwaysInv, PTL DEF Spec
=============================================================================
