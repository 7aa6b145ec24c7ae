--------------------------- MODULE SchedulerProofs ---------------------------
(***************************************************************************)
(* Proofs about SchedulerDispatch, for any repositories, jobs, schedulers, *)
(* limits, dependencies and claims: the types, the limits of workers and   *)
(* repositories, that what runs together is compatible and was due, and    *)
(* when the quotas hold.                                                   *)
(* The loop of an actor, the merging of claims and the index of the        *)
(* waiting jobs are folds: FoldProofs says what they keep.                 *)
(***************************************************************************)
EXTENDS DispatchAndLeases, LeaseStoreProofs, FiniteSetTheorems, SequenceTheorems

IsList(list) == \E n \in Nat : DOMAIN list = 1 .. n
OneToOne(list) == \A i, k \in DOMAIN list : list[i] = list[k] => i = k

Status == {"absent", "active"} \cup Waiting \cup Ended
Here(r) == {j \in Active : Repo(j) = r}
BusyRepos == {Repo(j) : j \in Active}

(* A tick is alone, and what it counted and has spent since covers what    *)
(* is active now.                                                          *)
TickOK(t) ==
    /\ t = [capacity |-> t.capacity, heavy |-> t.heavy, agents |-> t.agents,
            providers |-> t.providers, repos |-> t.repos, visits |-> t.visits]
    /\ t # Idle => /\ t.capacity \in Nat \ {0}
                   /\ Cardinality(Active) + t.capacity <= Limits.workers
                   /\ t.repos \subseteq Repos /\ IsFiniteSet(t.repos)
                   /\ Cardinality(t.repos) <= Limits.repos
                   /\ BusyRepos \subseteq t.repos

QueueOK ==
    /\ queue \in Seq(JobIds) /\ OneToOne(queue)
    /\ \A j \in JobIds : j \in ToSet(queue) <=> status[j] \in Waiting

JobsOK ==
    /\ status \in [JobIds -> Status]
    /\ age \in [JobIds -> Nat] /\ \A j \in JobIds : age[j] <= Declared[j].priority
    /\ DOMAIN claims = JobIds /\ \A j \in JobIds : IsList(claims[j])
    /\ late \subseteq Deadlined /\ pressured \in Pressures
    /\ recent \in [Schedulers -> Seq(Repos)]

TicksOK ==
    /\ DOMAIN tick = Schedulers
    /\ \A s \in Schedulers : TickOK(tick[s])
    /\ \A s, t \in Schedulers : tick[s] # Idle /\ tick[t] # Idle => s = t

DispatchInv ==
    /\ JobsOK /\ QueueOK /\ TicksOK
    /\ IsFiniteSet(Active) /\ Cardinality(Active) <= Limits.workers
    /\ RepoLimits /\ CompatibleOwners

-----------------------------------------------------------------------------
(* Claims: a merged list covers what it was merged from.                   *)

CoveredBy(c, d) == d.key = c.key /\ (c.mode # "read" => d.mode # "read")
Covers(seen, kept) == \A c \in seen : \E d \in kept : CoveredBy(c, d)

Merged == INSTANCE FoldProofs WITH Op <- Merge, Pick <- Max, Good <- Covers

LEMMA MergeCovers ==
    ASSUME NEW seen, NEW kept, NEW c, Covers(seen, kept)
    PROVE  Covers(seen \cup {c}, Merge(kept, c))
<1>. DEFINE same == {d \in kept : d.key = c.key}
            replaces == \A d \in same : \/ d.mode = "read" /\ c.mode # "read"
                                        \/ d.mode = "write" /\ c.mode = "exclusive"
<1>1. CASE replaces
  <2>1. Merge(kept, c) = (kept \ same) \cup {c}
    BY <1>1 DEF Merge
  <2>2. ASSUME NEW b \in seen PROVE \E d \in Merge(kept, c) : CoveredBy(b, d)
    <3>1. PICK d \in kept : CoveredBy(b, d)
      BY DEF Covers
    <3>2. CASE d \in same
      BY <1>1, <2>1, <3>1, <3>2 DEF CoveredBy
    <3>. QED
      BY <2>1, <3>1, <3>2
  <2>. QED
    BY <2>1, <2>2 DEF Covers, CoveredBy
<1>2. CASE ~replaces
  <2>1. Merge(kept, c) = kept
    BY <1>2 DEF Merge
  <2>2. \E d \in kept : CoveredBy(c, d)
    BY <1>2 DEF CoveredBy
  <2>. QED
    BY <2>1, <2>2 DEF Covers
<1>. QED
  BY <1>1, <1>2

LEMMA LeasesCover ==
    ASSUME NEW list, IsList(list)
    PROVE  Covers(ToSet(list), Leases(list))
<1>1. PICK n \in Nat : DOMAIN list = 1 .. n
  BY DEF IsList
<1>2. CASE list = <<>>
  BY <1>2 DEF Covers, ToSet
<1>3. CASE list # <<>>
  <2>1. Covers({}, {})
    BY DEF Covers
  <2>2. ASSUME NEW s \in SUBSET (1 .. n), NEW x \in (1 .. n) \ s, NEW kept,
               Covers({list[y] : y \in s}, kept)
        PROVE  Covers({list[y] : y \in s \cup {x}}, Merge(kept, list[x]))
    <3>1. {list[y] : y \in s \cup {x}} = {list[y] : y \in s} \cup {list[x]}
      OBVIOUS
    <3>. QED
      BY <2>2, <3>1, MergeCovers
  <2>3. Covers({list[y] : y \in 1 .. n}, FoldLeft(Merge, {}, list))
    <3>1. \A s : Max(s) = Merged!Max(s)
      BY DEF Max, Merged!Max
    <3>2. FoldLeft(Merge, {}, list) = Merged!FoldLeft(Merge, {}, list)
      BY DEF FoldLeft, MapThenFoldSet, Max, Merged!FoldLeft, Merged!MapThenFoldSet, Merged!Max
    <3>3. Covers({list[y] : y \in 1 .. n}, Merged!FoldLeft(Merge, {}, list))
      BY <1>1, <2>1, <2>2, <3>1, Merged!FoldLeftKeeps
    <3>. QED
      BY <3>2, <3>3
  <2>. QED
    BY <1>1, <1>3, <2>3 DEF Leases, NormalizeClaims, ToSet
<1>. QED
  BY <1>2, <1>3

LEMMA ConflictsSymmetric ==
    ASSUME NEW c, NEW d PROVE ClaimsConflict(c, d) <=> ClaimsConflict(d, c)
<1>1. \A p, q : PathOverlaps(p, q) <=> PathOverlaps(q, p)
  BY DEF PathOverlaps
<1>2. \A k, l : KeysOverlap(k, l) <=> KeysOverlap(l, k)
  BY <1>1 DEF KeysOverlap
<1>. QED
  BY <1>2 DEF ClaimsConflict

(* What conflicts before claims are merged conflicts when they are.        *)
LEMMA CompatibleLists ==
    ASSUME NEW left, NEW right, IsList(left), IsList(right),
           \A c \in Leases(left), l \in Leases(right) : ~ClaimsConflict(c, l)
    PROVE  \A c \in ToSet(left), d \in ToSet(right) : ~ClaimsConflict(c, d) /\ ~ClaimsConflict(d, c)
<1>1. \A b, c, d, e : CoveredBy(b, c) /\ CoveredBy(d, e) /\ ClaimsConflict(b, d) => ClaimsConflict(c, e)
  BY DEF CoveredBy, ClaimsConflict
<1>. QED
  BY <1>1, LeasesCover, ConflictsSymmetric DEF Covers

-----------------------------------------------------------------------------
(* The order of candidates: of any of them one comes last.                 *)

LEMMA ToSetOf ==
    ASSUME NEW T, NEW list \in Seq(T)
    PROVE  /\ DOMAIN list = 1 .. Len(list) /\ Len(list) \in Nat /\ IsList(list)
           /\ ToSet(list) \subseteq T /\ IsFiniteSet(ToSet(list))
           /\ \A x : x \in ToSet(list) <=> \E i \in DOMAIN list : list[i] = x
<1>1. DOMAIN list = 1 .. Len(list) /\ Len(list) \in Nat
  OBVIOUS
<1>2. IsFiniteSet(DOMAIN list)
  BY <1>1, FS_Interval
<1>3. ToSet(list) = {list[i] : i \in DOMAIN list}
  BY DEF ToSet
<1>4. IsFiniteSet(ToSet(list))
  <2>1. \A t \in ToSet(list) : \E i \in DOMAIN list : t = list[i]
    BY <1>3
  <2>2. list \in Surjection(DOMAIN list, ToSet(list))
    BY <1>1, <1>3, <2>1 DEF Surjection
  <2>. QED
    BY <1>2, <2>2, FS_Surjection
<1>5. ToSet(list) \subseteq T
  BY <1>1, <1>3
<1>6. \A x : x \in ToSet(list) <=> \E i \in DOMAIN list : list[i] = x
  BY <1>3
<1>7. IsList(list)
  BY <1>1 DEF IsList
<1>. QED
  BY <1>1, <1>4, <1>5, <1>6, <1>7

LEMMA PositionOf ==
    ASSUME QueueOK, NEW j \in ToSet(queue)
    PROVE  Position(queue, j) \in 1 .. Len(queue) /\ queue[Position(queue, j)] = j
BY ToSetOf DEF QueueOK, Position

LEMMA LastIsPicked ==
    ASSUME JobsOK, QueueOK, NEW jobs \in SUBSET ToSet(queue), jobs # {}
    PROVE  LastOf(jobs) \in jobs
<1>. DEFINE P(j) == EffectivePriority(j)
            N(j) == Position(queue, j)
<1>1. \A j \in jobs : j \in JobIds /\ P(j) \in Int /\ 4 - P(j) \in Nat
  <2>. SUFFICES ASSUME NEW j \in jobs
               PROVE  j \in JobIds /\ P(j) \in Int /\ 4 - P(j) \in Nat
    OBVIOUS
  <2>1. j \in JobIds
    BY ToSetOf DEF QueueOK
  <2>2. Declared[j].priority \in 0 .. 4 /\ age[j] \in Nat /\ age[j] <= Declared[j].priority
    BY <2>1, DispatchAssumption DEF JobsOK
  <2>. QED
    BY <2>1, <2>2 DEF EffectivePriority
<1>2. \A j \in jobs : N(j) \in Int /\ Len(queue) - N(j) \in Nat /\ queue[N(j)] = j
  BY PositionOf
<1>. HIDE DEF P, N
<1>3. PICK p \in {4 - P(j) : j \in jobs} : \A q \in {4 - P(j) : j \in jobs} : p <= q
  <2>1. {4 - P(j) : j \in jobs} \in SUBSET Nat /\ {4 - P(j) : j \in jobs} # {}
    BY <1>1
  <2>. QED
    BY <2>1, Merged!LeastNatural
<1>. DEFINE latest == {j \in jobs : 4 - P(j) = p}
<1>4. PICK n \in {Len(queue) - N(j) : j \in latest} : \A m \in {Len(queue) - N(j) : j \in latest} : n <= m
  <2>1. {Len(queue) - N(j) : j \in latest} \in SUBSET Nat /\ {Len(queue) - N(j) : j \in latest} # {}
    BY <1>2, <1>3
  <2>. QED
    BY <2>1, Merged!LeastNatural
<1>5. PICK j \in latest : n = Len(queue) - N(j)
  BY <1>4
<1>6. ASSUME NEW i \in jobs \ {j} PROVE Before(i, j)
  <2>1. Len(queue) \in Nat
    BY ToSetOf DEF QueueOK
  <2>2. 4 - P(j) <= 4 - P(i)
    BY <1>3, <1>5
  <2>3. P(i) <= P(j)
    BY <1>1, <1>5, <2>2
  <2>4. CASE P(i) = P(j)
    <3>1. n <= Len(queue) - N(i)
      BY <1>4, <1>5, <2>4
    <3>2. N(i) <= N(j) /\ N(i) # N(j)
      BY <1>2, <1>5, <2>1, <3>1
    <3>. QED
      BY <1>2, <1>5, <2>4, <3>2 DEF Before, P, N
  <2>5. CASE P(i) # P(j)
    BY <1>1, <2>3, <2>5 DEF Before, P
  <2>. QED
    BY <2>4, <2>5
<1>. QED
  BY <1>5, <1>6 DEF LastOf

-----------------------------------------------------------------------------
(* A visit: what an actor has made of the candidates it has seen.          *)

Due(j) == j \notin late /\ \A d \in ToSet(Declared[j].depends) : status[d] = "succeeded"

(* What a turn may leave a waiting job with.                               *)
LeftWith == Waiting \cup {"timed_out", "human_attention_required"}

VisitIsSound(seen, visit) ==
    /\ seen \subseteq {j \in JobIds : status[j] \in Waiting}
    /\ visit.status \in [JobIds -> Status]
    /\ DOMAIN visit.claims = JobIds /\ \A j \in JobIds : IsList(visit.claims[j])
    /\ visit.chosen = {} \/ \E j \in seen : visit.chosen = {j}
    /\ \A i \in JobIds \ seen : visit.status[i] = status[i] /\ visit.claims[i] = claims[i]
    /\ \A i \in seen : visit.status[i] \in LeftWith \cup {"active"}
                       /\ (visit.status[i] = "active" <=> i \in visit.chosen)
    /\ \A i \in visit.chosen : Due(i) /\ BlockedBy(visit.claims[i], i) = {}
VisitsAreSound(seen, visits) == \A visit \in visits : VisitIsSound(seen, visit)

Visited == INSTANCE FoldProofs WITH Op <- Turn, Pick <- LastOf, Good <- VisitsAreSound

LEMMA OutcomesAreSound ==
    ASSUME JobsOK, NEW seen, NEW visit, VisitIsSound(seen, visit), visit.chosen = {},
           NEW j \in JobIds, status[j] \in Waiting, j \notin seen,
           NEW next \in Outcomes(visit, j)
    PROVE  VisitIsSound(seen \cup {j}, next)
<1>. DEFINE depends == DependencyState(visit.status, j)
            wanted == IF BlockedBy(claims[j], j) # {} /\ CanAutoIsolate(j) THEN OwnWorktree(j) ELSE claims[j]
            blockers == BlockedBy(wanted, j)
            asks == j \notin late /\ depends = "ready"
            results == IF j \in late THEN {"timed_out"}
                       ELSE IF depends = "waiting" THEN {"waiting_for_dependency"}
                       ELSE IF depends = "blocked" THEN {"human_attention_required"}
                       ELSE IF blockers # {} THEN {WaitingStatus(l.key.space) : l \in blockers}
                       ELSE {"active"}
<1>1. PICK result \in results :
         next = [status |-> [visit.status EXCEPT ![j] = result],
                 claims |-> [visit.claims EXCEPT ![j] = IF asks THEN wanted ELSE @],
                 chosen |-> IF result = "active" THEN {j} ELSE {}]
  BY DEF Outcomes
<1>2. depends \in {"ready", "waiting", "blocked"}
  BY DEF DependencyState
<1>3. depends = "ready" => \A d \in ToSet(Declared[j].depends) : visit.status[d] = "succeeded"
  <2>1. depends = "ready" => {i \in DOMAIN Declared[j].depends : visit.status[Declared[j].depends[i]] # "succeeded"} = {}
    BY DEF DependencyState
  <2>2. \A d \in ToSet(Declared[j].depends) : \E i \in DOMAIN Declared[j].depends : d = Declared[j].depends[i]
    BY DEF ToSet
  <2>. HIDE DEF depends
  <2>. QED
    BY <2>1, <2>2
<1>4. \A d \in ToSet(Declared[j].depends) : d \in JobIds
  BY ToSetOf, DispatchAssumption
<1>5. \A d \in JobIds : visit.status[d] = "succeeded" => status[d] = "succeeded"
  BY DEF VisitIsSound, LeftWith, Waiting
<1>6. IsList(wanted)
  <2>1. IsList(OwnWorktree(j))
    BY DEF IsList, OwnWorktree
  <2>. QED
    BY <2>1 DEF JobsOK
<1>7. \A space : WaitingStatus(space) \in Waiting
  BY DEF WaitingStatus, Waiting
<1>8. result \in LeftWith \cup {"active"}
  BY <1>7 DEF LeftWith, Waiting
<1>9. result = "active" => j \notin late /\ depends = "ready" /\ blockers = {}
  BY <1>2, <1>7 DEF Waiting
<1>. HIDE DEF depends, wanted, blockers, results
<1>10. next.claims[j] = (IF asks THEN wanted ELSE visit.claims[j]) /\ IsList(next.claims[j])
  BY <1>1, <1>6 DEF VisitIsSound
<1>11. result = "active" => Due(j) /\ BlockedBy(next.claims[j], j) = {}
  BY <1>3, <1>4, <1>5, <1>9, <1>10 DEF Due, blockers
<1>12. /\ next.status \in [JobIds -> Status]
       /\ next.status[j] = result
       /\ \A i \in JobIds \ {j} : next.status[i] = visit.status[i] /\ next.claims[i] = visit.claims[i]
       /\ DOMAIN next.claims = JobIds
  BY <1>1, <1>8 DEF VisitIsSound, LeftWith, Status, Ended, Unsuccessful, Waiting
<1>13. next.chosen = IF result = "active" THEN {j} ELSE {}
  BY <1>1
<1>. QED
  BY <1>8, <1>10, <1>11, <1>12, <1>13 DEF VisitIsSound

LEMMA TurnIsSound ==
    ASSUME JobsOK, NEW seen, NEW visits, VisitsAreSound(seen, visits),
           NEW j \in JobIds, status[j] \in Waiting, j \notin seen
    PROVE  VisitsAreSound(seen \cup {j}, Turn(visits, j))
<1>. SUFFICES ASSUME NEW visit \in visits,
                     NEW next \in IF visit.chosen # {} THEN {visit} ELSE Outcomes(visit, j)
              PROVE  VisitIsSound(seen \cup {j}, next)
  BY DEF VisitsAreSound, Turn
<1>1. VisitIsSound(seen, visit)
  BY DEF VisitsAreSound
<1>2. CASE visit.chosen = {}
  BY <1>1, <1>2, OutcomesAreSound
<1>3. CASE visit.chosen # {}
  BY <1>1, <1>3 DEF VisitIsSound, LeftWith, Waiting
<1>. QED
  BY <1>2, <1>3

LEMMA NoChoiceIsSound == JobsOK => VisitIsSound({}, NoChoice)
BY DEF JobsOK, VisitIsSound, NoChoice

(* What an actor may leave: something about its own waiting jobs, at most  *)
(* one of them active, and none when its repository is full.               *)
LEMMA VisitFacts ==
    ASSUME JobsOK, QueueOK, NEW r \in Repos, NEW visit \in TryClaimNext(r)
    PROVE  \E seen \in SUBSET Candidates(r) :
              /\ VisitIsSound(seen, visit)
              /\ visit.chosen # {} => ~(Cardinality(Here(r)) >= Limits.perRepo)
<1>1. CASE Cardinality(Here(r)) >= Limits.perRepo
  BY <1>1, NoChoiceIsSound DEF TryClaimNext, Here, NoChoice
<1>2. CASE ~(Cardinality(Here(r)) >= Limits.perRepo)
  <2>. DEFINE S == Candidates(r)
              self == [j \in S |-> j]
              iter == CHOOSE iter : iter = [s \in SUBSET S |->
                         IF s = {} THEN {NoChoice} ELSE Turn(iter[s \ {LastOf(s)}], LastOf(s))]
  <2>1. S \subseteq ToSet(queue) /\ IsFiniteSet(S)
    BY ToSetOf, FS_Subset DEF QueueOK, Candidates
  <2>2. Visited!IsFiniteSet(S)
    BY <2>1 DEF IsFiniteSet, Visited!IsFiniteSet
  <2>3. Visited!Picks(S)
    BY <2>1, LastIsPicked DEF Visited!Picks
  <2>4. PICK fold : Visited!Iterates(fold, S, self, {NoChoice})
    <3>. HIDE DEF self, S
    <3>. QED
      BY <2>3, <2>2, Visited!FoldExists
  <2>5. \A g : Visited!Iterates(g, S, self, {NoChoice}) <=>
               g = [s \in SUBSET S |-> IF s = {} THEN {NoChoice} ELSE Turn(g[s \ {LastOf(s)}], LastOf(s))]
    <3>1. \A s \in SUBSET S : s # {} => self[LastOf(s)] = LastOf(s)
      BY <2>3 DEF Visited!Picks
    <3>. HIDE DEF self, S
    <3>2. ASSUME NEW g
          PROVE  [s \in SUBSET S |-> IF s = {} THEN {NoChoice} ELSE Turn(g[s \ {LastOf(s)}], self[LastOf(s)])]
               = [s \in SUBSET S |-> IF s = {} THEN {NoChoice} ELSE Turn(g[s \ {LastOf(s)}], LastOf(s))]
      BY <3>1
    <3>. QED
      BY <3>2 DEF Visited!Iterates
  <2>6. Visited!Iterates(iter, S, self, {NoChoice})
    <3>. HIDE DEF S, self
    <3>. QED
      BY <2>4, <2>5
  <2>7. TryClaimNext(r) = iter[S]
    BY <1>2 DEF TryClaimNext, Here, MapThenFoldSet
  <2>8. VisitsAreSound({}, {NoChoice})
    BY NoChoiceIsSound DEF VisitsAreSound
  <2>9. ASSUME NEW s \in SUBSET S, NEW x \in S \ s, NEW visits,
               VisitsAreSound({self[y] : y \in s}, visits)
        PROVE  VisitsAreSound({self[y] : y \in s \cup {x}}, Turn(visits, self[x]))
    <3>1. {self[y] : y \in s} = s /\ {self[y] : y \in s \cup {x}} = s \cup {x} /\ self[x] = x
      OBVIOUS
    <3>2. x \in JobIds /\ status[x] \in Waiting
      BY <2>1, ToSetOf DEF QueueOK
    <3>. HIDE DEF self, S
    <3>. QED
      BY <2>9, <3>1, <3>2, TurnIsSound
  <2>10. {self[y] : y \in S} = S
    OBVIOUS
  <2>. HIDE DEF self, iter, S
  <2>11. VisitsAreSound({self[y] : y \in S}, iter[S])
    BY <2>3, <2>6, <2>8, <2>9, <2>2, Visited!FoldKeeps
  <2>. QED
    BY <1>2, <2>7, <2>10, <2>11 DEF VisitsAreSound, S
<1>. QED
  BY <1>1, <1>2

-----------------------------------------------------------------------------
(* The index of waiting jobs, and the list of recent repositories.         *)

LEMMA AppendNew ==
    ASSUME NEW T, NEW list \in Seq(T), OneToOne(list), NEW x \in T, x \notin ToSet(list)
    PROVE  /\ Append(list, x) \in Seq(T) /\ OneToOne(Append(list, x))
           /\ \A y : y \in ToSet(Append(list, x)) <=> y \in ToSet(list) \/ y = x
<1>. DEFINE n == Len(list)
            more == Append(list, x)
<1>1. /\ more \in Seq(T) /\ DOMAIN more = 1 .. n + 1 /\ DOMAIN list = 1 .. n /\ n \in Nat
      /\ \A i \in 1 .. n : more[i] = list[i]
      /\ more[n + 1] = x
  OBVIOUS
<1>2. \A i \in 1 .. n + 1 : i \in 1 .. n \/ i = n + 1
  BY <1>1
<1>3. \A y : y \in ToSet(list) <=> \E i \in 1 .. n : list[i] = y
  BY <1>1, ToSetOf
<1>4. \A y : y \in ToSet(more) <=> \E i \in 1 .. n + 1 : more[i] = y
  BY <1>1, ToSetOf
<1>. HIDE DEF more, n
<1>5. OneToOne(more)
  BY <1>1, <1>2, <1>3 DEF OneToOne
<1>6. \A y : y \in ToSet(more) <=> y \in ToSet(list) \/ y = x
  BY <1>1, <1>2, <1>3, <1>4
<1>. QED
  BY <1>1, <1>5, <1>6 DEF more

KeptIsSound(seen, kept) ==
    /\ kept \in Seq(JobIds) /\ OneToOne(kept)
    /\ \A j : j \in ToSet(kept) <=> j \in seen /\ status'[j] \in Waiting

Kept == INSTANCE FoldProofs WITH Op <- StillWaiting, Pick <- Max, Good <- KeptIsSound

LEMMA QueueKept ==
    ASSUME QueueOK, queue' = FoldLeft(StillWaiting, <<>>, queue)
    PROVE  KeptIsSound(ToSet(queue), queue')
<1>. DEFINE n == Len(queue)
<1>1. n \in Nat /\ DOMAIN queue = 1 .. n /\ ToSet(queue) = {queue[y] : y \in 1 .. n}
  BY DEF QueueOK, ToSet
<1>2. KeptIsSound({}, <<>>)
  BY DEF KeptIsSound, OneToOne, ToSet
<1>3. ASSUME NEW s \in SUBSET (1 .. n), NEW x \in (1 .. n) \ s, NEW kept,
             KeptIsSound({queue[y] : y \in s}, kept)
      PROVE  KeptIsSound({queue[y] : y \in s \cup {x}}, StillWaiting(kept, queue[x]))
  <2>1. {queue[y] : y \in s \cup {x}} = {queue[y] : y \in s} \cup {queue[x]}
    OBVIOUS
  <2>2. queue[x] \in JobIds /\ queue[x] \notin {queue[y] : y \in s}
    BY <1>1 DEF QueueOK, OneToOne
  <2>3. CASE status'[queue[x]] \in Waiting
    <3>1. StillWaiting(kept, queue[x]) = Append(kept, queue[x])
      BY <2>3 DEF StillWaiting
    <3>2. /\ kept \in Seq(JobIds) /\ OneToOne(kept) /\ queue[x] \notin ToSet(kept)
          /\ \A j : j \in ToSet(kept) <=> j \in {queue[y] : y \in s} /\ status'[j] \in Waiting
      BY <1>3, <2>2 DEF KeptIsSound
    <3>3. /\ Append(kept, queue[x]) \in Seq(JobIds) /\ OneToOne(Append(kept, queue[x]))
          /\ \A j : j \in ToSet(Append(kept, queue[x])) <=> j \in ToSet(kept) \/ j = queue[x]
      BY <2>2, <3>2, AppendNew
    <3>. QED
      BY <2>1, <2>3, <3>1, <3>2, <3>3 DEF KeptIsSound
  <2>4. CASE status'[queue[x]] \notin Waiting
    BY <1>3, <2>1, <2>2, <2>4 DEF KeptIsSound, StillWaiting
  <2>. QED
    BY <2>3, <2>4
<1>4. \A s : Max(s) = Kept!Max(s)
  BY DEF Max, Kept!Max
<1>5. queue' = Kept!FoldLeft(StillWaiting, <<>>, queue)
  BY DEF FoldLeft, MapThenFoldSet, Max, Kept!FoldLeft, Kept!MapThenFoldSet, Kept!Max
<1>. HIDE DEF n
<1>6. KeptIsSound({queue[y] : y \in 1 .. n}, Kept!FoldLeft(StillWaiting, <<>>, queue))
  BY <1>1, <1>2, <1>3, <1>4, Kept!FoldLeftKeeps
<1>. QED
  BY <1>1, <1>5, <1>6

LEMMA RecentKept ==
    ASSUME NEW list \in Seq(Repos), NEW r \in Repos
    PROVE  Append(RemoveFirst(list, r), r) \in Seq(Repos)
<1>. DEFINE at == {i \in 1 .. Len(list) : list[i] = r}
<1>1. CASE at = {}
  BY <1>1 DEF RemoveFirst
<1>2. CASE at # {}
  <2>1. at \in SUBSET Nat
    OBVIOUS
  <2>2. PICK i \in at : \A k \in at : i <= k
    BY <1>2, <2>1, Merged!LeastNatural
  <2>3. Min(at) \in at
    BY <2>2 DEF Min
  <2>4. SelectInSeq(list, LAMBDA v : v = r) = Min(at)
    BY <1>2 DEF SelectInSeq
  <2>5. RemoveFirst(list, r) = SubSeq(list, 1, Min(at) - 1) \o SubSeq(list, Min(at) + 1, Len(list))
    BY <1>2, <2>4 DEF RemoveFirst, RemoveAt
  <2>6. SubSeq(list, 1, Min(at) - 1) \in Seq(Repos) /\ SubSeq(list, Min(at) + 1, Len(list)) \in Seq(Repos)
    <3>1. Min(at) \in 1 .. Len(list) /\ Len(list) \in Nat
      BY <2>3
    <3>. HIDE DEF at
    <3>. QED
      BY <3>1, SubSeqProperties
  <2>. QED
    BY <2>5, <2>6
<1>. QED
  BY <1>1, <1>2

-----------------------------------------------------------------------------
(* Counting.                                                               *)

LEMMA BusyIsFinite == IsFiniteSet(Active) => IsFiniteSet(BusyRepos) /\ Cardinality(BusyRepos) \in Nat
<1>. SUFFICES ASSUME IsFiniteSet(Active) PROVE IsFiniteSet(BusyRepos)
  BY FS_CardinalityType
<1>. DEFINE f == [j \in Active |-> Repo(j)]
<1>1. f \in Surjection(Active, BusyRepos)
  BY DEF Surjection, BusyRepos
<1>. QED
  BY <1>1, FS_Surjection

LEMMA ActiveJobs == Active \subseteq JobIds /\ \A j \in JobIds : j \in Active <=> status[j] = "active"
BY DEF Active

(* When no job begins, the counts do not grow.                             *)
LEMMA NoneBegins ==
    ASSUME DispatchInv,
           \A j \in JobIds : status'[j] = "active" => status[j] = "active" /\ claims'[j] = claims[j]
    PROVE  /\ IsFiniteSet(Active') /\ Cardinality(Active') <= Cardinality(Active)
           /\ Cardinality(Active') <= Limits.workers
           /\ BusyRepos' \subseteq BusyRepos
           /\ RepoLimits' /\ CompatibleOwners'
           /\ \A t : TickOK(t) => TickOK(t)'
<1>1. Active' \subseteq Active
  BY DEF Active
<1>2. IsFiniteSet(Active) /\ Cardinality(Active) \in Nat /\ Cardinality(Active) <= Limits.workers
  BY FS_CardinalityType DEF DispatchInv
<1>3. /\ IsFiniteSet(Active') /\ Cardinality(Active') <= Cardinality(Active)
      /\ Cardinality(Active') \in Nat
  BY <1>1, <1>2, FS_Subset, FS_CardinalityType
<1>4. BusyRepos' \subseteq BusyRepos
  BY <1>1 DEF BusyRepos
<1>5. Limits.workers \in Nat /\ Limits.repos \in Nat /\ Limits.perRepo \in Nat
  BY DispatchAssumption
<1>6. RepoLimits'
  <2>1. ASSUME NEW r \in Repos PROVE Cardinality(Here(r)') <= Limits.perRepo
    <3>1. IsFiniteSet(Here(r)) /\ Here(r)' \subseteq Here(r) /\ Cardinality(Here(r)) <= Limits.perRepo
      BY <1>1, <1>2, FS_Subset DEF Here, DispatchInv, RepoLimits
    <3>2. Cardinality(Here(r)') <= Cardinality(Here(r)) /\ IsFiniteSet(Here(r)')
      BY <3>1, FS_Subset
    <3>. QED
      BY <1>5, <3>1, <3>2, FS_CardinalityType
  <2>2. Cardinality(BusyRepos') <= Limits.repos
    <3>1. IsFiniteSet(BusyRepos) /\ Cardinality(BusyRepos) \in Nat /\ Cardinality(BusyRepos) <= Limits.repos
      BY <1>2, BusyIsFinite DEF DispatchInv, RepoLimits, BusyRepos
    <3>2. Cardinality(BusyRepos') <= Cardinality(BusyRepos) /\ IsFiniteSet(BusyRepos')
      BY <1>4, <3>1, FS_Subset
    <3>. QED
      BY <1>5, <3>1, <3>2, FS_CardinalityType
  <2>. QED
    BY <2>1, <2>2 DEF RepoLimits, Here, BusyRepos
<1>7. CompatibleOwners'
  BY DEF CompatibleOwners, DispatchInv, Active
<1>8. ASSUME NEW t, TickOK(t) PROVE TickOK(t)'
  BY <1>2, <1>3, <1>4, <1>5, <1>8 DEF TickOK
<1>. QED
  BY <1>2, <1>3, <1>4, <1>5, <1>6, <1>7, <1>8

LEMMA TickTypes ==
    ASSUME DispatchInv, NEW s \in Schedulers, tick[s] # Idle
    PROVE  LET t == tick[s] IN
           /\ t.capacity \in Nat \ {0} /\ Cardinality(Active) \in Nat /\ Limits.workers \in Nat
           /\ Cardinality(Active) + t.capacity <= Limits.workers
           /\ t.repos \subseteq Repos /\ IsFiniteSet(t.repos) /\ Cardinality(t.repos) \in Nat
           /\ Cardinality(t.repos) <= Limits.repos /\ BusyRepos \subseteq t.repos
           /\ \A u \in Schedulers \ {s} : tick[u] = Idle
<1>1. TickOK(tick[s]) /\ IsFiniteSet(Active)
  BY DEF DispatchInv, TicksOK
<1>2. Cardinality(Active) \in Nat /\ Cardinality(tick[s].repos) \in Nat
  BY <1>1, FS_CardinalityType DEF TickOK
<1>3. \A u \in Schedulers \ {s} : tick[u] = Idle
  BY DEF DispatchInv, TicksOK
<1>4. Limits.workers \in Nat
  BY DispatchAssumption
<1>. QED
  BY <1>1, <1>2, <1>3, <1>4 DEF TickOK

(* What is chosen begins; it was due, and nothing else does.               *)
LEMMA VisitFits ==
    ASSUME DispatchInv, NEW s \in Schedulers, NEW r \in Repos, VisitRepo(s, r)
    PROVE  \E visit \in TryClaimNext(r) : \E seen \in SUBSET Candidates(r) :
              /\ VisitIsSound(seen, visit)
              /\ visit.chosen # {} => Cardinality(Here(r)) < Limits.perRepo
              /\ status' = visit.status /\ claims' = visit.claims
              /\ Active' = Active \cup visit.chosen
              /\ visit.chosen \cap Active = {}
              /\ \A i \in Active : status'[i] = "active" /\ claims'[i] = claims[i]
              /\ \/ /\ visit.chosen = {}
                    /\ tick' = [tick EXCEPT ![s] = NextVisit(@)]
                    /\ recent' = recent
                 \/ /\ \E j \in visit.chosen : tick' = [tick EXCEPT ![s] = Continue(Spent(@, j))]
                    /\ recent' = [recent EXCEPT ![s] = Append(RemoveFirst(@, r), r)]
<1>1. PICK visit \in TryClaimNext(r) :
         /\ status' = visit.status /\ claims' = visit.claims
         /\ \/ /\ visit.chosen = {}
               /\ tick' = [tick EXCEPT ![s] = NextVisit(@)]
               /\ recent' = recent
            \/ /\ \E j \in visit.chosen : tick' = [tick EXCEPT ![s] = Continue(Spent(@, j))]
               /\ recent' = [recent EXCEPT ![s] = Append(RemoveFirst(@, r), r)]
  BY DEF VisitRepo
<1>2. PICK seen \in SUBSET Candidates(r) :
         /\ VisitIsSound(seen, visit)
         /\ visit.chosen # {} => ~(Cardinality(Here(r)) >= Limits.perRepo)
  BY VisitFacts DEF DispatchInv
<1>3. /\ \A i \in JobIds \ seen : status'[i] = status[i] /\ claims'[i] = claims[i]
      /\ \A i \in seen : i \in JobIds /\ status[i] # "active"
                        /\ (status'[i] = "active" <=> i \in visit.chosen)
      /\ visit.chosen \subseteq seen
  BY <1>1, <1>2 DEF VisitIsSound, Waiting
<1>4. Active' = Active \cup visit.chosen /\ visit.chosen \cap Active = {}
  BY <1>3 DEF Active
<1>5. \A i \in Active : status'[i] = "active" /\ claims'[i] = claims[i]
  BY <1>3 DEF Active
<1>6. IsFiniteSet(Here(r)) /\ Cardinality(Here(r)) \in Nat /\ Limits.perRepo \in Nat
  BY FS_Subset, FS_CardinalityType, DispatchAssumption DEF Here, DispatchInv
<1>. QED
  BY <1>1, <1>2, <1>4, <1>5, <1>6

-----------------------------------------------------------------------------
(* Every step keeps the invariant.                                         *)

LEMMA DispatchInitially == DispatchInit => DispatchInv
<1>. SUFFICES ASSUME DispatchInit PROVE DispatchInv
  OBVIOUS
<1>1. Active = {} /\ BusyRepos = {} /\ \A r \in Repos : Here(r) = {}
  BY DEF DispatchInit, Active, BusyRepos, Here
<1>2. Cardinality({}) = 0 /\ IsFiniteSet({})
  BY FS_EmptySet
<1>3. /\ Limits.workers \in Nat /\ Limits.repos \in Nat /\ Limits.perRepo \in Nat
      /\ \A j \in JobIds : Declared[j].priority \in Nat /\ IsList(Declared[j].claims)
  BY DispatchAssumption, ToSetOf
<1>4. JobsOK
  BY <1>3 DEF DispatchInit, JobsOK, Status
<1>5. QueueOK
  BY DEF DispatchInit, QueueOK, OneToOne, ToSet, Waiting
<1>6. TicksOK
  BY DEF DispatchInit, TicksOK, TickOK, Idle
<1>7. RepoLimits /\ CompatibleOwners
  BY <1>1, <1>2, <1>3 DEF RepoLimits, CompatibleOwners, Here, BusyRepos
<1>. QED
  BY <1>1, <1>2, <1>3, <1>4, <1>5, <1>6, <1>7 DEF DispatchInv

LEMMA IdleIsOK == TickOK(Idle) /\ TickOK(Idle)'
<1>1. Idle = [capacity |-> Idle.capacity, heavy |-> Idle.heavy, agents |-> Idle.agents,
              providers |-> Idle.providers, repos |-> Idle.repos, visits |-> Idle.visits]
  BY DEF Idle
<1>. QED
  BY <1>1 DEF TickOK

LEMMA OtherVisits ==
    ASSUME NEW t, NEW visits, t # Idle, TickOK(t)
    PROVE  TickOK([t EXCEPT !.visits = visits])
<1>. DEFINE next == [t EXCEPT !.visits = visits]
<1>1. t = [capacity |-> t.capacity, heavy |-> t.heavy, agents |-> t.agents,
           providers |-> t.providers, repos |-> t.repos, visits |-> t.visits]
  BY DEF TickOK
<1>2. next = [capacity |-> t.capacity, heavy |-> t.heavy, agents |-> t.agents,
              providers |-> t.providers, repos |-> t.repos, visits |-> visits]
  BY <1>1
<1>3. /\ next.capacity = t.capacity /\ next.repos = t.repos
      /\ next = [capacity |-> next.capacity, heavy |-> next.heavy, agents |-> next.agents,
                 providers |-> next.providers, repos |-> next.repos, visits |-> next.visits]
  BY <1>2
<1>. HIDE DEF next
<1>4. TickOK(next)
  BY <1>3 DEF TickOK
<1>. QED
  BY <1>4 DEF next

LEMMA OnlyTick ==
    ASSUME TicksOK, NEW s \in Schedulers, NEW t, tick' = [tick EXCEPT ![s] = t],
           \A u \in Schedulers \ {s} : tick[u] = Idle,
           TickOK(t)', TickOK(Idle)'
    PROVE  TicksOK'
<1>1. DOMAIN tick' = Schedulers /\ tick'[s] = t /\ \A u \in Schedulers \ {s} : tick'[u] = Idle
  BY DEF TicksOK
<1>2. ASSUME NEW u \in Schedulers PROVE TickOK(tick[u])'
  <2>1. CASE u = s
    BY <1>1, <2>1
  <2>2. CASE u # s
    BY <1>1, <2>2
  <2>. QED
    BY <2>1, <2>2
<1>. QED
  BY <1>1, <1>2 DEF TicksOK

LEMMA VisitStep ==
    ASSUME DispatchInv, NEW s \in Schedulers, NEW r \in Repos, VisitRepo(s, r)
    PROVE  DispatchInv'
<1>0. PICK t : t = tick[s]          \* before the visit
  OBVIOUS
<1>1. PICK visit \in TryClaimNext(r) : \E seen \in SUBSET Candidates(r) :
         /\ VisitIsSound(seen, visit)
         /\ visit.chosen # {} => Cardinality(Here(r)) < Limits.perRepo
         /\ status' = visit.status /\ claims' = visit.claims
         /\ Active' = Active \cup visit.chosen
         /\ visit.chosen \cap Active = {}
         /\ \A i \in Active : status'[i] = "active" /\ claims'[i] = claims[i]
         /\ \/ /\ visit.chosen = {}
               /\ tick' = [tick EXCEPT ![s] = NextVisit(@)]
               /\ recent' = recent
            \/ /\ \E j \in visit.chosen : tick' = [tick EXCEPT ![s] = Continue(Spent(@, j))]
               /\ recent' = [recent EXCEPT ![s] = Append(RemoveFirst(@, r), r)]
  BY VisitFits
<1>2. PICK seen \in SUBSET Candidates(r) : VisitIsSound(seen, visit)
  BY <1>1
<1>3. t # Idle /\ ~RepoLimitReached(t, r)
  BY <1>0 DEF VisitRepo, Admits, Idle
<1>4. /\ t.capacity \in Nat \ {0} /\ Cardinality(Active) \in Nat /\ Limits.workers \in Nat
      /\ Cardinality(Active) + t.capacity <= Limits.workers
      /\ t.repos \subseteq Repos /\ IsFiniteSet(t.repos) /\ Cardinality(t.repos) \in Nat
      /\ Cardinality(t.repos) <= Limits.repos /\ BusyRepos \subseteq t.repos
      /\ \A u \in Schedulers \ {s} : tick[u] = Idle
  BY <1>0, <1>3, TickTypes
<1>5. JobsOK'
  <2>1. recent' \in [Schedulers -> Seq(Repos)]
    <3>1. recent \in [Schedulers -> Seq(Repos)]
      BY DEF DispatchInv, JobsOK
    <3>2. Append(RemoveFirst(recent[s], r), r) \in Seq(Repos)
      BY <3>1, RecentKept
    <3>3. recent' = recent \/ recent' = [recent EXCEPT ![s] = Append(RemoveFirst(@, r), r)]
      BY <1>1
    <3>. QED
      BY <3>1, <3>2, <3>3
  <2>2. status' \in [JobIds -> Status] /\ DOMAIN claims' = JobIds /\ \A j \in JobIds : IsList(claims'[j])
    BY <1>1, <1>2 DEF VisitIsSound
  <2>. QED
    BY <2>1, <2>2 DEF JobsOK, DispatchInv, VisitRepo
<1>6. QueueOK'
  <2>1. KeptIsSound(ToSet(queue), queue')
    BY QueueKept DEF DispatchInv, VisitRepo
  <2>2. \A j \in JobIds : status'[j] \in Waiting => status[j] \in Waiting
    BY <1>1, <1>2 DEF VisitIsSound
  <2>. QED
    BY <2>1, <2>2 DEF QueueOK, DispatchInv, KeptIsSound
<1>7. CASE visit.chosen = {}
  <2>1. Active' = Active
    BY <1>1, <1>7
  <2>2. \A j \in JobIds : status'[j] = "active" => status[j] = "active" /\ claims'[j] = claims[j]
    BY <1>1, <2>1, ActiveJobs DEF Active
  <2>3. /\ IsFiniteSet(Active') /\ Cardinality(Active') <= Limits.workers
        /\ RepoLimits' /\ CompatibleOwners'
        /\ \A u : TickOK(u) => TickOK(u)'
    BY <2>2, NoneBegins
  <2>4. tick' = [tick EXCEPT ![s] = NextVisit(t)]
    BY <1>0, <1>1, <1>7
  <2>5. \A u \in Schedulers : TickOK(tick[u])
    BY DEF DispatchInv, TicksOK
  <2>6. TickOK([t EXCEPT !.visits = Tail(@)]) /\ TickOK(Idle)
    BY <1>0, <1>3, <2>5, IdleIsOK, OtherVisits
  <2>7. TicksOK'
    <3>1. TickOK(NextVisit(t))'
      BY <2>3, <2>6 DEF NextVisit, Continue
    <3>. QED
      BY <1>4, <2>4, <3>1, IdleIsOK, OnlyTick DEF DispatchInv
  <2>. QED
    BY <1>5, <1>6, <2>3, <2>7 DEF DispatchInv
<1>8. CASE visit.chosen # {}
  <2>1. PICK j \in visit.chosen : tick' = [tick EXCEPT ![s] = Continue(Spent(t, j))]
    BY <1>0, <1>1, <1>8
  <2>2. /\ visit.chosen = {j} /\ j \in JobIds /\ Repo(j) = r /\ j \notin Active
        /\ BlockedBy(claims'[j], j) = {}
    BY <1>1, <1>2, <2>1 DEF VisitIsSound, Candidates
  <2>3. Active' = Active \cup {j} /\ IsFiniteSet(Active)
    BY <1>1, <2>2 DEF DispatchInv
  <2>4. IsFiniteSet(Active') /\ Cardinality(Active') = Cardinality(Active) + 1
    BY <2>2, <2>3, FS_AddElement
  <2>5. Cardinality(Active') <= Limits.workers
    BY <1>4, <2>4
  <2>6. BusyRepos' = BusyRepos \cup {r}
    BY <2>2, <2>3 DEF BusyRepos
  <2>7. /\ IsFiniteSet(t.repos \cup {r}) /\ Cardinality(t.repos \cup {r}) \in Nat
        /\ Cardinality(t.repos \cup {r}) <= Limits.repos
    <3>1. Limits.repos \in Nat
      BY DispatchAssumption
    <3>2. r \in t.repos \/ Cardinality(t.repos) < Limits.repos
      BY <1>3, <1>4, <3>1 DEF RepoLimitReached
    <3>3. /\ IsFiniteSet(t.repos \cup {r})
          /\ Cardinality(t.repos \cup {r}) = IF r \in t.repos THEN Cardinality(t.repos) ELSE Cardinality(t.repos) + 1
      BY <1>4, FS_AddElement
    <3>. QED
      BY <1>4, <3>1, <3>2, <3>3
  <2>8. RepoLimits'
    <3>1. ASSUME NEW q \in Repos PROVE Cardinality(Here(q)') <= Limits.perRepo
      <4>1. CASE q # r
        <5>1. Here(q)' = Here(q)
          BY <2>2, <2>3, <4>1 DEF Here
        <5>. QED
          BY <5>1 DEF DispatchInv, RepoLimits, Here
      <4>2. CASE q = r
        <5>1. Here(r)' = Here(r) \cup {j} /\ j \notin Here(r) /\ IsFiniteSet(Here(r))
          BY <2>2, <2>3, FS_Subset DEF Here
        <5>2. Cardinality(Here(r)') = Cardinality(Here(r)) + 1
          BY <5>1, FS_AddElement
        <5>3. Cardinality(Here(r)) < Limits.perRepo /\ Cardinality(Here(r)) \in Nat /\ Limits.perRepo \in Nat
          BY <1>1, <1>8, <5>1, FS_CardinalityType, DispatchAssumption
        <5>. QED
          BY <4>2, <5>2, <5>3
      <4>. QED
        BY <4>1, <4>2
    <3>2. BusyRepos' \subseteq t.repos \cup {r}
      BY <1>4, <2>6
    <3>3. Cardinality(BusyRepos') <= Cardinality(t.repos \cup {r}) /\ IsFiniteSet(BusyRepos')
      BY <2>7, <3>2, FS_Subset
    <3>4. Cardinality(BusyRepos') <= Limits.repos
      BY <2>7, <3>3, FS_CardinalityType, DispatchAssumption
    <3>. QED
      BY <3>1, <3>4 DEF RepoLimits, Here, BusyRepos
  <2>9. CompatibleOwners'
    <3>1. \A i \in Active : claims'[i] = claims[i]
      BY <1>1
    <3>2. ASSUME NEW i \in Active, Repo(i) = r
          PROVE  \A c \in ToSet(claims'[j]), d \in ToSet(claims'[i]) :
                    ~ClaimsConflict(c, d) /\ ~ClaimsConflict(d, c)
      <4>1. \A c \in Leases(claims'[j]), l \in Leases(claims[i]) : ~ClaimsConflict(c, l)
        BY <2>2, <3>2 DEF BlockedBy
      <4>2. IsList(claims'[j]) /\ IsList(claims[i]) /\ claims'[i] = claims[i]
        BY <1>5, <2>2, <3>1, ActiveJobs DEF JobsOK, DispatchInv
      <4>. QED
        BY <4>1, <4>2, CompatibleLists
    <3>3. ASSUME NEW i \in Active, NEW k \in Active, i # k, Repo(i) = Repo(k)
          PROVE  \A c \in ToSet(claims'[i]), d \in ToSet(claims'[k]) : ~ClaimsConflict(c, d)
      BY <3>1, <3>3 DEF DispatchInv, CompatibleOwners
    <3>. QED
      BY <2>2, <2>3, <3>2, <3>3 DEF CompatibleOwners
  <2>10. TicksOK'
    <3>1. TickOK(Continue(Spent(t, j)))'
      <4>1. CASE Continue(Spent(t, j)) = Idle
        BY <4>1, IdleIsOK
      <4>2. CASE Continue(Spent(t, j)) # Idle
        <5>1. Continue(Spent(t, j)) = Spent(t, j) /\ t.capacity # 1
          BY <4>2 DEF Continue, Spent
        <5>2. /\ Spent(t, j).capacity = t.capacity - 1
              /\ Spent(t, j).repos = t.repos \cup {r}
              /\ Spent(t, j) = [capacity |-> Spent(t, j).capacity, heavy |-> Spent(t, j).heavy,
                               agents |-> Spent(t, j).agents, providers |-> Spent(t, j).providers,
                               repos |-> Spent(t, j).repos, visits |-> Spent(t, j).visits]
          BY <2>2 DEF Spent
        <5>3. /\ t.capacity - 1 \in Nat \ {0}
              /\ Cardinality(Active') + (t.capacity - 1) <= Limits.workers
          BY <1>4, <2>4, <5>1
        <5>4. BusyRepos' \subseteq t.repos \cup {r} /\ t.repos \cup {r} \subseteq Repos
          BY <1>4, <2>6
        <5>. QED
          BY <2>7, <5>1, <5>2, <5>3, <5>4 DEF TickOK
      <4>. QED
        BY <4>1, <4>2
    <3>. QED
      BY <1>4, <2>1, <3>1, IdleIsOK, OnlyTick DEF DispatchInv
  <2>. QED
    BY <1>5, <1>6, <2>4, <2>5, <2>8, <2>9, <2>10 DEF DispatchInv
<1>. QED
  BY <1>7, <1>8

LEMMA SubmitStep ==
    ASSUME DispatchInv, NEW j \in JobIds, Submit(j) PROVE DispatchInv'
<1>1. status[j] \notin Waiting /\ status' = [status EXCEPT ![j] = "queued"] /\ queue' = Append(queue, j)
  BY DEF Submit, Ended, Unsuccessful, Waiting
<1>2. \A i \in JobIds : status'[i] = "active" => status[i] = "active" /\ claims'[i] = claims[i]
  BY DEF Submit, DispatchInv, JobsOK
<1>3. JobsOK'
  <2>1. IsList(Declared[j].claims) /\ Declared[j].priority \in Nat
    BY DispatchAssumption, ToSetOf
  <2>. QED
    BY <2>1 DEF Submit, DispatchInv, JobsOK, Status, Waiting
<1>4. QueueOK'
  <2>1. queue \in Seq(JobIds) /\ OneToOne(queue) /\ j \notin ToSet(queue)
    BY <1>1 DEF DispatchInv, QueueOK
  <2>2. queue' \in Seq(JobIds) /\ OneToOne(queue') /\ \A y : y \in ToSet(queue') <=> y \in ToSet(queue) \/ y = j
    BY <1>1, <2>1, AppendNew
  <2>3. \A i \in JobIds : status'[i] \in Waiting <=> status[i] \in Waiting \/ i = j
    BY <1>1 DEF DispatchInv, JobsOK, Waiting
  <2>. QED
    BY <2>2, <2>3 DEF QueueOK, DispatchInv
<1>. QED
  BY <1>2, <1>3, <1>4, NoneBegins DEF DispatchInv, TicksOK, Submit

LEMMA FinishStep ==
    ASSUME DispatchInv, NEW j \in JobIds, Finish(j) PROVE DispatchInv'
<1>1. PICK end \in {"succeeded", "failed"} : status' = [status EXCEPT ![j] = end]
  BY DEF Finish
<1>2. status[j] \notin Waiting /\ end \in Status \ (Waiting \cup {"active"})
  BY DEF Finish, Active, Waiting, Status, Ended, Unsuccessful
<1>3. \A i \in JobIds : status'[i] = "active" => status[i] = "active" /\ claims'[i] = claims[i]
  BY <1>1, <1>2 DEF Finish, DispatchInv, JobsOK
<1>4. JobsOK' /\ QueueOK'
  BY <1>1, <1>2 DEF Finish, DispatchInv, JobsOK, QueueOK
<1>. QED
  BY <1>3, <1>4, NoneBegins DEF DispatchInv, TicksOK, Finish

(* Steps of time, of the host and of a tick: no status changes.            *)
LEMMA QuietStep ==
    ASSUME DispatchInv, UNCHANGED <<status, queue, claims, recent>>,
           late' \subseteq Deadlined, pressured' \in Pressures,
           age' \in [JobIds -> Nat], \A j \in JobIds : age'[j] <= Declared[j].priority,
           TicksOK'
    PROVE  DispatchInv'
<1>1. JobsOK' /\ QueueOK'
  BY DEF DispatchInv, JobsOK, QueueOK
<1>. QED
  BY <1>1, NoneBegins DEF DispatchInv

LEMMA TickStartStep ==
    ASSUME DispatchInv, NEW s \in Schedulers, TickStart(s) PROVE DispatchInv'
<1>1. PICK t : t = [Budget EXCEPT !.visits = VisitOrder(s)]
  OBVIOUS
<1>2. /\ IsFiniteSet(Active) /\ Cardinality(Active) \in Nat /\ Limits.workers \in Nat
      /\ IsFiniteSet(BusyRepos) /\ Cardinality(BusyRepos) <= Limits.repos /\ BusyRepos \subseteq Repos
  BY BusyIsFinite, FS_CardinalityType, DispatchAssumption
     DEF DispatchInv, RepoLimits, BusyRepos, Active, Repo
<1>3. /\ t.capacity = Budget.capacity /\ t.repos = BusyRepos
      /\ t = [capacity |-> t.capacity, heavy |-> t.heavy, agents |-> t.agents,
              providers |-> t.providers, repos |-> t.repos, visits |-> t.visits]
  BY <1>1 DEF Budget, BusyRepos
<1>4. t.capacity \in Nat \ {0} /\ Cardinality(Active) + t.capacity <= Limits.workers
  <2>1. Budget.capacity = IF pressured /\ Limits.workers - Cardinality(Active) > 1
                          THEN 1 ELSE Limits.workers - Cardinality(Active)
    BY DEF Budget
  <2>2. Budget.capacity > 0
    BY DEF TickStart
  <2>. QED
    BY <1>2, <1>3, <2>1, <2>2
<1>5. TickOK(t)
  BY <1>2, <1>3, <1>4 DEF TickOK
<1>6. UNCHANGED <<status, claims>> /\ tick' = [tick EXCEPT ![s] = t]
  BY <1>1 DEF TickStart
<1>7. TickOK(t)'
  BY <1>5, <1>6 DEF TickOK, Active, BusyRepos
<1>8. TicksOK'
  BY <1>6, <1>7, IdleIsOK, OnlyTick DEF DispatchInv, TickStart, DispatchLockFree
<1>. QED
  BY <1>8, QuietStep DEF TickStart, DispatchInv, JobsOK

LEMMA SkipStep ==
    ASSUME DispatchInv, NEW s \in Schedulers, SkipRepo(s) \/ TickAbort(s) PROVE DispatchInv'
<1>1. PICK t : t = tick[s]
  OBVIOUS
<1>2. t # Idle /\ UNCHANGED <<status, claims>>
      /\ (tick' = [tick EXCEPT ![s] = NextVisit(t)] \/ tick' = [tick EXCEPT ![s] = Idle])
  BY <1>1 DEF SkipRepo, TickAbort, Idle
<1>3. TickOK(t)
  BY <1>1 DEF DispatchInv, TicksOK
<1>4. TickOK(NextVisit(t))
  BY <1>2, <1>3, IdleIsOK, OtherVisits DEF NextVisit, Continue
<1>5. TickOK(NextVisit(t))'
  BY <1>2, <1>4 DEF TickOK, Active, BusyRepos
<1>6. TicksOK'
  BY <1>1, <1>2, <1>5, IdleIsOK, OnlyTick, TickTypes DEF DispatchInv
<1>. QED
  BY <1>6, QuietStep DEF SkipRepo, TickAbort, DispatchInv, JobsOK

LEMMA Ages ==
    ASSUME DispatchInv, NEW j \in JobIds
    PROVE  age[j] \in Nat /\ Declared[j].priority \in Nat /\ age[j] <= Declared[j].priority
<1>1. Declared[j].priority \in 0 .. 4
  BY DispatchAssumption
<1>2. age[j] \in Nat /\ age[j] <= Declared[j].priority
  BY DEF DispatchInv, JobsOK
<1>. QED
  BY <1>1, <1>2

LEMMA TimeStep ==
    ASSUME DispatchInv, NEW j \in JobIds, AgeUp(j) \/ DeadlinePasses(j)
    PROVE  DispatchInv'
<1>1. TicksOK'
  BY DEF AgeUp, DeadlinePasses, DispatchInv, TicksOK, TickOK, Active, BusyRepos
<1>2. age' \in [JobIds -> Nat] /\ \A i \in JobIds : age'[i] <= Declared[i].priority
  <2>1. age[j] < Declared[j].priority => age[j] + 1 <= Declared[j].priority
    BY Ages
  <2>. QED
    BY <2>1 DEF AgeUp, DeadlinePasses, DispatchInv, JobsOK
<1>. QED
  BY <1>1, <1>2, QuietStep DEF AgeUp, DeadlinePasses, DispatchInv, JobsOK

LEMMA DispatchStep == DispatchInv /\ [DispatchNext]_dispatchVars => DispatchInv'
<1>. SUFFICES ASSUME DispatchInv, [DispatchNext]_dispatchVars PROVE DispatchInv'
  OBVIOUS
<1>1. ASSUME NEW j \in JobIds, Submit(j) \/ Finish(j) \/ AgeUp(j) \/ DeadlinePasses(j) PROVE DispatchInv'
  BY <1>1, SubmitStep, FinishStep, TimeStep
<1>2. ASSUME NEW s \in Schedulers, TickStart(s) \/ SkipRepo(s) \/ TickAbort(s) PROVE DispatchInv'
  BY <1>2, TickStartStep, SkipStep
<1>3. ASSUME NEW s \in Schedulers, NEW r \in Repos, VisitRepo(s, r) PROVE DispatchInv'
  BY <1>3, VisitStep
<1>4. CASE PressureChanges
  <2>1. TicksOK'
    BY <1>4 DEF PressureChanges, DispatchInv, TicksOK, TickOK, Active, BusyRepos
  <2>. QED
    BY <1>4, <2>1, QuietStep DEF PressureChanges, DispatchInv, JobsOK
<1>5. CASE UNCHANGED dispatchVars
  <2>1. TicksOK'
    BY <1>5 DEF dispatchVars, DispatchInv, TicksOK, TickOK, Active, BusyRepos
  <2>. QED
    BY <1>5, <2>1, QuietStep DEF dispatchVars, DispatchInv, JobsOK
<1>. QED
  BY <1>1, <1>2, <1>3, <1>4, <1>5 DEF DispatchNext

LEMMA DispatchInvariant == DispatchSpec => []DispatchInv
BY DispatchInitially, DispatchStep, PTL DEF DispatchSpec

-----------------------------------------------------------------------------
(* In the state spaces of the runs and in every other: types, and each     *)
(* waiting job once in the index that a visit rewrites.                    *)
THEOREM DispatchTypes == DispatchSpec => []DispatchTypeOK
<1>1. ASSUME DispatchInv, NEW j \in JobIds
      PROVE  Cardinality({i \in DOMAIN queue : queue[i] = j}) = IF status[j] \in Waiting THEN 1 ELSE 0
  <2>. DEFINE at == {i \in DOMAIN queue : queue[i] = j}
  <2>1. queue \in Seq(JobIds) /\ OneToOne(queue) /\ (j \in ToSet(queue) <=> status[j] \in Waiting)
    BY <1>1 DEF DispatchInv, QueueOK
  <2>2. CASE j \in ToSet(queue)
    <3>1. PICK i \in DOMAIN queue : queue[i] = j
      BY <2>1, <2>2, ToSetOf
    <3>2. at = {i}
      BY <2>1, <3>1 DEF OneToOne
    <3>3. Cardinality({i}) = 1
      BY FS_Singleton
    <3>. QED
      BY <2>1, <2>2, <3>2, <3>3
  <2>3. CASE j \notin ToSet(queue)
    <3>1. at = {}
      BY <2>1, <2>3, ToSetOf
    <3>2. Cardinality({}) = 0
      BY FS_EmptySet
    <3>. QED
      BY <2>1, <2>3, <3>1, <3>2
  <2>. QED
    BY <2>2, <2>3
<1>2. ASSUME DispatchInv, NEW s \in Schedulers
      PROVE  tick[s].capacity \in 0 .. Limits.workers /\ tick[s].repos \subseteq Repos
  <2>1. CASE tick[s] = Idle
    <3>1. Limits.workers \in Nat
      BY DispatchAssumption
    <3>2. Idle.capacity = 0 /\ Idle.repos = {}
      BY DEF Idle
    <3>. QED
      BY <2>1, <3>1, <3>2
  <2>2. CASE tick[s] # Idle
    BY <1>2, <2>2, TickTypes
  <2>. QED
    BY <2>1, <2>2
<1>3. ASSUME DispatchInv, NEW j \in JobIds PROVE age[j] \in 0 .. Declared[j].priority
  <2>1. age[j] \in Nat /\ age[j] <= Declared[j].priority /\ Declared[j].priority \in Nat
    BY <1>3, Ages
  <2>. QED
    BY <2>1
<1>4. ASSUME DispatchInv, NEW s \in Schedulers PROVE ToSet(recent[s]) \subseteq Repos
  BY <1>4, ToSetOf DEF DispatchInv, JobsOK
<1>5. DispatchInv => DispatchTypeOK
  BY <1>1, <1>2, <1>3, <1>4 DEF DispatchTypeOK, DispatchInv, JobsOK, Status
<1>. QED
  BY <1>5, DispatchInvariant, PTL

(* However many schedulers tick, and whatever jobs are submitted and end   *)
(* between a tick's visits, no more workers run than there may: nobody     *)
(* else dispatches while a tick spends what it counted, and jobs that end  *)
(* only free more (tick, scheduler.ts:309-395).                            *)
THEOREM WorkersAreCapped == DispatchSpec => []WorkerCap
<1>1. ASSUME DispatchInv PROVE WorkerCap
  <2>1. Cardinality(Active) \in Nat /\ Cardinality(Active) <= Limits.workers
    BY <1>1, FS_CardinalityType DEF DispatchInv
  <2>2. ASSUME NEW s \in Schedulers PROVE Cardinality(Active) + tick[s].capacity <= Limits.workers
    <3>1. CASE tick[s] = Idle
      <4>1. Idle.capacity = 0 /\ Limits.workers \in Nat
        BY DispatchAssumption DEF Idle
      <4>. QED
        BY <2>1, <3>1, <4>1
    <3>2. CASE tick[s] # Idle
      BY <1>1, <3>2, TickTypes
    <3>. QED
      BY <3>1, <3>2
  <2>. QED
    BY <2>1, <2>2 DEF WorkerCap
<1>. QED
  BY <1>1, DispatchInvariant, PTL

(* The limits of a repository and of repositories, although the tick looks *)
(* at a repository's first waiting job only and the actor takes another    *)
(* (actor.ts:93, scheduler.ts:374).                                        *)
THEOREM RepositoriesAreLimited == DispatchSpec => []RepoLimits
<1>1. DispatchInv => RepoLimits
  BY DEF DispatchInv
<1>. QED
  BY <1>1, DispatchInvariant, PTL

(* What two active jobs of a repository claimed is compatible, for any     *)
(* claims: a job is chosen against the merged leases of the others, and    *)
(* merging loses nothing that conflicts (actor.ts:118, claims.ts).         *)
THEOREM OwnersAreCompatible == DispatchSpec => []CompatibleOwners
<1>1. DispatchInv => CompatibleOwners
  BY DEF DispatchInv
<1>. QED
  BY <1>1, DispatchInvariant, PTL

(* A job is dispatched when its dependencies have succeeded and its        *)
(* deadline has not passed, whatever its actor did to the jobs before it   *)
(* in the same visit (actor.ts:99, 107).                                   *)
THEOREM DispatchWasDue == DispatchSpec => DispatchIsDue
<1>. DEFINE Begins == \A j \in JobIds : status[j] # "active" /\ status'[j] = "active" =>
               /\ j \notin late
               /\ \A d \in ToSet(Declared[j].depends) : status[d] = "succeeded"
<1>1. DispatchInv /\ [DispatchNext]_dispatchVars => [Begins]_dispatchVars
  <2>. SUFFICES ASSUME DispatchInv, DispatchNext PROVE Begins
    OBVIOUS
  <2>1. ASSUME NEW s \in Schedulers, NEW r \in Repos, VisitRepo(s, r) PROVE Begins
    <3>1. PICK visit \in TryClaimNext(r) : \E seen \in SUBSET Candidates(r) :
             VisitIsSound(seen, visit) /\ Active' = Active \cup visit.chosen
      BY <2>1, VisitFits
    <3>2. \A j \in visit.chosen : Due(j)
      BY <3>1 DEF VisitIsSound
    <3>3. \A j \in JobIds : status[j] # "active" /\ status'[j] = "active" => j \in visit.chosen
      BY <3>1 DEF Active
    <3>. QED
      BY <3>2, <3>3 DEF Due
  <2>2. ASSUME NEW j \in JobIds, Submit(j) \/ Finish(j) PROVE Begins
    BY <2>2 DEF Submit, Finish, DispatchInv, JobsOK
  <2>3. ASSUME UNCHANGED status PROVE Begins
    BY <2>3
  <2>. QED
    BY <2>1, <2>2, <2>3
       DEF DispatchNext, AgeUp, DeadlinePasses, PressureChanges, TickStart, SkipRepo, TickAbort
<1>. QED
  BY <1>1, DispatchInvariant, PTL DEF DispatchSpec, DispatchIsDue

-----------------------------------------------------------------------------
(***************************************************************************)
(* Heavy checks and agents.  GlobalQuotas does not hold of every run: the  *)
(* tick looks at the kind of a repository's first waiting job, the actor   *)
(* takes the first that may run.  It holds as long as no heavy check or    *)
(* agent waits in a repository behind a job that would not count as one.   *)
(***************************************************************************)
TopsCount ==
    \A s \in Schedulers : tick[s].visits # <<>> =>
        LET top == Head(tick[s].visits) IN
        \A j \in Candidates(Repo(top)) :
            /\ Heavy(j) => Heavy(top)
            /\ Agent(j) => Agent(top) /\ Declared[top].provider = Declared[j].provider

HeavyJobs == {j \in Active : Heavy(j)}
Agents == {j \in Active : Agent(j)}
AgentsOf(p) == {j \in Active : Agent(j) /\ Declared[j].provider = p}

(* What a tick may still spend, and what runs, never exceed it together.   *)
Budgeted(t) ==
    t # Idle =>
        /\ t.heavy \in Int /\ Cardinality(HeavyJobs) + t.heavy <= Limits.heavy
        /\ t.agents \in Int /\ Cardinality(Agents) + t.agents <= Limits.agents
        /\ t.providers \in [Providers -> Int]
        /\ \A p \in Providers : Cardinality(AgentsOf(p)) + t.providers[p] <= Limits.providers[p]
QuotaInv == GlobalQuotas /\ \A s \in Schedulers : Budgeted(tick[s])

LEMMA QuotaNumbers ==
    ASSUME IsFiniteSet(Active)
    PROVE  /\ Limits.heavy \in Nat /\ Limits.agents \in Nat
           /\ Providers = DOMAIN Limits.providers /\ \A p \in Providers : Limits.providers[p] \in Nat
           /\ IsFiniteSet(HeavyJobs) /\ Cardinality(HeavyJobs) \in Nat
           /\ IsFiniteSet(Agents) /\ Cardinality(Agents) \in Nat
           /\ \A p : IsFiniteSet(AgentsOf(p)) /\ Cardinality(AgentsOf(p)) \in Nat
<1>1. HeavyJobs \subseteq Active /\ Agents \subseteq Active /\ \A p : AgentsOf(p) \subseteq Active
  BY DEF HeavyJobs, Agents, AgentsOf
<1>2. /\ Limits.heavy \in Nat /\ Limits.agents \in Nat
      /\ Providers = DOMAIN Limits.providers /\ \A p \in Providers : Limits.providers[p] \in Nat
  BY DispatchAssumption DEF Providers
<1>. QED
  BY <1>1, <1>2, FS_Subset, FS_CardinalityType

(* When no job begins, all counts may only fall.                           *)
LEMMA QuotasFall ==
    ASSUME IsFiniteSet(Active), Active' \subseteq Active, GlobalQuotas
    PROVE  GlobalQuotas' /\ \A t : Budgeted(t) => Budgeted(t)'
<1>1. /\ HeavyJobs' \subseteq HeavyJobs /\ Agents' \subseteq Agents
      /\ \A p : AgentsOf(p)' \subseteq AgentsOf(p)
  BY DEF HeavyJobs, Agents, AgentsOf
<1>2. /\ Cardinality(HeavyJobs') <= Cardinality(HeavyJobs) /\ Cardinality(Agents') <= Cardinality(Agents)
      /\ \A p : Cardinality(AgentsOf(p)') <= Cardinality(AgentsOf(p))
  BY <1>1, QuotaNumbers, FS_Subset
<1>3. /\ Cardinality(HeavyJobs') \in Nat /\ Cardinality(Agents') \in Nat
      /\ \A p : Cardinality(AgentsOf(p)') \in Nat
  BY <1>1, QuotaNumbers, FS_Subset, FS_CardinalityType
<1>4. GlobalQuotas'
  <2>1. ASSUME NEW p \in Providers PROVE Cardinality(AgentsOf(p)') <= Limits.providers[p]
    <3>1. Cardinality(AgentsOf(p)) <= Limits.providers[p]
      BY DEF GlobalQuotas, AgentsOf
    <3>. QED
      BY <1>2, <1>3, <3>1, QuotaNumbers
  <2>2. Cardinality(HeavyJobs) <= Limits.heavy /\ Cardinality(Agents) <= Limits.agents
    BY DEF GlobalQuotas, HeavyJobs, Agents
  <2>3. Cardinality(HeavyJobs') <= Limits.heavy /\ Cardinality(Agents') <= Limits.agents
    BY <1>2, <1>3, <2>2, QuotaNumbers
  <2>. QED
    BY <2>1, <2>3 DEF GlobalQuotas, HeavyJobs, Agents, AgentsOf
<1>5. ASSUME NEW t, Budgeted(t) PROVE Budgeted(t)'
  <2>. SUFFICES ASSUME t # Idle PROVE Budgeted(t)'
    BY DEF Budgeted
  <2>1. /\ t.heavy \in Int /\ Cardinality(HeavyJobs) + t.heavy <= Limits.heavy
        /\ t.agents \in Int /\ Cardinality(Agents) + t.agents <= Limits.agents
        /\ t.providers \in [Providers -> Int]
        /\ \A p \in Providers : Cardinality(AgentsOf(p)) + t.providers[p] <= Limits.providers[p]
    BY <1>5 DEF Budgeted
  <2>2. Cardinality(HeavyJobs') + t.heavy <= Limits.heavy
    BY <1>2, <1>3, <2>1, QuotaNumbers
  <2>3. Cardinality(Agents') + t.agents <= Limits.agents
    BY <1>2, <1>3, <2>1, QuotaNumbers
  <2>4. ASSUME NEW p \in Providers PROVE Cardinality(AgentsOf(p)') + t.providers[p] <= Limits.providers[p]
    <3>1. t.providers[p] \in Int /\ Cardinality(AgentsOf(p)) + t.providers[p] <= Limits.providers[p]
      BY <2>1
    <3>. QED
      BY <1>2, <1>3, <3>1, QuotaNumbers
  <2>. QED
    BY <2>1, <2>2, <2>3, <2>4 DEF Budgeted
<1>. QED
  BY <1>4, <1>5

LEMMA BudgetedStays ==
    ASSUME NEW t, NEW visits, t # Idle, TickOK(t), Budgeted(t)
    PROVE  Budgeted([t EXCEPT !.visits = visits])
<1>. DEFINE next == [t EXCEPT !.visits = visits]
<1>1. t = [capacity |-> t.capacity, heavy |-> t.heavy, agents |-> t.agents,
           providers |-> t.providers, repos |-> t.repos, visits |-> t.visits]
  BY DEF TickOK
<1>2. next = [capacity |-> t.capacity, heavy |-> t.heavy, agents |-> t.agents,
              providers |-> t.providers, repos |-> t.repos, visits |-> visits]
  BY <1>1
<1>3. next.heavy = t.heavy /\ next.agents = t.agents /\ next.providers = t.providers
  BY <1>2
<1>. HIDE DEF next
<1>4. Budgeted(next)
  BY <1>3 DEF Budgeted
<1>. QED
  BY <1>4 DEF next

LEMMA BudgetIsCounted ==
    ASSUME IsFiniteSet(Active), GlobalQuotas, NEW visits
    PROVE  Budgeted([Budget EXCEPT !.visits = visits])
<1>1. PICK t : t = [Budget EXCEPT !.visits = visits]
  OBVIOUS
<1>2. /\ t.heavy = (IF pressured /\ Limits.heavy - Cardinality(HeavyJobs) > 1
                    THEN 1 ELSE Limits.heavy - Cardinality(HeavyJobs))
      /\ t.agents = IF pressured THEN 0 ELSE Limits.agents - Cardinality(Agents)
      /\ t.providers = [p \in Providers |->
            IF pressured THEN 0 ELSE Limits.providers[p] - Cardinality(AgentsOf(p))]
  <2>1. \A p : AgentsOf(p) = {j \in {i \in Active : Agent(i)} : Declared[j].provider = p}
    BY DEF AgentsOf
  <2>. QED
    BY <1>1, <2>1 DEF Budget, HeavyJobs, Agents
<1>3. /\ Cardinality(HeavyJobs) <= Limits.heavy /\ Cardinality(Agents) <= Limits.agents
      /\ \A p \in Providers : Cardinality(AgentsOf(p)) <= Limits.providers[p]
  BY DEF GlobalQuotas, HeavyJobs, Agents, AgentsOf
<1>4. t.heavy \in Int /\ Cardinality(HeavyJobs) + t.heavy <= Limits.heavy
  BY <1>2, <1>3, QuotaNumbers
<1>5. t.agents \in Int /\ Cardinality(Agents) + t.agents <= Limits.agents
  BY <1>2, <1>3, QuotaNumbers
<1>6. ASSUME NEW p \in Providers
      PROVE  t.providers[p] \in Int /\ Cardinality(AgentsOf(p)) + t.providers[p] <= Limits.providers[p]
  <2>1. t.providers[p] = IF pressured THEN 0 ELSE Limits.providers[p] - Cardinality(AgentsOf(p))
    BY <1>2
  <2>. QED
    BY <1>3, <2>1, QuotaNumbers
<1>7. t.providers \in [Providers -> Int]
  BY <1>2, <1>6
<1>8. Budgeted(t)
  BY <1>4, <1>5, <1>6, <1>7 DEF Budgeted
<1>. QED
  BY <1>1, <1>8

(* A job that is chosen is paid for by the kind it has.                    *)
LEMMA DispatchIsPaid ==
    ASSUME IsFiniteSet(Active), GlobalQuotas, NEW t, t # Idle, Budgeted(t),
           NEW j \in JobIds, j \notin Active, Active' = Active \cup {j},
           Heavy(j) => t.heavy > 0,
           Agent(j) => t.agents > 0 /\ t.providers[Declared[j].provider] > 0
    PROVE  GlobalQuotas' /\ Budgeted(Spent(t, j))'
<1>1. /\ t.heavy \in Int /\ Cardinality(HeavyJobs) + t.heavy <= Limits.heavy
      /\ t.agents \in Int /\ Cardinality(Agents) + t.agents <= Limits.agents
      /\ t.providers \in [Providers -> Int]
      /\ \A p \in Providers : Cardinality(AgentsOf(p)) + t.providers[p] <= Limits.providers[p]
  BY DEF Budgeted
<1>2. /\ Cardinality(HeavyJobs) <= Limits.heavy /\ Cardinality(Agents) <= Limits.agents
      /\ \A p \in Providers : Cardinality(AgentsOf(p)) <= Limits.providers[p]
  BY DEF GlobalQuotas, HeavyJobs, Agents, AgentsOf
<1>. DEFINE next == Spent(t, j)
            cost == IF Agent(j) THEN 1 ELSE 0
            q == Declared[j].provider
<1>3. /\ next.heavy = (IF Heavy(j) THEN t.heavy - 1 ELSE t.heavy)
      /\ next.agents = t.agents - cost
      /\ next.providers = [t.providers EXCEPT ![q] = @ - cost]
  BY DEF Spent
<1>4. q \in Providers
  BY DispatchAssumption
<1>5. /\ Heavy(j) => HeavyJobs' = HeavyJobs \cup {j} /\ j \notin HeavyJobs
      /\ ~Heavy(j) => HeavyJobs' = HeavyJobs
      /\ Agent(j) => Agents' = Agents \cup {j} /\ j \notin Agents
      /\ ~Agent(j) => Agents' = Agents
      /\ Agent(j) => AgentsOf(q)' = AgentsOf(q) \cup {j} /\ j \notin AgentsOf(q)
      /\ \A p : ~(Agent(j) /\ p = q) => AgentsOf(p)' = AgentsOf(p)
  BY DEF HeavyJobs, Agents, AgentsOf
<1>. HIDE DEF next, q, cost
<1>6. /\ Cardinality(HeavyJobs') = Cardinality(HeavyJobs) + (IF Heavy(j) THEN 1 ELSE 0)
      /\ Cardinality(Agents') = Cardinality(Agents) + cost
      /\ Cardinality(AgentsOf(q)') = Cardinality(AgentsOf(q)) + cost
      /\ \A p : p # q => Cardinality(AgentsOf(p)') = Cardinality(AgentsOf(p))
  <2>1. ASSUME NEW A, IsFiniteSet(A), j \notin A PROVE Cardinality(A \cup {j}) = Cardinality(A) + 1
    BY <2>1, FS_AddElement
  <2>2. Cardinality(HeavyJobs') = Cardinality(HeavyJobs) + (IF Heavy(j) THEN 1 ELSE 0)
    <3>1. CASE Heavy(j)
      BY <1>5, <2>1, <3>1, QuotaNumbers
    <3>2. CASE ~Heavy(j)
      BY <1>5, <3>2, QuotaNumbers
    <3>. QED
      BY <3>1, <3>2
  <2>3. /\ Cardinality(Agents') = Cardinality(Agents) + cost
        /\ Cardinality(AgentsOf(q)') = Cardinality(AgentsOf(q)) + cost
    <3>1. CASE Agent(j)
      BY <1>5, <2>1, <3>1, QuotaNumbers DEF cost
    <3>2. CASE ~Agent(j)
      BY <1>5, <3>2, QuotaNumbers DEF cost
    <3>. QED
      BY <3>1, <3>2
  <2>. QED
    BY <1>5, <2>2, <2>3
<1>7. next.heavy \in Int /\ Cardinality(HeavyJobs') + next.heavy <= Limits.heavy
      /\ Cardinality(HeavyJobs') <= Limits.heavy
  BY <1>1, <1>2, <1>3, <1>6, QuotaNumbers
<1>8. next.agents \in Int /\ Cardinality(Agents') + next.agents <= Limits.agents
      /\ Cardinality(Agents') <= Limits.agents
  BY <1>1, <1>2, <1>3, <1>6, QuotaNumbers DEF cost
<1>9. next.providers \in [Providers -> Int]
  BY <1>1, <1>3, <1>4 DEF cost
<1>10. ASSUME NEW p \in Providers
       PROVE  Cardinality(AgentsOf(p)') + next.providers[p] <= Limits.providers[p]
              /\ Cardinality(AgentsOf(p)') <= Limits.providers[p]
  <2>1. /\ Cardinality(AgentsOf(p)) + t.providers[p] <= Limits.providers[p]
        /\ Cardinality(AgentsOf(p)) <= Limits.providers[p]
        /\ t.providers[p] \in Int /\ Limits.providers[p] \in Nat /\ Cardinality(AgentsOf(p)) \in Nat
    BY <1>1, <1>2, QuotaNumbers
  <2>2. CASE p # q
    <3>1. next.providers[p] = t.providers[p] /\ Cardinality(AgentsOf(p)') = Cardinality(AgentsOf(p))
      BY <1>1, <1>3, <1>6, <2>2
    <3>. QED
      BY <2>1, <3>1
  <2>3. CASE p = q
    <3>1. next.providers[p] = t.providers[p] - cost
          /\ Cardinality(AgentsOf(p)') = Cardinality(AgentsOf(p)) + cost
      BY <1>1, <1>3, <1>6, <2>3
    <3>2. cost = 0 \/ (cost = 1 /\ t.providers[p] > 0)
      BY <2>3 DEF cost, q
    <3>. QED
      BY <2>1, <3>1, <3>2
  <2>. QED
    BY <2>2, <2>3
<1>11. GlobalQuotas'
  <2>1. HeavyJobs' = {i \in Active' : Heavy(i)} /\ Agents' = {i \in Active' : Agent(i)}
        /\ \A p : AgentsOf(p)' = {i \in Active' : Agent(i) /\ Declared[i].provider = p}
    BY DEF HeavyJobs, Agents, AgentsOf
  <2>. QED
    BY <1>7, <1>8, <1>10, <2>1 DEF GlobalQuotas
<1>12. Budgeted(next)'
  <2>1. Budgeted(next)' <=> (next # Idle =>
          /\ next.heavy \in Int /\ Cardinality(HeavyJobs') + next.heavy <= Limits.heavy
          /\ next.agents \in Int /\ Cardinality(Agents') + next.agents <= Limits.agents
          /\ next.providers \in [Providers -> Int]
          /\ \A p \in Providers : Cardinality(AgentsOf(p)') + next.providers[p] <= Limits.providers[p])
    BY DEF Budgeted
  <2>. QED
    BY <1>7, <1>8, <1>9, <1>10, <2>1
<1>. QED
  BY <1>11, <1>12 DEF next

LEMMA QuotaTicks ==
    ASSUME TicksOK, NEW s \in Schedulers, NEW t, tick' = [tick EXCEPT ![s] = t],
           \A u \in Schedulers \ {s} : tick[u] = Idle, Budgeted(t)'
    PROVE  \A u \in Schedulers : Budgeted(tick[u])'
<1>1. tick'[s] = t /\ \A u \in Schedulers \ {s} : tick'[u] = Idle
  BY DEF TicksOK
<1>2. ASSUME NEW u \in Schedulers PROVE Budgeted(tick[u])'
  <2>1. CASE u = s
    BY <1>1, <2>1
  <2>2. CASE u # s
    BY <1>1, <2>2 DEF Budgeted
  <2>. QED
    BY <2>1, <2>2
<1>. QED
  BY <1>2

LEMMA QuotaVisit ==
    ASSUME DispatchInv, QuotaInv, TopsCount, NEW s \in Schedulers, NEW r \in Repos, VisitRepo(s, r)
    PROVE  QuotaInv'
<1>0. PICK t : t = tick[s]          \* before the visit
  OBVIOUS
<1>1. PICK visit \in TryClaimNext(r) : \E seen \in SUBSET Candidates(r) :
         /\ VisitIsSound(seen, visit)
         /\ Active' = Active \cup visit.chosen
         /\ visit.chosen \cap Active = {}
         /\ \/ visit.chosen = {} /\ tick' = [tick EXCEPT ![s] = NextVisit(@)]
            \/ \E j \in visit.chosen : tick' = [tick EXCEPT ![s] = Continue(Spent(@, j))]
  BY VisitFits
<1>2. PICK seen \in SUBSET Candidates(r) : VisitIsSound(seen, visit)
  BY <1>1
<1>3. t # Idle /\ t.visits # <<>> /\ Repo(Head(t.visits)) = r /\ Admits(t, Head(t.visits))
  BY <1>0 DEF VisitRepo, Idle
<1>4. IsFiniteSet(Active) /\ TicksOK /\ TickOK(t) /\ Budgeted(t) /\ GlobalQuotas
      /\ \A u \in Schedulers \ {s} : tick[u] = Idle
  BY <1>0, <1>3, TickTypes DEF DispatchInv, TicksOK, QuotaInv
<1>5. CASE visit.chosen = {}
  <2>1. Active' = Active /\ tick' = [tick EXCEPT ![s] = NextVisit(t)]
    BY <1>0, <1>1, <1>5
  <2>2. Budgeted(NextVisit(t))
    BY <1>3, <1>4, BudgetedStays DEF NextVisit, Continue, Budgeted
  <2>3. GlobalQuotas' /\ Budgeted(NextVisit(t))'
    BY <1>4, <2>1, <2>2, QuotasFall
  <2>. QED
    BY <1>4, <2>1, <2>3, QuotaTicks DEF QuotaInv
<1>6. CASE visit.chosen # {}
  <2>1. PICK j \in visit.chosen : tick' = [tick EXCEPT ![s] = Continue(Spent(t, j))]
    BY <1>0, <1>1, <1>6
  <2>2. visit.chosen = {j} /\ j \in JobIds /\ j \in Candidates(r) /\ j \notin Active
        /\ Active' = Active \cup {j}
    BY <1>1, <1>2, <2>1 DEF VisitIsSound
  <2>3. /\ Heavy(j) => Heavy(Head(t.visits))
        /\ Agent(j) => Agent(Head(t.visits)) /\ Declared[Head(t.visits)].provider = Declared[j].provider
    BY <1>0, <1>3, <2>2 DEF TopsCount
  <2>4. /\ Heavy(j) => t.heavy > 0
        /\ Agent(j) => t.agents > 0 /\ t.providers[Declared[j].provider] > 0
    BY <1>3, <2>3 DEF Admits
  <2>5. GlobalQuotas' /\ Budgeted(Spent(t, j))'
    BY <1>3, <1>4, <2>2, <2>4, DispatchIsPaid
  <2>6. Budgeted(Continue(Spent(t, j)))'
    BY <2>5 DEF Continue, Budgeted
  <2>. QED
    BY <1>4, <2>1, <2>5, <2>6, QuotaTicks DEF QuotaInv
<1>. QED
  BY <1>5, <1>6

LEMMA QuotaStep ==
    DispatchInv /\ QuotaInv /\ TopsCount /\ [DispatchNext]_dispatchVars => QuotaInv'
<1>. SUFFICES ASSUME DispatchInv, QuotaInv, TopsCount, [DispatchNext]_dispatchVars PROVE QuotaInv'
  OBVIOUS
<1>0. IsFiniteSet(Active) /\ GlobalQuotas /\ TicksOK
  BY DEF DispatchInv, QuotaInv
<1>1. ASSUME Active' \subseteq Active, UNCHANGED tick PROVE QuotaInv'
  <2>1. GlobalQuotas' /\ \A t : Budgeted(t) => Budgeted(t)'
    BY <1>0, <1>1, QuotasFall
  <2>. QED
    BY <1>1, <2>1 DEF QuotaInv
<1>2. ASSUME NEW j \in JobIds, Submit(j) \/ Finish(j) \/ AgeUp(j) \/ DeadlinePasses(j) PROVE QuotaInv'
  <2>1. Active' \subseteq Active /\ UNCHANGED tick
    BY <1>2 DEF Submit, Finish, AgeUp, DeadlinePasses, Active, DispatchInv, JobsOK
  <2>. QED
    BY <1>1, <2>1
<1>3. ASSUME NEW s \in Schedulers, TickStart(s) PROVE QuotaInv'
  <2>1. PICK t : t = [Budget EXCEPT !.visits = VisitOrder(s)]
    OBVIOUS
  <2>2. Budgeted(t)
    BY <1>0, <2>1, BudgetIsCounted
  <2>3. Active' = Active /\ tick' = [tick EXCEPT ![s] = t] /\ \A u \in Schedulers : tick[u] = Idle
    BY <1>3, <2>1 DEF TickStart, DispatchLockFree, Active
  <2>4. GlobalQuotas' /\ Budgeted(t)'
    BY <1>0, <2>2, <2>3, QuotasFall
  <2>. QED
    BY <1>0, <2>3, <2>4, QuotaTicks DEF QuotaInv
<1>4. ASSUME NEW s \in Schedulers, SkipRepo(s) \/ TickAbort(s) PROVE QuotaInv'
  <2>1. PICK t : t = tick[s]
    OBVIOUS
  <2>2. t # Idle /\ Active' = Active
        /\ (tick' = [tick EXCEPT ![s] = NextVisit(t)] \/ tick' = [tick EXCEPT ![s] = Idle])
    BY <1>4, <2>1 DEF SkipRepo, TickAbort, Idle, Active
  <2>3. TickOK(t) /\ Budgeted(t) /\ \A u \in Schedulers \ {s} : tick[u] = Idle
    BY <2>1, <2>2, TickTypes DEF DispatchInv, TicksOK, QuotaInv
  <2>4. Budgeted(NextVisit(t)) /\ Budgeted(Idle)
    BY <2>2, <2>3, BudgetedStays DEF NextVisit, Continue, Budgeted
  <2>5. GlobalQuotas' /\ Budgeted(NextVisit(t))' /\ Budgeted(Idle)'
    BY <1>0, <2>2, <2>4, QuotasFall
  <2>. QED
    BY <1>0, <2>2, <2>3, <2>5, QuotaTicks DEF QuotaInv
<1>5. ASSUME NEW s \in Schedulers, NEW r \in Repos, VisitRepo(s, r) PROVE QuotaInv'
  BY <1>5, QuotaVisit
<1>6. CASE PressureChanges
  BY <1>1, <1>6 DEF PressureChanges, Active
<1>7. CASE UNCHANGED dispatchVars
  BY <1>1, <1>7 DEF dispatchVars, Active
<1>. QED
  BY <1>2, <1>3, <1>4, <1>5, <1>6, <1>7 DEF DispatchNext

(* The quotas of heavy checks, of agents and of each provider hold, for    *)
(* any jobs, limits, host pressure and endings between visits, as long as  *)
(* what a tick looks at has the kind of what its actor may take: the one   *)
(* way to exceed a quota is the one of the finding (scheduler.ts:374-395). *)
THEOREM QuotasHold == DispatchSpec /\ []TopsCount => []GlobalQuotas
<1>1. DispatchInit => QuotaInv
  <2>. SUFFICES ASSUME DispatchInit PROVE QuotaInv
    OBVIOUS
  <2>1. HeavyJobs = {} /\ Agents = {} /\ (\A p : AgentsOf(p) = {}) /\ Active = {}
    BY DEF DispatchInit, Active, HeavyJobs, Agents, AgentsOf
  <2>2. Cardinality({}) = 0 /\ IsFiniteSet({})
    BY FS_EmptySet
  <2>3. GlobalQuotas
    <3>1. /\ Cardinality(HeavyJobs) <= Limits.heavy /\ Cardinality(Agents) <= Limits.agents
          /\ \A p \in Providers : Cardinality(AgentsOf(p)) <= Limits.providers[p]
      BY <2>1, <2>2, QuotaNumbers
    <3>. QED
      BY <3>1 DEF GlobalQuotas, HeavyJobs, Agents, AgentsOf
  <2>. QED
    BY <2>3 DEF DispatchInit, QuotaInv, Budgeted
<1>2. QuotaInv => GlobalQuotas
  BY DEF QuotaInv
<1>. QED
  BY <1>1, <1>2, QuotaStep, DispatchInvariant, PTL DEF DispatchSpec

-----------------------------------------------------------------------------
(***************************************************************************)
(* Side by side, dispatch and leases behave as they do alone: what is      *)
(* proved of either here and in LeaseStoreProofs holds of both.            *)
(***************************************************************************)
LEMMA BothMove == [BothNext]_bothVars => [DispatchNext]_dispatchVars /\ [Next]_vars
<1>1. CASE UNCHANGED bothVars
  BY <1>1 DEF bothVars
<1>2. CASE DispatchMoves \/ LeasesMove
  BY <1>2 DEF DispatchMoves, LeasesMove
<1>. QED
  BY <1>1, <1>2 DEF BothNext

(* Dispatch and lease store together implement each of the two: a step of  *)
(* one is a stutter of the other (DispatchAndLeases.tla).                  *)
THEOREM BothParts == BothSpec => DispatchSpec /\ Spec
<1>1. BothInit => DispatchInit /\ Init
  BY DEF BothInit
<1>. QED
  BY <1>1, BothMove, PTL DEF BothSpec, DispatchSpec, Spec

(* Every variable of dispatch and lease store has its type, in any         *)
(* interleaving of the two.                                                *)
THEOREM BothTypes == BothSpec => []BothTypeOK
<1>1. DispatchTypeOK /\ TypeOK => BothTypeOK
  BY DEF BothTypeOK
<1>. QED
  BY <1>1, BothParts, DispatchTypes, LeaseTypes, PTL
=============================================================================
