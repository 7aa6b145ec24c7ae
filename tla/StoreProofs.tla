-------------------------------- MODULE StoreProofs ---------------------------
(***************************************************************************)
(* Proofs about what the daemon keeps on disk for its controllers.         *)
(*                                                                         *)
(* ControllerLock, for any number of processes: the lock file keeps the    *)
(* promise of a short lock.  As long as nobody died or overran, nobody     *)
(* finds a stale record, so the path is removed by the process inside      *)
(* only, and what is at the path names the one process between Create and  *)
(* Unlink.                                                                 *)
(*                                                                         *)
(* JobAdmission, for any requests, meanings and bounds: the types; that    *)
(* every answer to a request names the one job the request record names;   *)
(* that what a listing shows as open is what the scheduler sees, as long   *)
(* as the active index has room; and what holds until a gateway dies.      *)
(***************************************************************************)
EXTENDS ControllerLock, JobAdmission, FiniteSetTheorems, TLAPS

-----------------------------------------------------------------------------
(* ControllerLock                                                          *)

Owned(p) ==
    /\ pc[p] = "write" => file = LockFile(p, FALSE)
    /\ pc[p] \in {"inside", "unlink"} => file = LockFile(p, TRUE)
    /\ pc[p] \notin {"reap", "refused", "reapOut"}

Undisturbed == ~overran /\ \A p \in Procs : pc[p] # "dead"

(* While undisturbed, each process owns what its stage says, and a file    *)
(* that exists is not late and belongs to a process that will remove it.   *)
Calm ==
    /\ \A p \in Procs : Owned(p)
    /\ file # Absent => /\ file.owner \in Procs
                        /\ pc[file.owner] \in {"write", "inside", "unlink"}
                        /\ ~file.late

LockInv == TypeOK /\ (Undisturbed => Calm)

(* Two locks are the same file only if they have one owner in one stage.   *)
LEMMA Distinct ==
    \A p, q : \A u, v \in BOOLEAN :
        /\ LockFile(p, u) # Absent
        /\ LockFile(p, u) = LockFile(q, v) => p = q /\ u = v
<1>1. TAKE p, q
<1>2. TAKE u, v \in BOOLEAN
<1>3. LockFile(p, u) # Absent
  <2>1. DOMAIN LockFile(p, u) = {"owner", "written", "late"}  BY DEF LockFile
  <2>2. DOMAIN Absent = {"owner"}  BY DEF Absent
  <2>3. QED  BY <2>1, <2>2
<1>4. LockFile(p, u) = LockFile(q, v) => p = q /\ u = v
  <2>1. /\ LockFile(p, u).owner = p /\ LockFile(p, u).written = u
        /\ LockFile(q, v).owner = q /\ LockFile(q, v).written = v
    BY DEF LockFile
  <2>2. QED  BY <2>1
<1>5. QED  BY <1>3, <1>4

(* Broken is the opposite of undisturbed.                                  *)
LEMMA BrokenIsDisturbed == Broken <=> ~Undisturbed
BY DEF Broken, Undisturbed, Deaths, Dead

(* A step that leaves a disturbed state leads to a disturbed one.          *)
LEMMA StaysDisturbed ==
    ASSUME TypeOK, [Next]_vars PROVE Undisturbed' => Undisturbed
<1>1. CASE Expire  BY <1>1 DEF Expire, Undisturbed
<1>2. ASSUME NEW p \in Procs, Step(p) PROVE Undisturbed' => Undisturbed
  BY <1>2 DEF Step, Look, Reap, Create, Refused, Write, Leave, Unlink, Goto, Undisturbed, TypeOK
<1>3. ASSUME NEW p \in Procs, Die(p) PROVE Undisturbed' => Undisturbed
  BY <1>3 DEF Die, Goto, Undisturbed, TypeOK
<1>4. CASE UNCHANGED vars  BY <1>4 DEF vars, Undisturbed
<1>5. QED  BY <1>1, <1>2, <1>3, <1>4 DEF Next

(* Types are kept by every step.                                           *)
LEMMA TypeStep == ASSUME TypeOK, [Next]_vars PROVE TypeOK'
<1> USE DEF TypeOK, Stages
<1>1. CASE Expire
  <2>1. file \in [owner : Procs, written : BOOLEAN, late : BOOLEAN] /\ file.written
    BY <1>1 DEF Expire, Record
  <2>2. /\ file' \in [owner : Procs, written : BOOLEAN, late : BOOLEAN]
        /\ file'.written
    BY <1>1, <2>1 DEF Expire
  <2>3. QED  BY <1>1, <2>2 DEF Expire
<1>2. ASSUME NEW p \in Procs, Step(p) PROVE TypeOK'
  <2>1. CASE Look(p)  BY <2>1 DEF Look, Goto
  <2>2. CASE Reap(p)  BY <2>2 DEF Reap, Goto
  <2>3. CASE Create(p)  BY <2>3 DEF Create, Goto, LockFile
  <2>4. CASE Refused(p)  BY <2>4 DEF Refused, Goto
  <2>5. CASE Write(p)
    <3>1. LockFile(p, TRUE) \in [owner : Procs, written : BOOLEAN, late : BOOLEAN] /\ ~LockFile(p, TRUE).late
      BY DEF LockFile
    <3>2. QED  BY <2>5, <3>1 DEF Write, Goto
  <2>6. CASE Leave(p)  BY <2>6 DEF Leave, Goto
  <2>7. CASE Unlink(p)  BY <2>7 DEF Unlink, Goto
  <2>8. QED  BY <1>2, <2>1, <2>2, <2>3, <2>4, <2>5, <2>6, <2>7 DEF Step
<1>3. ASSUME NEW p \in Procs, Die(p) PROVE TypeOK'  BY <1>3 DEF Die, Goto
<1>4. CASE UNCHANGED vars  BY <1>4 DEF vars
<1>5. QED  BY <1>1, <1>2, <1>3, <1>4 DEF Next

(* The calm is kept by every step that leaves the state undisturbed.       *)
LEMMA CalmStep ==
    ASSUME TypeOK, Calm, Undisturbed, Undisturbed', [Next]_vars PROVE Calm'
<1>a. ~Stale
  BY DEF Calm, Undisturbed, Stale, Record, Dead
<1>b. \A q \in Procs : Owned(q)
  BY DEF Calm
<1>1. CASE Expire  BY <1>1 DEF Expire, Undisturbed
<1>2. ASSUME NEW p \in Procs, Step(p) PROVE Calm'
  <2>1. CASE Look(p)  BY <1>a, <1>b, <2>1 DEF Look, Goto, Calm, Owned, TypeOK
  <2>2. CASE Reap(p)  BY <1>b, <2>2 DEF Reap, Owned
  <2>3. CASE Create(p)
    <3>1. file' = LockFile(p, FALSE) /\ pc'[p] = "write" /\ file = Absent
      BY <2>3 DEF Create, Goto, TypeOK
    <3>2. ASSUME NEW q \in Procs PROVE Owned(q)'
      <4>1. CASE q = p  BY <4>1, <3>1 DEF Owned
      <4>2. CASE q # p
        <5>1. pc'[q] = pc[q]  BY <2>3, <4>2 DEF Create, Goto, TypeOK
        <5>2. pc[q] \notin {"write", "inside", "unlink"}
          BY <1>b, <3>1, Distinct DEF Owned
        <5>3. QED  BY <1>b, <5>1, <5>2 DEF Owned
      <4>3. QED  BY <4>1, <4>2
    <3>3. file'.owner = p /\ ~file'.late  BY <3>1 DEF LockFile
    <3>4. QED  BY <3>1, <3>2, <3>3 DEF Calm
  <2>4. CASE Refused(p)  BY <1>a, <1>b, <2>4 DEF Refused, Goto, Calm, Owned, TypeOK
  <2>5. CASE Write(p)
    <3>1. file = LockFile(p, FALSE) /\ file' = LockFile(p, TRUE) /\ pc'[p] = "inside"
      BY <1>b, <2>5 DEF Write, Goto, TypeOK, Owned
    <3>2. ASSUME NEW q \in Procs PROVE Owned(q)'
      <4>1. CASE q = p  BY <4>1, <3>1 DEF Owned
      <4>2. CASE q # p
        <5>1. pc'[q] = pc[q]  BY <2>5, <4>2 DEF Write, Goto, TypeOK
        <5>2. pc[q] \notin {"write", "inside", "unlink"}
          BY <1>b, <3>1, <4>2, Distinct DEF Owned
        <5>3. QED  BY <1>b, <5>1, <5>2 DEF Owned
      <4>3. QED  BY <4>1, <4>2
    <3>3. file'.owner = p /\ ~file'.late  BY <3>1 DEF LockFile
    <3>4. QED  BY <3>1, <3>2, <3>3 DEF Calm
  <2>6. CASE Leave(p)
    <3>1. file = LockFile(p, TRUE) /\ file' = file
      BY <1>b, <2>6 DEF Leave, Owned
    <3>2. file.written /\ file.owner = p  BY <3>1 DEF LockFile
    <3>3. Record  BY <3>1, <3>2, Distinct DEF Record
    <3>4. pc' = [pc EXCEPT ![p] = "unlink"]  BY <1>a, <2>6, <3>2, <3>3 DEF Leave, Goto
    <3>5. QED  BY <1>b, <3>1, <3>4 DEF Calm, Owned, TypeOK
  <2>7. CASE Unlink(p)
    <3>1. file = LockFile(p, TRUE) /\ file' = Absent /\ pc' = [pc EXCEPT ![p] = "idle"]
      BY <1>b, <2>7 DEF Unlink, Owned, Goto
    <3>2. ASSUME NEW q \in Procs PROVE Owned(q)'
      <4>1. CASE q = p  BY <4>1, <3>1 DEF Owned, TypeOK
      <4>2. CASE q # p
        <5>1. pc'[q] = pc[q]  BY <3>1, <4>2 DEF TypeOK
        <5>2. pc[q] \notin {"write", "inside", "unlink"}
          BY <1>b, <3>1, <4>2, Distinct DEF Owned
        <5>3. QED  BY <1>b, <5>1, <5>2 DEF Owned
      <4>3. QED  BY <4>1, <4>2
    <3>3. QED  BY <3>1, <3>2 DEF Calm
  <2>8. QED  BY <1>2, <2>1, <2>2, <2>3, <2>4, <2>5, <2>6, <2>7 DEF Step
<1>3. ASSUME NEW p \in Procs, Die(p) PROVE Calm'
  BY <1>3 DEF Die, Goto, Undisturbed, TypeOK
<1>4. CASE UNCHANGED vars  BY <1>4 DEF vars, Calm, Owned
<1>5. QED  BY <1>1, <1>2, <1>3, <1>4 DEF Next

(* LockInv is inductive (locks.ts, every function).                        *)
THEOREM LockInvariant == Spec => []LockInv
<1>1. Init => LockInv
  BY DEF Init, LockInv, TypeOK, Stages, Calm, Owned, Undisturbed
<1>2. LockInv /\ [Next]_vars => LockInv'
  BY TypeStep, CalmStep, StaysDisturbed DEF LockInv
<1>3. QED  BY <1>1, <1>2, PTL DEF Spec

(* A step of the lock file is a step of the short lock or changes neither  *)
(* its holders nor its promise.                                            *)
LEMMA StepRefines ==
    ASSUME LockInv, [Next]_vars PROVE [Abstract!Next]_(Abstract!lockVars)
<1> USE DEF Abstract!Next, Abstract!lockVars
<1>a. TypeOK  BY DEF LockInv
<1>1. CASE Expire
  <2>1. Inside' = Inside  BY <1>1 DEF Expire, Inside
  <2>2. Broken'  BY <1>1 DEF Expire, Broken
  <2>3. Abstract!Break  BY <2>1, <2>2 DEF Abstract!Break, Broken
  <2>4. QED  BY <2>3
<1>2. ASSUME NEW p \in Procs, Step(p) PROVE [Abstract!Next]_(Abstract!lockVars)
  <2>1. pc'[p] # "dead" /\ pc[p] # "dead" /\ overran' = overran
    BY <1>2, <1>a DEF Step, Look, Reap, Create, Refused, Write, Leave, Unlink, Goto, TypeOK
  <2>2. Broken' = Broken
    <3>1. \A q \in Procs : pc'[q] = "dead" <=> pc[q] = "dead"
      BY <1>2, <1>a, <2>1 DEF Step, Look, Reap, Create, Refused, Write, Leave, Unlink, Goto, TypeOK
    <3>2. QED  BY <3>1, <2>1 DEF Broken, Deaths, Dead
  <2>3. CASE Write(p)
    <3>1. Inside' = Inside \cup {p}  BY <2>3, <1>a DEF Write, Goto, Inside, TypeOK
    <3>2. Inside = {} \/ Broken
      <4>1. SUFFICES ASSUME NEW q \in Inside, Undisturbed PROVE FALSE
        BY BrokenIsDisturbed
      <4>2. file = LockFile(q, TRUE) /\ file = LockFile(p, FALSE)
        BY <2>3, <4>1 DEF LockInv, Calm, Owned, Inside, Write
      <4>3. QED  BY <4>2, Distinct
    <3>3. Abstract!Acquire(p)  BY <2>2, <3>1, <3>2 DEF Abstract!Acquire
    <3>4. QED  BY <3>3
  <2>4. CASE Leave(p)
    <3>1. p \in Inside /\ Inside' = Inside \ {p}
      BY <2>4, <1>a DEF Leave, Goto, Inside, TypeOK
    <3>2. Abstract!Release(p)  BY <2>2, <3>1 DEF Abstract!Release
    <3>3. QED  BY <3>2
  <2>5. CASE Look(p) \/ Reap(p) \/ Create(p) \/ Refused(p) \/ Unlink(p)
    <3>1. Inside' = Inside
      BY <2>5, <1>a DEF Look, Reap, Create, Refused, Unlink, Goto, Inside, TypeOK
    <3>2. QED  BY <2>2, <3>1
  <2>6. QED  BY <1>2, <2>3, <2>4, <2>5 DEF Step
<1>3. ASSUME NEW p \in Procs, Die(p) PROVE [Abstract!Next]_(Abstract!lockVars)
  <2>1. Inside' \subseteq Inside  BY <1>3, <1>a DEF Die, Goto, Inside, TypeOK
  <2>2. Broken'
    <3>1. pc'[p] = "dead"  BY <1>3, <1>a DEF Die, Goto, TypeOK
    <3>2. QED  BY <3>1 DEF Broken, Deaths, Dead
  <2>3. Abstract!Break  BY <2>1, <2>2 DEF Abstract!Break, Broken
  <2>4. QED  BY <2>3
<1>4. CASE UNCHANGED vars
  BY <1>4 DEF vars, Inside, Broken, Deaths, Dead
<1>5. QED  BY <1>1, <1>2, <1>3, <1>4 DEF Next

(* The lock file implements the short lock: withControllerLock is          *)
(* exclusive until a process dies or overruns its ttl (locks.ts:113).      *)
THEOREM LockKeepsPromise == Spec => KeepsPromise
<1>1. Init => Abstract!Init
  BY DEF Init, Abstract!Init, Inside, Broken, Deaths, Dead
<1>2. LockInv /\ [Next]_vars => [Abstract!Next]_(Abstract!lockVars)
  BY StepRefines
<1>3. QED  BY <1>1, <1>2, LockInvariant, PTL DEF Spec, Abstract!Spec, KeepsPromise

(* Where nothing dies and nothing overruns, one transaction at a time.     *)
THEOREM LockExcludes ==
    ASSUME MaxDeaths = 0, Overruns = FALSE PROVE Spec => []MutualExclusion
<1>1. Init => Undisturbed  BY DEF Init, Undisturbed
<1>2. LockInv /\ Undisturbed /\ [Next]_vars => Undisturbed'
  <2> SUFFICES ASSUME LockInv, Undisturbed, [Next]_vars PROVE Undisturbed'  OBVIOUS
  <2>1. CASE Expire  BY <2>1 DEF Expire
  <2>2. ASSUME NEW p \in Procs, Step(p) PROVE Undisturbed'
    <3>1. PICK stage : stage # "dead" /\ pc' = [pc EXCEPT ![p] = stage] /\ overran' = overran
      BY <2>2 DEF Step, Look, Reap, Create, Refused, Write, Leave, Unlink, Goto
    <3>2. QED  BY <3>1 DEF Undisturbed, LockInv, TypeOK
  <2>3. ASSUME NEW p \in Procs, Die(p) PROVE Undisturbed'
    <3>1. Deaths = {}  BY DEF Undisturbed, Deaths, Dead
    <3>2. Cardinality(Deaths) = 0  BY <3>1, FS_EmptySet
    <3>3. QED  BY <2>3, <3>2 DEF Die
  <2>4. CASE UNCHANGED vars  BY <2>4 DEF vars, Undisturbed
  <2>5. QED  BY <2>1, <2>2, <2>3, <2>4 DEF Next
<1>3. LockInv /\ Undisturbed => MutualExclusion
  <2> SUFFICES ASSUME LockInv, Undisturbed, NEW p \in Inside, NEW q \in Inside PROVE p = q
    BY DEF MutualExclusion
  <2>1. file = LockFile(p, TRUE) /\ file = LockFile(q, TRUE)
    BY DEF LockInv, Calm, Owned, Inside
  <2>2. QED  BY <2>1, Distinct
<1>4. QED  BY <1>1, <1>2, <1>3, LockInvariant, PTL DEF Spec

(* Whatever overruns, dies or is reaped by mistake, no lock file is left   *)
(* over, unless a process dies between creating the file and writing it:   *)
(* an empty file is the one that nobody may remove (locks.ts:63, 95).      *)
THEOREM LocksAreRemovable ==
    ASSUME ~TornDeaths PROVE Spec => []NoFileIsLeftOver
<1>1. Init => NoFileIsLeftOver
  BY DEF Init, NoFileIsLeftOver
<1>2. TypeOK /\ NoFileIsLeftOver /\ [Next]_vars => NoFileIsLeftOver'
  <2> SUFFICES ASSUME TypeOK, NoFileIsLeftOver, [Next]_vars PROVE NoFileIsLeftOver'  OBVIOUS
  <2>1. CASE Expire
    <3>1. file # Absent /\ file \in [owner : Procs, written : BOOLEAN, late : BOOLEAN]
      BY <2>1 DEF Expire, Record, TypeOK
    <3>2. file'.owner = file.owner /\ file'.written = file.written
      BY <2>1, <3>1 DEF Expire
    <3>3. QED  BY <2>1, <3>1, <3>2 DEF Expire, NoFileIsLeftOver
  <2>2. ASSUME NEW p \in Procs, Look(p) \/ Refused(p) \/ Leave(p) PROVE NoFileIsLeftOver'
    <3>1. file' = file /\ \A q \in Procs \ {p} : pc'[q] = pc[q]
      BY <2>2 DEF Look, Refused, Leave, Goto, TypeOK
    <3>2. ASSUME file # Absent, file.owner = p PROVE Leave(p) /\ pc'[p] \in {"reapOut", "unlink"} /\ file.written
      BY <2>2, <3>2 DEF Look, Refused, Leave, Goto, TypeOK, NoFileIsLeftOver, Record
    <3>3. file # Absent => file.owner \in Procs
      BY DEF TypeOK
    <3>4. QED  BY <3>1, <3>2, <3>3 DEF NoFileIsLeftOver
  <2>3. ASSUME NEW p \in Procs, Reap(p) \/ Unlink(p) PROVE NoFileIsLeftOver'
    BY <2>3 DEF Reap, Unlink, NoFileIsLeftOver
  <2>4. ASSUME NEW p \in Procs, Create(p) PROVE NoFileIsLeftOver'
    BY <2>4 DEF Create, Goto, LockFile, TypeOK, NoFileIsLeftOver
  <2>5. ASSUME NEW p \in Procs, Write(p) PROVE NoFileIsLeftOver'
    <3>1. pc' = [pc EXCEPT ![p] = "inside"] /\ pc[p] = "write"
      BY <2>5 DEF Write, Goto
    <3>2. CASE file = LockFile(p, FALSE)
      <4>1. file'.owner = p /\ file'.written
        BY <2>5, <3>2 DEF Write, LockFile
      <4>2. pc'[p] = "inside"
        BY <3>1 DEF TypeOK
      <4>3. QED  BY <4>1, <4>2 DEF NoFileIsLeftOver
    <3>3. CASE file # LockFile(p, FALSE)
      <4>1. file' = file
        BY <2>5, <3>3 DEF Write
      <4>2. ASSUME file # Absent PROVE file.owner # p /\ file.owner \in Procs
        <5>1. file.written => pc[file.owner] # "write"
          BY <4>2 DEF NoFileIsLeftOver
        <5>2. /\ file \in [owner : Procs, written : BOOLEAN, late : BOOLEAN]
              /\ file.late => file.written
          BY <4>2 DEF TypeOK
        <5>3. ~file.written => file = LockFile(file.owner, FALSE)
          BY <5>2 DEF LockFile
        <5>4. QED  BY <3>1, <3>3, <5>1, <5>2, <5>3
      <4>3. QED  BY <3>1, <4>1, <4>2 DEF TypeOK, NoFileIsLeftOver
    <3>4. QED  BY <3>2, <3>3
  <2>6. ASSUME NEW p \in Procs, Die(p) PROVE NoFileIsLeftOver'
    <3>1. pc' = [pc EXCEPT ![p] = "dead"] /\ file' = file /\ pc[p] # "write"
      BY <2>6 DEF Die, Goto
    <3>2. QED  BY <3>1 DEF TypeOK, NoFileIsLeftOver
  <2>7. CASE UNCHANGED vars  BY <2>7 DEF vars, NoFileIsLeftOver
  <2>8. QED  BY <2>1, <2>2, <2>3, <2>4, <2>5, <2>6, <2>7 DEF Next, Step
<1>3. LockInv => TypeOK
  BY DEF LockInv
<1>4. QED  BY <1>1, <1>2, <1>3, LockInvariant, PTL DEF Spec

-----------------------------------------------------------------------------
(* JobAdmission                                                            *)

Admission == [request : Requests, key : SemanticKeys]
RequestRecord == [job : JobIds, key : SemanticKeys]
Creation == [request : Requests, key : SemanticKeys, job : JobIds, done : 0 .. 4]

Shapes ==
    /\ status \in [JobIds -> {Unwritten, "queued", "running", "ended"}]
    /\ admitted \in [JobIds -> Admission \cup {Nobody}]
    /\ requests \in [Requests -> RequestRecord \cup {Nobody}]
    /\ creating \in Creation \cup {Nobody}
    /\ answered \subseteq [request : Requests, key : SemanticKeys, job : JobIds]
    /\ gatewayDeaths \in 0 .. MaxGatewayDeaths

IndexesHaveRecords == active \cup recent \cup listing.found \subseteq Written

(* A record says what its creation was asked for.                          *)
RecordsAreAdmitted == \A j \in Written : admitted[j] \in Admission

(* How far a creation has come, from what it has written.                  *)
CreationIsWhereItIs ==
    creating # Nobody =>
       /\ creating.done = 0 => status[creating.job] = Unwritten
       /\ creating.done > 0 => /\ status[creating.job] # Unwritten
                               /\ admitted[creating.job] = [request |-> creating.request, key |-> creating.key]
       /\ creating.done < 2 => requests[creating.request] = Nobody
       /\ creating.done > 1 => requests[creating.request] = [job |-> creating.job, key |-> creating.key]

(* A request record names a job that was admitted for this request.        *)
RequestsNameTheirJob ==
    \A r \in Requests : requests[r] # Nobody =>
        /\ status[requests[r].job] # Unwritten
        /\ admitted[requests[r].job] = [request |-> r, key |-> requests[r].key]

(* Clients are told what the request record says.                          *)
AnswersAreRecorded ==
    \A a \in answered : requests[a.request] = [job |-> a.job, key |-> a.key]

AdmissionInv ==
    /\ Shapes /\ IndexesHaveRecords /\ RecordsAreAdmitted
    /\ CreationIsWhereItIs /\ RequestsNameTheirJob /\ AnswersAreRecorded

-----------------------------------------------------------------------------
LEMMA NobodyIsNoRecord == Nobody \notin Creation /\ Nobody \notin RequestRecord /\ Nobody \notin Admission
BY DEF Nobody, Creation, RequestRecord, Admission

LEMMA RecordIsNotNobody ==
    ASSUME NEW j, NEW k
    PROVE  [job |-> j, key |-> k] # Nobody
<1>1. DOMAIN [job |-> j, key |-> k] = {"job", "key"} /\ DOMAIN Nobody = {"request"}
  BY DEF Nobody
<1>. QED
  BY <1>1

LEMMA NewestAreSome == \A ids : Newest(ids) \subseteq ids
BY DEF Newest

(* What is done next, from how much has been done.                         *)
LEMMA NextDone ==
    ASSUME Shapes, CreationStep
    PROVE  /\ creating \in Creation
           /\ WriteRecord => creating.done = 0
           /\ WriteRequest => creating.done = 1
           /\ WriteActive => creating.done = 2
           /\ WriteRecent => creating.done = 3
<1>1. creating # Nobody /\ Doing = WriteOrder[creating.done + 1]
  BY DEF CreationStep, WriteRecord, WriteRequest, WriteActive, WriteRecent, Answer, Doing, LockFree
<1>2. creating \in Creation
  BY <1>1 DEF Shapes
<1>3. creating.done \in {0, 1, 2, 3, 4}
  BY <1>2 DEF Creation
<1>4. /\ WriteOrder[1] = "record" /\ WriteOrder[2] = "request" /\ WriteOrder[3] = "active"
      /\ WriteOrder[4] = "recent" /\ WriteOrder[5] = "answer"
  BY DEF WriteOrder
<1>5. /\ WriteRecord => WriteOrder[creating.done + 1] = "record"
      /\ WriteRequest => WriteOrder[creating.done + 1] = "request"
      /\ WriteActive => WriteOrder[creating.done + 1] = "active"
      /\ WriteRecent => WriteOrder[creating.done + 1] = "recent"
  BY <1>1 DEF WriteRecord, WriteRequest, WriteActive, WriteRecent
<1>. QED
  BY <1>2, <1>3, <1>4, <1>5

LEMMA InitInv == AdmissionInit => AdmissionInv
BY AdmissionAssumption, NobodyIsNoRecord
DEF AdmissionAssumption, AdmissionInit, AdmissionInv, Shapes, IndexesHaveRecords, RecordsAreAdmitted,
    CreationIsWhereItIs, RequestsNameTheirJob, AnswersAreRecorded, Written, NotListing

LEMMA DeduplicateKeeps ==
    ASSUME AdmissionInv, NEW r \in Requests, NEW k \in SemanticKeys, Deduplicate(r, k)
    PROVE  AdmissionInv'
<1>1. requests[r] \in RequestRecord /\ requests[r].key = k
  BY DEF Deduplicate, AdmissionInv, Shapes
<1>2. [request |-> r, key |-> k, job |-> requests[r].job] \in [request : Requests, key : SemanticKeys, job : JobIds]
  BY <1>1 DEF RequestRecord
<1>3. requests[r] = [job |-> requests[r].job, key |-> k]
  BY <1>1 DEF RequestRecord
<1>. QED
  BY <1>2, <1>3 DEF Deduplicate, AdmissionInv, Shapes, IndexesHaveRecords, RecordsAreAdmitted,
     CreationIsWhereItIs, RequestsNameTheirJob, AnswersAreRecorded, Written

LEMMA BeginCreationKeeps ==
    ASSUME AdmissionInv, NEW r \in Requests, NEW k \in SemanticKeys, BeginCreation(r, k)
    PROVE  AdmissionInv'
<1>1. PICK j \in JobIds \ Written : creating' = [request |-> r, key |-> k, job |-> j, done |-> 0]
  BY DEF BeginCreation
<1>2. creating' \in Creation /\ status[j] = Unwritten
  BY <1>1 DEF Creation, Written
<1>. QED
  BY <1>1, <1>2 DEF BeginCreation, AdmissionInv, Shapes, IndexesHaveRecords, RecordsAreAdmitted,
     CreationIsWhereItIs, RequestsNameTheirJob, AnswersAreRecorded, Written

LEMMA WriteRecordKeeps ==
    ASSUME AdmissionInv, WriteRecord
    PROVE  AdmissionInv'
<1>. DEFINE j == creating.job
            r == creating.request
            k == creating.key
<1>1. /\ creating \in Creation /\ creating.done = 0 /\ creating # Nobody
      /\ j \in JobIds /\ r \in Requests /\ k \in SemanticKeys
  BY NextDone, NobodyIsNoRecord DEF AdmissionInv, CreationStep, Creation
<1>2. /\ creating' \in Creation /\ creating'.done = 1
      /\ creating'.job = j /\ creating'.request = r /\ creating'.key = k
  BY <1>1 DEF WriteRecord, NextFile, Creation
<1>3. /\ status[j] = Unwritten /\ requests[r] = Nobody
      /\ \A q \in JobIds : status'[q] = IF q = j THEN "queued" ELSE status[q]
      /\ \A q \in JobIds : admitted'[q] = IF q = j THEN [request |-> r, key |-> k] ELSE admitted[q]
      /\ UNCHANGED <<requests, active, recent, listing, answered, gatewayDeaths>>
  BY <1>1 DEF WriteRecord, AdmissionInv, Shapes, CreationIsWhereItIs
<1>4. [request |-> r, key |-> k] \in Admission
  BY <1>1 DEF Admission
<1>5. Shapes'
  BY <1>1, <1>2, <1>3, <1>4 DEF AdmissionInv, Shapes, WriteRecord
<1>6. Written' = Written \cup {j}
  BY <1>1, <1>3 DEF Written, Unwritten
<1>. HIDE DEF j, r, k
<1>7. IndexesHaveRecords' /\ RecordsAreAdmitted'
  BY <1>3, <1>4, <1>6 DEF AdmissionInv, IndexesHaveRecords, RecordsAreAdmitted, Written
<1>8. CreationIsWhereItIs'
  BY <1>1, <1>2, <1>3 DEF CreationIsWhereItIs, Unwritten
<1>9. RequestsNameTheirJob'
  <2>. SUFFICES ASSUME NEW q \in Requests, requests[q] # Nobody
                PROVE  /\ status'[requests[q].job] # Unwritten
                       /\ admitted'[requests[q].job] = [request |-> q, key |-> requests[q].key]
    BY <1>3 DEF RequestsNameTheirJob
  <2>1. requests[q].job \in JobIds /\ requests[q].job # j
    <3>1. requests[q].job \in JobIds
      BY DEF AdmissionInv, Shapes, RequestRecord
    <3>2. status[requests[q].job] # Unwritten
      BY DEF AdmissionInv, RequestsNameTheirJob
    <3>. QED
      BY <1>3, <3>1, <3>2
  <2>. QED
    BY <1>3, <2>1 DEF AdmissionInv, RequestsNameTheirJob
<1>. QED
  BY <1>3, <1>5, <1>7, <1>8, <1>9 DEF AdmissionInv, AnswersAreRecorded

LEMMA WriteRequestKeeps ==
    ASSUME AdmissionInv, WriteRequest
    PROVE  AdmissionInv'
<1>. DEFINE j == creating.job
            r == creating.request
            k == creating.key
<1>1. /\ creating \in Creation /\ creating.done = 1 /\ creating # Nobody
      /\ j \in JobIds /\ r \in Requests /\ k \in SemanticKeys
  BY NextDone, NobodyIsNoRecord DEF AdmissionInv, CreationStep, Creation
<1>2. /\ creating' \in Creation /\ creating'.done = 2
      /\ creating'.job = j /\ creating'.request = r /\ creating'.key = k
  BY <1>1 DEF WriteRequest, NextFile, Creation
<1>3. /\ status[j] # Unwritten /\ requests[r] = Nobody /\ admitted[j] = [request |-> r, key |-> k]
      /\ \A q \in Requests : requests'[q] = IF q = r THEN [job |-> j, key |-> k] ELSE requests[q]
      /\ UNCHANGED <<status, admitted, active, recent, listing, answered, gatewayDeaths>>
  BY <1>1 DEF WriteRequest, AdmissionInv, Shapes, CreationIsWhereItIs
<1>4. [job |-> j, key |-> k] \in RequestRecord
  BY <1>1 DEF RequestRecord
<1>5. Shapes'
  BY <1>1, <1>2, <1>3, <1>4 DEF AdmissionInv, Shapes, WriteRequest
<1>6. \A a \in answered : a.request \in Requests /\ a.request # r
  <2>1. ASSUME NEW a \in answered PROVE a.request \in Requests /\ requests[a.request] # Nobody
    <3>1. [job |-> a.job, key |-> a.key] # Nobody
      BY RecordIsNotNobody
    <3>. QED
      BY <2>1, <3>1 DEF AdmissionInv, Shapes, AnswersAreRecorded
  <2>. QED
    BY <1>3, <2>1
<1>. HIDE DEF j, r, k
<1>7. IndexesHaveRecords' /\ RecordsAreAdmitted'
  BY <1>3 DEF AdmissionInv, IndexesHaveRecords, RecordsAreAdmitted, Written
<1>8. CreationIsWhereItIs'
  BY <1>1, <1>2, <1>3 DEF CreationIsWhereItIs
<1>9. RequestsNameTheirJob'
  BY <1>1, <1>3 DEF AdmissionInv, RequestsNameTheirJob
<1>10. AnswersAreRecorded'
  BY <1>3, <1>6 DEF AdmissionInv, AnswersAreRecorded
<1>. QED
  BY <1>5, <1>7, <1>8, <1>9, <1>10 DEF AdmissionInv

LEMMA WriteIndexKeeps ==
    ASSUME AdmissionInv, WriteActive \/ WriteRecent
    PROVE  AdmissionInv'
<1>1. creating \in Creation /\ creating.done \in {2, 3} /\ creating # Nobody
  BY NextDone, NobodyIsNoRecord DEF AdmissionInv, CreationStep
<1>2. /\ creating' \in Creation /\ creating'.done \in {3, 4}
      /\ creating'.job = creating.job /\ creating'.request = creating.request /\ creating'.key = creating.key
  BY <1>1 DEF WriteActive, WriteRecent, NextFile, Creation
<1>3. creating.job \in Written
  BY <1>1 DEF Creation, Written, AdmissionInv, CreationIsWhereItIs
<1>4. /\ active' \subseteq active \cup {creating.job} /\ recent' \subseteq recent \cup {creating.job}
      /\ UNCHANGED <<status, admitted, requests, listing, answered, gatewayDeaths>>
  BY NewestAreSome DEF WriteActive, WriteRecent
<1>. QED
  BY <1>1, <1>2, <1>3, <1>4 DEF AdmissionInv, Shapes, IndexesHaveRecords, RecordsAreAdmitted,
     CreationIsWhereItIs, RequestsNameTheirJob, AnswersAreRecorded, Written

LEMMA AnswerKeeps ==
    ASSUME AdmissionInv, Answer
    PROVE  AdmissionInv'
<1>1. creating \in Creation /\ creating # Nobody /\ creating.done = 4
  <2>1. creating # Nobody /\ creating \in Creation /\ WriteOrder[creating.done + 1] = "answer"
    BY NobodyIsNoRecord DEF Answer, Doing, LockFree, AdmissionInv, Shapes
  <2>2. creating.done \in {0, 1, 2, 3, 4}
    BY <2>1 DEF Creation
  <2>3. /\ WriteOrder[1] = "record" /\ WriteOrder[2] = "request" /\ WriteOrder[3] = "active"
        /\ WriteOrder[4] = "recent"
    BY DEF WriteOrder
  <2>. QED
    BY <2>1, <2>2, <2>3
<1>2. [request |-> creating.request, key |-> creating.key, job |-> creating.job]
         \in [request : Requests, key : SemanticKeys, job : JobIds]
  BY <1>1 DEF Creation
<1>3. requests[creating.request] = [job |-> creating.job, key |-> creating.key]
  BY <1>1 DEF AdmissionInv, CreationIsWhereItIs
<1>. QED
  BY <1>1, <1>2, <1>3 DEF Answer, AdmissionInv, Shapes, IndexesHaveRecords, RecordsAreAdmitted,
     CreationIsWhereItIs, RequestsNameTheirJob, AnswersAreRecorded, Written

LEMMA JobStepKeeps ==
    ASSUME AdmissionInv, NEW j \in JobIds, RunJob(j) \/ EndJob(j)
    PROVE  AdmissionInv'
<1>1. /\ status[j] # Unwritten /\ status'[j] \in {"running", "ended"}
      /\ \A q \in JobIds \ {j} : status'[q] = status[q]
      /\ status' \in [JobIds -> {Unwritten, "queued", "running", "ended"}]
      /\ UNCHANGED <<admitted, requests, creating, listing, answered, gatewayDeaths>>
  BY DEF RunJob, EndJob, AdmissionInv, Shapes, Unwritten
<1>2. \A q \in JobIds : status'[q] = Unwritten <=> status[q] = Unwritten
  BY <1>1 DEF Unwritten
<1>3. Written' = Written
  BY <1>2 DEF Written
<1>4. active' \subseteq active \cup recent \cup {j} /\ recent' \subseteq recent \cup {j}
  BY NewestAreSome DEF RunJob, EndJob
<1>5. IndexesHaveRecords'
  BY <1>1, <1>3, <1>4 DEF AdmissionInv, IndexesHaveRecords, Written
<1>6. Shapes' /\ RecordsAreAdmitted' /\ AnswersAreRecorded'
  BY <1>1, <1>3 DEF AdmissionInv, Shapes, RecordsAreAdmitted, AnswersAreRecorded
<1>7. CreationIsWhereItIs'
  BY <1>1, <1>2 DEF AdmissionInv, Shapes, Creation, CreationIsWhereItIs
<1>8. RequestsNameTheirJob'
  BY <1>1, <1>2 DEF AdmissionInv, Shapes, RequestRecord, RequestsNameTheirJob
<1>. QED
  BY <1>5, <1>6, <1>7, <1>8 DEF AdmissionInv

LEMMA OthersKeep ==
    ASSUME AdmissionInv, GatewayDies \/ ListRead \/ Backfill \/ UNCHANGED admissionVars
    PROVE  AdmissionInv'
<1>1. /\ UNCHANGED <<status, admitted, requests, answered>> /\ creating' \in {creating, Nobody}
      /\ gatewayDeaths' \in 0 .. MaxGatewayDeaths
  BY AdmissionAssumption DEF AdmissionAssumption, GatewayDies, ListRead, Backfill, admissionVars, AdmissionInv, Shapes
<1>2. active' \cup recent' \cup listing'.found \subseteq active \cup recent \cup listing.found \cup Written
  BY NewestAreSome DEF GatewayDies, ListRead, Backfill, admissionVars, NotListing
<1>. QED
  BY <1>1, <1>2 DEF AdmissionInv, Shapes, IndexesHaveRecords, RecordsAreAdmitted,
     CreationIsWhereItIs, RequestsNameTheirJob, AnswersAreRecorded, Written

LEMMA InvKept == AdmissionInv /\ [AdmissionNext]_admissionVars => AdmissionInv'
BY DeduplicateKeeps, BeginCreationKeeps, WriteRecordKeeps, WriteRequestKeeps, WriteIndexKeeps,
   AnswerKeeps, JobStepKeeps, OthersKeep DEF AdmissionNext, CreationStep

LEMMA InvAlways == AdmissionSpec => []AdmissionInv
BY InitInv, InvKept, PTL DEF AdmissionSpec

-----------------------------------------------------------------------------
(* The types, and that an index entry always has a record.                 *)
THEOREM AdmissionTypes == AdmissionSpec => []AdmissionTypeOK
<1>1. AdmissionInv => AdmissionTypeOK
  BY DEF AdmissionInv, Shapes, IndexesHaveRecords, RecordsAreAdmitted, AdmissionTypeOK, Admission, RequestRecord
<1>. QED
  BY <1>1, InvAlways, PTL

(* All answers to one request name one job, admitted with their meaning,   *)
(* for any number of clients, retries and deaths (createExecutionJob,      *)
(* store.ts:168).                                                          *)
THEOREM RequestsHaveOneJob == AdmissionSpec => []OneJobPerRequest
<1>1. ASSUME AdmissionInv PROVE OneJobPerRequest
  <2>1. ASSUME NEW a \in answered
        PROVE  a.request \in Requests /\ requests[a.request] = [job |-> a.job, key |-> a.key]
    BY <1>1 DEF AdmissionInv, Shapes, AnswersAreRecorded
  <2>2. ASSUME NEW a \in answered, NEW b \in answered, a.request = b.request PROVE a = b
    <3>1. [job |-> a.job, key |-> a.key] = [job |-> b.job, key |-> b.key]
      BY <2>1, <2>2
    <3>2. a.job = b.job /\ a.key = b.key
      BY <3>1
    <3>3. a \in [request : Requests, key : SemanticKeys, job : JobIds] /\ b \in [request : Requests, key : SemanticKeys, job : JobIds]
      BY <1>1 DEF AdmissionInv, Shapes
    <3>. QED
      BY <2>2, <3>2, <3>3
  <2>3. ASSUME NEW a \in answered PROVE admitted[a.job] = [request |-> a.request, key |-> a.key]
    <3>1. requests[a.request] # Nobody
      <4>1. [job |-> a.job, key |-> a.key] # Nobody
        BY RecordIsNotNobody
      <4>. QED
        BY <2>1, <4>1
    <3>2. requests[a.request].job = a.job /\ requests[a.request].key = a.key
      <4>1. [job |-> a.job, key |-> a.key].job = a.job /\ [job |-> a.job, key |-> a.key].key = a.key
        OBVIOUS
      <4>. QED
        BY <2>1, <4>1
    <3>. QED
      BY <1>1, <2>1, <3>1, <3>2 DEF AdmissionInv, RequestsNameTheirJob
  <2>. QED
    BY <2>2, <2>3 DEF OneJobPerRequest
<1>. QED
  BY <1>1, InvAlways, PTL

-----------------------------------------------------------------------------
(* The two indexes.                                                        *)

(* The active index has room for its entries and every open job.           *)
RoomForOpenJobs == Cardinality(active \cup Unfinished) <= MaxIndex

(* The job of a creation is queued and unknown until it is in the active   *)
(* index, and there it stays as long as the lock is held.                  *)
CreationIsScheduled ==
    creating # Nobody =>
       /\ creating.done \in {1, 2} => status[creating.job] = "queued" /\ creating.job \notin active
       /\ creating.done > 2 => creating.job \in active

IndexInv == CreationIsScheduled /\ OpenJobsAreScheduled

LEMMA NewestAreAll ==
    ASSUME NEW ids \in SUBSET JobIds, Cardinality(ids) <= MaxIndex
    PROVE  Newest(ids) = ids
<1>. SUFFICES ASSUME NEW j \in ids PROVE Cardinality({k \in ids : k > j}) < MaxIndex
  BY DEF Newest
<1>. DEFINE later == {k \in ids : k > j}
<1>1. MaxJobs \in Nat /\ MaxIndex \in Nat
  BY AdmissionAssumption DEF AdmissionAssumption
<1>2. IsFiniteSet(JobIds)
  BY <1>1, FS_Interval DEF JobIds
<1>3. IsFiniteSet(ids) /\ IsFiniteSet(ids \ {j})
  BY <1>2, FS_Subset, FS_RemoveElement
<1>4. later \subseteq ids \ {j}
  BY DEF JobIds
<1>5. /\ Cardinality(ids \ {j}) = Cardinality(ids) - 1 /\ Cardinality(ids) \in Nat
      /\ Cardinality(later) <= Cardinality(ids \ {j}) /\ Cardinality(later) \in Nat
  BY <1>3, <1>4, FS_RemoveElement, FS_Subset, FS_CardinalityType
<1>. QED
  BY <1>1, <1>5

LEMMA RoomForSome ==
    ASSUME RoomForOpenJobs, AdmissionInv, NEW ids, ids \subseteq active \cup Unfinished
    PROVE  Newest(ids) = ids
<1>1. active \cup Unfinished \in SUBSET JobIds
  BY DEF AdmissionInv, IndexesHaveRecords, Unfinished, Written
<1>2. IsFiniteSet(active \cup Unfinished)
  <2>1. MaxJobs \in Nat
    BY AdmissionAssumption DEF AdmissionAssumption
  <2>2. IsFiniteSet(JobIds)
    BY <2>1, FS_Interval DEF JobIds
  <2>. QED
    BY <1>1, <2>2, FS_Subset
<1>3. /\ Cardinality(ids) \in Nat /\ Cardinality(active \cup Unfinished) \in Nat
      /\ Cardinality(ids) <= Cardinality(active \cup Unfinished)
  BY <1>2, FS_Subset, FS_CardinalityType
<1>4. Cardinality(ids) <= MaxIndex
  BY <1>3, AdmissionAssumption DEF RoomForOpenJobs, AdmissionAssumption
<1>. QED
  BY <1>1, <1>4, NewestAreAll

LEMMA ScheduledByCreation ==
    ASSUME AdmissionInv, RoomForOpenJobs, IndexInv, CreationStep
    PROVE  IndexInv'
<1>1. creating \in Creation /\ creating # Nobody /\ creating.job \in JobIds
  BY NextDone, NobodyIsNoRecord DEF AdmissionInv, Creation
<1>2. CASE WriteRecord
  <2>1. /\ creating.done = 0 /\ creating' = [creating EXCEPT !.done = creating.done + 1]
        /\ status[creating.job] = Unwritten /\ UNCHANGED <<active, recent>>
        /\ status' = [status EXCEPT ![creating.job] = "queued"]
    BY <1>1, <1>2, NextDone DEF WriteRecord, NextFile, AdmissionInv, CreationIsWhereItIs
  <2>2. /\ creating'.done = 1 /\ creating'.job = creating.job
    BY <1>1, <2>1 DEF Creation
  <2>3. status'[creating.job] = "queued" /\ creating.job \notin active \cup recent
    BY <1>1, <2>1 DEF AdmissionInv, Shapes, IndexesHaveRecords, Written
  <2>4. Unfinished' = Unfinished \cup {creating.job}
    BY <1>1, <2>1, <2>3 DEF Unfinished, Written, AdmissionInv, Shapes, Unwritten
  <2>. QED
    BY <2>1, <2>2, <2>3, <2>4 DEF IndexInv, CreationIsScheduled, OpenJobsAreScheduled
<1>3. CASE WriteRequest
  <2>1. /\ creating.done = 1 /\ creating' = [creating EXCEPT !.done = creating.done + 1]
        /\ UNCHANGED <<status, active, recent>>
    BY <1>1, <1>3, NextDone DEF WriteRequest, NextFile, AdmissionInv
  <2>2. creating'.done = 2 /\ creating'.job = creating.job
    BY <1>1, <2>1 DEF Creation
  <2>. QED
    BY <1>1, <2>1, <2>2 DEF IndexInv, CreationIsScheduled, OpenJobsAreScheduled, Unfinished, Written
<1>4. CASE WriteActive
  <2>1. /\ creating.done = 2 /\ creating' = [creating EXCEPT !.done = creating.done + 1]
        /\ active' = Newest(active \cup {creating.job}) /\ UNCHANGED <<status, recent>>
    BY <1>1, <1>4, NextDone DEF WriteActive, NextFile, AdmissionInv
  <2>2. creating'.done = 3 /\ creating'.job = creating.job
    BY <1>1, <2>1 DEF Creation
  <2>3. creating.job \in Unfinished
    BY <1>1, <2>1 DEF IndexInv, CreationIsScheduled, Unfinished, Written, Unwritten
  <2>4. active' = active \cup {creating.job}
    BY <2>1, <2>3, RoomForSome
  <2>. QED
    BY <2>1, <2>2, <2>4 DEF IndexInv, CreationIsScheduled, OpenJobsAreScheduled, Unfinished, Written
<1>5. CASE WriteRecent
  <2>1. /\ creating.done = 3 /\ creating' = [creating EXCEPT !.done = creating.done + 1]
        /\ recent' \subseteq recent \cup {creating.job} /\ UNCHANGED <<status, active>>
    BY <1>1, <1>5, NextDone, NewestAreSome DEF WriteRecent, NextFile, AdmissionInv
  <2>2. creating'.done = 4 /\ creating'.job = creating.job
    BY <1>1, <2>1 DEF Creation
  <2>. QED
    BY <1>1, <2>1, <2>2 DEF IndexInv, CreationIsScheduled, OpenJobsAreScheduled, Unfinished, Written
<1>6. CASE Answer
  BY <1>6 DEF Answer, IndexInv, CreationIsScheduled, OpenJobsAreScheduled, Unfinished, Written
<1>. QED
  BY <1>2, <1>3, <1>4, <1>5, <1>6 DEF CreationStep

LEMMA ScheduledByJobs ==
    ASSUME AdmissionInv, IndexInv, NEW j \in JobIds, RunJob(j) \/ EndJob(j)
    PROVE  IndexInv'
<1>1. CASE RunJob(j)
  <2>1. /\ j \in active /\ status[j] = "queued" /\ UNCHANGED <<active, recent, creating>>
        /\ status' = [status EXCEPT ![j] = "running"]
    BY <1>1 DEF RunJob
  <2>2. Unfinished' = Unfinished /\ \A i \in JobIds \ {j} : status'[i] = status[i]
    BY <2>1 DEF Unfinished, Written, AdmissionInv, Shapes, Unwritten
  <2>. QED
    BY <2>1, <2>2 DEF IndexInv, CreationIsScheduled, OpenJobsAreScheduled, AdmissionInv, Shapes, Creation
<1>2. CASE EndJob(j)
  <2>1. /\ status[j] = "running" /\ creating' = creating
        /\ status' = [status EXCEPT ![j] = "ended"]
        /\ \/ creating = Nobody /\ active' = active \ {j} /\ recent' \subseteq recent \cup {j}
           \/ UNCHANGED <<active, recent>>
    BY <1>2, NewestAreSome DEF EndJob, LockFree
  <2>2. Unfinished' = Unfinished \ {j} /\ \A i \in JobIds \ {j} : status'[i] = status[i]
    BY <2>1 DEF Unfinished, Written, AdmissionInv, Shapes, Unwritten
  <2>3. OpenJobsAreScheduled'
    BY <2>1, <2>2 DEF IndexInv, OpenJobsAreScheduled
  <2>4. CreationIsScheduled'
    BY <2>1, <2>2 DEF IndexInv, CreationIsScheduled, AdmissionInv, Shapes, Creation
  <2>. QED
    BY <2>3, <2>4 DEF IndexInv
<1>. QED
  BY <1>1, <1>2

LEMMA ScheduledByOthers ==
    ASSUME AdmissionInv, RoomForOpenJobs, IndexInv,
           \/ \E r \in Requests, k \in SemanticKeys : Deduplicate(r, k) \/ BeginCreation(r, k)
           \/ GatewayDies \/ ListRead \/ Backfill \/ UNCHANGED admissionVars
    PROVE  IndexInv'
<1>1. CASE Backfill
  <2>1. /\ creating = Nobody /\ UNCHANGED <<creating, status>>
        /\ active' = Newest(active \cup (listing.found \cap Unfinished))
        /\ recent' \subseteq recent \cup listing.found
    BY <1>1, NewestAreSome DEF Backfill, LockFree
  <2>2. active' = active \cup (listing.found \cap Unfinished)
    BY <2>1, RoomForSome
  <2>. QED
    BY <2>1, <2>2 DEF IndexInv, CreationIsScheduled, OpenJobsAreScheduled, Unfinished, Written
<1>2. CASE ~Backfill
  <2>1. /\ UNCHANGED <<status, active, recent>>
        /\ \/ creating' = creating \/ creating' = Nobody
           \/ creating'.done = 0
    BY <1>2 DEF Deduplicate, BeginCreation, GatewayDies, ListRead, admissionVars
  <2>. QED
    BY <2>1 DEF IndexInv, CreationIsScheduled, OpenJobsAreScheduled, Unfinished, Written
<1>. QED
  BY <1>1, <1>2

(* A job that a listing shows as open is in the active index, where the    *)
(* scheduler finds it, whichever creation was cut off and whatever another *)
(* listing fills in, as long as the index has room for the open jobs (an   *)
(* index drops its oldest entries, open or not).                           *)
THEOREM OpenJobsAreFound == AdmissionSpec /\ []RoomForOpenJobs => []OpenJobsAreScheduled
<1>1. AdmissionInit => IndexInv
  BY DEF AdmissionInit, IndexInv, CreationIsScheduled, OpenJobsAreScheduled
<1>2. AdmissionInv /\ RoomForOpenJobs /\ IndexInv /\ [AdmissionNext]_admissionVars => IndexInv'
  BY ScheduledByCreation, ScheduledByJobs, ScheduledByOthers, Zenon DEF AdmissionNext, CreationStep
<1>3. IndexInv => OpenJobsAreScheduled
  BY DEF IndexInv
<1>. QED
  BY <1>1, <1>2, <1>3, InvAlways, PTL DEF AdmissionSpec

-----------------------------------------------------------------------------
(* Until a gateway dies.                                                   *)
InHand(j) == creating # Nobody /\ creating.job = j

(* The request record of a job names it, or is written next.               *)
Recorded ==
    \A j \in Written :
        \/ requests[admitted[j].request] = [job |-> j, key |-> admitted[j].key]
        \/ InHand(j) /\ creating.done = 1

(* The active index names an open job, or is written soon, and before the  *)
(* client is answered.                                                     *)
Found ==
    /\ \A j \in Unfinished : j \in active \/ (InHand(j) /\ creating.done \in {1, 2})
    /\ \A a \in answered : ~InHand(a.job)

LEMMA AnswerIsLast == ASSUME Shapes, Answer PROVE creating \in Creation /\ creating.done = 4
<1>1. creating # Nobody /\ creating \in Creation /\ WriteOrder[creating.done + 1] = "answer"
  BY DEF Answer, Doing, LockFree, Shapes
<1>2. creating.done \in {0, 1, 2, 3, 4}
  BY <1>1 DEF Creation
<1>3. /\ WriteOrder[1] = "record" /\ WriteOrder[2] = "request" /\ WriteOrder[3] = "active"
      /\ WriteOrder[4] = "recent"
  BY DEF WriteOrder
<1>. QED
  BY <1>1, <1>2, <1>3

LEMMA RecordedKept ==
    ASSUME AdmissionInv, [AdmissionNext]_admissionVars, ~GatewayDies, Recorded
    PROVE  Recorded'
<1>1. CASE WriteRecord
  <2>1. creating \in Creation /\ creating.done = 0 /\ creating # Nobody
    BY <1>1, NextDone, NobodyIsNoRecord DEF AdmissionInv, CreationStep
  <2>2. /\ creating' # Nobody /\ creating'.job = creating.job /\ creating'.done = 1
    <3>1. creating' = [creating EXCEPT !.done = 1]
      BY <1>1, <2>1 DEF WriteRecord, NextFile
    <3>2. creating' \in Creation /\ creating'.job = creating.job /\ creating'.done = 1
      BY <2>1, <3>1 DEF Creation
    <3>. QED
      BY <3>2, NobodyIsNoRecord
  <2>3. \A j \in JobIds \ {creating.job} : status'[j] = status[j] /\ admitted'[j] = admitted[j]
    BY <1>1 DEF WriteRecord, AdmissionInv, Shapes
  <2>4. UNCHANGED requests
    BY <1>1 DEF WriteRecord
  <2>. QED
    BY <2>1, <2>2, <2>3, <2>4 DEF Recorded, InHand, Written
<1>2. CASE WriteRequest
  <2>1. creating \in Creation /\ creating.done = 1 /\ creating # Nobody
    BY <1>2, NextDone, NobodyIsNoRecord DEF AdmissionInv, CreationStep
  <2>2. /\ requests[creating.request] = Nobody /\ creating.request \in Requests
        /\ admitted[creating.job] = [request |-> creating.request, key |-> creating.key]
    BY <2>1 DEF AdmissionInv, CreationIsWhereItIs, Creation
  <2>3. /\ UNCHANGED <<status, admitted>>
        /\ requests' = [requests EXCEPT ![creating.request] = [job |-> creating.job, key |-> creating.key]]
    BY <1>2 DEF WriteRequest
  <2>4. ASSUME NEW j \in Written, j # creating.job
        PROVE  requests'[admitted[j].request] = [job |-> j, key |-> admitted[j].key]
    <3>1. requests[admitted[j].request] = [job |-> j, key |-> admitted[j].key]
      BY <2>4 DEF Recorded, InHand
    <3>2. admitted[j].request \in Requests
      BY DEF AdmissionInv, RecordsAreAdmitted, Admission
    <3>3. admitted[j].request # creating.request
      BY <2>2, <3>1, RecordIsNotNobody
    <3>. QED
      BY <2>3, <3>1, <3>2, <3>3 DEF AdmissionInv, Shapes
  <2>5. requests'[admitted[creating.job].request] = [job |-> creating.job, key |-> admitted[creating.job].key]
    BY <2>2, <2>3 DEF AdmissionInv, Shapes
  <2>. QED
    BY <2>3, <2>4, <2>5 DEF Recorded, Written
<1>3. CASE WriteActive \/ WriteRecent \/ Answer
  <2>1. creating.done # 1 /\ UNCHANGED <<status, admitted, requests>>
    BY <1>3, NextDone, AnswerIsLast DEF WriteActive, WriteRecent, Answer, AdmissionInv, CreationStep
  <2>. QED
    BY <2>1 DEF Recorded, InHand, Written
<1>4. CASE \E r \in Requests, k \in SemanticKeys : BeginCreation(r, k)
  <2>1. creating = Nobody /\ UNCHANGED <<status, admitted, requests>>
    BY <1>4 DEF BeginCreation, LockFree
  <2>. QED
    BY <2>1 DEF Recorded, InHand, Written
<1>5. CASE \/ \E r \in Requests, k \in SemanticKeys : Deduplicate(r, k)
           \/ \E j \in JobIds : RunJob(j) \/ EndJob(j)
           \/ ListRead \/ Backfill \/ UNCHANGED admissionVars
  <2>1. UNCHANGED <<admitted, requests, creating>> /\ Written' = Written
    BY <1>5 DEF Deduplicate, RunJob, EndJob, ListRead, Backfill, admissionVars, Written, Unwritten, AdmissionInv, Shapes
  <2>. QED
    BY <2>1 DEF Recorded, InHand
<1>. QED
  BY <1>1, <1>2, <1>3, <1>4, <1>5 DEF AdmissionNext, CreationStep

(* No two records of a request: the one in hand is of a request that was   *)
(* not known.                                                              *)
LEMMA RecordedIsOnce == ASSUME AdmissionInv, Recorded PROVE RunOncePerRequest
<1>. SUFFICES ASSUME NEW i \in Written, NEW j \in Written, admitted[i].request = admitted[j].request PROVE i = j
  BY DEF RunOncePerRequest, Written, Unwritten
<1>1. ASSUME NEW k \in Written, NEW l \in Written, admitted[k].request = admitted[l].request,
             InHand(k), creating.done = 1
      PROVE  l = k
  <2>1. requests[admitted[k].request] = Nobody
    BY <1>1 DEF InHand, AdmissionInv, CreationIsWhereItIs, Shapes, Creation
  <2>. QED
    BY <1>1, <2>1, RecordIsNotNobody DEF Recorded, InHand
<1>2. CASE /\ requests[admitted[i].request] = [job |-> i, key |-> admitted[i].key]
           /\ requests[admitted[j].request] = [job |-> j, key |-> admitted[j].key]
  <2>1. [job |-> i, key |-> admitted[i].key] = [job |-> j, key |-> admitted[j].key]
    BY <1>2
  <2>. QED
    BY <2>1
<1>. QED
  BY <1>1, <1>2 DEF Recorded

(* Every job that was answered has a record, and it is not in hand.        *)
LEMMA AnsweredIsWritten ==
    ASSUME AdmissionInv, NEW a \in answered
    PROVE  a.job \in Written /\ a.job \in JobIds /\ requests[a.request] = [job |-> a.job, key |-> a.key]
<1>1. a.request \in Requests /\ a.job \in JobIds /\ requests[a.request] = [job |-> a.job, key |-> a.key]
  BY DEF AdmissionInv, Shapes, AnswersAreRecorded
<1>2. requests[a.request] # Nobody /\ requests[a.request].job = a.job
  BY <1>1, RecordIsNotNobody
<1>. QED
  BY <1>1, <1>2 DEF AdmissionInv, RequestsNameTheirJob, Written

LEMMA FoundByCreation ==
    ASSUME AdmissionInv, RoomForOpenJobs, IndexInv, Found, CreationStep
    PROVE  Found'
<1>1. creating \in Creation /\ creating # Nobody /\ creating.job \in JobIds
  BY NextDone, NobodyIsNoRecord DEF AdmissionInv, Creation
<1>2. CASE WriteRecord
  <2>1. /\ creating.done = 0 /\ creating' = [creating EXCEPT !.done = 1]
        /\ UNCHANGED <<active, answered>> /\ status' = [status EXCEPT ![creating.job] = "queued"]
    BY <1>1, <1>2, NextDone DEF WriteRecord, NextFile, AdmissionInv
  <2>2. creating' # Nobody /\ creating'.done = 1 /\ creating'.job = creating.job
    <3>1. creating' \in Creation /\ creating'.done = 1 /\ creating'.job = creating.job
      BY <1>1, <2>1 DEF Creation
    <3>. QED
      BY <3>1, NobodyIsNoRecord
  <2>3. Unfinished' = Unfinished \cup {creating.job}
    BY <1>1, <2>1 DEF Unfinished, Written, AdmissionInv, Shapes, Unwritten, CreationIsWhereItIs
  <2>. QED
    BY <1>1, <2>1, <2>2, <2>3 DEF Found, InHand
<1>3. CASE WriteRequest
  <2>1. creating.done = 1 /\ creating' = [creating EXCEPT !.done = 2] /\ UNCHANGED <<status, active, answered>>
    BY <1>1, <1>3, NextDone DEF WriteRequest, NextFile, AdmissionInv
  <2>2. creating' # Nobody /\ creating'.done = 2 /\ creating'.job = creating.job
    <3>1. creating' \in Creation /\ creating'.done = 2 /\ creating'.job = creating.job
      BY <1>1, <2>1 DEF Creation
    <3>. QED
      BY <3>1, NobodyIsNoRecord
  <2>. QED
    BY <1>1, <2>1, <2>2 DEF Found, InHand, Unfinished, Written
<1>4. CASE WriteActive \/ WriteRecent
  <2>1. /\ UNCHANGED <<status, answered>> /\ creating'.job = creating.job
        /\ WriteActive => creating.done = 2 /\ active' = Newest(active \cup {creating.job})
        /\ WriteRecent => creating.done = 3 /\ active' = active
    BY <1>1, <1>4, NextDone DEF WriteActive, WriteRecent, NextFile, AdmissionInv, Creation, CreationStep
  <2>2. CASE WriteActive
    <3>1. creating.job \in Unfinished
      BY <1>1, <2>1, <2>2 DEF IndexInv, CreationIsScheduled, Unfinished, Written, Unwritten
    <3>2. active' = active \cup {creating.job}
      BY <2>1, <2>2, <3>1, RoomForSome
    <3>. QED
      BY <1>1, <2>1, <3>2 DEF Found, InHand, Unfinished, Written
  <2>3. CASE WriteRecent
    BY <1>1, <2>1, <2>3 DEF Found, InHand, Unfinished, Written
  <2>. QED
    BY <1>4, <2>2, <2>3
<1>5. CASE Answer
  <2>1. /\ creating.done = 4 /\ creating' = Nobody /\ UNCHANGED <<status, active>>
    BY <1>5, AnswerIsLast DEF Answer, AdmissionInv
  <2>. QED
    BY <2>1 DEF Found, InHand, Unfinished, Written
<1>. QED
  BY <1>2, <1>3, <1>4, <1>5 DEF CreationStep

LEMMA FoundByOthers ==
    ASSUME AdmissionInv, RoomForOpenJobs, Found,
           \/ \E r \in Requests, k \in SemanticKeys : Deduplicate(r, k) \/ BeginCreation(r, k)
           \/ \E j \in JobIds : RunJob(j) \/ EndJob(j)
           \/ ListRead \/ Backfill \/ UNCHANGED admissionVars
    PROVE  Found'
<1>1. ASSUME NEW r \in Requests, NEW k \in SemanticKeys, Deduplicate(r, k) PROVE Found'
  <2>1. creating = Nobody /\ UNCHANGED <<status, active, creating>>
    BY <1>1 DEF Deduplicate, LockFree
  <2>. QED
    BY <2>1 DEF Found, InHand, Unfinished, Written
<1>2. ASSUME NEW r \in Requests, NEW k \in SemanticKeys, BeginCreation(r, k) PROVE Found'
  <2>1. creating = Nobody /\ UNCHANGED <<status, active, answered>>
    BY <1>2 DEF BeginCreation, LockFree
  <2>2. creating'.job \notin Written
    BY <1>2 DEF BeginCreation
  <2>. QED
    BY <2>1, <2>2, AnsweredIsWritten DEF Found, InHand, Unfinished, Written
<1>3. ASSUME NEW j \in JobIds, RunJob(j) PROVE Found'
  <2>1. j \in active /\ UNCHANGED <<active, creating, answered>> /\ Unfinished' = Unfinished
    BY <1>3 DEF RunJob, Unfinished, Written, Unwritten, AdmissionInv, Shapes
  <2>. QED
    BY <2>1 DEF Found, InHand
<1>4. ASSUME NEW j \in JobIds, EndJob(j) PROVE Found'
  <2>1. active \ {j} \subseteq active' /\ UNCHANGED <<creating, answered>> /\ Unfinished' = Unfinished \ {j}
    BY <1>4 DEF EndJob, Unfinished, Written, Unwritten, AdmissionInv, Shapes
  <2>. QED
    BY <2>1 DEF Found, InHand
<1>5. CASE Backfill
  <2>1. active' = active \cup (listing.found \cap Unfinished) /\ UNCHANGED <<status, creating, answered>>
    BY <1>5, RoomForSome DEF Backfill
  <2>. QED
    BY <2>1 DEF Found, InHand, Unfinished, Written
<1>6. CASE ListRead \/ UNCHANGED admissionVars
  BY <1>6 DEF ListRead, admissionVars, Found, InHand, Unfinished, Written
<1>. QED
  BY <1>1, <1>2, <1>3, <1>4, <1>5, <1>6

LEMMA NoDeathYet ==
    ASSUME AdmissionInv, [AdmissionNext]_admissionVars, gatewayDeaths' = 0
    PROVE  gatewayDeaths = 0 /\ ~GatewayDies
<1>1. gatewayDeaths \in Nat
  BY DEF AdmissionInv, Shapes
<1>2. gatewayDeaths' = IF GatewayDies THEN gatewayDeaths + 1 ELSE gatewayDeaths
  BY DEF AdmissionNext, CreationStep, Deduplicate, BeginCreation, WriteRecord, WriteRequest, WriteActive,
         WriteRecent, Answer, GatewayDies, RunJob, EndJob, ListRead, Backfill, admissionVars
<1>. QED
  BY <1>1, <1>2

(* Until a gateway dies in a creation, no request has two job records, and *)
(* so no two of its jobs are run: RunOncePerRequest fails through a death  *)
(* and in no other way (createExecutionJob, store.ts:168, 203).            *)
THEOREM OneRunWithoutDeaths == AdmissionSpec => [](gatewayDeaths = 0 => RunOncePerRequest)
<1>1. AdmissionInit => Recorded
  BY DEF AdmissionInit, Recorded, Written
<1>2. AdmissionInv /\ (gatewayDeaths = 0 => Recorded) /\ [AdmissionNext]_admissionVars
        => (gatewayDeaths = 0 => Recorded)'
  BY NoDeathYet, RecordedKept
<1>3. AdmissionInv /\ (gatewayDeaths = 0 => Recorded) => (gatewayDeaths = 0 => RunOncePerRequest)
  BY RecordedIsOnce
<1>. QED
  BY <1>1, <1>2, <1>3, InvAlways, PTL DEF AdmissionSpec

(* Until then, and as long as the index has room for the open jobs, the    *)
(* scheduler finds each job that was named in an answer until it has ended *)
(* (upsertIndexesUnlocked, store.ts:102; createExecutionJob, store.ts:211).*)
THEOREM AnswersAreFound ==
    AdmissionSpec /\ []RoomForOpenJobs => [](gatewayDeaths = 0 => AnsweredIsFound)
<1>1. AdmissionInit => IndexInv /\ Found
  BY DEF AdmissionInit, IndexInv, CreationIsScheduled, OpenJobsAreScheduled, Found, Unfinished, Written
<1>2. AdmissionInv /\ RoomForOpenJobs /\ IndexInv /\ [AdmissionNext]_admissionVars => IndexInv'
  BY ScheduledByCreation, ScheduledByJobs, ScheduledByOthers, Zenon DEF AdmissionNext, CreationStep
<1>3. AdmissionInv /\ RoomForOpenJobs /\ IndexInv /\ (gatewayDeaths = 0 => Found) /\ [AdmissionNext]_admissionVars
        => (gatewayDeaths = 0 => Found)'
  <2>1. ASSUME AdmissionInv, RoomForOpenJobs, IndexInv, Found, [AdmissionNext]_admissionVars, ~GatewayDies
        PROVE  Found'
    BY <2>1, FoundByCreation, FoundByOthers, Zenon DEF AdmissionNext
  <2>. QED
    BY <2>1, NoDeathYet
<1>4. ASSUME AdmissionInv, Found PROVE AnsweredIsFound
  BY <1>4, AnsweredIsWritten DEF Found, InHand, AnsweredIsFound, Unfinished
<1>5. AdmissionInv /\ (gatewayDeaths = 0 => Found) => (gatewayDeaths = 0 => AnsweredIsFound)
  BY <1>4
<1>. QED
  BY <1>1, <1>2, <1>3, <1>5, InvAlways, PTL DEF AdmissionSpec
=============================================================================
