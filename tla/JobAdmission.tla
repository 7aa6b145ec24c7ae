---------------------------- MODULE JobAdmission ----------------------------
(***************************************************************************)
(* How a command becomes a durable job exactly once: createExecutionJob    *)
(* and the two job indexes of runtime/execution/jobs/store.ts, with        *)
(* clients that try again, gateway processes that die between two file     *)
(* writes, and the listing that fills empty indexes from the job records.  *)
(*                                                                         *)
(* A creation runs under the global controller lock (ControllerLock shows  *)
(* when that lock is exclusive): it writes the job record, the request     *)
(* record, the active and the recent index, each of them atomically, then  *)
(* answers.  A caller that finds the lock held is told so and tries again. *)
(* One repository; job ids are numbered in the order of creation.          *)
(***************************************************************************)
EXTENDS Naturals, FiniteSets

CONSTANTS
    Requests,       \* request ids the clients use
    SemanticKeys,   \* what a client may mean by a request
    MaxJobs,        \* bound: job records ever written
    MaxGatewayDeaths,      \* bound: processes that die during a creation
    MaxIndex        \* entries an index keeps (5000)

ASSUME AdmissionAssumption ==
    /\ MaxJobs \in Nat \ {0} /\ MaxGatewayDeaths \in Nat /\ MaxIndex \in Nat \ {0}

JobIds == 1 .. MaxJobs
Nobody == [request |-> "nobody"]
Unwritten == "unwritten"
NotListing == [reading |-> FALSE, found |-> {}]

VARIABLES
    status,         \* status of each job record, or Unwritten
    admitted,       \* the request and key of each job record
    requests,       \* the request records: request -> [job, key], or Nobody
    active, recent, \* the job ids in the two indexes
    creating,       \* the creation under the global lock, or Nobody
    listing,        \* a listing that found no recent job: the records it read
    answered,       \* what clients were told: [request, key, job]
    gatewayDeaths

admissionVars == <<status, admitted, requests, active, recent, creating, listing, answered,
                   gatewayDeaths>>

LockFree == creating = Nobody
Written == {j \in JobIds : status[j] # Unwritten}
Unfinished == {j \in Written : status[j] # "ended"}

(* An index drops its oldest entries.                                      *)
Newest(ids) == {j \in ids : Cardinality({k \in ids : k > j}) < MaxIndex}

-----------------------------------------------------------------------------
(* createExecutionJob                                                      *)

(* A request that is known gives the job it had, and REQUEST_ID_CONFLICT   *)
(* (nothing changes) to a client that means something else.                *)
DeduplicateByIdOnly(request, key) ==      \* faulty: the key is not compared
    /\ LockFree
    /\ requests[request] # Nobody
    /\ status[requests[request].job] # Unwritten
    /\ answered' = answered \cup {[request |-> request, key |-> key, job |-> requests[request].job]}
    /\ UNCHANGED <<status, admitted, requests, active, recent, creating, listing, gatewayDeaths>>
Deduplicate(request, key) ==
    /\ LockFree
    /\ requests[request] # Nobody
    /\ requests[request].key = key
    /\ status[requests[request].job] # Unwritten
    /\ answered' = answered \cup {[request |-> request, key |-> key, job |-> requests[request].job]}
    /\ UNCHANGED <<status, admitted, requests, active, recent, creating, listing, gatewayDeaths>>

OrderRequestFirst == <<"request", "record", "active", "recent", "answer">>    \* faulty
OrderRecentFirst == <<"record", "request", "recent", "active", "answer">>     \* faulty
WriteOrder == <<"record", "request", "active", "recent", "answer">>

BeginCreation(request, key) ==
    /\ LockFree
    /\ requests[request] = Nobody
    /\ \E j \in JobIds \ Written :
        /\ \A k \in JobIds \ Written : j <= k
        /\ creating' = [request |-> request, key |-> key, job |-> j, done |-> 0]
    /\ UNCHANGED <<status, admitted, requests, active, recent, listing, answered, gatewayDeaths>>

(* The next file of the creation is written, and last the client answered. *)
Doing == IF LockFree THEN "nothing" ELSE WriteOrder[creating.done + 1]
NextFile == creating' = [creating EXCEPT !.done = @ + 1]

WriteRecord ==
    /\ Doing = "record"
    /\ status' = [status EXCEPT ![creating.job] = "queued"]
    /\ admitted' = [admitted EXCEPT ![creating.job] = [request |-> creating.request, key |-> creating.key]]
    /\ NextFile
    /\ UNCHANGED <<requests, active, recent, listing, answered, gatewayDeaths>>

WriteRequest ==
    /\ Doing = "request"
    /\ requests' = [requests EXCEPT ![creating.request] = [job |-> creating.job, key |-> creating.key]]
    /\ NextFile
    /\ UNCHANGED <<status, admitted, active, recent, listing, answered, gatewayDeaths>>

WriteActive ==
    /\ Doing = "active"
    /\ active' = Newest(active \cup {creating.job})
    /\ NextFile
    /\ UNCHANGED <<status, admitted, requests, recent, listing, answered, gatewayDeaths>>

WriteRecent ==
    /\ Doing = "recent"
    /\ recent' = Newest(recent \cup {creating.job})
    /\ NextFile
    /\ UNCHANGED <<status, admitted, requests, active, listing, answered, gatewayDeaths>>

Answer ==
    /\ Doing = "answer"
    /\ answered' = answered \cup {[request |-> creating.request, key |-> creating.key, job |-> creating.job]}
    /\ creating' = Nobody
    /\ UNCHANGED <<status, admitted, requests, active, recent, listing, gatewayDeaths>>

(* The process dies; its lock is found stale and removed.                  *)
GatewayDies ==
    /\ ~LockFree /\ gatewayDeaths < MaxGatewayDeaths
    /\ creating' = Nobody
    /\ gatewayDeaths' = gatewayDeaths + 1
    /\ UNCHANGED <<status, admitted, requests, active, recent, listing, answered>>

-----------------------------------------------------------------------------
(* What the scheduler does with the jobs it finds in the active index      *)

RunJob(j) ==
    /\ j \in active /\ status[j] = "queued"
    /\ status' = [status EXCEPT ![j] = "running"]
    /\ UNCHANGED <<admitted, requests, active, recent, creating, listing, answered, gatewayDeaths>>

(* The record is written first; where the global lock is held just then,   *)
(* the writer is told so and the indexes stay as they were.                *)
EndJob(j) ==
    /\ status[j] = "running"
    /\ status' = [status EXCEPT ![j] = "ended"]
    /\ IF LockFree THEN active' = active \ {j} /\ recent' = Newest(recent \cup {j})
                   ELSE UNCHANGED <<active, recent>>
    /\ UNCHANGED <<admitted, requests, creating, listing, answered, gatewayDeaths>>

(* listExecutionJobs: where the recent index has no job of the repository  *)
(* the records are read without a lock, then put in both indexes under it. *)
ListRead ==
    /\ ~listing.reading /\ recent = {} /\ Written # {}
    /\ listing' = [reading |-> TRUE, found |-> Written]
    /\ UNCHANGED <<status, admitted, requests, active, recent, creating, answered, gatewayDeaths>>

Backfill ==
    /\ listing.reading /\ LockFree
    /\ active' = Newest(active \cup (listing.found \cap Unfinished))
    /\ recent' = Newest(recent \cup listing.found)
    /\ listing' = NotListing
    /\ UNCHANGED <<status, admitted, requests, creating, answered, gatewayDeaths>>

AdmissionInit ==
    /\ status = [j \in JobIds |-> Unwritten]
    /\ admitted = [j \in JobIds |-> Nobody]
    /\ requests = [r \in Requests |-> Nobody]
    /\ active = {} /\ recent = {}
    /\ creating = Nobody
    /\ listing = NotListing
    /\ answered = {}
    /\ gatewayDeaths = 0

CreationStep == WriteRecord \/ WriteRequest \/ WriteActive \/ WriteRecent \/ Answer

AdmissionNext ==
    \/ \E r \in Requests, k \in SemanticKeys : Deduplicate(r, k) \/ BeginCreation(r, k)
    \/ CreationStep \/ GatewayDies
    \/ \E j \in JobIds : RunJob(j) \/ EndJob(j)
    \/ ListRead \/ Backfill

AdmissionSpec == AdmissionInit /\ [][AdmissionNext]_admissionVars

-----------------------------------------------------------------------------
(* Every variable has its type; an index entry always has a record.        *)
AdmissionTypeOK ==
    /\ status \in [JobIds -> {Unwritten, "queued", "running", "ended"}]
    /\ \A j \in Written : admitted[j] \in [request : Requests, key : SemanticKeys]
    /\ \A r \in Requests : requests[r] = Nobody \/ requests[r] \in [job : JobIds, key : SemanticKeys]
    /\ active \cup recent \cup listing.found \subseteq Written
    /\ answered \subseteq [request : Requests, key : SemanticKeys, job : JobIds]
    /\ gatewayDeaths \in 0 .. MaxGatewayDeaths

(* However often clients try again and gateways die, all answers to one    *)
(* request name one job, with the meaning it was admitted with             *)
(* (createExecutionJob, store.ts:168).                                     *)
OneJobPerRequest ==
    /\ \A a, b \in answered : a.request = b.request => a = b
    /\ \A a \in answered : admitted[a.job] = [request |-> a.request, key |-> a.key]

(* A job in the recent index that has not ended is in the active index,    *)
(* so what a listing shows as open is what the scheduler sees              *)
(* (upsertIndexesUnlocked, store.ts:102).                                  *)
OpenJobsAreScheduled == recent \cap Unfinished \subseteq active

(* A client whose creation was begun, and who goes on trying, is answered, *)
(* whichever write was cut off (store.ts:202).                             *)
RequestsAreAnswered ==
    \A r \in Requests : (creating.request = r) ~> (\E a \in answered : a.request = r)

(* The job named in an answer is run and ends.  Not so where a creation    *)
(* was cut off before the active index: the request is known from then on, *)
(* its answers name a job that no scheduler sees (store.ts:168, 211).      *)
AnsweredIsRun == \A j \in JobIds : (\E a \in answered : a.job = j) ~> status[j] = "ended"

(* No two jobs of one request are run.  Not so where a creation was cut    *)
(* off before the request record and a listing then fills the empty        *)
(* indexes from the job records (store.ts:203, 455).                       *)
RunOncePerRequest ==
    \A i, j \in JobIds : {status[i], status[j]} \subseteq {"running", "ended"} =>
        (admitted[i].request = admitted[j].request => i = j)

(* A job that was named in an answer is found by the scheduler until it    *)
(* has ended.  Not so after a death either: see AnsweredIsRun.             *)
AnsweredIsFound == \A a \in answered : status[a.job] = "ended" \/ a.job \in active
=============================================================================
