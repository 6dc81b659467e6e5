-------------------------- MODULE ResumeRepository --------------------------
(***************************************************************************)
(* The PostgreSQL state of Resume Cloud and the transactions of            *)
(* resume_cloud_repository.py on it.  Each operator below that primes      *)
(* `tasks` or `cache` is one transaction: PostgreSQL's row locks make its  *)
(* statements take effect together, and now() is one instant for all of    *)
(* them (`clock`).  A resume, a job description and a generated document   *)
(* are members of small sets; hashes are the values they are hashes of.    *)
(* The rate limiter that shares the creation transaction is modelled in    *)
(* ResumeIntake; here Create is a creation that it admitted.               *)
(***************************************************************************)
EXTENDS Integers, FiniteSets

CONSTANTS
  Task,           \* identities of rows of resume_cloud_tasks (uuid4)
  LegacyTask,     \* the rows that predate migration 3: no client, no hashes
  LegacyRequest,  \* what they asked for
  Client,         \* X-Client-ID partitions
  NoClient,       \* the NULL client_key of a legacy row
  Content,        \* (uploaded resume, job description) pairs
  Identity,       \* deployments: gateway identity and pipeline fingerprint
  Submission,     \* the requests clients make, a subset of Request
  InputTTL,       \* input_ttl_hours, in clock ticks
  OutputTTL,      \* output_ttl_hours
  LeaseSeconds,   \* lease_seconds
  Batch,          \* the LIMIT of every cleanup statement
  MaxClock,       \* bound: the clock stops here
  SubmitUntil,    \* bound: no submission after this time
  RenewUntil      \* bound: no lease is renewed after this time

Mode == {"template", "ai"}

Request == [client : Client \cup {NoClient}, content : Content,
            mode : Mode, approved : BOOLEAN]

\* ResultCacheKey: everything a result depends on, and whose it is.
CacheKey == [client : Client \cup {NoClient}, content : Content,
             mode : Mode, identity : Identity]

ASSUME RepositoryAssumption ==
  /\ IsFiniteSet(Task)
  /\ LegacyTask \subseteq Task
  /\ LegacyRequest \in Request /\ LegacyRequest.client = NoClient
  /\ NoClient \notin Client
  /\ Submission \subseteq Request
  /\ InputTTL \in Nat \ {0}
  /\ OutputTTL \in Nat \ {0}
  /\ LeaseSeconds \in Nat \ {0}
  /\ Batch \in Nat \ {0}
  /\ MaxClock \in Nat
  /\ SubmitUntil \in Nat
  /\ RenewUntil \in Nat

VARIABLES
  clock,   \* PostgreSQL's now()
  tasks,   \* resume_cloud_tasks
  cache,   \* resume_cloud_result_cache
  claims   \* worker tokens drawn so far; the next uuid4 is claims + 1

repositoryVars == <<clock, tasks, cache, claims>>

-----------------------------------------------------------------------------
(* Rows                                                                    *)

Waiting  == {"PREPARED", "QUEUED"}
Terminal == {"SUCCEEDED", "FAILED", "NEEDS_REVIEW"}
TaskState == Waiting \cup {"RUNNING"} \cup Terminal

Failure == {"NONE", "INPUT_EXPIRED", "PROCESSING_REJECTED", "LEASE_EXPIRED"}

\* A generated document: what it was generated from, and for which task.
Output == [from : CacheKey, by : Task]
NoOutput == [none |-> "output"]

NoEntry == [none |-> "entry"]
Entry == [output : Output, expires : Nat]

Row == [state : TaskState \cup {"ABSENT"}, request : Request, inputs : BOOLEAN,
        inputExpires : Nat, attempts : 0..1, marked : BOOLEAN, token : Nat,
        lease : Nat, output : Output \cup {NoOutput}, outputExpires : Nat,
        failure : Failure]

RepositoryTypeOK ==
  /\ clock \in Nat
  /\ claims \in Nat
  /\ tasks \in [Task -> Row]
  /\ cache \in [CacheKey -> Entry \cup {NoEntry}]

\* The row a creation inserts: every other column has its default.
NewRow(request, expires) ==
  [state |-> "PREPARED", request |-> request, inputs |-> TRUE,
   inputExpires |-> expires, attempts |-> 0, marked |-> FALSE, token |-> 0,
   lease |-> 0, output |-> NoOutput, outputExpires |-> 0, failure |-> "NONE"]

\* No row: the fields hold placeholders that nothing reads.
AbsentRow == [NewRow(LegacyRequest, 0) EXCEPT !.state = "ABSENT", !.inputs = FALSE]

\* Legacy rows were written by an earlier release and are still waiting.
RepositoryInit ==
  /\ clock = 0
  /\ claims = 0
  /\ cache = [k \in CacheKey |-> NoEntry]
  /\ tasks = [t \in Task |-> IF t \in LegacyTask THEN NewRow(LegacyRequest, InputTTL)
                                                 ELSE AbsentRow]

Min2(a, b) == IF a < b THEN a ELSE b

\* Mutant of Closed: an interrupted task goes back to the queue.
Requeued(row, state, failure) ==
  IF state = "NEEDS_REVIEW" THEN [row EXCEPT !.state = "QUEUED", !.attempts = 0]
  ELSE [row EXCEPT !.state = state, !.failure = failure, !.inputs = FALSE]

\* An end without a result; the inputs are erased with it.
Closed(row, state, failure) ==
  [row EXCEPT !.state = state, !.failure = failure, !.inputs = FALSE]

\* Mutant of Succeeded: the inputs stay in the row beside the result.
SucceededWithInputs(row, output, expires) ==
  [row EXCEPT !.state = "SUCCEEDED", !.output = output, !.outputExpires = expires]

Succeeded(row, output, expires) ==
  [row EXCEPT !.state = "SUCCEEDED", !.output = output,
              !.outputExpires = expires, !.inputs = FALSE]

\* Mutants of LeaseLapsed.
RunningAtAll(row)     == row.state = "RUNNING"
TemplateLapsed(row)   == row.state = "RUNNING" /\ row.lease < clock /\ ~row.marked

\* One attempt is all a row ever gets: claim asks for attempt_count = 0.
Taken(row, token, lease) ==
  [row EXCEPT !.state = "RUNNING", !.attempts = row.attempts + 1,
              !.token = token, !.lease = lease]

InputLapsed(row)  == row.state \in Waiting /\ row.inputExpires < clock
LeaseLapsed(row)  == row.state = "RUNNING" /\ row.lease < clock
OutputLapsed(row) == row.state = "SUCCEEDED" /\ row.outputExpires < clock

\* _expire_one
ExpireOne(row) ==
  IF InputLapsed(row) THEN Closed(row, "FAILED", "INPUT_EXPIRED")
  ELSE IF OutputLapsed(row) THEN [row EXCEPT !.output = NoOutput]
  ELSE row

\* The WHERE clause that fences every write of a worker.
Owns(t, token) ==
  /\ tasks[t].state = "RUNNING"
  /\ tasks[t].token = token
  /\ tasks[t].lease > clock

-----------------------------------------------------------------------------
(* Transactions of the API                                                 *)

\* create_or_replay, when it inserts; a replay leaves the row as it is.
CreateTask(t, request) ==
  /\ clock <= SubmitUntil
  /\ tasks[t].state = "ABSENT"
  /\ request.client # NoClient
  /\ tasks' = [tasks EXCEPT ![t] = NewRow(request, clock + InputTTL)]
  /\ UNCHANGED <<cache, claims>>

GetTask(t) ==
  /\ tasks[t].state # "ABSENT"
  /\ tasks' = [tasks EXCEPT ![t] = ExpireOne(@)]
  /\ UNCHANGED <<cache, claims>>

Queueable(row) ==
  row.state = "PREPARED" /\ row.inputExpires >= clock /\ row.inputs

\* queue: an update that matches no row falls through to get.
QueueTask(t) ==
  /\ tasks[t].state # "ABSENT"
  /\ tasks' = [tasks EXCEPT ![t] = IF Queueable(@) THEN [@ EXCEPT !.state = "QUEUED"]
                                                   ELSE ExpireOne(@)]
  /\ UNCHANGED <<cache, claims>>

-----------------------------------------------------------------------------
(* Transactions of the worker                                              *)

Claimable(row) ==
  /\ row.state = "QUEUED"
  /\ row.inputExpires >= clock
  /\ row.inputs
  /\ row.attempts = 0

\* claim: the oldest claimable row, but SKIP LOCKED passes over a row another
\* transaction holds at that moment, so any claimable row may be the one.
ClaimTask(t) ==
  /\ Claimable(tasks[t])
  /\ claims' = claims + 1
  /\ tasks' = [tasks EXCEPT ![t] = Taken(@, claims + 1, clock + LeaseSeconds)]
  /\ UNCHANGED cache

FreshEntry(key) == cache[key] # NoEntry /\ cache[key].expires > clock

CacheServes(t, token, key) == FreshEntry(key) /\ Owns(t, token)

\* complete_from_cache, when its UPDATE matches
CompleteFromCache(t, token, key) ==
  /\ CacheServes(t, token, key)
  /\ tasks' = [tasks EXCEPT ![t] = Succeeded(@, cache[key].output, cache[key].expires)]
  /\ UNCHANGED <<cache, claims>>

\* Mutant of Cached: the entry gets a life of its own.
CachedForFullTTL(key, output, expires) ==
  IF key.client = NoClient \/ FreshEntry(key) THEN cache
  ELSE [cache EXCEPT ![key] = [output |-> output, expires |-> clock + OutputTTL]]

\* The upsert of complete: an entry that is still alive is never replaced.
Cached(key, output, expires) ==
  IF key.client = NoClient \/ FreshEntry(key) THEN cache
  ELSE [cache EXCEPT ![key] = [output |-> output, expires |-> expires]]

\* complete, when the fence holds: the result and its cache entry commit together.
CompleteTask(t, token, key) ==
  LET output  == [from |-> key, by |-> t]
      expires == Min2(tasks[t].inputExpires, clock + OutputTTL)
  IN  /\ Owns(t, token)
      /\ tasks' = [tasks EXCEPT ![t] = Succeeded(@, output, expires)]
      /\ cache' = Cached(key, output, expires)
      /\ UNCHANGED claims

FailTask(t, token) ==
  /\ Owns(t, token)
  /\ tasks' = [tasks EXCEPT ![t] = Closed(@, "FAILED", "PROCESSING_REJECTED")]
  /\ UNCHANGED <<cache, claims>>

MarkModelCall(t, token) ==
  /\ Owns(t, token)
  /\ tasks' = [tasks EXCEPT ![t].marked = TRUE]
  /\ UNCHANGED <<cache, claims>>

RenewLease(t, token) ==
  /\ clock <= RenewUntil
  /\ Owns(t, token)
  /\ tasks' = [tasks EXCEPT ![t].lease = clock + LeaseSeconds]
  /\ UNCHANGED <<cache, claims>>

\* A worker's write whose fence has failed updates no row.
FenceLost(t, token) ==
  /\ ~Owns(t, token)
  /\ UNCHANGED <<tasks, cache, claims>>

-----------------------------------------------------------------------------
(* recover_and_cleanup                                                     *)

\* SELECT ... ORDER BY deadline LIMIT Batch: which of the candidates are taken.
Selected(candidates, deadline) ==
  {chosen \in SUBSET candidates :
     /\ Cardinality(chosen) = Min2(Batch, Cardinality(candidates))
     /\ \A a \in chosen, b \in candidates \ chosen : deadline[a] <= deadline[b]}

StaleEntry(k) == cache[k] # NoEntry /\ cache[k].expires < clock

\* The four statements take disjoint sets of rows, each from the same instant.
RecoverAndCleanup ==
  LET column(field) == [t \in Task |-> tasks[t][field]]
      expiries == [k \in CacheKey |-> IF cache[k] = NoEntry THEN 0 ELSE cache[k].expires]
  IN \E interrupted \in Selected({t \in Task : LeaseLapsed(tasks[t])}, column("lease")),
        stale \in Selected({t \in Task : InputLapsed(tasks[t])}, column("inputExpires")),
        forgotten \in Selected({t \in Task : OutputLapsed(tasks[t])}, column("outputExpires")),
        dropped \in Selected({k \in CacheKey : StaleEntry(k)}, expiries) :
       /\ tasks' = [t \in Task |->
            CASE t \in interrupted -> Closed(tasks[t], "NEEDS_REVIEW", "LEASE_EXPIRED")
              [] t \in stale       -> Closed(tasks[t], "FAILED", "INPUT_EXPIRED")
              [] t \in forgotten   -> [tasks[t] EXCEPT !.output = NoOutput]
              [] OTHER             -> tasks[t]]
       /\ cache' = [k \in CacheKey |-> IF k \in dropped THEN NoEntry ELSE cache[k]]
       /\ UNCHANGED claims

Tick ==
  /\ clock < MaxClock
  /\ clock' = clock + 1
  /\ UNCHANGED <<tasks, cache, claims>>
=============================================================================
