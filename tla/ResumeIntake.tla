---------------------------- MODULE ResumeIntake ----------------------------
(***************************************************************************)
(* POST /tasks of Resume Cloud: create_or_replay with its token bucket.    *)
(* Handlers of any number of API instances share one database.  A handler  *)
(* stamps its request with its own clock, which NTP keeps within Skew of   *)
(* the others, and then opens one transaction.  Inside it the unique index *)
(* on idempotency_key and the lock on the client's bucket make it wait for *)
(* whoever holds them; nothing is visible to others before it commits.     *)
(***************************************************************************)
EXTENDS Integers, FiniteSets

CONSTANTS
  Handler,    \* request threads of the API instances
  Key,        \* idempotency keys
  Payload,    \* payload hashes
  Client,     \* X-Client-ID partitions, "default" included
  LegacyKey,  \* the keys of rows written before migration 3: client_key is NULL
  LegacyPayload,
  NoClient,
  Capacity,   \* rate_limit_capacity
  Unit,       \* the fixed-point value of one token
  Refill,     \* rate_limit_refill_per_second, in 1/Unit tokens per clock tick
  Skew,       \* bound on the difference between an API clock and true time
  MaxClock    \* bound: time stops here

ASSUME IntakeAssumption ==
  /\ IsFiniteSet(Key)
  /\ LegacyKey \subseteq Key
  /\ LegacyPayload \in Payload
  /\ NoClient \notin Client
  /\ Capacity \in Nat \ {0}
  /\ Unit \in Nat \ {0}
  /\ Refill \in Nat \ {0}
  /\ Skew \in Nat
  /\ MaxClock \in Nat

VARIABLES
  clock,    \* true time
  rows,     \* resume_cloud_tasks by idempotency_key, as committed
  buckets,  \* resume_cloud_rate_limits by client, as committed
  handler,  \* the request each handler is serving
  opened    \* ghost: the stamp each client's bucket was opened with

vars == <<clock, rows, buckets, handler, opened>>

Full == Capacity * Unit

NoRow == [none |-> "row"]
Row == [payload : Payload, client : Client \cup {NoClient}]

NoBucket == [none |-> "bucket"]
Bucket == [tokens : 0..Full, updated : Int]

\* insert: about to insert the row; spend: its row is inserted, its bucket not
\* yet touched; spent, denied: the bucket's verdict; replay: the key exists.
PC == {"idle", "insert", "spend", "spent", "denied", "replay"}
Answer == {"none", "created", "limited", "replayed", "conflict"}

Request == [pc : PC, key : Key, client : Client, payload : Payload, now : Int,
            after : Bucket \cup {NoBucket}, answer : Answer]
Nobody == [pc |-> "idle", answer |-> "none"]

TypeOK ==
  /\ clock \in Nat
  /\ rows \in [Key -> Row \cup {NoRow}]
  /\ buckets \in [Client -> Bucket \cup {NoBucket}]
  /\ handler \in [Handler -> Request \cup {Nobody}]
  /\ opened \in [Client -> Int]

Init ==
  /\ clock = 0
  /\ rows = [k \in Key |-> IF k \in LegacyKey
                             THEN [payload |-> LegacyPayload, client |-> NoClient]
                             ELSE NoRow]
  /\ buckets = [c \in Client |-> NoBucket]
  /\ handler = [h \in Handler |-> Nobody]
  /\ opened = [c \in Client |-> 0]

-----------------------------------------------------------------------------
(* The token bucket: the two statements of _consume_rate_limit             *)

Least(a, b)    == IF a <= b THEN a ELSE b
Greatest(a, b) == IF a <= b THEN b ELSE a

\* The bucket the conflict-safe INSERT leaves behind.
OpenBucket(bucket, now) ==
  IF bucket = NoBucket THEN [tokens |-> Full, updated |-> now] ELSE bucket

Available(bucket, now) ==
  Least(Full, bucket.tokens + Greatest(0, now - bucket.updated) * Refill)

Allowed(bucket, now) == Available(bucket, now) >= Unit

\* Mutant of Spend: the stored timestamp follows the request, even backwards.
SpendAtRequestTime(bucket, now) ==
  [tokens  |-> Available(bucket, now) - IF Allowed(bucket, now) THEN Unit ELSE 0,
   updated |-> now]

Spend(bucket, now) ==
  [tokens  |-> Available(bucket, now) - IF Allowed(bucket, now) THEN Unit ELSE 0,
   updated |-> Greatest(bucket.updated, now)]

-----------------------------------------------------------------------------
(* Locks                                                                   *)

\* Who has inserted a row that is not committed yet, and who has a bucket's lock.
Inserting == {"spend", "spent", "denied"}
Spending  == {"spent", "denied"}

\* ON CONFLICT waits for a transaction that has inserted the same key.
KeyFree(h) ==
  \A g \in Handler : handler[g].pc \in Inserting => handler[g].key # handler[h].key

\* Mutant of BucketFree: a lock on the whole table, held from the insertion on.
BucketsLocked(h) ==
  \A g \in Handler \ {h} : handler[g].pc \notin Inserting

\* INSERT ... ON CONFLICT and SELECT ... FOR UPDATE wait for the bucket's row.
BucketFree(h) ==
  \A g \in Handler : handler[g].pc \in Spending => handler[g].client # handler[h].client

-----------------------------------------------------------------------------
(* One request                                                             *)

\* The request has been validated and its payload hashed; rate_limit_now is
\* read before the transaction begins.
Receive(h) ==
  /\ handler[h].pc = "idle"
  /\ \E k \in Key, c \in Client, x \in Payload, now \in clock - Skew .. clock + Skew :
       handler' = [handler EXCEPT ![h] =
         [pc |-> "insert", key |-> k, client |-> c, payload |-> x, now |-> now,
          after |-> NoBucket, answer |-> "none"]]
  /\ UNCHANGED <<clock, rows, buckets, opened>>

Insert(h) ==
  /\ handler[h].pc = "insert"
  /\ KeyFree(h)
  /\ handler' = [handler EXCEPT ![h].pc = IF rows[handler[h].key] = NoRow THEN "spend"
                                                                        ELSE "replay"]
  /\ UNCHANGED <<clock, rows, buckets, opened>>

TakeToken(h) ==
  LET bucket == OpenBucket(buckets[handler[h].client], handler[h].now)
  IN  /\ handler[h].pc = "spend"
      /\ BucketFree(h)
      /\ handler' = [handler EXCEPT
           ![h].pc = IF Allowed(bucket, handler[h].now) THEN "spent" ELSE "denied",
           ![h].after = Spend(bucket, handler[h].now)]
      /\ UNCHANGED <<clock, rows, buckets, opened>>

\* The transaction is over and the client has its answer.
Answered(h, answer) ==
  handler' = [handler EXCEPT ![h].pc = "idle", ![h].after = NoBucket, ![h].answer = answer]

\* The row and the spent token become visible together.
Commit(h) ==
  LET c == handler[h].client
  IN  /\ handler[h].pc = "spent"
      /\ rows' = [rows EXCEPT ![handler[h].key] =
                    [payload |-> handler[h].payload, client |-> c]]
      /\ buckets' = [buckets EXCEPT ![c] = handler[h].after]
      /\ opened' = [opened EXCEPT ![c] = IF buckets[c] = NoBucket THEN handler[h].now ELSE @]
      /\ Answered(h, "created")
      /\ UNCHANGED clock

\* RateLimitExceeded rolls the row and the bucket back.
Deny(h) ==
  /\ handler[h].pc = "denied"
  /\ Answered(h, "limited")
  /\ UNCHANGED <<clock, rows, buckets, opened>>

\* Mutant of Matches: only the payload is compared.
MatchesPayload(row, request) == row.payload = request.payload

Matches(row, request) ==
  /\ row.payload = request.payload
  /\ row.client \in {NoClient, request.client}

\* The existing row is locked and compared; nothing is written.
Replay(h) ==
  /\ handler[h].pc = "replay"
  /\ Answered(h, IF Matches(rows[handler[h].key], handler[h]) THEN "replayed" ELSE "conflict")
  /\ UNCHANGED <<clock, rows, buckets, opened>>

\* The process or its connection dies: PostgreSQL rolls the transaction back,
\* and the client never hears of it.
Crash(h) ==
  /\ handler[h].pc # "idle"
  /\ Answered(h, "none")
  /\ UNCHANGED <<clock, rows, buckets, opened>>

Tick ==
  /\ clock < MaxClock
  /\ clock' = clock + 1
  /\ UNCHANGED <<rows, buckets, handler, opened>>

Serve(h) == Insert(h) \/ TakeToken(h) \/ Commit(h) \/ Deny(h) \/ Replay(h)

Next ==
  \/ \E h \in Handler : Receive(h) \/ Serve(h) \/ Crash(h)
  \/ Tick

Spec == Init /\ [][Next]_vars

-----------------------------------------------------------------------------
(* Properties                                                              *)

\* The tasks created for a client, the legacy ones aside.
CreatedFor(c) == {k \in Key : rows[k] # NoRow /\ rows[k].client = c}

\* However many instances serve a client and however their clocks disagree, it
\* is never admitted more often than the capacity and the refill since its
\* first request allow (ADR-0008: clamped clocks, no burst per instance).
RateBound ==
  \A c \in Client :
    Cardinality(CreatedFor(c)) * Unit <= Full + (clock + Skew - opened[c]) * Refill

\* What a client was told about its key stays true: a task it was given is the
\* task of its own payload and partition, and a conflict is a real one.
AnswersStand ==
  \A h \in Handler :
    /\ handler[h].answer \in {"created", "replayed"} =>
         /\ rows[handler[h].key] # NoRow
         /\ rows[handler[h].key].payload = handler[h].payload
         /\ rows[handler[h].key].client \in {NoClient, handler[h].client}
    /\ handler[h].answer = "conflict" =>
         \/ rows[handler[h].key].payload # handler[h].payload
         \/ rows[handler[h].key].client # handler[h].client

\* Two requests with one key, at whatever moment they arrive, never both create.
CreatedOnce ==
  \A g, h \in Handler :
    /\ handler[g].pc = "spent" /\ handler[h].pc \in Inserting
    /\ handler[g].key = handler[h].key
    => g = h

\* A task and its token appear in the same transaction: no task is free, and a
\* replay, a conflict, a denial or a crash leaves every bucket as it was.
TokenForTask ==
  [][\A c \in Client : buckets'[c] # buckets[c] <=> CreatedFor(c)' # CreatedFor(c)]_vars

\* An accepted task is never overwritten by a later request.
AcceptedStays ==
  [][\A k \in Key : rows[k] # NoRow => rows'[k] = rows[k]]_vars

\* Requests that wait for keys and buckets never all wait for each other.
NobodyStuck ==
  (\E h \in Handler : handler[h].pc # "idle") =>
    \E h \in Handler :
      /\ handler[h].pc # "idle"
      /\ handler[h].pc = "insert" => KeyFree(h)
      /\ handler[h].pc = "spend"  => BucketFree(h)
=============================================================================
