-------------------------- MODULE ResumeIntakeProofs --------------------------
(***************************************************************************)
(* Theorems about ResumeIntake, for any number of handlers, keys and       *)
(* clients, any capacity and refill rate and any skew between the clocks.  *)
(***************************************************************************)
EXTENDS ResumeIntake, FiniteSetTheorems, TLAPS

-----------------------------------------------------------------------------
(* The inductive invariant                                                 *)

\* A key is being inserted by one transaction at a time, and only while no row
\* has it; a bucket is locked by one.
Locks ==
  /\ \A g, h \in Handler :
       /\ handler[g].pc \in Inserting /\ handler[h].pc \in Inserting
       /\ handler[g].key = handler[h].key
       => g = h
  /\ \A g, h \in Handler :
       /\ handler[g].pc \in Spending /\ handler[h].pc \in Spending
       /\ handler[g].client = handler[h].client
       => g = h
  /\ \A h \in Handler : handler[h].pc \in Inserting => rows[handler[h].key] = NoRow
  /\ \A h \in Handler : handler[h].pc = "replay" => rows[handler[h].key] # NoRow

\* What a transaction has done to its client's bucket is still what it would
\* do to the committed one.
Verdicts ==
  \A h \in Handler : handler[h].pc \in Spending =>
    LET bucket == OpenBucket(buckets[handler[h].client], handler[h].now)
    IN  /\ handler[h].after = Spend(bucket, handler[h].now)
        /\ handler[h].pc = "spent" <=> Allowed(bucket, handler[h].now)

\* No request carries a stamp from beyond the skew.
Stamps ==
  \A h \in Handler : handler[h].pc # "idle" => handler[h].now <= clock + Skew

\* What a client has used and what it has left never exceed what the bucket
\* was given since it was opened.
Within(c, bucket, used) ==
  /\ used * Unit + bucket.tokens <= Full + (bucket.updated - opened[c]) * Refill
  /\ opened[c] <= bucket.updated
  /\ bucket.updated <= clock + Skew

Budget ==
  \A c \in Client :
    IF buckets[c] = NoBucket
    THEN CreatedFor(c) = {} /\ opened[c] = 0
    ELSE Within(c, buckets[c], Cardinality(CreatedFor(c)))

IntakeInv == TypeOK /\ Locks /\ Verdicts /\ Stamps /\ Budget

-----------------------------------------------------------------------------
(* The bucket                                                              *)

LEMMA FullType == Full \in Nat /\ Full >= Unit /\ Unit \in Nat /\ Refill \in Nat
<1>1. Capacity \in Nat /\ Unit \in Nat /\ Refill \in Nat /\ Capacity >= 1 /\ Unit >= 1
  BY IntakeAssumption
<1>2. Capacity * Unit \in Nat /\ Capacity * Unit >= Unit
  BY <1>1
<1> QED BY <1>1, <1>2 DEF Full

LEMMA OpenBucketType ==
  ASSUME NEW bucket \in Bucket \cup {NoBucket}, NEW now \in Int
  PROVE  OpenBucket(bucket, now) \in Bucket
BY FullType DEF OpenBucket, Bucket

\* Refilling and spending keep the bucket between empty and full, and never
\* move its timestamp back.
LEMMA SpendSound ==
  ASSUME NEW bucket \in Bucket, NEW now \in Int
  PROVE  LET new == Spend(bucket, now) IN
           /\ new \in Bucket
           /\ new.updated = Greatest(bucket.updated, now)
           /\ Allowed(bucket, now) =>
                new.tokens + Unit <= bucket.tokens + (new.updated - bucket.updated) * Refill
<1> DEFINE gap == Greatest(0, now - bucket.updated)
           more == gap * Refill
           have == Available(bucket, now)
<1>1. bucket.tokens \in 0..Full /\ bucket.updated \in Int
  BY DEF Bucket
<1>2. gap \in Nat /\ Greatest(bucket.updated, now) - bucket.updated = gap
  BY <1>1 DEF Greatest
<1>3. more \in Nat
  BY <1>2, FullType
<1>4. have = Least(Full, bucket.tokens + more)
  BY DEF Available
<1> HIDE DEF more
<1>5. have \in 0..Full /\ have <= bucket.tokens + more
  BY <1>1, <1>3, <1>4, FullType DEF Least
<1>6. Allowed(bucket, now) <=> have >= Unit
  BY DEF Allowed
<1> DEFINE paid == IF Allowed(bucket, now) THEN Unit ELSE 0
<1>7. Spend(bucket, now) = [tokens |-> have - paid, updated |-> Greatest(bucket.updated, now)]
  BY DEF Spend
<1> HIDE DEF have
<1>8. have - paid \in 0..Full /\ Greatest(bucket.updated, now) \in Int
  BY <1>1, <1>5, <1>6, FullType DEF Greatest
<1>9. Spend(bucket, now) \in Bucket
  BY <1>7, <1>8 DEF Bucket
<1>10. Allowed(bucket, now) => (have - paid) + Unit <= bucket.tokens + more
  BY <1>1, <1>3, <1>5, FullType
<1> QED BY <1>2, <1>7, <1>9, <1>10 DEF more

-----------------------------------------------------------------------------
(* Type correctness                                                        *)

LEMMA InitInv == Init => IntakeInv
<1> SUFFICES ASSUME Init PROVE IntakeInv
  OBVIOUS
<1>1. TypeOK
  BY IntakeAssumption DEF Init, TypeOK, Row, Nobody
<1>2. \A h \in Handler : handler[h].pc = "idle"
  BY DEF Init, Nobody
<1>3. Locks /\ Verdicts /\ Stamps
  BY <1>2 DEF Locks, Verdicts, Stamps, Inserting, Spending
<1>4. \A c \in Client : buckets[c] = NoBucket /\ opened[c] = 0 /\ CreatedFor(c) = {}
  BY IntakeAssumption DEF Init, CreatedFor
<1>5. Budget
  BY <1>4 DEF Budget
<1> QED BY <1>1, <1>3, <1>5 DEF IntakeInv

LEMMA ServedType ==
  ASSUME TypeOK, NEW h \in Handler, handler[h].pc # "idle"
  PROVE  handler[h] \in Request
BY DEF TypeOK, Nobody

LEMMA PCType ==
  /\ PC = {"idle", "insert", "spend", "spent", "denied", "replay"}
  /\ Inserting = {"spend", "spent", "denied"}
  /\ Spending = {"spent", "denied"}
BY DEF PC, Inserting, Spending

-----------------------------------------------------------------------------
(* Every step preserves it                                                 *)

\* A handler's step with nothing committed: `new` must satisfy the invariant
\* on its own account and collide with nobody.
LEMMA LocalStep ==
  ASSUME IntakeInv, UNCHANGED <<clock, rows, buckets, opened>>,
         NEW h \in Handler, NEW new \in Request, handler' = [handler EXCEPT ![h] = new],
         new.pc \in Inserting =>
           /\ rows[new.key] = NoRow
           /\ \A g \in Handler \ {h} : handler[g].pc \in Inserting => handler[g].key # new.key,
         new.pc \in Spending =>
           /\ \A g \in Handler \ {h} : handler[g].pc \in Spending => handler[g].client # new.client
           /\ LET bucket == OpenBucket(buckets[new.client], new.now)
              IN  /\ new.after = Spend(bucket, new.now)
                  /\ new.pc = "spent" <=> Allowed(bucket, new.now),
         new.pc = "replay" => rows[new.key] # NoRow,
         new.pc # "idle" => new.now <= clock + Skew
  PROVE  IntakeInv'
<1>1. handler'[h] = new /\ \A g \in Handler \ {h} : handler'[g] = handler[g]
  BY DEF IntakeInv, TypeOK
<1>2. TypeOK'
  BY DEF IntakeInv, TypeOK
<1>3. Locks'
  <2>1. \A f, g \in Handler :
          /\ handler'[f].pc \in Inserting /\ handler'[g].pc \in Inserting
          /\ handler'[f].key = handler'[g].key
          => f = g
    BY <1>1 DEF IntakeInv, Locks
  <2>2. \A f, g \in Handler :
          /\ handler'[f].pc \in Spending /\ handler'[g].pc \in Spending
          /\ handler'[f].client = handler'[g].client
          => f = g
    BY <1>1 DEF IntakeInv, Locks
  <2>3. \A g \in Handler : handler'[g].pc \in Inserting => rows[handler'[g].key] = NoRow
    BY <1>1 DEF IntakeInv, Locks
  <2>4. \A g \in Handler : handler'[g].pc = "replay" => rows[handler'[g].key] # NoRow
    BY <1>1 DEF IntakeInv, Locks
  <2> QED BY <2>1, <2>2, <2>3, <2>4 DEF Locks
<1>4. Verdicts'
  BY <1>1 DEF IntakeInv, Verdicts
<1>5. Stamps'
  BY <1>1 DEF IntakeInv, Stamps
<1>6. Budget'
  BY DEF IntakeInv, Budget, Within, CreatedFor
<1> QED BY <1>2, <1>3, <1>4, <1>5, <1>6 DEF IntakeInv

LEMMA ReceiveStep ==
  ASSUME IntakeInv, NEW h \in Handler, Receive(h)
  PROVE  IntakeInv'
<1>1. PICK k \in Key, c \in Client, x \in Payload, now \in clock - Skew .. clock + Skew :
        handler' = [handler EXCEPT ![h] =
          [pc |-> "insert", key |-> k, client |-> c, payload |-> x, now |-> now,
           after |-> NoBucket, answer |-> "none"]]
  BY DEF Receive
<1> DEFINE new == [pc |-> "insert", key |-> k, client |-> c, payload |-> x, now |-> now,
                   after |-> NoBucket, answer |-> "none"]
<1>2. now \in Int /\ now <= clock + Skew
  BY IntakeAssumption DEF IntakeInv, TypeOK
<1>3. new \in Request
  BY <1>2 DEF Request, PC, Answer
<1>4. new.pc = "insert" /\ new.now = now
  OBVIOUS
<1>5. handler' = [handler EXCEPT ![h] = new]
  BY <1>1
<1> HIDE DEF new
<1>6. UNCHANGED <<clock, rows, buckets, opened>>
  BY DEF Receive
<1> QED BY <1>2, <1>3, <1>4, <1>5, <1>6, PCType, LocalStep

\* A change of pc and nothing else; `now`, `key` and `client` stay.
LEMMA InsertStep ==
  ASSUME IntakeInv, NEW h \in Handler, Insert(h)
  PROVE  IntakeInv'
<1> DEFINE pc  == IF rows[handler[h].key] = NoRow THEN "spend" ELSE "replay"
           new == [handler[h] EXCEPT !.pc = pc]
<1>1. handler[h].pc = "insert" /\ handler[h] \in Request
  BY ServedType DEF Insert, IntakeInv
<1>2. /\ new \in Request
      /\ new.pc = pc /\ new.key = handler[h].key /\ new.now = handler[h].now
  BY <1>1, PCType DEF Request
<1>3. handler' = [handler EXCEPT ![h] = new]
  BY DEF Insert
<1>4. new.now <= clock + Skew
  BY <1>1, <1>2 DEF IntakeInv, Stamps
<1>5. UNCHANGED <<clock, rows, buckets, opened>> /\ KeyFree(h)
  BY DEF Insert
<1> HIDE DEF new
<1>6. pc = "spend" => /\ rows[new.key] = NoRow
                      /\ \A g \in Handler : handler[g].pc \in Inserting => handler[g].key # new.key
  BY <1>2, <1>5 DEF KeyFree
<1>7. pc = "replay" => rows[new.key] # NoRow
  BY <1>2
<1>8. pc \in {"spend", "replay"}
  OBVIOUS
<1> HIDE DEF pc
<1> QED BY <1>2, <1>3, <1>4, <1>5, <1>6, <1>7, <1>8, PCType, LocalStep

LEMMA TakeTokenStep ==
  ASSUME IntakeInv, NEW h \in Handler, TakeToken(h)
  PROVE  IntakeInv'
<1> DEFINE bucket == OpenBucket(buckets[handler[h].client], handler[h].now)
           pc     == IF Allowed(bucket, handler[h].now) THEN "spent" ELSE "denied"
           after  == Spend(bucket, handler[h].now)
           new    == [handler[h] EXCEPT !.pc = pc, !.after = after]
<1>1. handler[h].pc = "spend" /\ handler[h] \in Request
  BY ServedType DEF TakeToken, IntakeInv
<1>2. handler[h].client \in Client /\ handler[h].now \in Int
  BY <1>1 DEF Request
<1>3. bucket \in Bucket
  BY <1>2, OpenBucketType DEF IntakeInv, TypeOK
<1>4. after \in Bucket
  BY <1>2, <1>3, SpendSound
<1>5. pc \in {"spent", "denied"} /\ (pc = "spent" <=> Allowed(bucket, handler[h].now))
  OBVIOUS
<1>6. handler' = [handler EXCEPT ![h] = new]
  BY DEF TakeToken
<1>7. UNCHANGED <<clock, rows, buckets, opened>> /\ BucketFree(h)
  BY DEF TakeToken
<1>8. after = Spend(bucket, handler[h].now) /\ bucket = OpenBucket(buckets[handler[h].client], handler[h].now)
  OBVIOUS
<1> HIDE DEF bucket, pc, after
<1>9. /\ new \in Request
      /\ new.pc = pc /\ new.key = handler[h].key /\ new.now = handler[h].now
      /\ new.client = handler[h].client /\ new.after = after
  BY <1>1, <1>4, <1>5, PCType DEF Request
<1> HIDE DEF new
<1>10. new.now <= clock + Skew
  BY <1>1, <1>9 DEF IntakeInv, Stamps
<1>11. /\ rows[new.key] = NoRow
       /\ \A g \in Handler \ {h} : handler[g].pc \in Inserting => handler[g].key # new.key
  BY <1>1, <1>9, PCType DEF IntakeInv, Locks
<1>12. \A g \in Handler \ {h} : handler[g].pc \in Spending => handler[g].client # new.client
  BY <1>7, <1>9 DEF BucketFree
<1> QED BY <1>5, <1>6, <1>7, <1>8, <1>9, <1>10, <1>11, <1>12, PCType, LocalStep

\* The end of a transaction that changes nothing.
LEMMA EndStep ==
  ASSUME IntakeInv, NEW h \in Handler, Deny(h) \/ Replay(h) \/ Crash(h)
  PROVE  IntakeInv'
<1>1. handler[h].pc # "idle" /\ UNCHANGED <<clock, rows, buckets, opened>>
  BY DEF Deny, Replay, Crash
<1>2. PICK answer \in Answer : Answered(h, answer)
  BY DEF Deny, Replay, Crash, Answer
<1> DEFINE new == [handler[h] EXCEPT !.pc = "idle", !.after = NoBucket, !.answer = answer]
<1>3. handler[h] \in Request
  BY <1>1, ServedType DEF IntakeInv
<1>4. new \in Request /\ new.pc = "idle"
  BY <1>3, PCType DEF Request
<1>5. handler' = [handler EXCEPT ![h] = new]
  BY <1>2 DEF Answered
<1> HIDE DEF new
<1> QED BY <1>1, <1>4, <1>5, PCType, LocalStep

LEMMA TickStep ==
  ASSUME IntakeInv, Tick
  PROVE  IntakeInv'
<1>1. clock \in Nat /\ clock' = clock + 1 /\ UNCHANGED <<rows, buckets, handler, opened>>
  BY DEF Tick, IntakeInv, TypeOK
<1>2. TypeOK'
  BY <1>1 DEF IntakeInv, TypeOK
<1>3. Locks' /\ Verdicts'
  BY <1>1 DEF IntakeInv, Locks, Verdicts
<1>4. Stamps'
  <2>1. \A h \in Handler : handler[h].pc # "idle" => handler[h].now \in Int
    BY ServedType DEF IntakeInv, Request
  <2> QED BY <1>1, <2>1, IntakeAssumption DEF IntakeInv, Stamps
<1>5. Budget'
  <2>1. \A c \in Client : CreatedFor(c)' = CreatedFor(c)
    BY <1>1 DEF CreatedFor
  <2>2. \A c \in Client : buckets[c] # NoBucket => buckets[c].updated \in Int
    BY DEF IntakeInv, TypeOK, Bucket
  <2> QED BY <1>1, <2>1, <2>2, IntakeAssumption DEF IntakeInv, Budget, Within
<1> QED BY <1>2, <1>3, <1>4, <1>5 DEF IntakeInv

LEMMA StutterStep ==
  ASSUME IntakeInv, UNCHANGED vars
  PROVE  IntakeInv'
BY DEF vars, IntakeInv, TypeOK, Locks, Verdicts, Stamps, Budget, Within, CreatedFor

\* A commit takes one token of one client and makes one task of that client,
\* and touches nobody else's.
LEMMA CommitCreates ==
  ASSUME IntakeInv, NEW h \in Handler, Commit(h),
         NEW c \in Client, c = handler[h].client, NEW k \in Key, k = handler[h].key
  PROVE  /\ \A d \in Client : d # c => /\ buckets'[d] = buckets[d] /\ opened'[d] = opened[d]
                                       /\ CreatedFor(d)' = CreatedFor(d)
         /\ CreatedFor(c)' = CreatedFor(c) \cup {k} /\ k \notin CreatedFor(c)
         /\ buckets'[c] = handler[h].after /\ handler[h].after \in Bucket
         /\ buckets[c] # handler[h].after
<1> DEFINE r      == handler[h]
           row    == [payload |-> r.payload, client |-> c]
           bucket == OpenBucket(buckets[c], r.now)
<1>1. r.pc = "spent" /\ r \in Request /\ r.now \in Int
  BY ServedType DEF Commit, IntakeInv, Request
<1>2. row.client = c /\ row # NoRow
  BY DEF NoRow
<1>3. rows[k] = NoRow
  BY <1>1, PCType DEF IntakeInv, Locks
<1>4. bucket \in Bucket
  BY <1>1, OpenBucketType DEF IntakeInv, TypeOK
<1>5. r.after = Spend(bucket, r.now) /\ Allowed(bucket, r.now)
  BY <1>1, PCType DEF IntakeInv, Verdicts
<1>6. /\ r.after \in Bucket
      /\ r.after.tokens + Unit <= bucket.tokens + (r.after.updated - bucket.updated) * Refill
  BY <1>1, <1>4, <1>5, SpendSound
<1>7. /\ rows' = [rows EXCEPT ![k] = row]
      /\ buckets' = [buckets EXCEPT ![c] = r.after]
      /\ \A d \in Client : d # c => opened'[d] = opened[d]
  BY DEF Commit, IntakeInv, TypeOK
<1>8. buckets[c] # r.after
  <2>1. CASE buckets[c] = NoBucket
    BY <1>6, <2>1 DEF Bucket, NoBucket
  <2>2. CASE buckets[c] # NoBucket /\ r.after = bucket
    <3>1. bucket.tokens \in Nat /\ bucket.updated \in Int
      BY <1>4, FullType DEF Bucket
    <3>2. bucket.tokens + Unit <= bucket.tokens + (bucket.updated - bucket.updated) * Refill
      BY <1>6, <2>2
    <3>3. (bucket.updated - bucket.updated) * Refill = 0
      BY <3>1, FullType
    <3> QED BY <3>1, <3>2, <3>3, IntakeAssumption
  <2>3. CASE buckets[c] # NoBucket /\ r.after # bucket
    BY <2>3 DEF OpenBucket
  <2> QED BY <2>1, <2>2, <2>3
<1> HIDE DEF row, r
<1>9. rows'[k] = row /\ \A j \in Key \ {k} : rows'[j] = rows[j]
  BY <1>7 DEF IntakeInv, TypeOK
<1>10. ASSUME NEW d \in Client, d # c PROVE CreatedFor(d)' = CreatedFor(d)
  BY <1>2, <1>3, <1>9, <1>10 DEF CreatedFor
<1>11. CreatedFor(c)' = CreatedFor(c) \cup {k} /\ k \notin CreatedFor(c)
  BY <1>2, <1>3, <1>9 DEF CreatedFor
<1>12. buckets'[c] = r.after /\ \A d \in Client : d # c => buckets'[d] = buckets[d]
  BY <1>7 DEF IntakeInv, TypeOK
<1> QED BY <1>6, <1>7, <1>8, <1>10, <1>11, <1>12 DEF r

\* A creation spends from the bucket it found: the budget goes down by one
\* token as the number of the client's tasks goes up by one.
LEMMA CommitStep ==
  ASSUME IntakeInv, NEW h \in Handler, Commit(h)
  PROVE  IntakeInv'
<1> DEFINE r == handler[h]
<1>1. r.pc = "spent" /\ r \in Request
  BY ServedType DEF Commit, IntakeInv
<1>0. PICK c \in Client, k \in Key : c = r.client /\ k = r.key
  BY <1>1 DEF Request
<1> DEFINE row == [payload |-> r.payload, client |-> c]
           new == [r EXCEPT !.pc = "idle", !.after = NoBucket, !.answer = "created"]
           bucket == OpenBucket(buckets[c], r.now)
<1>2. c \in Client /\ k \in Key /\ r.now \in Int /\ r.payload \in Payload
  BY <1>1 DEF Request
<1>3. row \in Row /\ row.client = c /\ row # NoRow
  BY <1>2 DEF Row, NoRow
<1>4. rows[k] = NoRow
  BY <1>0, <1>1, PCType DEF IntakeInv, Locks
<1>5. bucket \in Bucket
  BY <1>2, OpenBucketType DEF IntakeInv, TypeOK
<1>6. r.after = Spend(bucket, r.now) /\ Allowed(bucket, r.now)
  BY <1>0, <1>1, PCType DEF IntakeInv, Verdicts
<1>7. /\ r.after \in Bucket
      /\ r.after.updated = Greatest(bucket.updated, r.now)
      /\ r.after.tokens + Unit <= bucket.tokens + (r.after.updated - bucket.updated) * Refill
  BY <1>2, <1>5, <1>6, SpendSound
<1>8. new \in Request /\ new.pc = "idle"
  BY <1>1, PCType DEF Request, Answer
<1>9. /\ rows' = [rows EXCEPT ![k] = row]
      /\ buckets' = [buckets EXCEPT ![c] = r.after]
      /\ opened' = [opened EXCEPT ![c] = IF buckets[c] = NoBucket THEN r.now ELSE opened[c]]
      /\ handler' = [handler EXCEPT ![h] = new]
      /\ clock' = clock
  BY <1>0 DEF Commit, Answered
<1>10. bucket = IF buckets[c] = NoBucket THEN [tokens |-> Full, updated |-> r.now] ELSE buckets[c]
  BY DEF OpenBucket
<1>11. /\ \A g \in Handler \ {h} : handler[g].pc \in Inserting => handler[g].key # k
       /\ \A g \in Handler \ {h} : handler[g].pc \in Spending => handler[g].client # c
       /\ r.now <= clock + Skew
  BY <1>0, <1>1, PCType DEF IntakeInv, Locks, Stamps
<1> HIDE DEF r, row, new, bucket
<1>12. handler'[h] = new /\ \A g \in Handler \ {h} : handler'[g] = handler[g]
  BY <1>9 DEF IntakeInv, TypeOK
<1>13. TypeOK'
  <2>1. rows' \in [Key -> Row \cup {NoRow}]
    BY <1>3, <1>9 DEF IntakeInv, TypeOK
  <2>2. buckets' \in [Client -> Bucket \cup {NoBucket}]
    BY <1>7, <1>9 DEF IntakeInv, TypeOK
  <2>3. opened' \in [Client -> Int]
    BY <1>2, <1>9 DEF IntakeInv, TypeOK
  <2>4. handler' \in [Handler -> Request \cup {Nobody}]
    BY <1>8, <1>9 DEF IntakeInv, TypeOK
  <2> QED BY <1>9, <2>1, <2>2, <2>3, <2>4 DEF IntakeInv, TypeOK
<1>14. Locks'
  <2>1. \A g \in Handler : handler'[g].pc \in Inserting => g # h /\ handler'[g] = handler[g]
    BY <1>8, <1>12, PCType
  <2>2. \A g \in Handler : handler'[g].pc \in Spending => g # h /\ handler'[g] = handler[g]
    BY <1>8, <1>12, PCType
  <2>3. \A g \in Handler : handler'[g].pc = "replay" => g # h /\ handler'[g] = handler[g]
    BY <1>8, <1>12
  <2>4. \A g \in Handler : handler'[g].pc \in Inserting => rows'[handler'[g].key] = NoRow
    BY <1>9, <1>11, <2>1 DEF IntakeInv, Locks, TypeOK
  <2>5. \A g \in Handler : handler'[g].pc = "replay" => rows'[handler'[g].key] # NoRow
    BY <1>3, <1>9, <2>3 DEF IntakeInv, Locks, TypeOK
  <2>6. \A f, g \in Handler :
          /\ handler'[f].pc \in Inserting /\ handler'[g].pc \in Inserting
          /\ handler'[f].key = handler'[g].key
          => f = g
    BY <2>1 DEF IntakeInv, Locks
  <2>7. \A f, g \in Handler :
          /\ handler'[f].pc \in Spending /\ handler'[g].pc \in Spending
          /\ handler'[f].client = handler'[g].client
          => f = g
    BY <2>2 DEF IntakeInv, Locks
  <2> QED BY <2>4, <2>5, <2>6, <2>7 DEF Locks
<1>15. Verdicts'
  <2>1. \A g \in Handler : handler'[g].pc \in Spending =>
          /\ g # h /\ handler'[g] = handler[g]
          /\ buckets'[handler[g].client] = buckets[handler[g].client]
    BY <1>8, <1>9, <1>11, <1>12, PCType DEF IntakeInv, TypeOK
  <2> QED BY <2>1 DEF IntakeInv, Verdicts
<1>16. Stamps'
  BY <1>8, <1>9, <1>12 DEF IntakeInv, Stamps
<1>17. /\ \A d \in Client : d # c => /\ buckets'[d] = buckets[d] /\ opened'[d] = opened[d]
                                      /\ CreatedFor(d)' = CreatedFor(d)
       /\ CreatedFor(c)' = CreatedFor(c) \cup {k} /\ k \notin CreatedFor(c)
       /\ buckets'[c] = r.after /\ r.after \in Bucket
  BY <1>0, <1>2, CommitCreates DEF r
<1> DEFINE used == Cardinality(CreatedFor(c))
<1>19. used \in Nat /\ Cardinality(CreatedFor(c))' = used + 1
  <2>1. IsFiniteSet(CreatedFor(c))
    BY IntakeAssumption, FS_Subset DEF CreatedFor
  <2> QED BY <1>17, <2>1, FS_AddElement, FS_CardinalityType
<1>20. buckets'[c] = r.after /\ r.after # NoBucket
  BY <1>17 DEF Bucket, NoBucket
<1>21. /\ used * Unit + bucket.tokens <= Full + (bucket.updated - opened'[c]) * Refill
       /\ opened'[c] <= bucket.updated
       /\ bucket.updated <= clock + Skew
  <2>1. CASE buckets[c] = NoBucket
    <3>1. used = 0 /\ opened'[c] = r.now /\ bucket.tokens = Full /\ bucket.updated = r.now
      BY <1>2, <1>9, <1>10, <2>1, FS_EmptySet DEF IntakeInv, TypeOK, Budget
    <3> QED BY <1>2, <1>11, <3>1, FullType
  <2>2. CASE buckets[c] # NoBucket
    <3>1. opened'[c] = opened[c] /\ bucket = buckets[c]
      BY <1>2, <1>9, <1>10, <2>2 DEF IntakeInv, TypeOK
    <3> QED BY <1>2, <2>2, <3>1 DEF IntakeInv, Budget, Within
  <2> QED BY <2>1, <2>2
<1> HIDE DEF used
<1>22. /\ (used + 1) * Unit + r.after.tokens <= Full + (r.after.updated - opened'[c]) * Refill
       /\ opened'[c] <= r.after.updated
       /\ r.after.updated <= clock + Skew
  <2>1. /\ bucket.tokens \in Nat /\ r.after.tokens \in Nat /\ bucket.updated \in Int
        /\ r.after.updated \in Int /\ opened'[c] \in Int /\ clock + Skew \in Int
    BY <1>2, <1>5, <1>7, <1>9, <1>13, FullType, IntakeAssumption DEF Bucket, TypeOK
  <2>2. r.after.updated <= clock + Skew /\ bucket.updated <= r.after.updated
    BY <1>2, <1>7, <1>11, <1>21, <2>1 DEF Greatest
  <2>3. (used + 1) * Unit = used * Unit + Unit
    BY <1>19, FullType
  <2>4. (bucket.updated - opened'[c]) * Refill + (r.after.updated - bucket.updated) * Refill
          = (r.after.updated - opened'[c]) * Refill
    BY <2>1, FullType
  <2>5. /\ used * Unit \in Nat /\ (bucket.updated - opened'[c]) * Refill \in Int
        /\ (r.after.updated - bucket.updated) * Refill \in Int
    BY <1>19, <2>1, FullType
  <2>6. used * Unit + Unit + r.after.tokens
          <= Full + (bucket.updated - opened'[c]) * Refill + (r.after.updated - bucket.updated) * Refill
    <3> DEFINE A == used * Unit
               B == (bucket.updated - opened'[c]) * Refill
               D == (r.after.updated - bucket.updated) * Refill
    <3>1. A \in Nat /\ B \in Int /\ D \in Int
      BY <2>5
    <3>2. A + bucket.tokens <= Full + B /\ r.after.tokens + Unit <= bucket.tokens + D
      BY <1>7, <1>21
    <3> HIDE DEF A, B, D
    <3>3. A + Unit + r.after.tokens <= Full + B + D
      BY <2>1, <3>1, <3>2, FullType
    <3> QED BY <3>3 DEF A, B, D
  <2> QED BY <1>21, <2>1, <2>2, <2>3, <2>4, <2>5, <2>6, FullType
<1>23. Budget'
  <2>1. ASSUME NEW d \in Client
        PROVE  IF buckets'[d] = NoBucket
               THEN CreatedFor(d)' = {} /\ opened'[d] = 0
               ELSE Within(d, buckets[d], Cardinality(CreatedFor(d)))'
    <3>1. CASE d = c
      BY <1>9, <1>19, <1>20, <1>22, <3>1 DEF Within
    <3>2. CASE d # c
      BY <1>9, <1>17, <3>2 DEF IntakeInv, Budget, Within
    <3> QED BY <3>1, <3>2
  <2> QED BY <2>1 DEF Budget
<1> QED BY <1>13, <1>14, <1>15, <1>16, <1>23 DEF IntakeInv

LEMMA NextInv == IntakeInv /\ [Next]_vars => IntakeInv'
BY ReceiveStep, InsertStep, TakeTokenStep, CommitStep, EndStep, TickStep, StutterStep
DEF Next, Serve

-----------------------------------------------------------------------------
(* The theorems                                                            *)

THEOREM IntakeInvariance == Spec => []IntakeInv
BY InitInv, NextInv, PTL DEF Spec

\* Rows, buckets and requests keep their types; no bucket is ever overdrawn or
\* filled past its capacity.
THEOREM TypeCorrect == Spec => []TypeOK
<1>1. IntakeInv => TypeOK
  BY DEF IntakeInv
<1> QED BY <1>1, IntakeInvariance, PTL

\* No client is admitted beyond its capacity and refill, whatever the number of
\* instances and the disagreement of their clocks.
THEOREM RateBounded == Spec => []RateBound
<1>1. ASSUME IntakeInv PROVE RateBound
  <2>1. ASSUME NEW c \in Client
        PROVE  Cardinality(CreatedFor(c)) * Unit <= Full + (clock + Skew - opened[c]) * Refill
    <3>1. opened[c] \in Int /\ clock \in Nat /\ Skew \in Nat /\ Refill \in Nat
      BY <1>1, IntakeAssumption DEF IntakeInv, TypeOK
    <3>2. CASE buckets[c] = NoBucket
      <4>1. Cardinality(CreatedFor(c)) = 0 /\ opened[c] = 0
        BY <1>1, <3>2, FS_EmptySet DEF IntakeInv, Budget
      <4>2. (clock + Skew) * Refill \in Nat
        BY <3>1
      <4> QED BY <3>1, <4>1, <4>2, FullType
    <3>3. CASE buckets[c] # NoBucket
      <4>1. buckets[c].tokens \in Nat /\ buckets[c].updated \in Int
        BY <1>1, <3>3, FullType DEF IntakeInv, TypeOK, Bucket
      <4>2. /\ Cardinality(CreatedFor(c)) * Unit + buckets[c].tokens
                 <= Full + (buckets[c].updated - opened[c]) * Refill
            /\ buckets[c].updated <= clock + Skew
        BY <1>1, <3>3 DEF IntakeInv, Budget, Within
      <4>3. Cardinality(CreatedFor(c)) * Unit \in Nat
        <5>1. IsFiniteSet(CreatedFor(c))
          BY IntakeAssumption, FS_Subset DEF CreatedFor
        <5> QED BY <5>1, FS_CardinalityType, FullType
      <4>4. (buckets[c].updated - opened[c]) * Refill <= (clock + Skew - opened[c]) * Refill
        BY <3>1, <4>1, <4>2
      <4>5. /\ (buckets[c].updated - opened[c]) * Refill \in Int
            /\ (clock + Skew - opened[c]) * Refill \in Int
        BY <3>1, <4>1
      <4> QED BY <4>1, <4>2, <4>3, <4>4, <4>5, FullType
    <3> QED BY <3>2, <3>3
  <2> QED BY <2>1 DEF RateBound
<1> QED BY <1>1, IntakeInvariance, PTL

\* Of the requests that race for one key, one creates.
THEOREM OneCreation == Spec => []CreatedOnce
<1>1. IntakeInv => CreatedOnce
  BY PCType DEF IntakeInv, Locks, CreatedOnce
<1> QED BY <1>1, IntakeInvariance, PTL

LEMMA RowsStay ==
  ASSUME IntakeInv, [Next]_vars, NEW k \in Key, rows[k] # NoRow
  PROVE  rows'[k] = rows[k]
<1>1. CASE UNCHANGED rows
  BY <1>1
<1>2. ASSUME NEW h \in Handler, Commit(h) PROVE rows'[k] = rows[k]
  <2>1. handler[h].key # k
    BY <1>2, PCType DEF Commit, IntakeInv, Locks
  <2> QED BY <1>2, <2>1 DEF Commit, IntakeInv, TypeOK
<1> QED BY <1>1, <1>2 DEF Next, Serve, Receive, Insert, TakeToken, Deny, Replay, Crash, Tick, vars

\* An accepted task stays what it is.
THEOREM NeverOverwritten == Spec => AcceptedStays
<1>1. IntakeInv /\ [Next]_vars => \A k \in Key : rows[k] # NoRow => rows'[k] = rows[k]
  BY RowsStay
<1> QED BY <1>1, IntakeInvariance, PTL DEF Spec, AcceptedStays

\* What the answer in request r says of the row with its key.
Told(r, row) ==
  /\ r.answer \in {"created", "replayed"} =>
       /\ row # NoRow
       /\ row.payload = r.payload
       /\ row.client \in {NoClient, r.client}
  /\ r.answer = "conflict" =>
       /\ row # NoRow
       /\ row.payload # r.payload \/ row.client # r.client

\* AnswersStand, made inductive: a conflict is with a row that exists.
AnswersTrue == \A h \in Handler : Told(handler[h], rows[handler[h].key])

\* A request that is not answered in this step keeps what it was told.
LEMMA OldAnswerStands ==
  ASSUME IntakeInv, AnswersTrue, [Next]_vars, NEW h \in Handler,
         handler'[h].answer # "none" =>
           /\ handler'[h].answer = handler[h].answer /\ handler'[h].key = handler[h].key
           /\ handler'[h].client = handler[h].client /\ handler'[h].payload = handler[h].payload
  PROVE  Told(handler[h], rows[handler[h].key])'
<1>1. CASE handler'[h].answer = "none"
  BY <1>1 DEF Told
<1>2. CASE handler'[h].answer # "none"
  <2>1. handler[h] \in Request
    BY <1>2 DEF IntakeInv, TypeOK, Nobody
  <2>2. handler[h].key \in Key
    BY <2>1 DEF Request
  <2>3. rows[handler[h].key] # NoRow => rows'[handler[h].key] = rows[handler[h].key]
    BY <2>2, RowsStay
  <2> QED BY <1>2, <2>3 DEF AnswersTrue, Told
<1> QED BY <1>1, <1>2

LEMMA AnswersStep ==
  ASSUME IntakeInv, AnswersTrue, [Next]_vars
  PROVE  AnswersTrue'
<1> SUFFICES ASSUME NEW h \in Handler
             PROVE  Told(handler[h], rows[handler[h].key])'
  BY DEF AnswersTrue
<1>1. CASE UNCHANGED handler
  BY <1>1, OldAnswerStands
<1>2. ASSUME NEW g \in Handler, g # h, Receive(g) \/ Serve(g) \/ Crash(g)
      PROVE  handler'[h] = handler[h]
  BY <1>2 DEF Receive, Serve, Insert, TakeToken, Commit, Deny, Replay, Crash, Answered,
              IntakeInv, TypeOK
<1>3. CASE Receive(h)
  <2>1. handler'[h].answer = "none"
    BY <1>3 DEF Receive, IntakeInv, TypeOK
  <2> QED BY <2>1, OldAnswerStands
<1>4. CASE Insert(h) \/ TakeToken(h)
  <2>1. handler[h] \in Request
    BY <1>4, ServedType DEF Insert, TakeToken, IntakeInv
  <2>2. /\ handler'[h].answer = handler[h].answer /\ handler'[h].key = handler[h].key
        /\ handler'[h].client = handler[h].client /\ handler'[h].payload = handler[h].payload
    BY <1>4, <2>1 DEF Insert, TakeToken, IntakeInv, TypeOK, Request
  <2> QED BY <2>2, OldAnswerStands
<1>5. ASSUME NEW answer, Answered(h, answer), handler[h].pc # "idle"
      PROVE  /\ handler'[h].answer = answer /\ handler'[h].key = handler[h].key
             /\ handler'[h].client = handler[h].client /\ handler'[h].payload = handler[h].payload
             /\ handler[h].key \in Key
  BY <1>5, ServedType DEF Answered, IntakeInv, TypeOK, Request
<1>6. CASE Commit(h)
  <2>1. rows'[handler[h].key] = [payload |-> handler[h].payload, client |-> handler[h].client]
    BY <1>5, <1>6 DEF Commit, IntakeInv, TypeOK
  <2>2. rows'[handler[h].key] # NoRow
    BY <2>1 DEF NoRow
  <2> QED BY <1>5, <1>6, <2>1, <2>2 DEF Commit, Told
<1>7. CASE Deny(h)
  <2>1. handler'[h].answer = "limited"
    BY <1>5, <1>7 DEF Deny
  <2> QED BY <2>1 DEF Told
<1>8. CASE Replay(h)
  <2>1. rows[handler[h].key] # NoRow /\ UNCHANGED rows
    BY <1>8 DEF Replay, IntakeInv, Locks
  <2>2. CASE Matches(rows[handler[h].key], handler[h])
    BY <1>5, <1>8, <2>1, <2>2 DEF Replay, Told, Matches
  <2>3. CASE ~ Matches(rows[handler[h].key], handler[h])
    BY <1>5, <1>8, <2>1, <2>3 DEF Replay, Told, Matches
  <2> QED BY <2>2, <2>3
<1>9. CASE Crash(h)
  <2>1. handler'[h].answer = "none"
    BY <1>5, <1>9 DEF Crash
  <2> QED BY <2>1 DEF Told
<1> QED BY <1>1, <1>2, <1>3, <1>4, <1>6, <1>7, <1>8, <1>9, OldAnswerStands
        DEF Next, Serve, Tick, vars

\* What a client was told of its key stays true for ever.
THEOREM AnswersAreTrue == Spec => []AnswersStand
<1>1. Init => AnswersTrue
  BY DEF Init, AnswersTrue, Told, Nobody
<1>2. IntakeInv /\ AnswersTrue /\ [Next]_vars => AnswersTrue'
  BY AnswersStep
<1>3. AnswersTrue => AnswersStand
  BY DEF AnswersTrue, Told, AnswersStand
<1> QED BY <1>1, <1>2, <1>3, IntakeInvariance, PTL DEF Spec

\* No task without its token and no token without its task.
THEOREM TokensPayForTasks == Spec => TokenForTask
<1>1. ASSUME IntakeInv, [Next]_vars, NEW c \in Client
      PROVE  buckets'[c] # buckets[c] <=> CreatedFor(c)' # CreatedFor(c)
  <2>1. CASE UNCHANGED <<rows, buckets>>
    BY <2>1 DEF CreatedFor
  <2>2. ASSUME NEW h \in Handler, Commit(h)
        PROVE  buckets'[c] # buckets[c] <=> CreatedFor(c)' # CreatedFor(c)
    <3>1. PICK d \in Client, k \in Key : d = handler[h].client /\ k = handler[h].key
      BY <1>1, <2>2, ServedType DEF Commit, IntakeInv, Request
    <3> QED BY <1>1, <2>2, <3>1, CommitCreates
  <2> QED BY <1>1, <2>1, <2>2
          DEF Next, Serve, Receive, Insert, TakeToken, Deny, Replay, Crash, Tick, vars
<1>2. IntakeInv /\ [Next]_vars =>
        \A c \in Client : buckets'[c] # buckets[c] <=> CreatedFor(c)' # CreatedFor(c)
  BY <1>1
<1> QED BY <1>2, IntakeInvariance, PTL DEF Spec, TokenForTask

\* Whoever has the bucket can finish; if nobody has one, whoever has a key can
\* take it; if nobody has a key, any request can.
THEOREM NeverStuck == Spec => []NobodyStuck
<1> DEFINE Able(h) == /\ handler[h].pc # "idle"
                      /\ handler[h].pc = "insert" => KeyFree(h)
                      /\ handler[h].pc = "spend"  => BucketFree(h)
<1>1. ASSUME IntakeInv, NEW f \in Handler, handler[f].pc # "idle"
      PROVE  \E h \in Handler : Able(h)
  <2>1. CASE \E h \in Handler : handler[h].pc \in {"spent", "denied", "replay"}
    BY <2>1
  <2>2. CASE /\ \A h \in Handler : handler[h].pc \notin {"spent", "denied", "replay"}
             /\ \E h \in Handler : handler[h].pc = "spend"
    BY <2>2, PCType DEF BucketFree
  <2>3. CASE \A h \in Handler : handler[h].pc \notin {"spend", "spent", "denied", "replay"}
    <3>1. handler[f].pc = "insert"
      BY <1>1, <2>3, ServedType, PCType DEF IntakeInv, Request
    <3>2. KeyFree(f)
      BY <2>3, PCType DEF KeyFree
    <3> QED BY <3>1, <3>2
  <2> QED BY <2>1, <2>2, <2>3
<1>2. IntakeInv => NobodyStuck
  BY <1>1 DEF NobodyStuck
<1> QED BY <1>2, IntakeInvariance, PTL
=============================================================================
