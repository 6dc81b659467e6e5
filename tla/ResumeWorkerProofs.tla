------------------------- MODULE ResumeWorkerProofs -------------------------
(***************************************************************************)
(* Theorems about ResumeWorker, for any number of tasks, processes and     *)
(* threads, any clock and any number of faults:                            *)
(*   - the types and the invariants of the claims;                         *)
(*   - what can become of a row in one step, and what follows from it:     *)
(*     settled tasks are final, a live lease protects the thread that      *)
(*     holds it, and ResumeWorker implements TaskLedger;                   *)
(*   - where results come from: every cached copy is what its key says     *)
(*     and lives as long as its original, and every result a task holds    *)
(*     was generated from what that task asked for.                        *)
(***************************************************************************)
EXTENDS ResumeWorkerProperties, TLAPS

-----------------------------------------------------------------------------
(* Rows keep their type                                                    *)

LEMMA NewRowType ==
  ASSUME NEW request \in Request, NEW expires \in Nat
  PROVE  NewRow(request, expires) \in Row
BY DEF NewRow, Row, TaskState, Waiting, Failure

LEMMA ClosedType ==
  ASSUME NEW row \in Row, NEW state \in TaskState, NEW failure \in Failure
  PROVE  Closed(row, state, failure) \in Row
BY DEF Closed, Row

LEMMA SucceededType ==
  ASSUME NEW row \in Row, NEW output \in Output \cup {NoOutput}, NEW expires \in Nat
  PROVE  Succeeded(row, output, expires) \in Row
BY DEF Succeeded, Row, TaskState, Terminal

LEMMA TakenType ==
  ASSUME NEW row \in Row, row.attempts = 0, NEW token \in Nat, NEW lease \in Nat
  PROVE  Taken(row, token, lease) \in Row
<1>1. row.attempts + 1 \in 0..1
  OBVIOUS
<1>2. \A n \in 0..1 : [row EXCEPT !.state = "RUNNING", !.attempts = n,
                                  !.token = token, !.lease = lease] \in Row
  BY DEF Row, TaskState
<1> QED BY <1>1, <1>2 DEF Taken

LEMMA ForgottenType ==
  ASSUME NEW row \in Row
  PROVE  [row EXCEPT !.output = NoOutput] \in Row
BY DEF Row

LEMMA ExpireOneType ==
  ASSUME NEW row \in Row
  PROVE  ExpireOne(row) \in Row
<1>1. CASE InputLapsed(row)
  BY <1>1, ClosedType DEF ExpireOne, TaskState, Terminal, Failure
<1>2. CASE ~InputLapsed(row)
  BY <1>2, ForgottenType DEF ExpireOne
<1> QED BY <1>1, <1>2

-----------------------------------------------------------------------------
(* Type correctness                                                        *)

\* Where the provider has not been called yet for the task in hand.
BeforeCall == {"claimed", "tailor", "mark", "marked"}

\* A thread between claim and the end of process_one holds a task that has
\* used its one attempt; until it calls the provider nobody has.
ThreadHoldsTask(p, i) ==
  slot[p][i].pc \in Busy =>
    /\ slot[p][i].task \in Task
    /\ Claimed(p, i).attempts = 1
    /\ slot[p][i].pc \in BeforeCall => calls[slot[p][i].task] = 0

\* Nothing gets near the provider that is not an approved AI task, nor calls
\* it before the possible charge is in the row.
ChargePrepared(p, i) ==
  /\ slot[p][i].pc \in {"mark", "marked"} =>
       Claimed(p, i).request.mode = "ai" /\ Claimed(p, i).request.approved
  /\ slot[p][i].pc = "marked" => Claimed(p, i).marked

\* A task is in the hands of one thread, to the end of its report.
ExclusiveHold ==
  \A p, q \in Process, i, j \in Thread :
    /\ slot[p][i].pc \in Busy /\ slot[q][j].pc \in Busy
    /\ slot[p][i].task = slot[q][j].task
    => p = q /\ i = j

\* An unattempted task has made no call; so far none has made two.
CallsFollowAttempts ==
  \A t \in Task :
    /\ tasks[t].state = "ABSENT" => tasks[t].attempts = 0
    /\ tasks[t].attempts = 0 => calls[t] = 0
    /\ calls[t] <= 1

IInv ==
  /\ TypeOK
  /\ \A p \in Process, i \in Thread : ThreadHoldsTask(p, i) /\ ChargePrepared(p, i)
  /\ ExclusiveHold
  /\ CallsFollowAttempts
  /\ CallsAccountedFor

LEMMA KeyOfType ==
  ASSUME IInv, NEW p \in Process, NEW i \in Thread, slot[p][i].pc \in Busy
  PROVE  KeyOf(p, i) \in CacheKey
<1>1. slot[p][i].task \in Task
  BY DEF IInv, ThreadHoldsTask
<1>2. Claimed(p, i).request \in Request
  BY <1>1 DEF IInv, TypeOK, RepositoryTypeOK, Row, Claimed
<1>3. DeploymentOf[p] \in Identity
  BY WorkerAssumption
<1> QED BY <1>2, <1>3 DEF KeyOf, CacheKey, Request

(* What no transaction but a creation or a claim ever changes of a row: the *)
(* request, the attempts, and a recorded charge.                            *)

Kept(old, new) ==
  /\ new.request = old.request
  /\ new.attempts = old.attempts
  /\ old.marked => new.marked
  /\ new.state = "ABSENT" => old.state = "ABSENT"

AllKept == \A t \in Task : Kept(tasks[t], tasks'[t])

LEMMA OneRowKept ==
  ASSUME tasks \in [Task -> Row], NEW t \in Task, NEW row \in Row, Kept(tasks[t], row),
         tasks' = [tasks EXCEPT ![t] = row]
  PROVE  tasks' \in [Task -> Row] /\ AllKept
BY DEF Kept, AllKept

LEMMA RowsKept ==
  ASSUME NEW row \in Row
  PROVE  /\ row.state # "ABSENT" => Kept(row, ExpireOne(row))
         /\ \A output, expires : Kept(row, Succeeded(row, output, expires))
         /\ \A state \in TaskState : \A failure : Kept(row, Closed(row, state, failure))
         /\ Kept(row, [row EXCEPT !.output = NoOutput])
BY DEF Kept, ExpireOne, InputLapsed, OutputLapsed, Succeeded, Closed, Row, TaskState,
       Waiting, Terminal

(* Each transaction keeps the database well typed, and all but two keep the *)
(* rows.                                                                    *)

LEMMA CreateTaskTyped ==
  ASSUME RepositoryTypeOK, NEW t \in Task, NEW request \in Submission,
         CreateTask(t, request), clock' = clock
  PROVE  RepositoryTypeOK'
<1>1. NewRow(request, clock + InputTTL) \in Row
  BY NewRowType, RepositoryAssumption DEF RepositoryTypeOK
<1> QED BY <1>1 DEF CreateTask, RepositoryTypeOK

LEMMA GetTaskKeeps ==
  ASSUME RepositoryTypeOK, NEW t \in Task, GetTask(t), clock' = clock
  PROVE  RepositoryTypeOK' /\ AllKept
<1> DEFINE row == ExpireOne(tasks[t])
<1>1. row \in Row /\ Kept(tasks[t], row)
  BY ExpireOneType, RowsKept DEF RepositoryTypeOK, GetTask
<1>2. tasks' = [tasks EXCEPT ![t] = row]
  BY DEF GetTask
<1> HIDE DEF row
<1>3. tasks' \in [Task -> Row] /\ AllKept
  BY <1>1, <1>2, OneRowKept DEF RepositoryTypeOK
<1> QED BY <1>3 DEF GetTask, RepositoryTypeOK

LEMMA QueueTaskKeeps ==
  ASSUME RepositoryTypeOK, NEW t \in Task, QueueTask(t), clock' = clock
  PROVE  RepositoryTypeOK' /\ AllKept
<1> DEFINE row == IF Queueable(tasks[t]) THEN [tasks[t] EXCEPT !.state = "QUEUED"]
                                      ELSE ExpireOne(tasks[t])
<1>1. row \in Row /\ Kept(tasks[t], row)
  <2>1. ExpireOne(tasks[t]) \in Row /\ Kept(tasks[t], ExpireOne(tasks[t]))
    BY ExpireOneType, RowsKept DEF RepositoryTypeOK, QueueTask
  <2>2. [tasks[t] EXCEPT !.state = "QUEUED"] \in Row
    BY DEF RepositoryTypeOK, Row, TaskState, Waiting
  <2>3. Kept(tasks[t], [tasks[t] EXCEPT !.state = "QUEUED"])
    BY DEF RepositoryTypeOK, Row, Kept
  <2> QED BY <2>1, <2>2, <2>3
<1>2. tasks' = [tasks EXCEPT ![t] = row]
  BY DEF QueueTask
<1> HIDE DEF row
<1>3. tasks' \in [Task -> Row] /\ AllKept
  BY <1>1, <1>2, OneRowKept DEF RepositoryTypeOK
<1> QED BY <1>3 DEF QueueTask, RepositoryTypeOK

LEMMA ClaimTaskTyped ==
  ASSUME RepositoryTypeOK, NEW t \in Task, ClaimTask(t), clock' = clock
  PROVE  RepositoryTypeOK'
<1>1. tasks[t] \in Row /\ tasks[t].attempts = 0
  BY DEF RepositoryTypeOK, ClaimTask, Claimable
<1>2. claims + 1 \in Nat /\ clock + LeaseSeconds \in Nat
  BY RepositoryAssumption DEF RepositoryTypeOK
<1>3. Taken(tasks[t], claims + 1, clock + LeaseSeconds) \in Row
  BY <1>1, <1>2, TakenType
<1> QED BY <1>2, <1>3 DEF ClaimTask, RepositoryTypeOK

LEMMA CompleteFromCacheKeeps ==
  ASSUME RepositoryTypeOK, NEW t \in Task, NEW token, NEW key \in CacheKey,
         CompleteFromCache(t, token, key), clock' = clock
  PROVE  RepositoryTypeOK' /\ AllKept
<1> DEFINE row == Succeeded(tasks[t], cache[key].output, cache[key].expires)
<1>1. row \in Row /\ Kept(tasks[t], row)
  <2>1. cache[key] \in Entry
    BY DEF RepositoryTypeOK, CompleteFromCache, CacheServes, FreshEntry
  <2> QED BY <2>1, SucceededType, RowsKept DEF RepositoryTypeOK, Entry
<1>2. tasks' = [tasks EXCEPT ![t] = row]
  BY DEF CompleteFromCache
<1> HIDE DEF row
<1>3. tasks' \in [Task -> Row] /\ AllKept
  BY <1>1, <1>2, OneRowKept DEF RepositoryTypeOK
<1> QED BY <1>3 DEF CompleteFromCache, RepositoryTypeOK

LEMMA CompleteTaskKeeps ==
  ASSUME RepositoryTypeOK, NEW t \in Task, NEW token, NEW key \in CacheKey,
         CompleteTask(t, token, key), clock' = clock
  PROVE  RepositoryTypeOK' /\ AllKept
<1> DEFINE output  == [from |-> key, by |-> t]
           expires == Min2(tasks[t].inputExpires, clock + OutputTTL)
           row     == Succeeded(tasks[t], output, expires)
<1>1. output \in Output
  BY DEF Output
<1>2. expires \in Nat
  BY RepositoryAssumption DEF Min2, RepositoryTypeOK, Row
<1>3. row \in Row /\ Kept(tasks[t], row)
  BY <1>1, <1>2, SucceededType, RowsKept DEF RepositoryTypeOK
<1>4. tasks' = [tasks EXCEPT ![t] = row] /\ cache' = Cached(key, output, expires)
  BY DEF CompleteTask
<1> HIDE DEF output, expires, row
<1>5. tasks' \in [Task -> Row] /\ AllKept
  BY <1>3, <1>4, OneRowKept DEF RepositoryTypeOK
<1>6. Cached(key, output, expires) \in [CacheKey -> Entry \cup {NoEntry}]
  BY <1>1, <1>2 DEF Cached, RepositoryTypeOK, Entry
<1> QED BY <1>4, <1>5, <1>6 DEF CompleteTask, RepositoryTypeOK

LEMMA FailTaskKeeps ==
  ASSUME RepositoryTypeOK, NEW t \in Task, NEW token, FailTask(t, token), clock' = clock
  PROVE  RepositoryTypeOK' /\ AllKept
<1> DEFINE row == Closed(tasks[t], "FAILED", "PROCESSING_REJECTED")
<1>1. row \in Row /\ Kept(tasks[t], row)
  BY ClosedType, RowsKept DEF RepositoryTypeOK, TaskState, Terminal, Failure
<1>2. tasks' = [tasks EXCEPT ![t] = row]
  BY DEF FailTask
<1> HIDE DEF row
<1>3. tasks' \in [Task -> Row] /\ AllKept
  BY <1>1, <1>2, OneRowKept DEF RepositoryTypeOK
<1> QED BY <1>3 DEF FailTask, RepositoryTypeOK

LEMMA MarkModelCallKeeps ==
  ASSUME RepositoryTypeOK, NEW t \in Task, NEW token, MarkModelCall(t, token), clock' = clock
  PROVE  RepositoryTypeOK' /\ AllKept
<1> DEFINE row == [tasks[t] EXCEPT !.marked = TRUE]
<1>1. row \in Row /\ Kept(tasks[t], row)
  <2>1. tasks[t] \in Row
    BY DEF RepositoryTypeOK
  <2> QED BY <2>1 DEF Row, Kept
<1>2. tasks' = [tasks EXCEPT ![t] = row]
  BY DEF MarkModelCall
<1> HIDE DEF row
<1>3. tasks' \in [Task -> Row] /\ AllKept
  BY <1>1, <1>2, OneRowKept DEF RepositoryTypeOK
<1> QED BY <1>3 DEF MarkModelCall, RepositoryTypeOK

LEMMA RenewLeaseKeeps ==
  ASSUME RepositoryTypeOK, NEW t \in Task, NEW token, RenewLease(t, token), clock' = clock
  PROVE  RepositoryTypeOK' /\ AllKept
<1> DEFINE row == [tasks[t] EXCEPT !.lease = clock + LeaseSeconds]
<1>1. row \in Row /\ Kept(tasks[t], row)
  <2>1. tasks[t] \in Row /\ clock + LeaseSeconds \in Nat
    BY RepositoryAssumption DEF RepositoryTypeOK
  <2> QED BY <2>1 DEF Row, Kept
<1>2. tasks' = [tasks EXCEPT ![t] = row]
  BY DEF RenewLease
<1> HIDE DEF row
<1>3. tasks' \in [Task -> Row] /\ AllKept
  BY <1>1, <1>2, OneRowKept DEF RepositoryTypeOK
<1> QED BY <1>3 DEF RenewLease, RepositoryTypeOK

\* What one cleanup pass does to a row, whichever batch it falls into.
LEMMA CleanupOfRow ==
  ASSUME RecoverAndCleanup
  PROVE  /\ tasks' = [t \in Task |-> tasks'[t]]
         /\ \A t \in Task :
              \/ tasks'[t] = tasks[t]
              \/ LeaseLapsed(tasks[t]) /\ tasks'[t] = Closed(tasks[t], "NEEDS_REVIEW", "LEASE_EXPIRED")
              \/ InputLapsed(tasks[t]) /\ tasks'[t] = Closed(tasks[t], "FAILED", "INPUT_EXPIRED")
              \/ OutputLapsed(tasks[t]) /\ tasks'[t] = [tasks[t] EXCEPT !.output = NoOutput]
BY DEF RecoverAndCleanup, Selected

LEMMA CleanupOfCache ==
  ASSUME RecoverAndCleanup
  PROVE  /\ cache' = [k \in CacheKey |-> cache'[k]]
         /\ \A k \in CacheKey :
              cache'[k] = cache[k] \/ (StaleEntry(k) /\ cache'[k] = NoEntry)
BY DEF RecoverAndCleanup, Selected

LEMMA RecoverKeeps ==
  ASSUME RepositoryTypeOK, RecoverAndCleanup, clock' = clock
  PROVE  RepositoryTypeOK' /\ AllKept
<1>1. \A t \in Task : tasks'[t] \in Row /\ Kept(tasks[t], tasks'[t])
  <2> TAKE t \in Task
  <2>1. tasks[t] \in Row
    BY DEF RepositoryTypeOK
  <2>2. Kept(tasks[t], tasks[t])
    BY DEF Kept
  <2>3. LET row == Closed(tasks[t], "NEEDS_REVIEW", "LEASE_EXPIRED")
        IN  row \in Row /\ Kept(tasks[t], row)
    BY <2>1, ClosedType, RowsKept DEF TaskState, Terminal, Failure
  <2>4. LET row == Closed(tasks[t], "FAILED", "INPUT_EXPIRED")
        IN  row \in Row /\ Kept(tasks[t], row)
    BY <2>1, ClosedType, RowsKept DEF TaskState, Terminal, Failure
  <2>5. LET row == [tasks[t] EXCEPT !.output = NoOutput]
        IN  row \in Row /\ Kept(tasks[t], row)
    BY <2>1, ForgottenType, RowsKept
  <2> QED BY <2>1, <2>2, <2>3, <2>4, <2>5, CleanupOfRow
<1>2. tasks' \in [Task -> Row] /\ AllKept
  BY <1>1, CleanupOfRow DEF AllKept
<1>3. \A k \in CacheKey : cache'[k] \in Entry \cup {NoEntry}
  BY CleanupOfCache DEF RepositoryTypeOK
<1>4. cache' \in [CacheKey -> Entry \cup {NoEntry}]
  BY <1>3, CleanupOfCache
<1>5. claims' = claims
  BY DEF RecoverAndCleanup
<1> QED BY <1>2, <1>4, <1>5 DEF RepositoryTypeOK

(* What a step of a thread does to the threads.                            *)

LEMMA Replaced ==
  ASSUME slot \in [Process -> [Thread -> Slot]], NEW p \in Process, NEW i \in Thread,
         NEW s \in Slot, slot' = [slot EXCEPT ![p][i] = s]
  PROVE  /\ slot' \in [Process -> [Thread -> Slot]]
         /\ slot'[p][i] = s
         /\ \A q \in Process, j \in Thread : q # p \/ j # i => slot'[q][j] = slot[q][j]
OBVIOUS

LEMMA RestType ==
  ASSUME NEW pc \in PC PROVE Rest(pc) \in Slot
BY DEF Rest, Slot, Heartbeat

LEMMA SlotFields ==
  ASSUME NEW s \in Slot
  PROVE  /\ \A pc \in PC : LET new == [s EXCEPT !.pc = pc]
                           IN  new \in Slot /\ new.pc = pc /\ new.task = s.task
         /\ \A h \in Heartbeat : LET new == [s EXCEPT !.heartbeat = h]
                                 IN  new \in Slot /\ new.pc = s.pc /\ new.task = s.task
BY DEF Slot

LEMMA SlotPut ==
  ASSUME NEW s \in Slot, NEW pc \in PC, NEW h \in Heartbeat
  PROVE  /\ With(s, pc, h) \in Slot
         /\ With(s, pc, h).pc = pc
         /\ With(s, pc, h).task = s.task
BY DEF Slot, With

LEMMA Moved ==
  ASSUME slot \in [Process -> [Thread -> Slot]], NEW p \in Process, NEW i \in Thread,
         NEW pc \in PC, Goto(p, i, pc)
  PROVE  /\ slot' \in [Process -> [Thread -> Slot]]
         /\ slot'[p][i].pc = pc /\ slot'[p][i].task = slot[p][i].task
         /\ \A q \in Process, j \in Thread : q # p \/ j # i => slot'[q][j] = slot[q][j]
<1> DEFINE s == [slot[p][i] EXCEPT !.pc = pc]
<1>1. slot[p][i] \in Slot
  OBVIOUS
<1>2. s \in Slot /\ s.pc = pc /\ s.task = slot[p][i].task
  BY <1>1, SlotFields
<1>3. slot' = [slot EXCEPT ![p][i] = s]
  BY DEF Goto
<1> HIDE DEF s
<1>4. /\ slot' \in [Process -> [Thread -> Slot]]
      /\ slot'[p][i] = s
      /\ \A q \in Process, j \in Thread : q # p \/ j # i => slot'[q][j] = slot[q][j]
  BY <1>2, <1>3, Replaced
<1> QED BY <1>2, <1>4

LEMMA Placed ==
  ASSUME slot \in [Process -> [Thread -> Slot]], NEW p \in Process, NEW i \in Thread,
         NEW pc \in PC, NEW h \in Heartbeat, Put(p, i, pc, h)
  PROVE  /\ slot' \in [Process -> [Thread -> Slot]]
         /\ slot'[p][i].pc = pc /\ slot'[p][i].task = slot[p][i].task
         /\ \A q \in Process, j \in Thread : q # p \/ j # i => slot'[q][j] = slot[q][j]
<1> DEFINE s == With(slot[p][i], pc, h)
<1>1. slot[p][i] \in Slot
  OBVIOUS
<1>2. s \in Slot /\ s.pc = pc /\ s.task = slot[p][i].task
  BY <1>1, SlotPut
<1>3. slot' = [slot EXCEPT ![p][i] = s]
  BY DEF Put
<1> HIDE DEF s
<1>4. /\ slot' \in [Process -> [Thread -> Slot]]
      /\ slot'[p][i] = s
      /\ \A q \in Process, j \in Thread : q # p \/ j # i => slot'[q][j] = slot[q][j]
  BY <1>2, <1>3, Replaced
<1> QED BY <1>2, <1>4

LEMMA HeartbeatSet ==
  ASSUME slot \in [Process -> [Thread -> Slot]], NEW p \in Process, NEW i \in Thread,
         NEW h \in Heartbeat, SetHeartbeat(p, i, h)
  PROVE  /\ slot' \in [Process -> [Thread -> Slot]]
         /\ slot'[p][i].pc = slot[p][i].pc /\ slot'[p][i].task = slot[p][i].task
         /\ \A q \in Process, j \in Thread : q # p \/ j # i => slot'[q][j] = slot[q][j]
<1> DEFINE s == [slot[p][i] EXCEPT !.heartbeat = h]
<1>1. slot[p][i] \in Slot
  OBVIOUS
<1>2. s \in Slot /\ s.pc = slot[p][i].pc /\ s.task = slot[p][i].task
  BY <1>1, SlotFields
<1>3. slot' = [slot EXCEPT ![p][i] = s]
  BY DEF SetHeartbeat
<1> HIDE DEF s
<1>4. /\ slot' \in [Process -> [Thread -> Slot]]
      /\ slot'[p][i] = s
      /\ \A q \in Process, j \in Thread : q # p \/ j # i => slot'[q][j] = slot[q][j]
  BY <1>2, <1>3, Replaced
<1> QED BY <1>2, <1>4

LEMMA ProcessReset ==
  ASSUME slot \in [Process -> [Thread -> Slot]], NEW p \in Process, NEW pc \in PC,
         slot' = [slot EXCEPT ![p] = [i \in Thread |-> Rest(pc)]]
  PROVE  /\ slot' \in [Process -> [Thread -> Slot]]
         /\ \A j \in Thread : slot'[p][j] = Rest(pc)
         /\ \A q \in Process \ {p}, j \in Thread : slot'[q][j] = slot[q][j]
<1>1. [i \in Thread |-> Rest(pc)] \in [Thread -> Slot]
  BY RestType
<1> QED BY <1>1

-----------------------------------------------------------------------------
(* The inductive invariant                                                 *)

\* A thread goes on with the task it has, and never back before its call.
Follows(old, new) ==
  new.pc \in Busy =>
    /\ old.pc \in Busy
    /\ new.task = old.task
    /\ new.pc \in BeforeCall => old.pc \in BeforeCall

LEMMA QuietStep ==
  ASSUME IInv, TypeOK', AllKept, calls' = calls,
         \A p \in Process, i \in Thread : Follows(slot[p][i], slot'[p][i]),
         \A p \in Process, i \in Thread : ChargePrepared(p, i)'
  PROVE  IInv'
<1> USE DEF AllKept, Kept, Follows
<1>1. \A p \in Process, i \in Thread : ThreadHoldsTask(p, i)'
  BY DEF IInv, ThreadHoldsTask, Claimed
<1>2. ExclusiveHold'
  BY DEF IInv, ExclusiveHold
<1>3. CallsFollowAttempts'
  BY DEF IInv, CallsFollowAttempts
<1>4. CallsAccountedFor'
  BY DEF IInv, CallsAccountedFor
<1> QED BY <1>1, <1>2, <1>3, <1>4 DEF IInv

\* The step of one thread that neither claims nor calls.
LEMMA ThreadStep ==
  ASSUME IInv, TypeOK', AllKept, calls' = calls,
         NEW p \in Process, NEW i \in Thread,
         Follows(slot[p][i], slot'[p][i]), ChargePrepared(p, i)',
         \A q \in Process, j \in Thread : q # p \/ j # i => slot'[q][j] = slot[q][j]
  PROVE  IInv'
<1>1. \A q \in Process, j \in Thread : Follows(slot[q][j], slot'[q][j])
  BY DEF Follows
<1>2. ASSUME NEW q \in Process, NEW j \in Thread, q # p \/ j # i
      PROVE  ChargePrepared(q, j)'
  <2>1. slot'[q][j] = slot[q][j]
    BY <1>2
  <2>2. slot[q][j].pc \in {"mark", "marked"} => slot[q][j].task \in Task
    BY DEF IInv, ThreadHoldsTask, Busy, Holding, Working
  <2> QED BY <2>1, <2>2 DEF IInv, ChargePrepared, Claimed, AllKept, Kept
<1>3. \A q \in Process, j \in Thread : ChargePrepared(q, j)'
  BY <1>2
<1> QED BY <1>1, <1>3, QuietStep

LEMMA Unchanged ==
  ASSUME IInv, UNCHANGED <<tasks, cache, claims>>, clock' = clock
  PROVE  RepositoryTypeOK' /\ AllKept
BY DEF IInv, TypeOK, RepositoryTypeOK, AllKept, Kept

(* One lemma per action, or per group of actions of the same shape.        *)

LEMMA SlotTyped ==
  ASSUME IInv
  PROVE  /\ slot \in [Process -> [Thread -> Slot]]
         /\ calls \in [Task -> Nat] /\ faults \in Nat /\ RepositoryTypeOK
BY DEF IInv, TypeOK, WorkerTypeOK

LEMMA PCNames ==
  /\ Busy \subseteq PC /\ Resting \subseteq PC /\ "down" \in PC
  /\ BeforeCall \subseteq Working /\ Working \subseteq Busy
  /\ Busy \cap (Resting \cup {"down"}) = {}
  /\ {"complete", "reject", "calling", "hit", "report"} \subseteq Busy
  /\ {"complete", "reject", "calling", "hit", "report"} \cap BeforeCall = {}
  /\ {"claimed", "tailor", "mark", "marked"} = BeforeCall
  /\ {"done", "ready", "failed"} = Resting
BY DEF PC, Busy, Resting, Holding, Working, BeforeCall

\* The thread moves on inside process_one; the database moves by one of its
\* transactions or not at all.
LEMMA MoveStep ==
  ASSUME IInv, RepositoryTypeOK', AllKept, UNCHANGED <<calls, faults>>,
         NEW p \in Process, NEW i \in Thread, slot[p][i].pc \in Busy,
         NEW pc \in Busy, pc \in BeforeCall => slot[p][i].pc \in BeforeCall,
         Goto(p, i, pc) \/ LeaveCall(p, i, pc),
         pc \in {"mark", "marked"} =>
           Claimed(p, i).request.mode = "ai" /\ Claimed(p, i).request.approved,
         pc = "marked" => tasks'[slot[p][i].task].marked
  PROVE  IInv'
<1>1. /\ slot' \in [Process -> [Thread -> Slot]]
      /\ slot'[p][i].pc = pc /\ slot'[p][i].task = slot[p][i].task
      /\ \A q \in Process, j \in Thread : q # p \/ j # i => slot'[q][j] = slot[q][j]
  <2>0. pc \in PC /\ "off" \in Heartbeat /\ slot[p][i] \in Slot
    BY SlotTyped, PCNames DEF Heartbeat
  <2>1. CASE Goto(p, i, pc)
    BY <2>0, <2>1, SlotTyped, Moved
  <2>2. CASE LeaveCall(p, i, pc)
    BY <2>0, <2>2, SlotTyped, Placed DEF LeaveCall
  <2> QED BY <2>1, <2>2
<1>2. TypeOK'
  BY <1>1, SlotTyped DEF TypeOK, WorkerTypeOK
<1>3. Follows(slot[p][i], slot'[p][i])
  BY <1>1 DEF Follows
<1>4. ChargePrepared(p, i)'
  <2>1. slot[p][i].task \in Task
    BY DEF IInv, ThreadHoldsTask
  <2> QED BY <1>1, <2>1 DEF ChargePrepared, Claimed, AllKept, Kept
<1> QED BY <1>1, <1>2, <1>3, <1>4, ThreadStep

\* The thread comes to rest, whatever it was doing.
LEMMA RestStep ==
  ASSUME IInv, RepositoryTypeOK', AllKept, calls' = calls, faults' \in Nat,
         NEW p \in Process, NEW i \in Thread, NEW pc \in Resting,
         slot' = [slot EXCEPT ![p][i] = Rest(pc)]
  PROVE  IInv'
<1>1. /\ slot' \in [Process -> [Thread -> Slot]]
      /\ slot'[p][i] = Rest(pc)
      /\ \A q \in Process, j \in Thread : q # p \/ j # i => slot'[q][j] = slot[q][j]
  BY SlotTyped, PCNames, RestType, Replaced
<1>2. TypeOK'
  BY <1>1, SlotTyped DEF TypeOK, WorkerTypeOK
<1>3. slot'[p][i].pc = pc /\ pc \notin Busy
  BY <1>1, PCNames DEF Rest
<1>4. Follows(slot[p][i], slot'[p][i]) /\ ChargePrepared(p, i)'
  BY <1>3, PCNames DEF Follows, ChargePrepared
<1> QED BY <1>1, <1>2, <1>4, ThreadStep

\* "ready" to "done": the thread found no permit or no task.
LEMMA IdleStep ==
  ASSUME IInv, NEW p \in Process, NEW i \in Thread,
         NoPermit(p, i) \/ NothingToClaim(p, i)
  PROVE  IInv'
<1>1. Goto(p, i, "done") /\ UNCHANGED <<repositoryVars, calls, faults>>
  BY DEF NoPermit, NothingToClaim
<1>2. RepositoryTypeOK' /\ AllKept
  BY <1>1, Unchanged DEF repositoryVars
<1>3. /\ slot' \in [Process -> [Thread -> Slot]]
      /\ slot'[p][i].pc = "done"
      /\ \A q \in Process, j \in Thread : q # p \/ j # i => slot'[q][j] = slot[q][j]
  <2>1. slot[p][i] \in Slot /\ "done" \in PC
    BY SlotTyped, PCNames
  <2> QED BY <1>1, <2>1, SlotTyped, Moved
<1>4. TypeOK'
  BY <1>1, <1>2, <1>3, SlotTyped DEF TypeOK, WorkerTypeOK
<1>5. Follows(slot[p][i], slot'[p][i]) /\ ChargePrepared(p, i)'
  BY <1>3, PCNames DEF Follows, ChargePrepared
<1> QED BY <1>1, <1>2, <1>3, <1>4, <1>5, ThreadStep

\* Steps that leave the database alone.
LEMMA LocalStep ==
  ASSUME IInv, NEW p \in Process, NEW i \in Thread,
         \/ Refuse(p, i) \/ SkipLookup(p, i) \/ LookupMiss(p, i) \/ Tailor(p, i)
         \/ CallReturns(p, i) \/ CallFails(p, i)
  PROVE  IInv'
<1>1. UNCHANGED <<repositoryVars, calls, faults>>
  BY DEF Refuse, SkipLookup, LookupMiss, Tailor, CallReturns, CallFails
<1>2. RepositoryTypeOK' /\ AllKept
  BY <1>1, Unchanged DEF repositoryVars
<1>3. CASE Refuse(p, i)
  BY <1>1, <1>2, <1>3, MoveStep, PCNames DEF Refuse, At
<1>4. CASE SkipLookup(p, i) \/ LookupMiss(p, i)
  <2>1. At(p, i, "claimed") /\ ~Refused(p, i) /\ Goto(p, i, AfterLookup(p, i))
    BY <1>4 DEF SkipLookup, LookupMiss
  <2>2. AfterLookup(p, i) \in {"mark", "tailor"}
    BY DEF AfterLookup
  <2>3. AfterLookup(p, i) = "mark" =>
          Claimed(p, i).request.mode = "ai" /\ Claimed(p, i).request.approved
    BY <2>1 DEF AfterLookup, Refused
  <2> QED BY <1>1, <1>2, <2>1, <2>2, <2>3, MoveStep, PCNames DEF At
<1>5. CASE Tailor(p, i)
  <2>1. PICK pc \in {"complete", "reject"} : Goto(p, i, pc)
    BY <1>5 DEF Tailor
  <2> QED BY <1>1, <1>2, <1>5, <2>1, MoveStep, PCNames DEF Tailor, At
<1>6. CASE CallReturns(p, i) \/ CallFails(p, i)
  <2>1. PICK pc \in {"complete", "reject"} : LeaveCall(p, i, pc)
    BY <1>6 DEF CallReturns, CallFails
  <2> QED BY <1>1, <1>2, <1>6, <2>1, MoveStep, PCNames DEF CallReturns, CallFails, At
<1> QED BY <1>3, <1>4, <1>5, <1>6

\* Steps of a thread that are one transaction on its own task.
LEMMA TransactionStep ==
  ASSUME IInv, NEW p \in Process, NEW i \in Thread,
         \/ LookupHit(p, i) \/ Mark(p, i) \/ MarkRefused(p, i)
         \/ Complete(p, i) \/ Fail(p, i) \/ WriteRefused(p, i)
  PROVE  IInv'
<1> DEFINE t == slot[p][i].task
<1>1. slot[p][i].pc \in Busy /\ clock' = clock /\ UNCHANGED <<calls, faults>>
  BY PCNames DEF LookupHit, Mark, MarkRefused, Complete, Fail, WriteRefused, At
<1>2. t \in Task /\ KeyOf(p, i) \in CacheKey
  BY <1>1, KeyOfType DEF IInv, ThreadHoldsTask
<1>3. CASE LookupHit(p, i)
  <2>1. RepositoryTypeOK' /\ AllKept
    BY <1>1, <1>2, <1>3, SlotTyped, CompleteFromCacheKeeps DEF LookupHit
  <2> QED BY <1>1, <1>3, <2>1, MoveStep, PCNames DEF LookupHit, At
<1>4. CASE Mark(p, i)
  <2>1. RepositoryTypeOK' /\ AllKept
    BY <1>1, <1>2, <1>4, SlotTyped, MarkModelCallKeeps DEF Mark
  <2>2. tasks'[t].marked
    BY <1>2, <1>4, SlotTyped DEF Mark, MarkModelCall, RepositoryTypeOK, Row
  <2>3. Claimed(p, i).request.mode = "ai" /\ Claimed(p, i).request.approved
    BY <1>4 DEF IInv, ChargePrepared, Mark, At
  <2> QED BY <1>1, <1>4, <2>1, <2>2, <2>3, MoveStep, PCNames DEF Mark, At
<1>5. CASE MarkRefused(p, i) \/ WriteRefused(p, i)
  <2>1. RepositoryTypeOK' /\ AllKept
    BY <1>1, <1>5, Unchanged DEF MarkRefused, WriteRefused, FenceLost
  <2>2. PICK pc \in {"reject", "report"} : Goto(p, i, pc)
    BY <1>5 DEF MarkRefused, WriteRefused
  <2> QED BY <1>1, <2>1, <2>2, MoveStep, PCNames
<1>6. CASE Complete(p, i)
  <2>1. RepositoryTypeOK' /\ AllKept
    BY <1>1, <1>2, <1>6, SlotTyped, CompleteTaskKeeps DEF Complete
  <2> QED BY <1>1, <1>6, <2>1, MoveStep, PCNames DEF Complete, At
<1>7. CASE Fail(p, i)
  <2>1. RepositoryTypeOK' /\ AllKept
    BY <1>1, <1>2, <1>7, SlotTyped, FailTaskKeeps DEF Fail
  <2> QED BY <1>1, <1>7, <2>1, MoveStep, PCNames DEF Fail, At
<1> QED BY <1>3, <1>4, <1>5, <1>6, <1>7

LEMMA HeartbeatStep ==
  ASSUME IInv, NEW p \in Process, NEW i \in Thread, slot[p][i].heartbeat = "beating",
         Renew(p, i) \/ RenewRefused(p, i) \/ HeartbeatDies(p, i)
  PROVE  IInv'
<1>1. calls' = calls /\ clock' = clock /\ faults' \in Nat
  BY SlotTyped DEF Renew, RenewRefused, HeartbeatDies, repositoryVars
<1>2. CASE Renew(p, i)
  <2>1. slot' = slot
    BY <1>2 DEF Renew
  <2>2. CASE slot[p][i].task \in Task
    <3>1. RepositoryTypeOK' /\ AllKept
      BY <1>1, <1>2, <2>2, SlotTyped, RenewLeaseKeeps DEF Renew
    <3>2. TypeOK'
      BY <1>1, <2>1, <3>1, SlotTyped DEF TypeOK, WorkerTypeOK
    <3>3. Follows(slot[p][i], slot'[p][i])
      BY <2>1 DEF Follows
    <3>4. ChargePrepared(p, i)'
      BY <2>1, <2>2, <3>1 DEF IInv, ChargePrepared, Claimed, AllKept, Kept
    <3> QED BY <1>1, <2>1, <3>1, <3>2, <3>3, <3>4, ThreadStep
  <2>3. CASE slot[p][i].task \notin Task
    <3>1. tasks' = tasks /\ cache' = cache /\ claims' = claims
      BY <1>2, <2>3, SlotTyped DEF Renew, RenewLease, RepositoryTypeOK
    <3>2. RepositoryTypeOK' /\ AllKept
      BY <1>1, <3>1, Unchanged
    <3>3. TypeOK'
      BY <1>1, <2>1, <3>2, SlotTyped DEF TypeOK, WorkerTypeOK
    <3>4. Follows(slot[p][i], slot'[p][i])
      BY <2>1 DEF Follows
    <3>5. ChargePrepared(p, i)'
      BY <2>1, <3>1 DEF IInv, ChargePrepared, Claimed
    <3> QED BY <1>1, <2>1, <3>2, <3>3, <3>4, <3>5, ThreadStep
  <2> QED BY <2>2, <2>3
<1>3. CASE RenewRefused(p, i) \/ HeartbeatDies(p, i)
  <2>1. UNCHANGED <<tasks, cache, claims>>
    BY <1>3 DEF RenewRefused, HeartbeatDies, FenceLost, repositoryVars
  <2>2. RepositoryTypeOK' /\ AllKept
    BY <1>1, <2>1, Unchanged
  <2>3. PICK h \in Heartbeat : SetHeartbeat(p, i, h)
    BY <1>3 DEF RenewRefused, HeartbeatDies, Heartbeat
  <2>4. /\ slot' \in [Process -> [Thread -> Slot]]
        /\ slot'[p][i].pc = slot[p][i].pc /\ slot'[p][i].task = slot[p][i].task
        /\ \A q \in Process, j \in Thread : q # p \/ j # i => slot'[q][j] = slot[q][j]
    BY <2>3, SlotTyped, HeartbeatSet
  <2>5. TypeOK'
    BY <1>1, <2>2, <2>4, SlotTyped DEF TypeOK, WorkerTypeOK
  <2>6. Follows(slot[p][i], slot'[p][i])
    BY <2>4 DEF Follows
  <2>7. ChargePrepared(p, i)'
    BY <2>1, <2>4 DEF IInv, ChargePrepared, Claimed
  <2> QED BY <1>1, <2>2, <2>4, <2>5, <2>6, <2>7, ThreadStep
<1> QED BY <1>2, <1>3

LEMMA ReportStep ==
  ASSUME IInv, NEW p \in Process, NEW i \in Thread, Report(p, i)
  PROVE  IInv'
<1>1. slot[p][i].task \in Task
  BY PCNames DEF IInv, ThreadHoldsTask, Report
<1>2. RepositoryTypeOK' /\ AllKept
  BY <1>1, SlotTyped, GetTaskKeeps DEF Report
<1> QED BY <1>2, SlotTyped, PCNames, RestStep DEF Report

LEMMA RaiseStep ==
  ASSUME IInv, NEW p \in Process, NEW i \in Thread, Raise(p, i)
  PROVE  IInv'
<1>1. RepositoryTypeOK' /\ AllKept
  BY Unchanged DEF Raise, repositoryVars
<1>2. faults' \in Nat /\ calls' = calls
  BY SlotTyped DEF Raise
<1> QED BY <1>1, <1>2, SlotTyped, PCNames, RestStep DEF Raise

\* A process starts a round, dies or comes back: all its threads are at rest.
LEMMA ProcessStep ==
  ASSUME IInv, NEW p \in Process,
         Recover(p) \/ Exit(p) \/ Crash(p) \/ Restart(p)
  PROVE  IInv'
<1>1. PICK pc \in Resting \cup {"down"} : slot' = [slot EXCEPT ![p] = [i \in Thread |-> Rest(pc)]]
  BY PCNames DEF Recover, Exit, Crash, Restart, Stopped
<1>2. RepositoryTypeOK' /\ AllKept
  <2>1. CASE Recover(p)
    BY <2>1, SlotTyped, RecoverKeeps DEF Recover
  <2>2. CASE Exit(p) \/ Crash(p) \/ Restart(p)
    BY <2>2, Unchanged DEF Exit, Crash, Restart, repositoryVars
  <2> QED BY <2>1, <2>2
<1>3. calls' = calls /\ faults' \in Nat
  BY SlotTyped DEF Recover, Exit, Crash, Restart
<1>4. /\ slot' \in [Process -> [Thread -> Slot]]
      /\ \A j \in Thread : slot'[p][j] = Rest(pc)
      /\ \A q \in Process \ {p}, j \in Thread : slot'[q][j] = slot[q][j]
  BY <1>1, SlotTyped, PCNames, ProcessReset
<1>5. TypeOK'
  BY <1>2, <1>3, <1>4, SlotTyped DEF TypeOK, WorkerTypeOK
<1>6. \A j \in Thread : slot'[p][j].pc \notin Busy
  BY <1>4, PCNames DEF Rest
<1>7. \A q \in Process, j \in Thread : Follows(slot[q][j], slot'[q][j])
  BY <1>4, <1>6 DEF Follows
<1>8. ASSUME NEW q \in Process, NEW j \in Thread
      PROVE  ChargePrepared(q, j)'
  <2>1. CASE q = p
    BY <1>6, <2>1, PCNames DEF ChargePrepared
  <2>2. CASE q # p
    <3>1. slot'[q][j] = slot[q][j]
      BY <1>4, <2>2
    <3>2. slot[q][j].pc \in {"mark", "marked"} => slot[q][j].task \in Task
      BY PCNames DEF IInv, ThreadHoldsTask
    <3> QED BY <1>2, <3>1, <3>2 DEF IInv, ChargePrepared, Claimed, AllKept, Kept
  <2> QED BY <2>1, <2>2
<1> QED BY <1>2, <1>3, <1>5, <1>7, <1>8, QuietStep

\* The database moves and no thread does.
LEMMA BackgroundStep ==
  ASSUME IInv, RepositoryTypeOK', AllKept, UNCHANGED <<slot, calls, faults>>
  PROVE  IInv'
<1>1. TypeOK'
  BY SlotTyped DEF TypeOK, WorkerTypeOK
<1>2. \A p \in Process, i \in Thread : Follows(slot[p][i], slot'[p][i])
  BY DEF Follows
<1>3. ASSUME NEW p \in Process, NEW i \in Thread
      PROVE  ChargePrepared(p, i)'
  <2>1. slot[p][i].pc \in {"mark", "marked"} => slot[p][i].task \in Task
    BY PCNames DEF IInv, ThreadHoldsTask
  <2> QED BY <2>1 DEF IInv, ChargePrepared, Claimed, AllKept, Kept
<1> QED BY <1>1, <1>2, <1>3, QuietStep

LEMMA QueueOrGetStep ==
  ASSUME IInv, NEW t \in Task, Queue(t) \/ Get(t)
  PROVE  IInv'
<1>1. RepositoryTypeOK' /\ AllKept
  BY SlotTyped, QueueTaskKeeps, GetTaskKeeps DEF Queue, Get
<1> QED BY <1>1, BackgroundStep DEF Queue, Get

LEMMA AdvanceStep ==
  ASSUME IInv, Advance
  PROVE  IInv'
<1>1. RepositoryTypeOK' /\ AllKept
  BY SlotTyped DEF Advance, Tick, RepositoryTypeOK, AllKept, Kept
<1> QED BY <1>1, BackgroundStep DEF Advance

LEMMA StutterStep ==
  ASSUME IInv, UNCHANGED vars
  PROVE  IInv'
<1>1. RepositoryTypeOK' /\ AllKept
  BY Unchanged DEF vars
<1> QED BY <1>1, BackgroundStep DEF vars

\* A creation fills a row nobody holds: a row that was never written has no
\* attempt to its name.
LEMMA CreateStep ==
  ASSUME IInv, NEW t \in Task, NEW request \in Submission, Create(t, request)
  PROVE  IInv'
<1>1. RepositoryTypeOK' /\ UNCHANGED <<slot, calls, faults>>
  BY SlotTyped, CreateTaskTyped DEF Create
<1>2. TypeOK'
  BY <1>1, SlotTyped DEF TypeOK, WorkerTypeOK
<1>3. /\ tasks[t].state = "ABSENT"
      /\ \A u \in Task \ {t} : tasks'[u] = tasks[u]
      /\ tasks'[t].state = "PREPARED" /\ tasks'[t].attempts = 0
  BY SlotTyped DEF Create, CreateTask, RepositoryTypeOK, NewRow
<1>4. calls[t] = 0
  BY <1>3 DEF IInv, CallsFollowAttempts
<1>5. ASSUME NEW p \in Process, NEW i \in Thread, slot[p][i].pc \in Busy
      PROVE  slot[p][i].task \in Task \ {t}
  <2>1. slot[p][i].task \in Task /\ Claimed(p, i).attempts = 1
    BY <1>5 DEF IInv, ThreadHoldsTask
  <2>2. tasks[t].attempts = 0
    BY <1>3 DEF IInv, CallsFollowAttempts
  <2> QED BY <2>1, <2>2 DEF Claimed
<1>6. \A p \in Process, i \in Thread : ThreadHoldsTask(p, i)' /\ ChargePrepared(p, i)'
  <2> TAKE p \in Process, i \in Thread
  <2>1. CASE slot[p][i].pc \in Busy
    <3>1. Claimed(p, i)' = Claimed(p, i)
      BY <1>1, <1>3, <1>5, <2>1 DEF Claimed
    <3> QED BY <1>1, <3>1 DEF IInv, ThreadHoldsTask, ChargePrepared
  <2>2. CASE slot[p][i].pc \notin Busy
    BY <1>1, <2>2, PCNames DEF ThreadHoldsTask, ChargePrepared
  <2> QED BY <2>1, <2>2
<1>7. ExclusiveHold'
  BY <1>1 DEF IInv, ExclusiveHold
<1>8. CallsFollowAttempts'
  BY <1>1, <1>3, <1>4 DEF IInv, CallsFollowAttempts
<1>9. CallsAccountedFor'
  BY <1>1, <1>3, <1>4 DEF IInv, CallsAccountedFor
<1> QED BY <1>2, <1>6, <1>7, <1>8, <1>9 DEF IInv

\* A claim takes a row with no attempt, which therefore no thread holds.
LEMMA ClaimStep ==
  ASSUME IInv, NEW p \in Process, NEW i \in Thread, NEW t \in Task, Claim(p, i, t)
  PROVE  IInv'
<1> DEFINE s == [pc |-> "claimed", task |-> t, token |-> claims + 1, heartbeat |-> "off"]
<1>1. /\ slot' = [slot EXCEPT ![p][i] = s] /\ UNCHANGED <<calls, faults>>
      /\ s.pc = "claimed" /\ s.task = t
  BY DEF Claim
<1>2. s \in Slot
  BY SlotTyped, PCNames DEF Slot, Heartbeat, RepositoryTypeOK
<1> HIDE DEF s
<1>3. /\ slot' \in [Process -> [Thread -> Slot]]
      /\ slot'[p][i] = s
      /\ \A q \in Process, j \in Thread : q # p \/ j # i => slot'[q][j] = slot[q][j]
  BY <1>1, <1>2, SlotTyped, Replaced
<1>4. RepositoryTypeOK'
  BY SlotTyped, ClaimTaskTyped DEF Claim
<1>5. TypeOK'
  BY <1>1, <1>3, <1>4, SlotTyped DEF TypeOK, WorkerTypeOK
<1>6. /\ tasks[t].attempts = 0 /\ tasks[t].state = "QUEUED"
      /\ \A u \in Task \ {t} : tasks'[u] = tasks[u]
      /\ tasks'[t].state = "RUNNING" /\ tasks'[t].attempts = 1
  <2>1. tasks[t] \in Row /\ tasks[t].attempts = 0
    BY SlotTyped DEF Claim, ClaimTask, Claimable, RepositoryTypeOK
  <2>2. tasks' = [tasks EXCEPT ![t] = Taken(tasks[t], claims + 1, clock + LeaseSeconds)]
    BY DEF Claim, ClaimTask
  <2>3. LET row == Taken(tasks[t], claims + 1, clock + LeaseSeconds)
        IN  row.state = "RUNNING" /\ row.attempts = 1
    BY <2>1 DEF Taken, Row
  <2> QED BY <2>1, <2>2, <2>3, SlotTyped DEF Claim, ClaimTask, Claimable, RepositoryTypeOK
<1>7. calls[t] = 0
  BY <1>6 DEF IInv, CallsFollowAttempts
<1>8. ASSUME NEW q \in Process, NEW j \in Thread, slot[q][j].pc \in Busy
      PROVE  slot[q][j].task \in Task \ {t} /\ Claimed(q, j).attempts = 1
  BY <1>6, <1>8 DEF IInv, ThreadHoldsTask, Claimed
<1>9. \A q \in Process, j \in Thread : ThreadHoldsTask(q, j)' /\ ChargePrepared(q, j)'
  <2> TAKE q \in Process, j \in Thread
  <2>1. CASE q = p /\ j = i
    BY <1>1, <1>3, <1>6, <1>7, <2>1 DEF ThreadHoldsTask, ChargePrepared, Claimed
  <2>2. CASE q # p \/ j # i
    <3>1. slot'[q][j] = slot[q][j]
      BY <1>3, <2>2
    <3>2. CASE slot[q][j].pc \in Busy
      <4>1. Claimed(q, j)' = Claimed(q, j)
        BY <1>6, <1>8, <3>1, <3>2 DEF Claimed
      <4> QED BY <1>1, <3>1, <4>1 DEF IInv, ThreadHoldsTask, ChargePrepared
    <3>3. CASE slot[q][j].pc \notin Busy
      BY <3>1, <3>3, PCNames DEF ThreadHoldsTask, ChargePrepared
    <3> QED BY <3>2, <3>3
  <2> QED BY <2>1, <2>2
<1>10. ExclusiveHold'
  <2>1. ASSUME NEW q \in Process, NEW j \in Thread, q # p \/ j # i, slot'[q][j].pc \in Busy
        PROVE  slot'[q][j] = slot[q][j] /\ slot'[q][j].task # t
    BY <1>3, <1>8, <2>1
  <2> QED BY <1>1, <1>3, <2>1 DEF IInv, ExclusiveHold
<1>11. CallsFollowAttempts'
  BY <1>1, <1>6, <1>7 DEF IInv, CallsFollowAttempts
<1>12. CallsAccountedFor'
  BY <1>1, <1>6, <1>7 DEF IInv, CallsAccountedFor
<1> QED BY <1>5, <1>9, <1>10, <1>11, <1>12 DEF IInv

\* The provider call: the only step that counts one, and the thread's first.
LEMMA BeginCallStep ==
  ASSUME IInv, NEW p \in Process, NEW i \in Thread, BeginCall(p, i)
  PROVE  IInv'
<1> DEFINE t == slot[p][i].task
<1>1. slot[p][i].pc = "marked" /\ UNCHANGED <<repositoryVars, faults>>
  BY DEF BeginCall, At
<1>2. t \in Task /\ tasks[t].attempts = 1 /\ calls[t] = 0
  BY <1>1, PCNames DEF IInv, ThreadHoldsTask, Claimed
<1>3. tasks[t].marked /\ tasks[t].request.mode = "ai" /\ tasks[t].request.approved
  BY <1>1 DEF IInv, ChargePrepared, Claimed
<1>4. /\ slot' \in [Process -> [Thread -> Slot]]
      /\ slot'[p][i].pc = "calling" /\ slot'[p][i].task = t
      /\ \A q \in Process, j \in Thread : q # p \/ j # i => slot'[q][j] = slot[q][j]
  <2>1. "calling" \in PC /\ "beating" \in Heartbeat
    BY PCNames DEF Heartbeat
  <2> QED BY <2>1, SlotTyped, Placed DEF BeginCall
<1>5. calls' = [calls EXCEPT ![t] = 1]
  BY <1>2, SlotTyped DEF BeginCall
<1>6. UNCHANGED <<tasks, cache, claims>> /\ clock' = clock
  BY <1>1 DEF repositoryVars
<1>7. RepositoryTypeOK' /\ AllKept
  BY <1>6, Unchanged
<1>8. TypeOK'
  BY <1>1, <1>4, <1>5, <1>7, SlotTyped DEF TypeOK, WorkerTypeOK
<1> HIDE DEF t
<1>9. ASSUME NEW q \in Process, NEW j \in Thread, q # p \/ j # i, slot[q][j].pc \in Busy
      PROVE  slot[q][j].task \in Task \ {t}
  BY <1>1, <1>9, PCNames DEF IInv, ThreadHoldsTask, ExclusiveHold, t
<1>10. \A q \in Process, j \in Thread : ThreadHoldsTask(q, j)' /\ ChargePrepared(q, j)'
  <2> TAKE q \in Process, j \in Thread
  <2>1. CASE q = p /\ j = i
    BY <1>2, <1>4, <1>6, <2>1, PCNames DEF ThreadHoldsTask, ChargePrepared, Claimed
  <2>2. CASE q # p \/ j # i
    <3>1. slot'[q][j] = slot[q][j]
      BY <1>4, <2>2
    <3>2. slot[q][j].pc \in Busy => calls'[slot[q][j].task] = calls[slot[q][j].task]
      BY <1>5, <1>9, <2>2, SlotTyped
    <3>3. ThreadHoldsTask(q, j) /\ ChargePrepared(q, j)
      BY DEF IInv
    <3> QED BY <1>6, <3>1, <3>2, <3>3 DEF ThreadHoldsTask, ChargePrepared, Claimed
  <2> QED BY <2>1, <2>2
<1>11. ExclusiveHold'
  <2>1. slot[p][i].pc \in Busy
    BY <1>1, PCNames
  <2> QED BY <1>4, <2>1 DEF IInv, ExclusiveHold, t
<1>12. CallsFollowAttempts' /\ CallsAccountedFor'
  BY <1>2, <1>3, <1>5, <1>6, SlotTyped DEF IInv, CallsFollowAttempts, CallsAccountedFor
<1> QED BY <1>8, <1>10, <1>11, <1>12 DEF IInv

-----------------------------------------------------------------------------
(* The theorems                                                            *)

LEMMA InitIInv == Init => IInv
<1> SUFFICES ASSUME Init PROVE IInv
  OBVIOUS
<1>1. tasks \in [Task -> Row]
  <2>1. NewRow(LegacyRequest, InputTTL) \in Row
    BY NewRowType, RepositoryAssumption
  <2>2. AbsentRow \in Row
    <3>1. NewRow(LegacyRequest, 0) \in Row
      BY NewRowType, RepositoryAssumption
    <3> QED BY <3>1 DEF AbsentRow, Row
  <2> QED BY <2>1, <2>2 DEF Init, RepositoryInit
<1>2. RepositoryTypeOK
  BY <1>1 DEF Init, RepositoryInit, RepositoryTypeOK
<1>3. Rest("done") \in Slot
  BY RestType, PCNames
<1>4. TypeOK
  BY <1>2, <1>3 DEF Init, TypeOK, WorkerTypeOK
<1>5. \A p \in Process, i \in Thread : slot[p][i].pc = "done" /\ "done" \notin Busy
  BY PCNames DEF Init, Rest
<1>6. \A p \in Process, i \in Thread : ThreadHoldsTask(p, i) /\ ChargePrepared(p, i)
  BY <1>5 DEF ThreadHoldsTask, ChargePrepared
<1>7. ExclusiveHold
  BY <1>5 DEF ExclusiveHold
<1>8. \A t \in Task : tasks[t].attempts = 0
  BY DEF Init, RepositoryInit, NewRow, AbsentRow
<1>9. CallsFollowAttempts /\ CallsAccountedFor
  BY <1>8 DEF Init, CallsFollowAttempts, CallsAccountedFor
<1> QED BY <1>4, <1>6, <1>7, <1>9 DEF IInv

LEMMA NextIInv == IInv /\ [Next]_vars => IInv'
<1> SUFFICES ASSUME IInv, [Next]_vars PROVE IInv'
  OBVIOUS
<1>1. ASSUME NEW t \in Task, Api(t) PROVE IInv'
  BY <1>1, QueueOrGetStep, CreateStep DEF Api
<1>2. ASSUME NEW p \in Process, NEW i \in Thread, ProcessOne(p, i) PROVE IInv'
  BY <1>2, IdleStep, ClaimStep, LocalStep, TransactionStep, BeginCallStep, ReportStep
  DEF ProcessOne
<1>3. ASSUME NEW p \in Process, NEW i \in Thread, WorkerThread(p, i) PROVE IInv'
  <2>1. CASE Renew(p, i) \/ RenewRefused(p, i) \/ HeartbeatDies(p, i)
    <3>1. slot[p][i].heartbeat = "beating"
      BY <2>1 DEF Renew, RenewRefused, HeartbeatDies
    <3> QED BY <2>1, <3>1, HeartbeatStep
  <2> QED BY <1>2, <1>3, <2>1, RaiseStep DEF WorkerThread
<1>4. ASSUME NEW p \in Process, WorkerMain(p) PROVE IInv'
  BY <1>4, ProcessStep DEF WorkerMain
<1> QED BY <1>1, <1>3, <1>4, AdvanceStep, StutterStep DEF Next

\* IInv is inductive, hence an invariant.
THEOREM Invariance == Spec => []IInv
BY InitIInv, NextIInv, PTL DEF Spec

\* Every variable of the database and of the workers keeps its type.
THEOREM TypeCorrect == Spec => []TypeOK
<1>1. IInv => TypeOK
  BY DEF IInv
<1> QED BY <1>1, Invariance, PTL

\* No task ever makes its provider call twice: a task is charged at most once
\* however many workers crash, stall, or lose their lease.
THEOREM NeverChargedTwice == Spec => []AtMostOneCall
<1>1. IInv => AtMostOneCall
  BY DEF IInv, CallsFollowAttempts, AtMostOneCall
<1> QED BY <1>1, Invariance, PTL

\* A call is never made without approval, nor before its record is committed.
THEOREM NeverChargedInSecret == Spec => []CallsAccountedFor
<1>1. IInv => CallsAccountedFor
  BY DEF IInv
<1> QED BY <1>1, Invariance, PTL

\* No task is worked on by two threads.
THEOREM AttemptsExclude == Spec => []ExclusiveAttempt
<1>1. IInv => ExclusiveAttempt
  BY PCNames DEF IInv, ExclusiveHold, ExclusiveAttempt
<1> QED BY <1>1, Invariance, PTL

-----------------------------------------------------------------------------
(* The moves of a row                                                      *)

Submitted(old, new) ==
  /\ old.state = "ABSENT"
  /\ \E request \in Submission : new = NewRow(request, clock + InputTTL)

Queued(old, new) == old.state = "PREPARED" /\ new = [old EXCEPT !.state = "QUEUED"]

\* The expiries and the recovery, whoever runs them.
Lapsed(old, new) ==
  \/ InputLapsed(old) /\ new = Closed(old, "FAILED", "INPUT_EXPIRED")
  \/ LeaseLapsed(old) /\ new = Closed(old, "NEEDS_REVIEW", "LEASE_EXPIRED")
  \/ OutputLapsed(old) /\ new = [old EXCEPT !.output = NoOutput]

\* Thread i of process p takes the row up.
TakenBy(p, i, t) ==
  /\ Claimable(tasks[t])
  /\ tasks'[t] = Taken(tasks[t], claims + 1, clock + LeaseSeconds)
  /\ slot'[p][i].pc = "claimed" /\ slot'[p][i].task = t /\ slot'[p][i].token = claims + 1

\* What the owner of a row does to it while it goes on working ...
Continued(old, new) ==
  \/ new = [old EXCEPT !.marked = TRUE]
  \/ new = [old EXCEPT !.lease = clock + LeaseSeconds]

\* ... and as its last act.
Ended(old, new) ==
  \/ \E output \in Output, expires \in Nat : new = Succeeded(old, output, expires)
  \/ new = Closed(old, "FAILED", "PROCESSING_REJECTED")

\* The result it delivers is its own or the one its key finds in the cache.
Delivered(p, i, t) ==
  LET key == KeyOf(p, i) IN
    \/ tasks'[t] = Succeeded(tasks[t], [from |-> key, by |-> t],
                             Min2(tasks[t].inputExpires, clock + OutputTTL))
    \/ /\ cache[key] # NoEntry
       /\ tasks'[t] = Succeeded(tasks[t], cache[key].output, cache[key].expires)

WorkedOn(p, i, t) ==
  /\ slot[p][i].task = t /\ Owns(t, slot[p][i].token)
  /\ \/ Continued(tasks[t], tasks'[t])
     \/ /\ Ended(tasks[t], tasks'[t])
        /\ tasks'[t].state = "SUCCEEDED" => Delivered(p, i, t)
        /\ slot[p][i].pc \in Working /\ slot'[p][i].pc \notin Working

RowMove(t) ==
  \/ tasks'[t] = tasks[t]
  \/ Submitted(tasks[t], tasks'[t])
  \/ Queued(tasks[t], tasks'[t])
  \/ Lapsed(tasks[t], tasks'[t])
  \/ \E p \in Process, i \in Thread : TakenBy(p, i, t) \/ WorkedOn(p, i, t)

\* A transaction that writes one row moves that row and no other.
LEMMA OneRowMoves ==
  ASSUME tasks \in [Task -> Row], NEW t \in Task, NEW row,
         tasks' = [tasks EXCEPT ![t] = row], tasks'[t] = row => RowMove(t)
  PROVE  \A u \in Task : RowMove(u)
<1>1. tasks'[t] = row
  OBVIOUS
<1>2. \A u \in Task \ {t} : tasks'[u] = tasks[u]
  OBVIOUS
<1> QED BY <1>1, <1>2 DEF RowMove

LEMMA GetMoves ==
  ASSUME IInv, NEW t \in Task, GetTask(t)
  PROVE  \A u \in Task : RowMove(u)
<1>1. tasks'[t] = ExpireOne(tasks[t]) => RowMove(t)
  BY DEF RowMove, Lapsed, ExpireOne
<1> QED BY <1>1, SlotTyped, OneRowMoves DEF GetTask, RepositoryTypeOK

LEMMA ApiMoves ==
  ASSUME IInv, NEW t \in Task, Api(t)
  PROVE  \A u \in Task : RowMove(u)
<1>0. tasks \in [Task -> Row]
  BY SlotTyped DEF RepositoryTypeOK
<1>1. ASSUME NEW request \in Submission, Create(t, request)
      PROVE  \A u \in Task : RowMove(u)
  BY <1>0, <1>1, OneRowMoves DEF Create, CreateTask, RowMove, Submitted
<1>2. tasks'[t] = ExpireOne(tasks[t]) => RowMove(t)
  BY DEF RowMove, Lapsed, ExpireOne
<1>3. CASE Get(t)
  BY <1>3, GetMoves DEF Get
<1>4. CASE Queue(t)
  <2>1. CASE Queueable(tasks[t])
    BY <1>0, <1>4, <2>1, OneRowMoves DEF Queue, QueueTask, RowMove, Queued, Queueable
  <2>2. CASE ~ Queueable(tasks[t])
    BY <1>0, <1>2, <1>4, <2>2, OneRowMoves DEF Queue, QueueTask
  <2> QED BY <2>1, <2>2
<1> QED BY <1>1, <1>3, <1>4 DEF Api

\* Steps of a thread that leave the rows alone.
LEMMA QuietThread ==
  ASSUME NEW p \in Process, NEW i \in Thread,
         \/ NoPermit(p, i) \/ NothingToClaim(p, i) \/ Refuse(p, i) \/ SkipLookup(p, i)
         \/ LookupMiss(p, i) \/ Tailor(p, i) \/ MarkRefused(p, i) \/ BeginCall(p, i)
         \/ CallReturns(p, i) \/ CallFails(p, i) \/ WriteRefused(p, i)
         \/ RenewRefused(p, i) \/ Raise(p, i) \/ HeartbeatDies(p, i)
  PROVE  tasks' = tasks
BY DEF NoPermit, NothingToClaim, Refuse, SkipLookup, LookupMiss, Tailor, MarkRefused, BeginCall,
       CallReturns, CallFails, WriteRefused, RenewRefused, Raise, HeartbeatDies, FenceLost,
       repositoryVars

LEMMA ClaimMoves ==
  ASSUME IInv, NEW p \in Process, NEW i \in Thread, NEW t \in Task, Claim(p, i, t)
  PROVE  \A u \in Task : RowMove(u)
<1>1. /\ tasks' = [tasks EXCEPT ![t] = Taken(tasks[t], claims + 1, clock + LeaseSeconds)]
      /\ Claimable(tasks[t])
  BY DEF Claim, ClaimTask
<1>2. /\ slot'[p][i].pc = "claimed" /\ slot'[p][i].task = t
      /\ slot'[p][i].token = claims + 1
  BY SlotTyped DEF Claim
<1>3. tasks'[t] = Taken(tasks[t], claims + 1, clock + LeaseSeconds) => TakenBy(p, i, t)
  BY <1>1, <1>2 DEF TakenBy
<1> QED BY <1>1, <1>3, SlotTyped, OneRowMoves DEF RepositoryTypeOK, RowMove

\* The writes that end the work of a thread on its task.
LEMMA EndMoves ==
  ASSUME IInv, NEW p \in Process, NEW i \in Thread,
         LookupHit(p, i) \/ Complete(p, i) \/ Fail(p, i)
  PROVE  \A u \in Task : RowMove(u)
<1> DEFINE t == slot[p][i].task
<1>1. slot[p][i].pc \in Working /\ slot[p][i].pc \in Busy
  BY PCNames DEF LookupHit, Complete, Fail, At, Working
<1>2. t \in Task /\ KeyOf(p, i) \in CacheKey
  BY <1>1, KeyOfType DEF IInv, ThreadHoldsTask
<1>3. Owns(t, slot[p][i].token)
  BY DEF LookupHit, CompleteFromCache, CacheServes, Complete, CompleteTask, Fail, FailTask
<1>4. slot'[p][i].pc \notin Working
  <2>1. PICK pc \in {"hit", "report"} : Goto(p, i, pc)
    BY DEF LookupHit, Complete, Fail
  <2>2. pc \in PC /\ pc \notin Working
    BY DEF PC, Busy, Holding, Working
  <2> QED BY <2>1, <2>2, SlotTyped, Moved
<1>5. \E row : tasks' = [tasks EXCEPT ![t] = row] /\ Ended(tasks[t], row)
  <2>1. CASE LookupHit(p, i)
    <3>1. cache[KeyOf(p, i)] \in Entry
      BY <1>2, <2>1, SlotTyped
      DEF RepositoryTypeOK, LookupHit, CompleteFromCache, CacheServes, FreshEntry
    <3> QED BY <2>1, <3>1 DEF LookupHit, CompleteFromCache, Ended, Entry
  <2>2. CASE Complete(p, i)
    <3>1. [from |-> KeyOf(p, i), by |-> t] \in Output
      BY <1>2 DEF Output
    <3>2. Min2(tasks[t].inputExpires, clock + OutputTTL) \in Nat
      BY <1>2, SlotTyped, RepositoryAssumption DEF Min2, RepositoryTypeOK, Row
    <3> QED BY <2>2, <3>1, <3>2 DEF Complete, CompleteTask, Ended
  <2>3. CASE Fail(p, i)
    BY <2>3 DEF Fail, FailTask, Ended
  <2> QED BY <2>1, <2>2, <2>3
<1>6. PICK row : tasks' = [tasks EXCEPT ![t] = row] /\ Ended(tasks[t], row)
  BY <1>5
<1>7. tasks'[t] = row /\ row.state = "SUCCEEDED" => Delivered(p, i, t)
  <2>1. CASE LookupHit(p, i)
    BY <1>2, <2>1, SlotTyped
    DEF LookupHit, CompleteFromCache, CacheServes, FreshEntry, Delivered, RepositoryTypeOK
  <2>2. CASE Complete(p, i)
    BY <1>2, <2>2, SlotTyped DEF Complete, CompleteTask, Delivered, RepositoryTypeOK
  <2>3. CASE Fail(p, i)
    <3>1. tasks[t] \in Row /\ tasks'[t] = Closed(tasks[t], "FAILED", "PROCESSING_REJECTED")
      BY <1>2, <2>3, SlotTyped DEF Fail, FailTask, RepositoryTypeOK
    <3>2. tasks'[t].state = "FAILED"
      BY <3>1 DEF Closed, Row
    <3> QED BY <3>2
  <2> QED BY <2>1, <2>2, <2>3
<1>8. tasks'[t] = row => WorkedOn(p, i, t)
  BY <1>1, <1>3, <1>4, <1>6, <1>7 DEF WorkedOn
<1> HIDE DEF t
<1> QED BY <1>2, <1>6, <1>8, SlotTyped, OneRowMoves DEF RepositoryTypeOK, RowMove

\* The mark and the renewals, which leave the task in its owner's hands.
LEMMA ContinueMoves ==
  ASSUME IInv, NEW p \in Process, NEW i \in Thread, Mark(p, i) \/ Renew(p, i)
  PROVE  \A u \in Task : RowMove(u)
<1> DEFINE t == slot[p][i].task
<1>1. Owns(t, slot[p][i].token)
  BY DEF Mark, MarkModelCall, Renew, RenewLease
<1>2. \E row : tasks' = [tasks EXCEPT ![t] = row] /\ Continued(tasks[t], row)
  BY DEF Mark, MarkModelCall, Renew, RenewLease, Continued
<1>3. PICK row : tasks' = [tasks EXCEPT ![t] = row] /\ Continued(tasks[t], row)
  BY <1>2
<1>4. CASE t \in Task
  <2>1. tasks'[t] = row => WorkedOn(p, i, t)
    BY <1>1, <1>3 DEF WorkedOn
  <2> HIDE DEF t
  <2> QED BY <1>3, <1>4, <2>1, SlotTyped, OneRowMoves DEF RepositoryTypeOK, RowMove
<1>5. CASE t \notin Task
  BY <1>3, <1>5, SlotTyped DEF RepositoryTypeOK, RowMove
<1> QED BY <1>4, <1>5

\* Every step moves every row by one of these moves or leaves it alone.
LEMMA RowsMove ==
  ASSUME IInv, [Next]_vars
  PROVE  \A t \in Task : RowMove(t)
<1>1. CASE tasks' = tasks
  BY <1>1 DEF RowMove
<1>2. ASSUME NEW t \in Task, Api(t) PROVE \A u \in Task : RowMove(u)
  BY <1>2, ApiMoves
<1>3. ASSUME NEW p \in Process, NEW i \in Thread, WorkerThread(p, i), tasks' # tasks
      PROVE  \A u \in Task : RowMove(u)
  <2>1. CASE Report(p, i)
    <3>1. slot[p][i].task \in Task
      BY <2>1, PCNames DEF IInv, ThreadHoldsTask, Report
    <3> QED BY <2>1, <3>1, GetMoves DEF Report
  <2> QED BY <1>3, <2>1, QuietThread, ClaimMoves, EndMoves, ContinueMoves
          DEF WorkerThread, ProcessOne
<1>4. ASSUME NEW p \in Process, WorkerMain(p), tasks' # tasks
      PROVE  \A u \in Task : RowMove(u)
  <2>1. RecoverAndCleanup
    BY <1>4 DEF WorkerMain, Recover, Exit, Crash, Restart, repositoryVars
  <2> QED BY <2>1, CleanupOfRow DEF RowMove, Lapsed
<1> QED BY <1>1, <1>2, <1>3, <1>4 DEF Next, Advance, Tick, vars

-----------------------------------------------------------------------------
(* Settled tasks                                                           *)

\* No move but forgetting the result starts from a settled row.
LEMMA FinalStep ==
  ASSUME IInv, [Next]_vars, NEW t \in Task, tasks[t].state \in Terminal
  PROVE  Final(tasks[t], tasks'[t])
<1>1. RowMove(t)
  BY RowsMove
<1>2. tasks[t].state \notin Waiting \cup {"RUNNING", "ABSENT"}
  BY DEF Terminal, Waiting
<1> QED BY <1>1, <1>2 DEF RowMove, Submitted, Queued, Lapsed, InputLapsed, LeaseLapsed,
                          TakenBy, Claimable, WorkedOn, Owns, Final, Waiting

\* A task that was settled once keeps its outcome in every behaviour.
THEOREM OutcomesAreFinal == Spec => SettledIsFinal
<1>1. IInv /\ [Next]_vars =>
        \A t \in Task : tasks[t].state \in Terminal => Final(tasks[t], tasks'[t])
  BY FinalStep
<1> QED BY <1>1, Invariance, PTL DEF Spec, SettledIsFinal

-----------------------------------------------------------------------------
(* Live leases                                                             *)

\* A thread at work owns its task, or the task's lease is over for good: a
\* lease that lapsed is never renewed, and no row is taken up twice.
OwnsOrLapsed(p, i) ==
  slot[p][i].pc \in Working =>
    \/ Claimed(p, i).state = "RUNNING" /\ Claimed(p, i).token = slot[p][i].token
    \/ Claimed(p, i).lease < clock

\* A thread at work was at work before, on the same task with the same token,
\* or has taken it up in this step.
ThreadMove(p, i) ==
  slot'[p][i].pc \in Working =>
    \/ /\ slot[p][i].pc \in Working
       /\ slot'[p][i].task = slot[p][i].task /\ slot'[p][i].token = slot[p][i].token
    \/ \E t \in Task : TakenBy(p, i, t)

\* What moving a thread leaves of its slot.
LEMMA SlotKept ==
  ASSUME NEW s \in Slot
  PROVE  /\ \A pc \in PC : LET new == [s EXCEPT !.pc = pc]
                           IN  new \in Slot /\ new.pc = pc /\ new.task = s.task /\ new.token = s.token
         /\ \A h \in Heartbeat : LET new == [s EXCEPT !.heartbeat = h]
                                 IN  new \in Slot /\ new.pc = s.pc /\ new.task = s.task
                                     /\ new.token = s.token
         /\ \A pc \in PC, h \in Heartbeat :
              LET new == With(s, pc, h)
              IN  new \in Slot /\ new.pc = pc /\ new.task = s.task /\ new.token = s.token
BY DEF Slot, With

\* One thread moves, and only from work to work, or away from it.
LEMMA OneThreadMoves ==
  ASSUME slot \in [Process -> [Thread -> Slot]], NEW p \in Process, NEW i \in Thread,
         NEW s \in Slot, slot' = [slot EXCEPT ![p][i] = s],
         s.pc \in Working => /\ slot[p][i].pc \in Working
                             /\ s.task = slot[p][i].task /\ s.token = slot[p][i].token
  PROVE  \A q \in Process, j \in Thread : ThreadMove(q, j)
<1>1. /\ slot'[p][i] = s
      /\ \A q \in Process, j \in Thread : q # p \/ j # i => slot'[q][j] = slot[q][j]
  BY Replaced
<1> QED BY <1>1 DEF ThreadMove

\* Goto, Put and SetHeartbeat from a working thread.
LEMMA WorkingMoves ==
  ASSUME IInv, NEW p \in Process, NEW i \in Thread, slot[p][i].pc \in Working,
         \/ \E pc \in PC : Goto(p, i, pc) \/ \E h \in Heartbeat : Put(p, i, pc, h)
         \/ \E h \in Heartbeat : SetHeartbeat(p, i, h)
  PROVE  \A q \in Process, j \in Thread : ThreadMove(q, j)
<1>1. slot[p][i] \in Slot
  BY SlotTyped
<1>2. ASSUME NEW pc \in PC, Goto(p, i, pc) PROVE \A q \in Process, j \in Thread : ThreadMove(q, j)
  BY <1>1, <1>2, SlotTyped, SlotKept, OneThreadMoves DEF Goto
<1>3. ASSUME NEW pc \in PC, NEW h \in Heartbeat, Put(p, i, pc, h)
      PROVE  \A q \in Process, j \in Thread : ThreadMove(q, j)
  <2> DEFINE s == With(slot[p][i], pc, h)
  <2>1. s \in Slot /\ s.pc = pc /\ s.task = slot[p][i].task /\ s.token = slot[p][i].token
    BY <1>1, SlotKept
  <2>2. slot' = [slot EXCEPT ![p][i] = s]
    BY <1>3 DEF Put
  <2> HIDE DEF s
  <2> QED BY <2>1, <2>2, SlotTyped, OneThreadMoves
<1>4. ASSUME NEW h \in Heartbeat, SetHeartbeat(p, i, h)
      PROVE  \A q \in Process, j \in Thread : ThreadMove(q, j)
  BY <1>1, <1>4, SlotTyped, SlotKept, OneThreadMoves DEF SetHeartbeat
<1> QED BY <1>2, <1>3, <1>4

\* A thread that is reset, or goes to a program counter outside of work.
LEMMA LeavingMoves ==
  ASSUME IInv, NEW p \in Process, NEW i \in Thread, NEW pc \in PC \ Working,
         Goto(p, i, pc) \/ slot' = [slot EXCEPT ![p][i] = Rest(pc)]
  PROVE  \A q \in Process, j \in Thread : ThreadMove(q, j)
<1>1. slot[p][i] \in Slot /\ Rest(pc) \in Slot /\ Rest(pc).pc = pc
  BY SlotTyped, RestType DEF Rest
<1>2. CASE Goto(p, i, pc)
  <2> DEFINE s == [slot[p][i] EXCEPT !.pc = pc]
  <2>1. s \in Slot /\ s.pc = pc
    BY <1>1, SlotKept
  <2>2. slot' = [slot EXCEPT ![p][i] = s]
    BY <1>2 DEF Goto
  <2> HIDE DEF s
  <2> QED BY <2>1, <2>2, SlotTyped, OneThreadMoves
<1>3. CASE slot' = [slot EXCEPT ![p][i] = Rest(pc)]
  BY <1>1, <1>3, SlotTyped, OneThreadMoves
<1> QED BY <1>2, <1>3

\* Every step of a thread moves it as ThreadMove says, and moves no other.
LEMMA ThreadsMove ==
  ASSUME IInv, [Next]_vars
  PROVE  \A p \in Process, i \in Thread : ThreadMove(p, i)
<1> DEFINE All == \A p \in Process, i \in Thread : ThreadMove(p, i)
<1>1. CASE slot' = slot
  BY <1>1 DEF ThreadMove
<1>2. ASSUME NEW p \in Process, NEW i \in Thread, WorkerThread(p, i), slot' # slot PROVE All
  <2>1. CASE NoPermit(p, i) \/ NothingToClaim(p, i)
    BY <2>1, LeavingMoves DEF NoPermit, NothingToClaim, PC, Resting, Working
  <2>2. CASE Raise(p, i) \/ Report(p, i)
    BY <2>2, LeavingMoves DEF Raise, Report, PC, Resting, Working
  <2>3. ASSUME NEW t \in Task, Claim(p, i, t) PROVE All
    <3>1. TakenBy(p, i, t)
      <4>1. tasks'[t] = Taken(tasks[t], claims + 1, clock + LeaseSeconds) /\ Claimable(tasks[t])
        BY <2>3, SlotTyped DEF Claim, ClaimTask, RepositoryTypeOK
      <4> QED BY <2>3, <4>1, SlotTyped DEF Claim, TakenBy
    <3>2. \A q \in Process, j \in Thread : q # p \/ j # i => slot'[q][j] = slot[q][j]
      BY <2>3, SlotTyped DEF Claim
    <3> QED BY <3>1, <3>2 DEF ThreadMove
  <2>4. CASE LookupHit(p, i) \/ Complete(p, i) \/ Fail(p, i) \/ WriteRefused(p, i)
    <3>1. PICK pc \in {"hit", "report"} : Goto(p, i, pc)
      BY <2>4 DEF LookupHit, Complete, Fail, WriteRefused
    <3>2. pc \in PC \ Working
      BY DEF PC, Busy, Holding, Working
    <3> QED BY <3>1, <3>2, LeavingMoves
  <2>5. CASE \/ Refuse(p, i) \/ SkipLookup(p, i) \/ LookupMiss(p, i)
             \/ Tailor(p, i) \/ Mark(p, i) \/ MarkRefused(p, i)
    <3>1. PICK pc \in {"reject", "mark", "tailor", "complete", "marked"} : Goto(p, i, pc)
      BY <2>5 DEF Refuse, SkipLookup, LookupMiss, Tailor, Mark, MarkRefused, AfterLookup
    <3>2. slot[p][i].pc \in Working
      BY <2>5 DEF Refuse, SkipLookup, LookupMiss, Tailor, Mark, MarkRefused, At, Working
    <3>3. pc \in PC
      BY DEF PC, Busy, Holding, Working
    <3> QED BY <3>1, <3>2, <3>3, WorkingMoves
  <2>6. CASE BeginCall(p, i) \/ CallReturns(p, i) \/ CallFails(p, i)
    <3>1. PICK pc \in {"calling", "reject", "complete"}, h \in {"beating", "off"} : Put(p, i, pc, h)
      BY <2>6 DEF BeginCall, CallReturns, CallFails, LeaveCall
    <3>2. slot[p][i].pc \in Working
      BY <2>6 DEF BeginCall, CallReturns, CallFails, At, Working
    <3>3. pc \in PC /\ h \in Heartbeat
      BY DEF PC, Busy, Holding, Working, Heartbeat
    <3> QED BY <3>1, <3>2, <3>3, WorkingMoves
  <2>7. CASE RenewRefused(p, i) \/ HeartbeatDies(p, i)
    <3>1. PICK h \in Heartbeat : SetHeartbeat(p, i, h)
      BY <2>7 DEF RenewRefused, HeartbeatDies, Heartbeat
    <3>2. slot[p][i] \in Slot
      BY SlotTyped
    <3> DEFINE s == [slot[p][i] EXCEPT !.heartbeat = h]
    <3>3. /\ s \in Slot /\ s.pc = slot[p][i].pc
          /\ s.task = slot[p][i].task /\ s.token = slot[p][i].token
      BY <3>2, SlotKept
    <3>4. slot' = [slot EXCEPT ![p][i] = s]
      BY <3>1 DEF SetHeartbeat
    <3> HIDE DEF s
    <3> QED BY <3>3, <3>4, SlotTyped, OneThreadMoves
  <2> QED BY <1>2, <2>1, <2>2, <2>3, <2>4, <2>5, <2>6, <2>7
          DEF WorkerThread, ProcessOne, Renew
<1>3. ASSUME NEW p \in Process, WorkerMain(p) PROVE All
  <2>1. PICK pc \in Resting \cup {"down"} :
          slot' = [slot EXCEPT ![p] = [i \in Thread |-> Rest(pc)]]
    BY <1>3, PCNames DEF WorkerMain, Recover, Exit, Crash, Restart, Stopped
  <2>2. pc \in PC /\ pc \notin Working
    BY DEF PC, Resting, Working
  <2>3. /\ \A j \in Thread : slot'[p][j] = Rest(pc)
        /\ \A q \in Process \ {p}, j \in Thread : slot'[q][j] = slot[q][j]
    BY <2>1, <2>2, SlotTyped, ProcessReset
  <2>4. \A j \in Thread : slot'[p][j].pc \notin Working
    BY <2>2, <2>3 DEF Rest
  <2> QED BY <2>3, <2>4 DEF ThreadMove
<1> QED BY <1>1, <1>2, <1>3 DEF Next, Api, Queue, Get, Create, Advance, vars

LEMMA ClockMoves ==
  ASSUME IInv, [Next]_vars
  PROVE  clock \in Nat /\ clock' \in Nat /\ clock <= clock'
<1>1. clock \in Nat
  BY SlotTyped DEF RepositoryTypeOK
<1>2. clock' = clock \/ clock' = clock + 1
  BY DEF Next, Api, Queue, Get, Create, WorkerThread, ProcessOne, WorkerMain, Advance, Tick, vars,
         repositoryVars, NoPermit, NothingToClaim, Claim, Refuse, SkipLookup, LookupHit,
         LookupMiss, Tailor, Mark, MarkRefused, BeginCall, CallReturns, CallFails, Complete,
         Fail, WriteRefused, Report, Renew, RenewRefused, Raise, HeartbeatDies, Recover,
         Exit, Crash, Restart
<1> QED BY <1>1, <1>2

LEMMA LeaseStep ==
  ASSUME IInv, [Next]_vars, NEW p \in Process, NEW i \in Thread, OwnsOrLapsed(p, i)
  PROVE  OwnsOrLapsed(p, i)'
<1> SUFFICES ASSUME slot'[p][i].pc \in Working
             PROVE  LET row == tasks'[slot'[p][i].task] IN
                      \/ row.state = "RUNNING" /\ row.token = slot'[p][i].token
                      \/ row.lease < clock'
  BY DEF OwnsOrLapsed, Claimed
<1>0. \A t \in Task : tasks[t] \in Row
  BY SlotTyped DEF RepositoryTypeOK
<1>1. ASSUME NEW t \in Task, TakenBy(p, i, t)
      PROVE  tasks'[slot'[p][i].task].state = "RUNNING"
             /\ tasks'[slot'[p][i].task].token = slot'[p][i].token
  BY <1>0, <1>1 DEF TakenBy, Taken, Row
<1>2. CASE /\ slot[p][i].pc \in Working
           /\ slot'[p][i].task = slot[p][i].task /\ slot'[p][i].token = slot[p][i].token
  <2>1. PICK t \in Task : t = slot[p][i].task
    BY <1>2, PCNames DEF IInv, ThreadHoldsTask
  <2> DEFINE old == tasks[t]  new == tasks'[t]
  <2>2. old \in Row /\ old.attempts = 1 /\ old.state # "ABSENT"
    BY <1>0, <1>2, <2>1, PCNames DEF IInv, ThreadHoldsTask, Claimed, CallsFollowAttempts
  <2>3. (old.state = "RUNNING" /\ old.token = slot[p][i].token) \/ old.lease < clock
    BY <1>2, <2>1 DEF OwnsOrLapsed, Claimed
  <2>4. old.lease \in Nat /\ clock <= clock' /\ clock \in Nat /\ clock' \in Nat
    BY <2>2, ClockMoves DEF Row
  <2>5. CASE new = old
    BY <1>2, <2>1, <2>3, <2>4, <2>5
  <2>6. CASE Queued(old, new) \/ Lapsed(old, new)
    <3>1. old.lease < clock
      BY <2>3, <2>6 DEF Queued, Lapsed, InputLapsed, LeaseLapsed, OutputLapsed, Waiting
    <3>2. new.lease = old.lease
      BY <2>2, <2>6 DEF Queued, Lapsed, Closed, Row
    <3> QED BY <1>2, <2>1, <2>4, <3>1, <3>2
  <2>7. ASSUME NEW q \in Process, NEW j \in Thread, WorkedOn(q, j, t)
        PROVE  new.state = "RUNNING" /\ new.token = slot[p][i].token
    <3>1. old.state = "RUNNING" /\ old.token = slot[p][i].token
      BY <2>2, <2>3, <2>4, <2>7 DEF WorkedOn, Owns
    <3>2. Continued(old, new)
      <4>1. SUFFICES ASSUME slot[q][j].pc \in Working, slot'[q][j].pc \notin Working PROVE FALSE
        BY <2>7 DEF WorkedOn
      <4>2. q = p /\ j = i
        BY <1>2, <2>1, <2>7, <4>1, PCNames DEF WorkedOn, IInv, ExclusiveHold
      <4> QED BY <4>1, <4>2
    <3> QED BY <2>2, <3>1, <3>2 DEF Continued, Row
  <2>8. RowMove(t)
    BY RowsMove
  <2>9. \A q \in Process, j \in Thread : ~ TakenBy(q, j, t)
    BY <2>2 DEF TakenBy, Claimable
  <2>10. ~ Submitted(old, new)
    BY <2>2 DEF Submitted
  <2> QED BY <1>2, <2>1, <2>5, <2>6, <2>7, <2>8, <2>9, <2>10 DEF RowMove
<1>3. ThreadMove(p, i)
  BY ThreadsMove
<1> QED BY <1>1, <1>2, <1>3 DEF ThreadMove

\* While its lease lives, nobody settles a task under the thread working on it.
THEOREM LeasesProtect == Spec => []LiveLeaseProtects
<1> DEFINE Guarded == \A p \in Process, i \in Thread : OwnsOrLapsed(p, i)
<1>1. Init => Guarded
  BY DEF Init, Rest, OwnsOrLapsed, Working
<1>2. IInv /\ Guarded /\ [Next]_vars => Guarded'
  BY LeaseStep
<1>3. IInv /\ Guarded => LiveLeaseProtects
  <2> SUFFICES ASSUME IInv, Guarded, NEW p \in Process, NEW i \in Thread,
                      slot[p][i].pc \in Working, Claimed(p, i).lease > clock
               PROVE  Owns(slot[p][i].task, slot[p][i].token)
    BY DEF LiveLeaseProtects
  <2>1. Claimed(p, i) \in Row /\ clock \in Nat
    BY PCNames, SlotTyped DEF IInv, ThreadHoldsTask, Claimed, RepositoryTypeOK
  <2> QED BY <2>1 DEF OwnsOrLapsed, Owns, Claimed, Row
<1> QED BY <1>1, <1>2, <1>3, Invariance, PTL DEF Spec

-----------------------------------------------------------------------------
(* Refinement of TaskLedger                                                *)

\* The account of a row of which n calls were made: what ImplementsLedger
\* substitutes for ledger[t].
Charged(row, n) ==
  CASE n = 0 /\ ~row.marked -> "free"
    [] n = 0 /\ row.marked  -> "recorded"
    [] n = 1                -> "spent"
    [] OTHER                -> "overspent"

AccountOf(row, n) == [stage |-> StageOf(row), charge |-> Charged(row, n), result |-> row.output]

\* Nothing is on the account of a task before it is submitted.
AbsentIsBlank ==
  \A t \in Task : tasks[t].state = "ABSENT" => ~tasks[t].marked /\ tasks[t].output = NoOutput

LEMMA Stages ==
  ASSUME NEW row \in Row
  PROVE  /\ row.state = "ABSENT" => StageOf(row) = "none"
         /\ row.state \in Waiting => StageOf(row) = "open"
         /\ row.state = "RUNNING" => StageOf(row) = "running"
         /\ row.state = "SUCCEEDED" => StageOf(row) = "succeeded"
         /\ row.state = "FAILED" => StageOf(row) = "failed"
         /\ row.state = "NEEDS_REVIEW" => StageOf(row) = "review"
BY DEF StageOf, Waiting

\* A call is counted by a step that leaves every row alone, once it is marked.
LEMMA CallsMove ==
  ASSUME IInv, [Next]_vars, NEW t \in Task
  PROVE  \/ calls'[t] = calls[t]
         \/ tasks' = tasks /\ tasks[t].marked /\ calls[t] = 0 /\ calls'[t] = 1
<1>1. ASSUME NEW p \in Process, NEW i \in Thread, BeginCall(p, i)
      PROVE  \/ calls'[t] = calls[t]
             \/ tasks' = tasks /\ tasks[t].marked /\ calls[t] = 0 /\ calls'[t] = 1
  <2>1. slot[p][i].task \in Task /\ calls[slot[p][i].task] = 0 /\ tasks[slot[p][i].task].marked
    BY <1>1, PCNames DEF BeginCall, At, IInv, ThreadHoldsTask, ChargePrepared, Claimed
  <2> QED BY <1>1, <2>1, SlotTyped DEF BeginCall, repositoryVars
<1>2. CASE calls' = calls
  BY <1>2
<1>3. CASE \E p \in Process, i \in Thread : BeginCall(p, i)
  BY <1>1, <1>3
<1>4. calls' = calls \/ \E p \in Process, i \in Thread : BeginCall(p, i)
  BY DEF Next, Api, Queue, Get, Create, WorkerThread, ProcessOne, WorkerMain, Advance, vars,
         NoPermit, NothingToClaim, Claim, Refuse, SkipLookup, LookupHit, LookupMiss, Tailor,
         Mark, MarkRefused, CallReturns, CallFails, Complete, Fail, WriteRefused, Report,
         Renew, RenewRefused, Raise, HeartbeatDies, Recover, Exit, Crash, Restart
<1> QED BY <1>2, <1>3, <1>4

LEMMA BlankStep ==
  ASSUME IInv, AbsentIsBlank, [Next]_vars
  PROVE  AbsentIsBlank'
<1> SUFFICES ASSUME NEW t \in Task, tasks'[t].state = "ABSENT"
             PROVE  tasks'[t] = tasks[t]
  BY DEF AbsentIsBlank
<1> DEFINE old == tasks[t]  new == tasks'[t]
<1>1. RowMove(t) /\ old \in Row
  BY RowsMove, SlotTyped DEF RepositoryTypeOK
<1>2. ~ Submitted(old, new)
  <2> SUFFICES ASSUME NEW request, new = NewRow(request, clock + InputTTL)
               PROVE  FALSE
    BY DEF Submitted
  <2>1. new.state = "PREPARED"
    BY DEF NewRow
  <2> QED BY <2>1
<1>7. ~ Queued(old, new)
  BY <1>1 DEF Queued, Row
<1>3. ~ Lapsed(old, new)
  BY <1>1 DEF Lapsed, Closed, OutputLapsed, Row
<1>4. ASSUME NEW p \in Process, NEW i \in Thread PROVE ~ TakenBy(p, i, t)
  BY <1>1 DEF TakenBy, Taken, Row
<1>5. old.state = "RUNNING" => ~ Continued(old, new)
  BY <1>1 DEF Continued, Row
<1>6. ~ Ended(old, new)
  BY <1>1 DEF Ended, Succeeded, Closed, Row
<1> QED BY <1>1, <1>2, <1>3, <1>4, <1>5, <1>6, <1>7 DEF RowMove, WorkedOn, Owns

\* Every step of the system is, for every task, a move of its account.
LEMMA AccountMoves ==
  ASSUME IInv, AbsentIsBlank, [Next]_vars, NEW t \in Task
  PROVE  LET old == AccountOf(tasks[t], calls[t])
             new == AccountOf(tasks'[t], calls'[t])
         IN  new = old \/ Ledger!Move(old, new)
<1> DEFINE old == tasks[t]  new == tasks'[t]  n == calls[t]
<1>1. old \in Row /\ new \in Row /\ n \in 0..1
  <2>1. IInv'
    BY NextIInv
  <2>2. n \in Nat /\ n <= 1
    BY DEF IInv, TypeOK, WorkerTypeOK, CallsFollowAttempts
  <2>3. new \in Row
    BY <2>1 DEF IInv, TypeOK, RepositoryTypeOK
  <2> QED BY <2>2, <2>3, SlotTyped DEF RepositoryTypeOK
<1>2. old.attempts = 0 => n = 0
  BY DEF IInv, CallsFollowAttempts
<1>3. n = 1 => old.marked
  BY <1>1 DEF IInv, CallsAccountedFor
<1>4. RowMove(t)
  BY RowsMove
<1>5. CASE tasks' = tasks /\ old.marked /\ n = 0 /\ calls'[t] = 1
  BY <1>5 DEF AccountOf, Charged, Ledger!Move, Ledger!SpendCharge
<1>6. CASE calls'[t] = n
  <2> SUFFICES \/ AccountOf(new, n) = AccountOf(old, n)
               \/ Ledger!Move(AccountOf(old, n), AccountOf(new, n))
    BY <1>6
  <2>0. /\ old.state = "ABSENT" => n = 0 /\ ~old.marked /\ old.output = NoOutput
    BY <1>2 DEF IInv, CallsFollowAttempts, AbsentIsBlank
  <2>1. CASE Submitted(old, new)
    <3>1. /\ new.state = "PREPARED" /\ ~new.marked /\ new.output = NoOutput
          /\ old.state = "ABSENT"
      BY <2>1 DEF Submitted, NewRow
    <3> HIDE DEF old, new, n
    <3>2. Ledger!Submit(AccountOf(old, n), AccountOf(new, n))
      BY <1>1, <2>0, <3>1, Stages DEF Ledger!Submit, AccountOf, Charged, Waiting
    <3> QED BY <3>2 DEF Ledger!Move
  <2>2. CASE Queued(old, new)
    <3> HIDE DEF old, new, n
    <3>1. /\ old.state \in Waiting /\ new.state \in Waiting
          /\ new.marked = old.marked /\ new.output = old.output
      BY <1>1, <2>2 DEF Queued, Row, Waiting
    <3> QED BY <1>1, <3>1, Stages DEF AccountOf, Charged
  <2>3. CASE Lapsed(old, new)
    <3> HIDE DEF old, new, n
    <3>1. CASE InputLapsed(old) /\ new = Closed(old, "FAILED", "INPUT_EXPIRED")
      <4>1. /\ old.state \in Waiting /\ new.state = "FAILED"
            /\ new.marked = old.marked /\ new.output = old.output
        BY <1>1, <3>1 DEF InputLapsed, Closed, Row
      <4>2. Ledger!Lapse(AccountOf(old, n), AccountOf(new, n))
        BY <1>1, <4>1, Stages DEF AccountOf, Charged, Ledger!Lapse
      <4> QED BY <4>2 DEF Ledger!Move
    <3>2. CASE LeaseLapsed(old) /\ new = Closed(old, "NEEDS_REVIEW", "LEASE_EXPIRED")
      <4>1. /\ old.state = "RUNNING" /\ new.state = "NEEDS_REVIEW"
            /\ new.marked = old.marked /\ new.output = old.output
        BY <1>1, <3>2 DEF LeaseLapsed, Closed, Row
      <4>2. Ledger!GiveUp(AccountOf(old, n), AccountOf(new, n))
        BY <1>1, <4>1, Stages DEF AccountOf, Charged, Ledger!GiveUp
      <4> QED BY <4>2 DEF Ledger!Move
    <3>3. CASE OutputLapsed(old) /\ new = [old EXCEPT !.output = NoOutput]
      <4>1. /\ old.state = "SUCCEEDED" /\ new.state = "SUCCEEDED"
            /\ new.marked = old.marked /\ new.output = NoOutput
        BY <1>1, <3>3 DEF OutputLapsed, Row
      <4>2. Ledger!Forget(AccountOf(old, n), AccountOf(new, n))
        BY <1>1, <4>1, Stages DEF AccountOf, Charged, Ledger!Forget
      <4> QED BY <4>2 DEF Ledger!Move
    <3> QED BY <2>3, <3>1, <3>2, <3>3 DEF Lapsed
  <2>4. ASSUME NEW p \in Process, NEW i \in Thread, TakenBy(p, i, t)
        PROVE  Ledger!Move(AccountOf(old, n), AccountOf(new, n))
    <3>1. old.state \in Waiting /\ new = Taken(old, claims + 1, clock + LeaseSeconds)
      BY <2>4 DEF TakenBy, Claimable, Waiting
    <3> HIDE DEF old, new, n
    <3>2. new.state = "RUNNING" /\ new.marked = old.marked /\ new.output = old.output
      BY <1>1, <3>1 DEF Taken, Row
    <3>3. Ledger!TakeUp(AccountOf(old, n), AccountOf(new, n))
      BY <1>1, <3>1, <3>2, Stages DEF AccountOf, Charged, Ledger!TakeUp
    <3> QED BY <3>3 DEF Ledger!Move
  <2>5. CASE old.state = "RUNNING" /\ Continued(old, new)
    <3> HIDE DEF old, new, n
    <3>1. /\ new.state = "RUNNING" /\ new.output = old.output
          /\ new.marked = old.marked \/ new.marked
          /\ old.marked \in BOOLEAN /\ new.marked \in BOOLEAN
      BY <1>1, <2>5 DEF Continued, Row
    <3>2. CASE new.marked = old.marked
      BY <1>1, <2>5, <3>1, <3>2, Stages DEF AccountOf, Charged
    <3>3. CASE new.marked # old.marked
      <4>1. ~old.marked /\ new.marked /\ n = 0
        BY <1>1, <1>3, <3>1, <3>3
      <4>2. Ledger!RecordCharge(AccountOf(old, n), AccountOf(new, n))
        BY <1>1, <2>5, <3>1, <4>1, Stages DEF AccountOf, Charged, Ledger!RecordCharge
      <4> QED BY <4>2 DEF Ledger!Move
    <3> QED BY <3>2, <3>3
  <2>6. CASE old.state = "RUNNING" /\ Ended(old, new)
    <3> HIDE DEF old, new, n
    <3>1. CASE new = Closed(old, "FAILED", "PROCESSING_REJECTED")
      <4>1. new.state = "FAILED" /\ new.marked = old.marked /\ new.output = old.output
        BY <1>1, <3>1 DEF Closed, Row
      <4>2. Ledger!GiveUp(AccountOf(old, n), AccountOf(new, n))
        BY <1>1, <2>6, <4>1, Stages DEF AccountOf, Charged, Ledger!GiveUp
      <4> QED BY <4>2 DEF Ledger!Move
    <3>2. ASSUME NEW output \in Output, NEW expires \in Nat, new = Succeeded(old, output, expires)
          PROVE  Ledger!Move(AccountOf(old, n), AccountOf(new, n))
      <4>1. new.state = "SUCCEEDED" /\ new.marked = old.marked /\ new.output = output
        BY <1>1, <3>2 DEF Succeeded, Row
      <4>2. /\ AccountOf(old, n).stage = "running"
            /\ AccountOf(new, n).result \in Output
        BY <1>1, <2>6, <4>1, Stages DEF AccountOf
      <4>3. AccountOf(new, n) = [stage |-> "succeeded", charge |-> AccountOf(old, n).charge,
                                 result |-> AccountOf(new, n).result]
        BY <1>1, <4>1, Stages DEF AccountOf, Charged
      <4>4. Ledger!Deliver(AccountOf(old, n), AccountOf(new, n))
        BY <4>2, <4>3 DEF Ledger!Deliver
      <4> QED BY <4>4 DEF Ledger!Move
    <3> QED BY <2>6, <3>1, <3>2 DEF Ended
  <2>7. CASE new = old
    BY <2>7
  <2> QED
    BY <1>4, <2>1, <2>2, <2>3, <2>4, <2>5, <2>6, <2>7 DEF RowMove, WorkedOn, Owns
<1> QED BY <1>5, <1>6, CallsMove

\* Whatever the workers, their crashes and the clients do, every task keeps the
\* promise of TaskLedger: one attempt, one call at most and on record before it
\* is made, one outcome, and nothing after it but forgetting the result.
THEOREM LedgerImplemented == Spec => ImplementsLedger
<1>1. Init => AbsentIsBlank
  BY DEF Init, RepositoryInit, AbsentIsBlank, AbsentRow, NewRow
<1>2. IInv /\ AbsentIsBlank /\ [Next]_vars => AbsentIsBlank'
  BY BlankStep
<1>3. Init => Ledger!LedgerInit
  <2> SUFFICES ASSUME Init PROVE Ledger!LedgerInit
    OBVIOUS
  <2> DEFINE First == {[stage |-> s, charge |-> "free", result |-> NoOutput] : s \in {"none", "open"}}
  <2>1. ASSUME NEW t \in Task
        PROVE  [stage |-> StageOf(tasks[t]), charge |-> ChargeOf(t), result |-> tasks[t].output]
                 \in First
    <3>1. tasks[t] \in Row
      BY InitIInv, SlotTyped DEF RepositoryTypeOK
    <3>2. /\ tasks[t].state \in {"ABSENT", "PREPARED"}
          /\ ~tasks[t].marked /\ tasks[t].output = NoOutput /\ calls[t] = 0
      BY DEF Init, RepositoryInit, AbsentRow, NewRow
    <3>3. StageOf(tasks[t]) \in {"none", "open"} /\ ChargeOf(t) = "free"
      BY <3>1, <3>2, Stages DEF Waiting, ChargeOf
    <3> QED BY <3>2, <3>3
  <2> QED BY <2>1 DEF Ledger!LedgerInit
<1>4. IInv /\ AbsentIsBlank /\ [Next]_vars =>
        Ledger!LedgerNext
  <2> SUFFICES ASSUME IInv, AbsentIsBlank, [Next]_vars PROVE Ledger!LedgerNext
    OBVIOUS
  <2>1. \A t \in Task : ChargeOf(t) = Charged(tasks[t], calls[t])
    BY DEF ChargeOf, Charged
  <2>2. \A t \in Task : ChargeOf(t)' = Charged(tasks'[t], calls'[t])
    BY DEF ChargeOf, Charged
  <2> QED BY <2>1, <2>2, AccountMoves DEF Ledger!LedgerNext, AccountOf
<1> QED BY <1>1, <1>2, <1>3, <1>4, Invariance, PTL DEF Spec, ImplementsLedger, Ledger!LedgerSpec

-----------------------------------------------------------------------------
(* Where results come from                                                 *)

\* Task s succeeded; its result was to live until `expires`, within its inputs' life.
Source(rows, s, expires) ==
  /\ s \in Task
  /\ rows[s].state = "SUCCEEDED"
  /\ rows[s].outputExpires = expires
  /\ expires <= rows[s].inputExpires

\* CacheSound, written with Source.
CacheInv ==
  \A k \in CacheKey : cache[k] # NoEntry =>
    cache[k].output.from = k /\ Source(tasks, cache[k].output.by, cache[k].expires)

\* Only successful tasks hold results, and each has its source.
ResultInv ==
  \A t \in Task : tasks[t].output # NoOutput =>
    LET output == tasks[t].output IN
      /\ tasks[t].state = "SUCCEEDED"
      /\ output.from.client  = tasks[t].request.client
      /\ output.from.content = tasks[t].request.content
      /\ output.from.mode    = tasks[t].request.mode
      /\ Source(tasks, output.by, tasks[t].outputExpires)

\* A source stays a source: nothing but forgetting happens to a settled task.
LEMMA SourceStep ==
  ASSUME IInv, [Next]_vars, NEW s, NEW expires, Source(tasks, s, expires)
  PROVE  Source(tasks', s, expires)
<1>1. tasks[s] \in Row /\ Final(tasks[s], tasks'[s])
  BY FinalStep, SlotTyped DEF Source, Terminal, RepositoryTypeOK
<1>2. /\ tasks'[s].state = "SUCCEEDED"
      /\ tasks'[s].outputExpires = expires
      /\ expires <= tasks'[s].inputExpires
  BY <1>1 DEF Source, Final, Row
<1> QED BY <1>2 DEF Source

\* The cache changes by a completion or by a cleanup that drops entries.
LEMMA CacheMoves ==
  ASSUME IInv, [Next]_vars, NEW k \in CacheKey
  PROVE  \/ cache'[k] = cache[k]
         \/ cache'[k] = NoEntry
         \/ \E p \in Process, i \in Thread :
              /\ Complete(p, i) /\ k = KeyOf(p, i)
              /\ LET t == slot[p][i].task
                     expires == Min2(tasks[t].inputExpires, clock + OutputTTL)
                 IN  cache'[k] = [output |-> [from |-> k, by |-> t], expires |-> expires]
<1> DEFINE Goal == \/ cache'[k] = cache[k]
                   \/ cache'[k] = NoEntry
                   \/ \E p \in Process, i \in Thread :
                        /\ Complete(p, i) /\ k = KeyOf(p, i)
                        /\ LET t == slot[p][i].task
                               expires == Min2(tasks[t].inputExpires, clock + OutputTTL)
                           IN  cache'[k] = [output |-> [from |-> k, by |-> t], expires |-> expires]
<1>1. ASSUME NEW p \in Process, NEW i \in Thread, Complete(p, i) PROVE Goal
  <2>1. cache \in [CacheKey -> Entry \cup {NoEntry}]
    BY SlotTyped DEF RepositoryTypeOK
  <2> DEFINE key == KeyOf(p, i)  t == slot[p][i].task
             expires == Min2(tasks[t].inputExpires, clock + OutputTTL)
             entry == [output |-> [from |-> key, by |-> t], expires |-> expires]
  <2>2. cache' = cache \/ cache' = [cache EXCEPT ![key] = entry]
    BY <1>1 DEF Complete, CompleteTask, Cached
  <2>3. cache'[k] = cache[k] \/ (k = key /\ cache'[k] = entry)
    <3> HIDE DEF key, entry
    <3> QED BY <2>1, <2>2
  <2> QED BY <1>1, <2>3
<1>2. ASSUME RecoverAndCleanup PROVE Goal
  BY <1>2 DEF RecoverAndCleanup
<1>3. ASSUME cache' = cache PROVE Goal
  BY <1>3
<1>4. ASSUME NEW t \in Task, Api(t) PROVE cache' = cache
  BY <1>4 DEF Api, Queue, Get, Create, QueueTask, GetTask, CreateTask
<1>5. ASSUME NEW p \in Process, NEW i \in Thread, WorkerThread(p, i), ~Complete(p, i)
      PROVE  cache' = cache
  BY <1>5 DEF WorkerThread, ProcessOne, repositoryVars, NoPermit, NothingToClaim, Claim,
              ClaimTask, Refuse, SkipLookup, LookupHit, CompleteFromCache, LookupMiss, Tailor,
              Mark, MarkModelCall, MarkRefused, FenceLost, BeginCall, CallReturns, CallFails,
              Fail, FailTask, WriteRefused, Report, GetTask, Renew, RenewLease, RenewRefused,
              Raise, HeartbeatDies
<1>6. ASSUME NEW p \in Process, WorkerMain(p) PROVE cache' = cache \/ RecoverAndCleanup
  BY <1>6 DEF WorkerMain, Recover, Exit, Crash, Restart, repositoryVars
<1>7. ASSUME Advance \/ UNCHANGED vars PROVE cache' = cache
  BY <1>7 DEF Advance, Tick, vars
<1> HIDE DEF Goal
<1>8. Goal
  BY <1>1, <1>2, <1>3, <1>4, <1>5, <1>6, <1>7 DEF Next
<1> QED BY <1>8 DEF Goal

LEMMA CacheStep ==
  ASSUME IInv, CacheInv, [Next]_vars
  PROVE  CacheInv'
<1> SUFFICES ASSUME NEW k \in CacheKey, cache'[k] # NoEntry
             PROVE  /\ cache'[k].output.from = k
                    /\ Source(tasks', cache'[k].output.by, cache'[k].expires)
  BY DEF CacheInv
<1>1. CASE cache'[k] = cache[k]
  BY <1>1, SourceStep DEF CacheInv, Source
<1>2. ASSUME NEW p \in Process, NEW i \in Thread, Complete(p, i), k = KeyOf(p, i),
             LET t == slot[p][i].task
                 expires == Min2(tasks[t].inputExpires, clock + OutputTTL)
             IN  cache'[k] = [output |-> [from |-> k, by |-> t], expires |-> expires]
      PROVE  /\ cache'[k].output.from = k
             /\ Source(tasks', cache'[k].output.by, cache'[k].expires)
  <2>1. PICK t \in Task : t = slot[p][i].task
    BY <1>2, PCNames DEF Complete, At, IInv, ThreadHoldsTask
  <2>2. PICK expires : expires = Min2(tasks[t].inputExpires, clock + OutputTTL)
    OBVIOUS
  <2>3. cache'[k].output.from = k /\ cache'[k].output.by = t /\ cache'[k].expires = expires
    BY <1>2, <2>1, <2>2
  <2>4. tasks[t] \in Row /\ clock \in Nat
    BY SlotTyped DEF RepositoryTypeOK
  <2>5. tasks'[t] = Succeeded(tasks[t], [from |-> k, by |-> t], expires)
    BY <1>2, <2>1, <2>2, SlotTyped DEF Complete, CompleteTask, RepositoryTypeOK
  <2>6. /\ tasks'[t].state = "SUCCEEDED" /\ tasks'[t].outputExpires = expires
        /\ tasks'[t].inputExpires = tasks[t].inputExpires
    BY <2>4, <2>5 DEF Succeeded, Row
  <2>7. expires <= tasks[t].inputExpires
    BY <2>2, <2>4, RepositoryAssumption DEF Min2, Row
  <2> QED BY <2>3, <2>6, <2>7 DEF Source
<1> QED BY <1>1, <1>2, CacheMoves

LEMMA ResultStep ==
  ASSUME IInv, CacheInv, ResultInv, [Next]_vars
  PROVE  ResultInv'
<1> SUFFICES ASSUME NEW t \in Task, tasks'[t].output # NoOutput
             PROVE  LET output == tasks'[t].output IN
                      /\ tasks'[t].state = "SUCCEEDED"
                      /\ output.from.client  = tasks'[t].request.client
                      /\ output.from.content = tasks'[t].request.content
                      /\ output.from.mode    = tasks'[t].request.mode
                      /\ Source(tasks', output.by, tasks'[t].outputExpires)
  BY DEF ResultInv
<1> DEFINE old == tasks[t]  new == tasks'[t]
<1>1. old \in Row /\ clock \in Nat
  BY SlotTyped DEF RepositoryTypeOK
<1>2. old.output # NoOutput => old.state = "SUCCEEDED"
  BY DEF ResultInv
<1>3. CASE new = old
  BY <1>3, SourceStep DEF ResultInv, Source
<1>4. ~ Submitted(old, new)
  <2> SUFFICES ASSUME NEW request, new = NewRow(request, clock + InputTTL)
               PROVE  FALSE
    BY DEF Submitted
  <2>1. new.output = NoOutput
    BY DEF NewRow
  <2> QED BY <2>1
<1>5. ~ Queued(old, new)
  BY <1>1, <1>2 DEF Queued, Row
<1>6. ~ Lapsed(old, new)
  <2>1. new # [old EXCEPT !.output = NoOutput]
    BY <1>1 DEF Row
  <2>2. ASSUME NEW state, NEW failure, new = Closed(old, state, failure)
        PROVE  old.state = "SUCCEEDED"
    BY <1>1, <1>2, <2>2 DEF Closed, Row
  <2> QED BY <2>1, <2>2 DEF Lapsed, InputLapsed, LeaseLapsed, Waiting
<1>7. ASSUME NEW p \in Process, NEW i \in Thread PROVE ~ TakenBy(p, i, t)
  BY <1>1, <1>2 DEF TakenBy, Claimable, Taken, Row
<1>8. ASSUME NEW p \in Process, NEW i \in Thread, WorkedOn(p, i, t)
      PROVE  /\ new.state = "SUCCEEDED" /\ Delivered(p, i, t)
             /\ slot[p][i].task = t /\ slot[p][i].pc \in Busy /\ old.state = "RUNNING"
  <2>1. old.state = "RUNNING" /\ old.output = NoOutput
    BY <1>2, <1>8 DEF WorkedOn, Owns
  <2>2. ~ Continued(old, new)
    BY <1>1, <2>1 DEF Continued, Row
  <2>3. Ended(old, new) => new.state = "SUCCEEDED"
    BY <1>1, <2>1 DEF Ended, Succeeded, Closed, Row
  <2> QED BY <1>8, <2>1, <2>2, <2>3, PCNames DEF WorkedOn
<1>9. ASSUME NEW p \in Process, NEW i \in Thread, WorkedOn(p, i, t)
      PROVE  LET output == new.output IN
               /\ output.from = KeyOf(p, i)
               /\ new.request = old.request
               /\ Source(tasks', output.by, tasks'[t].outputExpires)
  <2>1. old.state = "RUNNING" /\ Delivered(p, i, t) /\ slot[p][i].pc \in Busy
    BY <1>8, <1>9
  <2> DEFINE key == KeyOf(p, i)
  <2>2. key \in CacheKey
    BY <2>1, KeyOfType
  <2> DEFINE expires == Min2(old.inputExpires, clock + OutputTTL)
  <2>3. expires <= old.inputExpires
    BY <1>1, RepositoryAssumption DEF Min2, Row
  <2> HIDE DEF key, expires
  <2>4. CASE new = Succeeded(old, [from |-> key, by |-> t], expires)
    <3>1. /\ new.output = [from |-> key, by |-> t] /\ new.outputExpires = expires
          /\ new.request = old.request /\ new.inputExpires = old.inputExpires
          /\ new.state = "SUCCEEDED"
      BY <1>1, <2>4 DEF Succeeded, Row
    <3>2. new.output.from = key /\ new.output.by = t
      BY <3>1
    <3> QED BY <2>3, <3>1, <3>2 DEF Source, key
  <2>5. CASE cache[key] # NoEntry /\ new = Succeeded(old, cache[key].output, cache[key].expires)
    <3>1. /\ new.output = cache[key].output /\ new.outputExpires = cache[key].expires
          /\ new.request = old.request
      BY <1>1, <2>5 DEF Succeeded, Row
    <3>2. /\ cache[key].output.from = key
          /\ Source(tasks, cache[key].output.by, cache[key].expires)
      BY <2>2, <2>5 DEF CacheInv
    <3>3. Source(tasks', cache[key].output.by, cache[key].expires)
      BY <3>2, SourceStep
    <3> QED BY <3>1, <3>2, <3>3 DEF key
  <2> QED BY <2>1, <2>4, <2>5 DEF Delivered, key, expires
<1>10. ASSUME NEW p \in Process, NEW i \in Thread, WorkedOn(p, i, t)
       PROVE  LET key == KeyOf(p, i) IN
                /\ key.client = old.request.client
                /\ key.content = old.request.content
                /\ key.mode = old.request.mode
  BY <1>8, <1>10 DEF KeyOf, Claimed
<1> QED BY <1>3, <1>4, <1>5, <1>6, <1>7, <1>8, <1>9, <1>10, RowsMove DEF RowMove

\* A cached result is what its key says it is, comes from a committed success
\* and expires with it.
THEOREM CacheIsSound == Spec => []CacheSound
<1>1. Init => CacheInv
  BY DEF Init, RepositoryInit, CacheInv
<1>2. IInv /\ CacheInv /\ [Next]_vars => CacheInv'
  BY CacheStep
<1>3. CacheInv => CacheSound
  BY DEF CacheInv, CacheSound, Source
<1> QED BY <1>1, <1>2, <1>3, Invariance, PTL DEF Spec

\* Reused or not, a result goes to the client whose resume it was made from.
THEOREM ResultsAreYours == Spec => []ResultsBelong
<1>1. Init => CacheInv /\ ResultInv
  BY DEF Init, RepositoryInit, CacheInv, ResultInv, NewRow, AbsentRow
<1>2. IInv /\ CacheInv /\ ResultInv /\ [Next]_vars => CacheInv' /\ ResultInv'
  BY CacheStep, ResultStep
<1>3. ResultInv => ResultsBelong
  BY DEF ResultInv, ResultsBelong, Source
<1> QED BY <1>1, <1>2, <1>3, Invariance, PTL DEF Spec
=============================================================================
