---------------------------- MODULE ResumeWorker ----------------------------
(***************************************************************************)
(* Resume Cloud at work: API handlers, worker processes and the database   *)
(* of ResumeRepository.  A worker process (resume_cloud_worker.main)       *)
(* alternates recover_and_cleanup with one round of its thread pool, in    *)
(* which every pool thread runs ResumeCloudService.process_one once.  A    *)
(* thread is at one program counter between two database transactions or   *)
(* around the provider call, where any other actor may move.  Processes    *)
(* crash, database calls raise, heartbeats die, leases lapse.              *)
(***************************************************************************)
EXTENDS ResumeRepository

CONSTANTS
  Process,            \* worker processes
  Thread,             \* pool threads of each process
  ModelConcurrency,   \* max_model_concurrency: permits of the semaphore
  DeploymentOf,       \* [Process -> Identity]: what each process runs
  Configured,         \* the processes whose environment configures a gateway
  NoTask,             \* what a thread between two tasks holds
  MaxFaults           \* bound on crashes, raised errors and dead heartbeats

ASSUME WorkerAssumption ==
  /\ IsFiniteSet(Process)
  /\ IsFiniteSet(Thread)
  /\ ModelConcurrency \in Nat \ {0}
  /\ DeploymentOf \in [Process -> Identity]
  /\ Configured \subseteq Process
  /\ NoTask \notin Task
  /\ MaxFaults \in Nat

VARIABLES
  slot,    \* slot[p][i]: thread i of process p
  calls,   \* ghost: provider calls begun on behalf of each task
  faults   \* faults so far, against MaxFaults

vars == <<clock, tasks, cache, claims, slot, calls, faults>>

-----------------------------------------------------------------------------
(* Threads                                                                 *)

\* Program counters at which process_one holds the task it claimed.
Working == {"claimed", "tailor", "mark", "marked", "calling", "complete", "reject"}

\* Where it holds a permit of _model_slots: `finally` releases it after the
\* last write, except that a cache hit reads its result back before that.
Holding == Working \cup {"hit"}
Busy    == Holding \cup {"report"}
Resting == {"done", "ready", "failed"}

PC == Busy \cup Resting \cup {"down"}
Heartbeat == {"off", "beating", "lost", "dead"}

Slot == [pc : PC, task : Task \cup {NoTask}, token : Nat, heartbeat : Heartbeat]

\* A thread that holds no task.
Rest(pc) == [pc |-> pc, task |-> NoTask, token |-> 0, heartbeat |-> "off"]

WorkerTypeOK ==
  /\ slot \in [Process -> [Thread -> Slot]]
  /\ calls \in [Task -> Nat]
  /\ faults \in Nat

\* The type invariant: every variable of the database and of the workers.
TypeOK == RepositoryTypeOK /\ WorkerTypeOK

Init ==
  /\ RepositoryInit
  /\ slot = [p \in Process |-> [i \in Thread |-> Rest("done")]]
  /\ calls = [t \in Task |-> 0]
  /\ faults = 0

At(p, i, pc) == slot[p][i].pc = pc

Goto(p, i, pc) == slot' = [slot EXCEPT ![p][i].pc = pc]

With(s, pc, heartbeat) == [s EXCEPT !.pc = pc, !.heartbeat = heartbeat]

Put(p, i, pc, heartbeat) == slot' = [slot EXCEPT ![p][i] = With(@, pc, heartbeat)]

\* Leaving the `with _LeaseHeartbeat` block stops and joins the heartbeat.  (The
\* join gives up after two seconds: a renewal still in flight by then is taken
\* to have come before; its fence is the same as the last write's.)
LeaveCall(p, i, pc) == Put(p, i, pc, "off")

SetHeartbeat(p, i, heartbeat) == slot' = [slot EXCEPT ![p][i].heartbeat = heartbeat]

Claimed(p, i) == tasks[slot[p][i].task]

\* Mutant of KeyOf: the mode is left out of the key.
KeyWithoutMode(p, i) ==
  [client |-> Claimed(p, i).request.client, content |-> Claimed(p, i).request.content,
   mode |-> "ai", identity |-> DeploymentOf[p]]

KeyOf(p, i) ==
  [client |-> Claimed(p, i).request.client, content |-> Claimed(p, i).request.content,
   mode |-> Claimed(p, i).request.mode, identity |-> DeploymentOf[p]]

Cacheable(p, i) == Claimed(p, i).request.client # NoClient

PermitFree(p) == Cardinality({i \in Thread : slot[p][i].pc \in Holding}) < ModelConcurrency

\* MODEL_APPROVAL_REQUIRED and MODEL_NOT_CONFIGURED
Refused(p, i) ==
  /\ Claimed(p, i).request.mode = "ai"
  /\ ~Claimed(p, i).request.approved \/ p \notin Configured

AfterLookup(p, i) == IF Claimed(p, i).request.mode = "ai" THEN "mark" ELSE "tailor"

-----------------------------------------------------------------------------
(* The API                                                                 *)

Create(t, request) == CreateTask(t, request) /\ UNCHANGED <<clock, slot, calls, faults>>
Queue(t)           == QueueTask(t) /\ UNCHANGED <<clock, slot, calls, faults>>
Get(t)             == GetTask(t) /\ UNCHANGED <<clock, slot, calls, faults>>

-----------------------------------------------------------------------------
(* process_one                                                             *)

\* Every permit is taken: the round ends for this thread, the task stays QUEUED.
NoPermit(p, i) ==
  /\ At(p, i, "ready")
  /\ ~PermitFree(p)
  /\ Goto(p, i, "done")
  /\ UNCHANGED <<repositoryVars, calls, faults>>

NothingToClaim(p, i) ==
  /\ At(p, i, "ready")
  /\ PermitFree(p)
  /\ \A t \in Task : ~Claimable(tasks[t])
  /\ Goto(p, i, "done")
  /\ UNCHANGED <<repositoryVars, calls, faults>>

Claim(p, i, t) ==
  /\ At(p, i, "ready")
  /\ PermitFree(p)
  /\ ClaimTask(t)
  /\ slot' = [slot EXCEPT ![p][i] = [pc |-> "claimed", task |-> t,
                                      token |-> claims + 1, heartbeat |-> "off"]]
  /\ UNCHANGED <<clock, calls, faults>>

Refuse(p, i) ==
  /\ At(p, i, "claimed")
  /\ Refused(p, i)
  /\ Goto(p, i, "reject")
  /\ UNCHANGED <<repositoryVars, calls, faults>>

SkipLookup(p, i) ==
  /\ At(p, i, "claimed")
  /\ ~Refused(p, i)
  /\ ~Cacheable(p, i)
  /\ Goto(p, i, AfterLookup(p, i))
  /\ UNCHANGED <<repositoryVars, calls, faults>>

LookupHit(p, i) ==
  /\ At(p, i, "claimed")
  /\ ~Refused(p, i)
  /\ Cacheable(p, i)
  /\ CompleteFromCache(slot[p][i].task, slot[p][i].token, KeyOf(p, i))
  /\ Goto(p, i, "hit")
  /\ UNCHANGED <<clock, calls, faults>>

LookupMiss(p, i) ==
  /\ At(p, i, "claimed")
  /\ ~Refused(p, i)
  /\ Cacheable(p, i)
  /\ ~CacheServes(slot[p][i].task, slot[p][i].token, KeyOf(p, i))
  /\ Goto(p, i, AfterLookup(p, i))
  /\ UNCHANGED <<repositoryVars, calls, faults>>

\* tailor_resume_docx returns a document or raises ResumeTemplateError.
Tailor(p, i) ==
  /\ At(p, i, "tailor")
  /\ \E pc \in {"complete", "reject"} : Goto(p, i, pc)
  /\ UNCHANGED <<repositoryVars, calls, faults>>

Mark(p, i) ==
  /\ At(p, i, "mark")
  /\ MarkModelCall(slot[p][i].task, slot[p][i].token)
  /\ Goto(p, i, "marked")
  /\ UNCHANGED <<clock, calls, faults>>

\* TASK_LEASE_LOST before the call
MarkRefused(p, i) ==
  /\ At(p, i, "mark")
  /\ FenceLost(slot[p][i].task, slot[p][i].token)
  /\ Goto(p, i, "reject")
  /\ UNCHANGED <<clock, calls, faults>>

\* The heartbeat starts and the one gateway.complete of the pipeline is sent.
BeginCall(p, i) ==
  /\ At(p, i, "marked")
  /\ Put(p, i, "calling", "beating")
  /\ calls' = [calls EXCEPT ![slot[p][i].task] = @ + 1]
  /\ UNCHANGED <<repositoryVars, faults>>

Renew(p, i) ==
  /\ slot[p][i].heartbeat = "beating"
  /\ RenewLease(slot[p][i].task, slot[p][i].token)
  /\ UNCHANGED <<clock, slot, calls, faults>>

RenewRefused(p, i) ==
  /\ slot[p][i].heartbeat = "beating"
  /\ FenceLost(slot[p][i].task, slot[p][i].token)
  /\ SetHeartbeat(p, i, "lost")
  /\ UNCHANGED <<clock, calls, faults>>

CallReturns(p, i) ==
  /\ At(p, i, "calling")
  /\ LeaveCall(p, i, IF slot[p][i].heartbeat = "lost" THEN "reject" ELSE "complete")
  /\ UNCHANGED <<repositoryVars, calls, faults>>

\* Mutant of CallFails: a failed call is tried again.
CallRetries(p, i) ==
  /\ At(p, i, "calling")
  /\ LeaveCall(p, i, "marked")
  /\ UNCHANGED <<repositoryVars, calls, faults>>

\* ModelGatewayError, or a response the pipeline rejects
CallFails(p, i) ==
  /\ At(p, i, "calling")
  /\ LeaveCall(p, i, "reject")
  /\ UNCHANGED <<repositoryVars, calls, faults>>

Complete(p, i) ==
  /\ At(p, i, "complete")
  /\ CompleteTask(slot[p][i].task, slot[p][i].token, KeyOf(p, i))
  /\ Goto(p, i, "report")
  /\ UNCHANGED <<clock, calls, faults>>

Fail(p, i) ==
  /\ At(p, i, "reject")
  /\ FailTask(slot[p][i].task, slot[p][i].token)
  /\ Goto(p, i, "report")
  /\ UNCHANGED <<clock, calls, faults>>

\* FENCE_LOST: the last write of a stale worker changes nothing.
WriteRefused(p, i) ==
  /\ slot[p][i].pc \in {"complete", "reject"}
  /\ FenceLost(slot[p][i].task, slot[p][i].token)
  /\ Goto(p, i, "report")
  /\ UNCHANGED <<clock, calls, faults>>

\* The task is read back, which also expires it.
Report(p, i) ==
  /\ slot[p][i].pc \in {"hit", "report"}
  /\ GetTask(slot[p][i].task)
  /\ slot' = [slot EXCEPT ![p][i] = Rest("done")]
  /\ UNCHANGED <<clock, calls, faults>>

-----------------------------------------------------------------------------
(* The worker process                                                      *)

\* The head of the loop; then the pool is given a round of work.
Recover(p) ==
  /\ \A i \in Thread : At(p, i, "done")
  /\ RecoverAndCleanup
  /\ slot' = [slot EXCEPT ![p] = [i \in Thread |-> Rest("ready")]]
  /\ UNCHANGED <<clock, calls, faults>>

Stopped == [i \in Thread |-> Rest("down")]

\* An exception process_one does not catch, such as a lost connection: the
\* task is left RUNNING and the pool's other threads finish their round.
Raise(p, i) ==
  /\ faults < MaxFaults
  /\ slot[p][i].pc \in Busy \cup {"ready"}
  /\ slot' = [slot EXCEPT ![p][i] = Rest("failed")]
  /\ faults' = faults + 1
  /\ UNCHANGED <<repositoryVars, calls>>

\* main then ends; futures that had not begun are cancelled.
Exit(p) ==
  /\ \E i \in Thread : At(p, i, "failed")
  /\ \A i \in Thread : slot[p][i].pc \in Resting
  /\ slot' = [slot EXCEPT ![p] = Stopped]
  /\ UNCHANGED <<repositoryVars, calls, faults>>

Crash(p) ==
  /\ faults < MaxFaults
  /\ \A i \in Thread : ~At(p, i, "down")
  /\ slot' = [slot EXCEPT ![p] = Stopped]
  /\ faults' = faults + 1
  /\ UNCHANGED <<repositoryVars, calls>>

\* restart: unless-stopped
Restart(p) ==
  /\ \A i \in Thread : At(p, i, "down")
  /\ slot' = [slot EXCEPT ![p] = [i \in Thread |-> Rest("done")]]
  /\ UNCHANGED <<repositoryVars, calls, faults>>

\* renew_lease raises: the daemon thread dies without setting `lost`.
HeartbeatDies(p, i) ==
  /\ faults < MaxFaults
  /\ slot[p][i].heartbeat = "beating"
  /\ SetHeartbeat(p, i, "dead")
  /\ faults' = faults + 1
  /\ UNCHANGED <<repositoryVars, calls>>

Advance == Tick /\ UNCHANGED <<slot, calls, faults>>

-----------------------------------------------------------------------------

\* One step of process_one on thread i of process p, faults aside.
ProcessOne(p, i) ==
  \/ NoPermit(p, i) \/ NothingToClaim(p, i) \/ \E t \in Task : Claim(p, i, t)
  \/ Refuse(p, i) \/ SkipLookup(p, i) \/ LookupHit(p, i) \/ LookupMiss(p, i)
  \/ Tailor(p, i) \/ Mark(p, i) \/ MarkRefused(p, i) \/ BeginCall(p, i)
  \/ CallReturns(p, i) \/ CallFails(p, i)
  \/ Complete(p, i) \/ Fail(p, i) \/ WriteRefused(p, i) \/ Report(p, i)

Api(t) == Queue(t) \/ Get(t) \/ \E request \in Submission : Create(t, request)

WorkerThread(p, i) ==
  ProcessOne(p, i) \/ Renew(p, i) \/ RenewRefused(p, i) \/ Raise(p, i) \/ HeartbeatDies(p, i)

WorkerMain(p) == Recover(p) \/ Exit(p) \/ Crash(p) \/ Restart(p)

Next ==
  \/ \E t \in Task : Api(t)
  \/ \E p \in Process, i \in Thread : WorkerThread(p, i)
  \/ \E p \in Process : WorkerMain(p)
  \/ Advance

Spec == Init /\ [][Next]_vars

\* Time passes, a running process keeps looping, a provider call ends by its
\* timeout, and Docker restarts a worker that exited.  Nobody has to call the API.
FairSpec ==
  /\ Spec
  /\ WF_vars(Advance)
  /\ \A p \in Process : WF_vars(Recover(p)) /\ WF_vars(Exit(p)) /\ WF_vars(Restart(p))
  /\ \A p \in Process, i \in Thread : WF_vars(ProcessOne(p, i))
=============================================================================
