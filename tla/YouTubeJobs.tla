----------------------------- MODULE YouTubeJobs -----------------------------
(***************************************************************************)
(* YouTubePublishingJobManager (youtube_publishing.py): the local UI       *)
(* starts OAuth connections and uploads, one executor thread runs them,    *)
(* and both move the same job through _transition: the phase is put in the *)
(* dictionary under the lock, then written to the job's file without it.   *)
(*                                                                         *)
(* Two actors, "ui" (an HTTPServer that handles one request at a time) and *)
(* "worker" (ThreadPoolExecutor(max_workers=1)), interleave between those  *)
(* two halves.  The process may end at any moment and start again with the *)
(* files alone.  The OAuth flow and the upload are what Google answers.    *)
(***************************************************************************)
EXTENDS Integers, Sequences, FiniteSets

CONSTANTS ConnectJob, UploadJob, \* job ids, by kind
          Video,                 \* the run_id of a content run with its master
          Channel,               \* channel_id
          NoJob, NoRequest,      \* absence of a job, of an upload request
          WritesMayFail          \* a write of a job file may raise OSError

Job == ConnectJob \cup UploadJob

ASSUME KindAssumption == ConnectJob \cap UploadJob = {} /\ NoJob \notin Job
ASSUME WritesAssumption == WritesMayFail \in BOOLEAN

VARIABLES
  mem,        \* _jobs: the phase of each job, "none" when it has no entry
  disk,       \* the phase in each job's file, "none" when there is no file
  events,     \* the keys of _cancel_events
  cancelled,  \* the jobs whose cancel event is set
  queue,      \* the executor's queue
  actor,      \* what each actor is doing
  stopping,   \* shutdown() was called
  accounts,   \* the channels of accounts.json
  receipts,   \* receipts[v, c]: the upload whose receipt is on disk
  request,    \* request[j]: the video and the channel of upload j
  used,       \* ghost: the job ids given out
  saved,      \* ghost: the connect jobs that saved an account
  published   \* ghost: published[j]: videos Google made for upload j

files == <<accounts, receipts>>
volatile == <<events, cancelled, queue, stopping>>
ghosts == <<used, saved, published, request>>
vars == <<mem, disk, events, cancelled, queue, actor, stopping, accounts,
          receipts, request, used, saved, published>>

-----------------------------------------------------------------------------
ActiveOAuth == {"STARTING", "WAITING_FOR_AUTHORIZATION", "COMPLETING"}
ActiveUpload == {"WAITING", "UPLOADING"}
Terminal == {"SUCCESS", "CANCELLED", "TIMED_OUT", "FAILED"}
Phase == ActiveOAuth \cup ActiveUpload \cup Terminal

Request == [video : Video, channel : Channel]

\* "idle"; "put" and "write" are the halves of _transition and _put, after
\* which the actor goes on at `then'; the rest are places in the handlers.
Place == {"idle", "put", "write", "signal", "submit", "authorize", "waiting",
          "completing", "token", "check", "save", "upload", "load", "send",
          "progress", "receipt", "success", "except", "finally"}

ErrorCode == {"none", "OAUTH_CANCELLED", "OAUTH_TIMEOUT", "OTHER"}

Actor == {"ui", "worker"}

Activity == [pc : Place, job : Job \cup {NoJob}, phase : Phase \cup {"none"},
             then : Place, error : ErrorCode]

Idle == [pc |-> "idle", job |-> NoJob, phase |-> "none", then |-> "idle", error |-> "none"]

At(a, pc) == actor[a].pc = pc

Goto(a, pc) == actor' = [actor EXCEPT ![a].pc = pc]

Raise(error) == actor' = [actor EXCEPT !["worker"].pc = "except", !["worker"].error = error]

\* The actor starts _transition(phase) and goes on at `then' when it returns.
Begin(a, phase, then) ==
  actor' = [actor EXCEPT ![a].pc = "put", ![a].phase = phase, ![a].then = then]

-----------------------------------------------------------------------------
Init ==
  /\ mem = [j \in Job |-> "none"] /\ disk = [j \in Job |-> "none"]
  /\ events = {} /\ cancelled = {} /\ queue = <<>> /\ stopping = FALSE
  /\ actor = [a \in Actor |-> Idle]
  /\ accounts = {} /\ receipts = [r \in Video \X Channel |-> NoJob]
  /\ request = [j \in UploadJob |-> NoRequest]
  /\ used = {} /\ saved = {} /\ published = [j \in UploadJob |-> 0]

\* The first half: the dictionary, under the lock.
Put(a) ==
  /\ At(a, "put")
  /\ mem' = [mem EXCEPT ![actor[a].job] = actor[a].phase]
  /\ Goto(a, "write")
  /\ UNCHANGED <<disk, volatile, files, ghosts>>

Resume(a) ==
  IF actor[a].then = "idle" THEN actor' = [actor EXCEPT ![a] = Idle] ELSE Goto(a, actor[a].then)

\* The handler whose write raised: inside the try of _connect and _upload that
\* is one more error; elsewhere it ends the handler, or the job but for its finally.
AfterFailedWrite(a) ==
  IF a = "worker" /\ actor[a].then \in {"waiting", "token", "receipt"} THEN Raise("OTHER")
  ELSE IF actor[a].then = "finally" THEN Goto(a, "finally")
  ELSE actor' = [actor EXCEPT ![a] = Idle]

Raises == IF WritesMayFail THEN BOOLEAN ELSE {FALSE}

\* The second half: the file, atomically replaced, without the lock.
Write(a, raises) ==
  /\ At(a, "write")
  /\ IF raises THEN AfterFailedWrite(a) /\ UNCHANGED disk
     ELSE Resume(a) /\ disk' = [disk EXCEPT ![actor[a].job] = actor[a].phase]
  /\ UNCHANGED <<mem, volatile, files, ghosts>>

-----------------------------------------------------------------------------
UiFree == At("ui", "idle") /\ ~ stopping

\* Mutant of ConnectActive: a connection still in the queue does not count.
ConnectShown == \E j \in ConnectJob : mem[j] = "WAITING_FOR_AUTHORIZATION"

\* The connection start_connect refuses to add another to.
ConnectActive == \E j \in ConnectJob : mem[j] \in ActiveOAuth

UiBegins(j, phase, then) ==
  actor' = [actor EXCEPT !["ui"] = [Idle EXCEPT !.pc = "put", !.job = j, !.phase = phase, !.then = then]]

start_connect(j) ==
  /\ UiFree /\ j \notin used /\ ~ ConnectActive
  /\ events' = events \cup {j} /\ used' = used \cup {j}
  /\ UiBegins(j, "STARTING", "submit")
  /\ UNCHANGED <<mem, disk, cancelled, queue, stopping, files, saved, published, request>>

start_upload(j, v, c) ==
  /\ UiFree /\ j \notin used /\ c \in accounts
  /\ used' = used \cup {j} /\ request' = [request EXCEPT ![j] = [video |-> v, channel |-> c]]
  /\ UiBegins(j, "WAITING", "submit")
  /\ UNCHANGED <<mem, disk, volatile, files, saved, published>>

Submit ==
  /\ At("ui", "submit")
  /\ queue' = Append(queue, actor["ui"].job)
  /\ actor' = [actor EXCEPT !["ui"] = Idle]
  /\ UNCHANGED <<mem, disk, events, cancelled, stopping, files, ghosts>>

\* cancel_connect read the phase: it was active.  The lock is released.
cancel_connect(j) ==
  /\ UiFree /\ mem[j] \in ActiveOAuth
  /\ actor' = [actor EXCEPT !["ui"].pc = "signal", !["ui"].job = j]
  /\ UNCHANGED <<mem, disk, volatile, files, ghosts>>

\* The event is set, unless the job has ended and removed it; the job is moved
\* to CANCELLED either way.
Signal ==
  /\ At("ui", "signal")
  /\ cancelled' = cancelled \cup ({actor["ui"].job} \cap events)
  /\ Begin("ui", "CANCELLED", "idle")
  /\ UNCHANGED <<mem, disk, events, queue, stopping, files, ghosts>>

\* get or latest found a connection that only its file remembers.
recover_interrupted_connect(j) ==
  /\ UiFree /\ mem[j] = "none" /\ disk[j] \in ActiveOAuth
  /\ UiBegins(j, "FAILED", "idle")
  /\ UNCHANGED <<mem, disk, volatile, files, ghosts>>

-----------------------------------------------------------------------------
\* The executor's thread takes the next job.
Take ==
  /\ At("worker", "idle") /\ queue # <<>>
  /\ queue' = Tail(queue)
  /\ actor' = [actor EXCEPT !["worker"] =
       [Idle EXCEPT !.job = Head(queue),
                    !.pc = IF Head(queue) \in ConnectJob THEN "authorize" ELSE "upload"]]
  /\ UNCHANGED <<mem, disk, events, cancelled, stopping, files, ghosts>>

IsCancelled == actor["worker"].job \in cancelled

\* status(phase): nothing once the event is set - as read here, before _transition.
Status(from, phase, then) ==
  /\ At("worker", from)
  /\ IF IsCancelled THEN Goto("worker", then) ELSE Begin("worker", phase, then)
  /\ UNCHANGED <<mem, disk, volatile, files, ghosts>>

\* The wait for the browser: the answer, the event, the deadline or an error.
AwaitBrowser ==
  /\ At("worker", "waiting")
  /\ \/ Goto("worker", "completing")
     \/ IsCancelled /\ Raise("OAUTH_CANCELLED")
     \/ ~ IsCancelled /\ Raise("OAUTH_TIMEOUT")
     \/ Raise("OTHER")
  /\ UNCHANGED <<mem, disk, volatile, files, ghosts>>

FetchToken ==
  /\ At("worker", "token")
  /\ Goto("worker", "check") \/ Raise("OTHER")
  /\ UNCHANGED <<mem, disk, volatile, files, ghosts>>

\* Mutant of CheckCancelled: what authorize returned is saved.
CheckSkipped ==
  /\ At("worker", "check")
  /\ Goto("worker", "save")
  /\ UNCHANGED <<mem, disk, volatile, files, ghosts>>

\* The last look at the event (871): after it the account will be saved.
CheckCancelled ==
  /\ At("worker", "check")
  /\ IF IsCancelled THEN Raise("OAUTH_CANCELLED") ELSE Goto("worker", "save")
  /\ UNCHANGED <<mem, disk, volatile, files, ghosts>>

\* save_authorized_channel: the token, then the index; only the index counts.
SaveAccount(c) ==
  /\ At("worker", "save")
  /\ \/ /\ accounts' = accounts \cup {c} /\ saved' = saved \cup {actor["worker"].job}
        /\ Goto("worker", "success")
     \/ Raise("OTHER") /\ UNCHANGED <<accounts, saved>>
  /\ UNCHANGED <<mem, disk, volatile, receipts, used, published, request>>

AfterJob == IF actor["worker"].job \in ConnectJob THEN "finally" ELSE "idle"

Succeed ==
  /\ At("worker", "success")
  /\ Begin("worker", "SUCCESS", AfterJob)
  /\ UNCHANGED <<mem, disk, volatile, files, ghosts>>

\* Mutant of ErrorPhase: the job shows the error's code.
ErrorPhaseIsCode == actor["worker"].error

ErrorPhase ==
  CASE actor["worker"].job \in UploadJob -> "FAILED"
    [] IsCancelled \/ actor["worker"].error = "OAUTH_CANCELLED" -> "CANCELLED"
    [] actor["worker"].error = "OAUTH_TIMEOUT" -> "TIMED_OUT"
    [] OTHER -> "FAILED"

\* Mutant of Except: the error is logged and the job's phase is left alone.
ExceptForgets ==
  /\ At("worker", "except")
  /\ IF AfterJob = "idle" THEN actor' = [actor EXCEPT !["worker"] = Idle]
                         ELSE Goto("worker", "finally")
  /\ UNCHANGED <<mem, disk, volatile, files, ghosts>>

Except ==
  /\ At("worker", "except")
  /\ Begin("worker", ErrorPhase, AfterJob)
  /\ UNCHANGED <<mem, disk, volatile, files, ghosts>>

Finally ==
  /\ At("worker", "finally")
  /\ events' = events \ {actor["worker"].job}
  /\ actor' = [actor EXCEPT !["worker"] = Idle]
  /\ UNCHANGED <<mem, disk, cancelled, queue, stopping, files, ghosts>>

-----------------------------------------------------------------------------
StartSending ==
  /\ At("worker", "upload")
  /\ Begin("worker", "UPLOADING", "load")
  /\ UNCHANGED <<mem, disk, volatile, files, ghosts>>

LoadCredentials ==
  /\ At("worker", "load")
  /\ Goto("worker", "send") \/ Raise("OTHER")
  /\ UNCHANGED <<mem, disk, volatile, files, ghosts>>

\* The chunks are sent.  Google publishes the video and its answer arrives or is
\* lost, or nothing is published.
Send ==
  /\ At("worker", "send")
  /\ \/ /\ published' = [published EXCEPT ![actor["worker"].job] = @ + 1]
        /\ Goto("worker", "progress") \/ Raise("OTHER")
     \/ Raise("OTHER") /\ UNCHANGED published
  /\ UNCHANGED <<mem, disk, volatile, files, used, saved, request>>

\* The progress callback of the last chunk, called before its answer is looked at.
LastProgress ==
  /\ At("worker", "progress")
  /\ Begin("worker", "UPLOADING", "receipt")
  /\ UNCHANGED <<mem, disk, volatile, files, ghosts>>

\* Mutant of WriteReceipt: the job succeeds without it.
ReceiptOptional ==
  /\ At("worker", "receipt")
  /\ LET r == request[actor["worker"].job] IN
     \/ receipts' = [receipts EXCEPT ![<<r.video, r.channel>>] = actor["worker"].job]
     \/ UNCHANGED receipts
  /\ Goto("worker", "success")
  /\ UNCHANGED <<mem, disk, volatile, accounts, ghosts>>

WriteReceipt ==
  /\ At("worker", "receipt")
  /\ LET r == request[actor["worker"].job] IN
     \/ /\ receipts' = [receipts EXCEPT ![<<r.video, r.channel>>] = actor["worker"].job]
        /\ Goto("worker", "success")
     \/ Raise("OTHER") /\ UNCHANGED receipts
  /\ UNCHANGED <<mem, disk, volatile, accounts, ghosts>>

-----------------------------------------------------------------------------
\* The server has stopped; the running job goes on, the waiting ones never run.
Shutdown ==
  /\ UiFree
  /\ stopping' = TRUE /\ cancelled' = cancelled \cup events /\ queue' = <<>>
  /\ UNCHANGED <<mem, disk, events, actor, files, ghosts>>

\* The process ends, after a shutdown or in the middle of anything, and starts.
Restart ==
  /\ mem' = [j \in Job |-> "none"]
  /\ events' = {} /\ cancelled' = {} /\ queue' = <<>> /\ stopping' = FALSE
  /\ actor' = [a \in Actor |-> Idle]
  /\ UNCHANGED <<disk, files, ghosts>>

ConnectStep ==
  \/ Status("authorize", "WAITING_FOR_AUTHORIZATION", "waiting")
  \/ AwaitBrowser
  \/ Status("completing", "COMPLETING", "token")
  \/ FetchToken \/ CheckCancelled \/ (\E c \in Channel : SaveAccount(c)) \/ Finally

UploadStep == StartSending \/ LoadCredentials \/ Send \/ LastProgress \/ WriteReceipt

WorkerStep ==
  \/ Take \/ ConnectStep \/ UploadStep \/ Succeed \/ Except
  \/ Put("worker") \/ \E raises \in Raises : Write("worker", raises)

\* A request handler that has started goes on.
UiStep == \/ Submit \/ Signal \/ Put("ui")
          \/ \E raises \in Raises : Write("ui", raises)

UiRequest ==
  \/ \E j \in ConnectJob :
       start_connect(j) \/ cancel_connect(j) \/ recover_interrupted_connect(j)
  \/ \E j \in UploadJob, v \in Video, c \in Channel : start_upload(j, v, c)

Next == WorkerStep \/ UiStep \/ UiRequest \/ Shutdown \/ Restart

Spec == Init /\ [][Next]_vars

\* Both threads run; the OAuth wait has a deadline and the upload's sockets
\* time out, so no step of the worker is waited for forever.
FairSpec == Spec /\ WF_vars(WorkerStep) /\ WF_vars(UiStep)

-----------------------------------------------------------------------------
TypeOK ==
  /\ mem \in [Job -> Phase \cup {"none"}] /\ disk \in [Job -> Phase \cup {"none"}]
  /\ events \subseteq ConnectJob /\ cancelled \subseteq ConnectJob
  /\ queue \in Seq(Job) /\ actor \in [Actor -> Activity] /\ stopping \in BOOLEAN
  /\ accounts \subseteq Channel
  /\ receipts \in [Video \X Channel -> UploadJob \cup {NoJob}]
  /\ request \in [UploadJob -> Request \cup {NoRequest}]
  /\ used \subseteq Job /\ saved \subseteq ConnectJob /\ published \in [UploadJob -> Nat]

\* Somebody still has this job in hand.
Working(j) ==
  \/ \E a \in Actor : actor[a].job = j
  \/ \E i \in 1 .. Len(queue) : queue[i] = j

ShownIn(j, phases) == mem[j] \in phases \/ disk[j] \in phases

\* A job shown as SUCCESS, by this process or by a later one from its file, did
\* what it says: the account is in the index, or exactly one video was made and
\* its receipt, or that of a later upload of the same video, is on disk.
SuccessIsBacked ==
  /\ \A j \in ConnectJob : ShownIn(j, {"SUCCESS"}) => j \in saved /\ accounts # {}
  /\ \A j \in UploadJob : ShownIn(j, {"SUCCESS"}) =>
       /\ published[j] = 1
       /\ receipts[<<request[j].video, request[j].channel>>] # NoJob

\* A receipt is the receipt of a video that exists, for the run and the channel
\* in its name.
ReceiptIsTrue ==
  \A v \in Video, c \in Channel :
    LET j == receipts[<<v, c>>] IN
    j # NoJob => published[j] = 1 /\ request[j] = [video |-> v, channel |-> c]

\* What a job or a receipt says was done was done.
ShownIsTrue == SuccessIsBacked /\ ReceiptIsTrue

\* Of the connections this process shows as active at most one is not already
\* being cancelled (702-713): a phase put back over CANCELLED by a worker that
\* had looked at the event too early does not make a second one.
OneLiveConnect ==
  \A j, k \in ConnectJob :
    {mem[j], mem[k]} \subseteq ActiveOAuth /\ {j, k} \cap cancelled = {} => j = k

\* When its file can be written, a job that nobody has in hand is finished in
\* memory and in its file: neither half of a transition was the last word of an
\* actor that then went away.
Settled ==
  \A j \in Job : mem[j] # "none" /\ ~ Working(j) /\ ~ stopping =>
    mem[j] \in Terminal /\ disk[j] \in Terminal

\* Every job ends, or the process does.
EveryJobEnds ==
  \A j \in Job : mem[j] \notin Terminal \cup {"none"} ~> mem[j] \in Terminal \cup {"none"} \/ stopping

\* The job will still look at its cancel event.
BeforeLastLook(j) ==
  \/ \E i \in 1 .. Len(queue) : queue[i] = j
  \/ /\ actor["worker"].job = j
     /\ actor["worker"].pc \in {"authorize", "waiting", "completing", "token", "check", "except"}

\* A cancellation that arrives before the worker's last look at the event is
\* final: the job comes to rest as CANCELLED and has saved no account.
CancelHonoured ==
  \A j \in ConnectJob :
    j \in cancelled /\ BeforeLastLook(j) ~>
      mem[j] = "none" \/ (mem[j] = "CANCELLED" /\ ~ Working(j) /\ j \notin saved)

\* What test_cancelled_oauth_saves_no_account_and_can_retry is named for: a
\* connection at rest as CANCELLED left no account behind.
CancelledSavesNoAccount ==
  \A j \in ConnectJob : mem[j] = "CANCELLED" /\ ~ Working(j) => j \notin saved
=============================================================================
