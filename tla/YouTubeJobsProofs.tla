-------------------------- MODULE YouTubeJobsProofs --------------------------
(***************************************************************************)
(* Theorems about YouTubeJobs, for any jobs, videos and channels: what a   *)
(* job or a receipt says of Google is so, and at most one connection that  *)
(* is not being cancelled is shown as active, whether writes fail or not;  *)
(* when they do not, a job nobody has in hand is finished in memory and in *)
(* its file.                                                               *)
(*                                                                         *)
(* The inductive invariant says where the two actors can be, that a job is *)
(* in one hand at a time, and, on that ground, what holds of uploads, of   *)
(* connections and of the last word on a job.                              *)
(***************************************************************************)
EXTENDS YouTubeJobs, TLAPS

-----------------------------------------------------------------------------
(* The inductive invariant                                                 *)

U == actor["ui"]
W == actor["worker"]

ConnectPlace == {"authorize", "waiting", "completing", "token", "check", "save", "finally"}
UploadPlace  == {"upload", "load", "send", "progress", "receipt"}

\* What a request handler can be in the middle of.
UiShape ==
  /\ U.pc \in {"idle", "signal", "put", "write", "submit"}
  /\ U.pc = "idle" => U = Idle
  /\ U.pc = "signal" => U.job \in ConnectJob /\ U.phase = "none" /\ U.then = "idle"
  /\ U.pc = "submit" => U.job \in Job /\ U.then = "submit" /\ U.phase \in {"STARTING", "WAITING"}
  /\ U.pc \in {"put", "write"} =>
       \/ U.job \in ConnectJob /\ U.phase = "STARTING" /\ U.then = "submit"
       \/ U.job \in UploadJob /\ U.phase = "WAITING" /\ U.then = "submit"
       \/ U.job \in ConnectJob /\ U.phase \in {"CANCELLED", "FAILED"} /\ U.then = "idle"

\* What the executor's thread can be in the middle of.
WorkerShape ==
  /\ W.pc \in ConnectPlace \cup UploadPlace \cup {"idle", "put", "write", "success", "except"}
  /\ W.pc = "idle" => W = Idle
  /\ W.pc \in ConnectPlace => W.job \in ConnectJob
  /\ W.pc \in UploadPlace => W.job \in UploadJob
  /\ W.pc \in {"put", "write", "success", "except"} => W.job \in Job
  /\ W.pc \in {"put", "write"} =>
       \/ W.job \in ConnectJob /\ W.phase = "WAITING_FOR_AUTHORIZATION" /\ W.then = "waiting"
       \/ W.job \in ConnectJob /\ W.phase = "COMPLETING" /\ W.then = "token"
       \/ W.job \in UploadJob /\ W.phase = "UPLOADING" /\ W.then \in {"load", "receipt"}
       \/ W.job \in ConnectJob /\ W.phase \in Terminal /\ W.then = "finally"
       \/ W.job \in UploadJob /\ W.phase \in Terminal /\ W.then = "idle"

InQueue(j) == \E i \in 1 .. Len(queue) : queue[i] = j

\* A handler is on its way to submit j.
Submitting(j) == U.then = "submit" /\ U.job = j

\* The queue holds a job once, and what it holds nobody else runs; an id is
\* used before anything is known of it.
HandInv ==
  /\ \A i, k \in 1 .. Len(queue) : queue[i] = queue[k] => i = k
  /\ \A j \in Job : InQueue(j) => j \in used /\ j # W.job /\ mem[j] # "none"
  /\ W.job # NoJob => W.job \in used /\ mem[W.job] # "none"
  /\ U.job # NoJob => U.job \in used
  /\ \A j \in Job : Submitting(j) => /\ j # W.job /\ ~ InQueue(j)
                                     /\ U.pc # "put" => mem[j] # "none"
  /\ U.phase = "FAILED" => U.job # W.job /\ ~ InQueue(U.job)
  /\ \A j \in Job : mem[j] # "none" \/ disk[j] # "none" => j \in used
  /\ \A j \in UploadJob : j \in used => request[j] \in Request

\* Upload j has not been sent yet and may still be.
Unsent(j) ==
  \/ j \notin used \/ Submitting(j) \/ InQueue(j)
  \/ W.job = j /\ W.pc \in {"upload", "load", "send"}
  \/ W.job = j /\ W.pc \in {"put", "write"} /\ W.then = "load"

\* What entitles a job to say SUCCESS.
Done(j) ==
  /\ j \in ConnectJob => j \in saved /\ accounts # {}
  /\ j \in UploadJob => published[j] = 1 /\ receipts[<<request[j].video, request[j].channel>>] # NoJob

\* An upload is sent once, and the worker knows what it did.
OutcomeInv ==
  /\ ShownIsTrue
  /\ \A j \in UploadJob : Unsent(j) => published[j] = 0
  /\ W.pc \in {"progress", "receipt"} => published[W.job] = 1
  /\ W.pc \in {"put", "write"} /\ W.then = "receipt" => published[W.job] = 1
  /\ W.pc = "success" => Done(W.job)
  /\ W.pc \in {"put", "write"} /\ W.phase = "SUCCESS" => Done(W.job)

\* The worker has not put the last phase of its job yet.
BeforeLastPut == W.pc # "finally" /\ ~ (W.pc = "write" /\ W.phase \in Terminal)

InHand(j) == \/ InQueue(j) \/ (W.job = j /\ BeforeLastPut)
             \/ (Submitting(j) /\ U.pc # "put")

\* Shown as active, or about to be, and not cancelled.
Live(j) == /\ j \notin cancelled
           /\ \/ mem[j] \in ActiveOAuth
              \/ U.pc = "put" /\ U.phase = "STARTING" /\ U.job = j

\* A connection in hand has its event, and is shown as active unless that event
\* is set; a second one is not started before.
ConnectInv ==
  /\ \A j \in ConnectJob : InQueue(j) \/ W.job = j \/ Submitting(j) => j \in events
  /\ U.phase = "CANCELLED" => U.job \in cancelled \/ U.job \notin events
  /\ \A j \in ConnectJob : InHand(j) => mem[j] \in ActiveOAuth \/ j \in cancelled
  /\ \A j, k \in ConnectJob : Live(j) /\ Live(k) => j = k

\* Somebody will still say how job j ended, in memory and in its file.
LastWordInv ==
  \A j \in Job : mem[j] # "none" /\ ~ stopping =>
    /\ mem[j] \in Terminal \/ InHand(j) \/ Submitting(j)
    /\ \/ disk[j] \in Terminal \/ InQueue(j) \/ Submitting(j)
       \/ W.job = j /\ W.pc # "finally"
       \/ U.job = j /\ U.pc = "write" /\ U.phase \in Terminal

PublishingInv ==
  /\ TypeOK /\ UiShape /\ WorkerShape /\ HandInv /\ OutcomeInv /\ ConnectInv
  /\ ~ WritesMayFail => LastWordInv

-----------------------------------------------------------------------------
(* The moves of an actor                                                   *)

\* Actor a goes on with its job; the other one stays where it is.
Keeps(a) == /\ actor' \in [Actor -> Activity]
            /\ actor'[a].job = actor[a].job
            /\ \A b \in Actor \ {a} : actor'[b] = actor[b]

LEMMA Actors ==
  ASSUME TypeOK
  PROVE  /\ actor \in [Actor -> Activity] /\ Actor = {"ui", "worker"}
         /\ U \in Activity /\ W \in Activity
         /\ Idle \in Activity /\ Idle.pc = "idle" /\ Idle.job = NoJob
         /\ Idle.phase = "none" /\ Idle.then = "idle"
<1>1. Idle \in Activity
  BY DEF Idle, Activity, Place, ErrorCode
<1> QED BY <1>1 DEF TypeOK, Actor, U, W, Idle

LEMMA FieldUpdate ==
  ASSUME NEW f \in [Actor -> Activity], NEW a \in Actor
  PROVE  /\ \A pc \in Place : LET g == [f EXCEPT ![a].pc = pc] IN
              /\ g \in [Actor -> Activity] /\ g[a].pc = pc /\ g[a].job = f[a].job
              /\ g[a].phase = f[a].phase /\ g[a].then = f[a].then /\ g[a].error = f[a].error
              /\ \A b \in Actor \ {a} : g[b] = f[b]
         /\ \A phase \in Phase : LET g == [f EXCEPT ![a].phase = phase] IN
              /\ g \in [Actor -> Activity] /\ g[a].pc = f[a].pc /\ g[a].job = f[a].job
              /\ g[a].phase = phase /\ g[a].then = f[a].then /\ g[a].error = f[a].error
              /\ \A b \in Actor \ {a} : g[b] = f[b]
         /\ \A then \in Place : LET g == [f EXCEPT ![a].then = then] IN
              /\ g \in [Actor -> Activity] /\ g[a].pc = f[a].pc /\ g[a].job = f[a].job
              /\ g[a].phase = f[a].phase /\ g[a].then = then /\ g[a].error = f[a].error
              /\ \A b \in Actor \ {a} : g[b] = f[b]
         /\ \A error \in ErrorCode : LET g == [f EXCEPT ![a].error = error] IN
              /\ g \in [Actor -> Activity] /\ g[a].pc = f[a].pc /\ g[a].job = f[a].job
              /\ g[a].phase = f[a].phase /\ g[a].then = f[a].then /\ g[a].error = error
              /\ \A b \in Actor \ {a} : g[b] = f[b]
         /\ \A job \in Job : LET g == [f EXCEPT ![a].job = job] IN
              /\ g \in [Actor -> Activity] /\ g[a].pc = f[a].pc /\ g[a].job = job
              /\ g[a].phase = f[a].phase /\ g[a].then = f[a].then /\ g[a].error = f[a].error
              /\ \A b \in Actor \ {a} : g[b] = f[b]
BY DEF Activity

LEMMA GotoMoves ==
  ASSUME TypeOK, NEW a \in Actor, NEW pc \in Place, Goto(a, pc)
  PROVE  /\ Keeps(a) /\ actor'[a].pc = pc
         /\ actor'[a].phase = actor[a].phase /\ actor'[a].then = actor[a].then
BY Actors, FieldUpdate DEF Goto, Keeps

LEMMA BeginMoves ==
  ASSUME TypeOK, NEW a \in Actor, NEW phase \in Phase, NEW then \in Place,
         Begin(a, phase, then)
  PROVE  /\ Keeps(a) /\ actor'[a].pc = "put"
         /\ actor'[a].phase = phase /\ actor'[a].then = then
<1> DEFINE f1 == [actor EXCEPT ![a].pc = "put"]
           f2 == [f1 EXCEPT ![a].phase = phase]
           f3 == [f2 EXCEPT ![a].then = then]
<1>0. "put" \in Place
  BY DEF Place
<1>1. /\ f1 \in [Actor -> Activity] /\ f1[a].pc = "put" /\ f1[a].job = actor[a].job
      /\ \A b \in Actor \ {a} : f1[b] = actor[b]
  BY <1>0, Actors, FieldUpdate
<1>2. /\ f2 \in [Actor -> Activity] /\ f2[a].pc = "put" /\ f2[a].job = actor[a].job
      /\ f2[a].phase = phase /\ \A b \in Actor \ {a} : f2[b] = actor[b]
  <2> HIDE DEF f1
  <2> QED BY <1>1, FieldUpdate
<1>3. /\ f3 \in [Actor -> Activity] /\ f3[a].pc = "put" /\ f3[a].job = actor[a].job
      /\ f3[a].phase = phase /\ f3[a].then = then /\ \A b \in Actor \ {a} : f3[b] = actor[b]
  <2> HIDE DEF f2
  <2> QED BY <1>2, FieldUpdate
<1>4. actor' = f3
  BY DEF Begin
<1> QED BY <1>3, <1>4 DEF Keeps

LEMMA RaiseMoves ==
  ASSUME TypeOK, NEW error \in ErrorCode, Raise(error)
  PROVE  Keeps("worker") /\ W'.pc = "except"
<1> DEFINE f1 == [actor EXCEPT !["worker"].pc = "except"]
           f2 == [f1 EXCEPT !["worker"].error = error]
<1>0. "worker" \in Actor /\ "except" \in Place
  BY DEF Actor, Place
<1>1. /\ f1 \in [Actor -> Activity] /\ f1["worker"].pc = "except"
      /\ f1["worker"].job = actor["worker"].job
      /\ \A b \in Actor \ {"worker"} : f1[b] = actor[b]
  BY <1>0, Actors, FieldUpdate
<1>2. /\ f2 \in [Actor -> Activity] /\ f2["worker"].pc = "except"
      /\ f2["worker"].job = actor["worker"].job
      /\ \A b \in Actor \ {"worker"} : f2[b] = actor[b]
  <2> HIDE DEF f1
  <2> QED BY <1>0, <1>1, FieldUpdate
<1>3. actor' = f2
  BY DEF Raise
<1> QED BY <1>2, <1>3 DEF Keeps, W

\* An actor that is done with its job.
LEMMA IdleMoves ==
  ASSUME TypeOK, NEW a \in Actor, actor' = [actor EXCEPT ![a] = Idle]
  PROVE  /\ actor' \in [Actor -> Activity] /\ actor'[a] = Idle
         /\ \A b \in Actor \ {a} : actor'[b] = actor[b]
BY Actors

LEMMA WorkerKeeps ==
  ASSUME TypeOK, Keeps("worker")
  PROVE  /\ U' = U /\ W'.job = W.job /\ W' \in Activity
BY DEF Keeps, Actor, U, W

LEMMA UiKeeps ==
  ASSUME TypeOK, Keeps("ui")
  PROVE  /\ W' = W /\ U'.job = U.job /\ U' \in Activity
BY DEF Keeps, Actor, U, W

\* The worker is about to put a phase.
Puts(phase, then) == W'.pc = "put" /\ W'.phase = phase /\ W'.then = then

LEMMA WorkerPuts ==
  ASSUME TypeOK, NEW phase \in Phase, NEW then \in Place, Begin("worker", phase, then)
  PROVE  Keeps("worker") /\ Puts(phase, then)
BY BeginMoves DEF Actor, Puts, W

LEMMA WorkerGoes ==
  ASSUME TypeOK, NEW pc \in Place, Goto("worker", pc)
  PROVE  Keeps("worker") /\ W'.pc = pc /\ W'.phase = W.phase /\ W'.then = W.then
BY GotoMoves DEF Actor, W

-----------------------------------------------------------------------------
(* The steps of the worker that touch nothing but its own place            *)

QuietStep ==
  \/ Status("authorize", "WAITING_FOR_AUTHORIZATION", "waiting")
  \/ AwaitBrowser \/ Status("completing", "COMPLETING", "token")
  \/ FetchToken \/ CheckCancelled \/ Succeed \/ Except
  \/ StartSending \/ LoadCredentials \/ LastProgress

\* Where they lead.
QuietRelation ==
  \/ W.pc = "authorize" /\ W.job \in ConnectJob
       /\ (Puts("WAITING_FOR_AUTHORIZATION", "waiting") \/ W'.pc = "waiting")
  \/ W.pc = "waiting" /\ W.job \in ConnectJob /\ W'.pc \in {"completing", "except"}
  \/ W.pc = "completing" /\ W.job \in ConnectJob
       /\ (Puts("COMPLETING", "token") \/ W'.pc = "token")
  \/ W.pc = "token" /\ W.job \in ConnectJob /\ W'.pc \in {"check", "except"}
  \/ W.pc = "check" /\ W.job \in ConnectJob /\ W'.pc \in {"save", "except"}
  \/ W.pc = "success" /\ W.job \in Job /\ Puts("SUCCESS", AfterJob)
  \/ W.pc = "except" /\ W.job \in Job
       /\ \E phase \in Terminal \ {"SUCCESS"} : Puts(phase, AfterJob)
  \/ W.pc = "upload" /\ W.job \in UploadJob /\ Puts("UPLOADING", "load")
  \/ W.pc = "load" /\ W.job \in UploadJob /\ W'.pc \in {"send", "except"}
  \/ W.pc = "progress" /\ W.job \in UploadJob /\ Puts("UPLOADING", "receipt")

LEMMA QuietMoves ==
  ASSUME TypeOK, WorkerShape, QuietStep
  PROVE  /\ Keeps("worker") /\ U' = U /\ W'.job = W.job /\ W' \in Activity
         /\ UNCHANGED <<mem, disk, volatile, files, ghosts>>
         /\ QuietRelation
<1>1. /\ "worker" \in Actor /\ W = actor["worker"]
      /\ {"put", "waiting", "completing", "token", "check", "save", "send", "load", "receipt",
          "except", "finally", "idle"} \subseteq Place
      /\ {"WAITING_FOR_AUTHORIZATION", "COMPLETING", "UPLOADING", "SUCCESS"} \subseteq Phase
      /\ {"OTHER", "OAUTH_CANCELLED", "OAUTH_TIMEOUT"} \subseteq ErrorCode
      /\ Terminal \subseteq Phase
  BY DEF Actor, W, Place, Phase, ActiveOAuth, ActiveUpload, Terminal, ErrorCode
<1> USE <1>1 DEF At
<1>2. /\ UNCHANGED <<mem, disk, volatile, files, ghosts>>
  BY DEF QuietStep, Status, AwaitBrowser, FetchToken, CheckCancelled, Succeed, Except,
         StartSending, LoadCredentials, LastProgress
<1>3. AfterJob \in Place
  BY DEF AfterJob
<1>4. ASSUME NEW from, NEW phase \in Phase, NEW then \in Place, Status(from, phase, then)
      PROVE  Keeps("worker") /\ W.pc = from /\ (Puts(phase, then) \/ W'.pc = then)
  BY <1>4, WorkerPuts, WorkerGoes DEF Status
<1>5. CASE Status("authorize", "WAITING_FOR_AUTHORIZATION", "waiting")
  <2>1. Keeps("worker") /\ W.pc = "authorize"
        /\ (Puts("WAITING_FOR_AUTHORIZATION", "waiting") \/ W'.pc = "waiting")
    BY <1>4, <1>5
  <2> QED BY <1>2, <2>1, WorkerKeeps DEF QuietRelation, WorkerShape, ConnectPlace
<1>6. CASE Status("completing", "COMPLETING", "token")
  <2>1. Keeps("worker") /\ W.pc = "completing"
        /\ (Puts("COMPLETING", "token") \/ W'.pc = "token")
    BY <1>4, <1>6
  <2> QED BY <1>2, <2>1, WorkerKeeps DEF QuietRelation, WorkerShape, ConnectPlace
<1>7. CASE AwaitBrowser
  <2>1. Keeps("worker") /\ W.pc = "waiting" /\ W'.pc \in {"completing", "except"}
    BY <1>7, WorkerGoes, RaiseMoves DEF AwaitBrowser
  <2> QED BY <1>2, <2>1, WorkerKeeps DEF QuietRelation, WorkerShape, ConnectPlace
<1>8. CASE FetchToken
  <2>1. Keeps("worker") /\ W.pc = "token" /\ W'.pc \in {"check", "except"}
    BY <1>8, WorkerGoes, RaiseMoves DEF FetchToken
  <2> QED BY <1>2, <2>1, WorkerKeeps DEF QuietRelation, WorkerShape, ConnectPlace
<1>9. CASE CheckCancelled
  <2>1. Keeps("worker") /\ W.pc = "check" /\ W'.pc \in {"save", "except"}
    BY <1>9, WorkerGoes, RaiseMoves DEF CheckCancelled
  <2> QED BY <1>2, <2>1, WorkerKeeps DEF QuietRelation, WorkerShape, ConnectPlace
<1>10. CASE Succeed
  <2>1. Keeps("worker") /\ W.pc = "success" /\ Puts("SUCCESS", AfterJob)
    BY <1>3, <1>10, WorkerPuts DEF Succeed
  <2> QED BY <1>2, <2>1, WorkerKeeps DEF QuietRelation, WorkerShape
<1>11. CASE Except
  <2>1. W.pc = "except" /\ W.job \in Job
    BY <1>11 DEF Except, WorkerShape
  <2>2. ErrorPhase \in Terminal \ {"SUCCESS"}
    BY <2>1 DEF ErrorPhase, Terminal, Job
  <2>3. Keeps("worker") /\ Puts(ErrorPhase, AfterJob)
    BY <1>3, <1>11, <2>2, WorkerPuts DEF Except
  <2> QED BY <1>2, <2>1, <2>2, <2>3, WorkerKeeps DEF QuietRelation
<1>12. CASE StartSending
  <2>1. Keeps("worker") /\ W.pc = "upload" /\ Puts("UPLOADING", "load")
    BY <1>12, WorkerPuts DEF StartSending
  <2> QED BY <1>2, <2>1, WorkerKeeps DEF QuietRelation, WorkerShape, UploadPlace
<1>13. CASE LoadCredentials
  <2>1. Keeps("worker") /\ W.pc = "load" /\ W'.pc \in {"send", "except"}
    BY <1>13, WorkerGoes, RaiseMoves DEF LoadCredentials
  <2> QED BY <1>2, <2>1, WorkerKeeps DEF QuietRelation, WorkerShape, UploadPlace
<1>14. CASE LastProgress
  <2>1. Keeps("worker") /\ W.pc = "progress" /\ Puts("UPLOADING", "receipt")
    BY <1>14, WorkerPuts DEF LastProgress
  <2> QED BY <1>2, <2>1, WorkerKeeps DEF QuietRelation, WorkerShape, UploadPlace
<1> QED BY <1>5, <1>6, <1>7, <1>8, <1>9, <1>10, <1>11, <1>12, <1>13, <1>14 DEF QuietStep

LEMMA QuietKeepsShape ==
  ASSUME TypeOK, UiShape, WorkerShape, QuietStep
  PROVE  TypeOK' /\ UiShape' /\ WorkerShape'
<1>1. /\ Keeps("worker") /\ U' = U /\ W'.job = W.job
      /\ UNCHANGED <<mem, disk, volatile, files, ghosts>> /\ QuietRelation
  BY QuietMoves
<1>2. TypeOK'
  BY <1>1 DEF TypeOK, Keeps, volatile, files, ghosts
<1>3. UiShape'
  BY <1>1 DEF UiShape
<1>4. WorkerShape'
  BY <1>1, KindAssumption
     DEF WorkerShape, QuietRelation, Puts, AfterJob, ConnectPlace, UploadPlace, Terminal, Job, W
<1> QED BY <1>2, <1>3, <1>4

LEMMA QuietKeepsHands ==
  ASSUME TypeOK, WorkerShape, HandInv, QuietStep
  PROVE  HandInv'
<1>1. /\ U' = U /\ W'.job = W.job
      /\ UNCHANGED <<mem, disk, volatile, files, ghosts>>
  BY QuietMoves
<1> QED BY <1>1 DEF HandInv, InQueue, Submitting, volatile, files, ghosts

LEMMA QuietKeepsOutcome ==
  ASSUME TypeOK, UiShape, WorkerShape, HandInv, OutcomeInv, QuietStep
  PROVE  OutcomeInv'
<1>1. /\ Keeps("worker") /\ U' = U /\ W'.job = W.job
      /\ UNCHANGED <<mem, disk, volatile, files, ghosts>> /\ QuietRelation
  BY QuietMoves
<1>2. ShownIsTrue'
  BY <1>1 DEF OutcomeInv, ShownIsTrue, SuccessIsBacked, ReceiptIsTrue, ShownIn, volatile, files, ghosts
<1>3. ASSUME NEW j \in UploadJob, Unsent(j)' PROVE Unsent(j)
  BY <1>1, <1>3, KindAssumption DEF Unsent, Submitting, InQueue, QuietRelation, Puts, AfterJob, volatile, ghosts, Job
<1>4. \A j \in UploadJob : Unsent(j)' => published'[j] = 0
  BY <1>1, <1>3 DEF OutcomeInv, ghosts
<1>5. (W.pc \in {"progress", "receipt"} => published[W.job] = 1)'
  BY <1>1 DEF QuietRelation, Puts
<1>6. (W.pc \in {"put", "write"} /\ W.then = "receipt" => published[W.job] = 1)'
  BY <1>1, KindAssumption DEF QuietRelation, Puts, OutcomeInv, AfterJob, ghosts
<1>7. (W.pc = "success" => Done(W.job))'
  BY <1>1 DEF QuietRelation, Puts
<1>8. (W.pc \in {"put", "write"} /\ W.phase = "SUCCESS" => Done(W.job))'
  <2>1. CASE W.pc = "success"
    BY <1>1, <2>1 DEF OutcomeInv, Done, files, ghosts
  <2>2. CASE W.pc # "success"
    BY <1>1, <2>2 DEF QuietRelation, Puts
  <2> QED BY <2>1, <2>2
<1> QED BY <1>2, <1>4, <1>5, <1>6, <1>7, <1>8 DEF OutcomeInv

LEMMA QuietKeepsConnects ==
  ASSUME TypeOK, WorkerShape, ConnectInv, QuietStep
  PROVE  ConnectInv'
<1>1. /\ U' = U /\ W'.job = W.job
      /\ UNCHANGED <<mem, disk, volatile, files, ghosts>> /\ QuietRelation
  BY QuietMoves
<1>2. BeforeLastPut
  BY <1>1 DEF QuietRelation, BeforeLastPut
<1>3. \A j : InHand(j)' => InHand(j)
  BY <1>1, <1>2 DEF InHand, InQueue, Submitting, volatile
<1>4. \A j : Live(j)' <=> Live(j)
  BY <1>1 DEF Live, volatile
<1> QED BY <1>1, <1>3, <1>4 DEF ConnectInv, InQueue, Submitting, volatile

LEMMA QuietKeepsLastWord ==
  ASSUME TypeOK, WorkerShape, LastWordInv, QuietStep
  PROVE  LastWordInv'
<1>1. /\ U' = U /\ W'.job = W.job
      /\ UNCHANGED <<mem, disk, volatile, files, ghosts>> /\ QuietRelation
  BY QuietMoves
<1>2. BeforeLastPut' /\ W'.pc # "finally"
  BY <1>1 DEF QuietRelation, BeforeLastPut, Puts
<1>3. \A j : InHand(j) => InHand(j)'
  BY <1>1, <1>2 DEF InHand, InQueue, Submitting, volatile
<1> QED BY <1>1, <1>2, <1>3 DEF LastWordInv, InQueue, Submitting, volatile

LEMMA QuietKeeps ==
  ASSUME PublishingInv, QuietStep
  PROVE  PublishingInv'
BY QuietKeepsShape, QuietKeepsHands, QuietKeepsOutcome, QuietKeepsConnects, QuietKeepsLastWord
   DEF PublishingInv

-----------------------------------------------------------------------------
(* The first half of a transition: the phase is put in the dictionary      *)

LEMMA WorkerPutMoves ==
  ASSUME TypeOK, WorkerShape, Put("worker")
  PROVE  /\ actor' \in [Actor -> Activity] /\ U' = U
         /\ W.pc = "put" /\ W'.pc = "write" /\ W'.job = W.job
         /\ W'.phase = W.phase /\ W'.then = W.then
         /\ W.job \in Job /\ W.phase \in Phase
         /\ mem' \in [Job -> Phase \cup {"none"}] /\ mem'[W.job] = W.phase
         /\ \A j \in Job \ {W.job} : mem'[j] = mem[j]
         /\ UNCHANGED <<disk, volatile, files, ghosts>>
<1>1. "write" \in Place /\ "worker" \in Actor
  BY DEF Place, Actor
<1>2. Keeps("worker") /\ W'.pc = "write" /\ W'.phase = W.phase /\ W'.then = W.then
  BY <1>1, WorkerGoes DEF Put
<1>3. W.pc = "put" /\ mem' = [mem EXCEPT ![W.job] = W.phase]
  BY DEF Put, At, W
<1>4. W.job \in Job /\ W.phase \in Phase
  BY <1>3 DEF WorkerShape, Phase, Terminal, ActiveOAuth, ActiveUpload
<1>5. UNCHANGED <<disk, volatile, files, ghosts>>
  BY DEF Put
<1> QED BY <1>2, <1>3, <1>4, <1>5, WorkerKeeps DEF Keeps, TypeOK

LEMMA WorkerPutKeeps ==
  ASSUME PublishingInv, Put("worker")
  PROVE  PublishingInv'
<1>0. /\ TypeOK /\ UiShape /\ WorkerShape /\ HandInv /\ OutcomeInv /\ ConnectInv
      /\ ~ WritesMayFail => LastWordInv
  BY DEF PublishingInv
<1>1. /\ actor' \in [Actor -> Activity] /\ U' = U
      /\ W.pc = "put" /\ W'.pc = "write" /\ W'.job = W.job
      /\ W'.phase = W.phase /\ W'.then = W.then
      /\ W.job \in Job /\ W.phase \in Phase
      /\ mem' \in [Job -> Phase \cup {"none"}] /\ mem'[W.job] = W.phase
      /\ \A j \in Job \ {W.job} : mem'[j] = mem[j]
      /\ UNCHANGED <<disk, volatile, files, ghosts>>
  BY <1>0, WorkerPutMoves
<1>2. TypeOK'
  BY <1>0, <1>1 DEF TypeOK, volatile, files, ghosts
<1>3. UiShape' /\ WorkerShape'
  BY <1>0, <1>1 DEF UiShape, WorkerShape, ConnectPlace, UploadPlace
<1>4. HandInv'
  <2>1. W.phase # "none"
    BY <1>1 DEF Phase, Terminal, ActiveOAuth, ActiveUpload
  <2>2. \A j \in Job : mem[j] # "none" => mem'[j] # "none"
    BY <1>1, <2>1
  <2> QED BY <1>0, <1>1, <2>1, <2>2, KindAssumption
          DEF HandInv, InQueue, Submitting, volatile, files, ghosts
<1>5. OutcomeInv'
  <2>1. W.phase = "SUCCESS" => Done(W.job)
    BY <1>0, <1>1 DEF OutcomeInv
  <2>2. SuccessIsBacked'
    BY <1>0, <1>1, <2>1
       DEF OutcomeInv, ShownIsTrue, SuccessIsBacked, ShownIn, Done, Job, files, ghosts
  <2>3. ReceiptIsTrue'
    BY <1>0, <1>1 DEF OutcomeInv, ShownIsTrue, ReceiptIsTrue, files, ghosts
  <2>4. \A j \in UploadJob : (Unsent(j) => published[j] = 0)'
    BY <1>0, <1>1 DEF OutcomeInv, Unsent, InQueue, Submitting, volatile, ghosts
  <2> QED BY <1>0, <1>1, <2>2, <2>3, <2>4 DEF OutcomeInv, ShownIsTrue, Done, files, ghosts
<1>6. ConnectInv'
  <2>1. \A j \in ConnectJob : InHand(j)' => InHand(j)
    BY <1>1 DEF InHand, InQueue, Submitting, BeforeLastPut, volatile
  <2>2. W.job \in ConnectJob /\ InHand(W.job)' => W.phase \in ActiveOAuth
    BY <1>0, <1>1, KindAssumption
       DEF InHand, InQueue, Submitting, BeforeLastPut, volatile, HandInv, WorkerShape,
           ActiveOAuth, Terminal
  <2>3. \A j \in ConnectJob : InHand(j)' => mem'[j] \in ActiveOAuth \/ j \in cancelled'
    <3> TAKE j \in ConnectJob
    <3>1. CASE j = W.job
      BY <1>1, <2>2, <3>1
    <3>2. CASE j # W.job
      BY <1>0, <1>1, <2>1, <3>2 DEF ConnectInv, Job, volatile
    <3> QED BY <3>1, <3>2
  <2>4. W.job \in ConnectJob => InHand(W.job)
    BY <1>1 DEF InHand, BeforeLastPut
  <2>5. \A j \in ConnectJob : Live(j)' => Live(j)
    <3> TAKE j \in ConnectJob
    <3>1. CASE j = W.job
      BY <1>0, <1>1, <2>4, <3>1 DEF ConnectInv, Live, volatile
    <3>2. CASE j # W.job
      BY <1>1, <3>2 DEF Live, Job, volatile
    <3> QED BY <3>1, <3>2
  <2>6. \A j, k \in ConnectJob : Live(j)' /\ Live(k)' => j = k
    BY <1>0, <2>5 DEF ConnectInv
  <2> QED BY <1>0, <1>1, <2>3, <2>6 DEF ConnectInv, InQueue, Submitting, volatile
<1>7. ~ WritesMayFail => LastWordInv'
  <2> SUFFICES ASSUME LastWordInv PROVE LastWordInv'
    BY <1>0
  <2>1. W.phase \in Terminal \/ BeforeLastPut'
    BY <1>1 DEF BeforeLastPut
  <2>2. \A j \in Job \ {W.job} : InHand(j) => InHand(j)'
    BY <1>1 DEF InHand, InQueue, Submitting, BeforeLastPut, volatile
  <2> QED BY <1>1, <2>1, <2>2 DEF LastWordInv, InHand, InQueue, Submitting, volatile
<1> QED BY <1>2, <1>3, <1>4, <1>5, <1>6, <1>7 DEF PublishingInv

LEMMA UiPutMoves ==
  ASSUME TypeOK, UiShape, Put("ui")
  PROVE  /\ actor' \in [Actor -> Activity] /\ W' = W
         /\ U.pc = "put" /\ U'.pc = "write" /\ U'.job = U.job
         /\ U'.phase = U.phase /\ U'.then = U.then
         /\ U.job \in Job /\ U.phase \in Phase \ {"SUCCESS"}
         /\ mem' \in [Job -> Phase \cup {"none"}] /\ mem'[U.job] = U.phase
         /\ \A j \in Job \ {U.job} : mem'[j] = mem[j]
         /\ UNCHANGED <<disk, volatile, files, ghosts>>
<1>1. "write" \in Place /\ "ui" \in Actor /\ U = actor["ui"]
  BY DEF Place, Actor, U
<1>2. Keeps("ui") /\ U'.pc = "write" /\ U'.phase = U.phase /\ U'.then = U.then
  BY <1>1, GotoMoves DEF Put, U
<1>3. U.pc = "put" /\ mem' = [mem EXCEPT ![U.job] = U.phase]
  BY DEF Put, At, U
<1>4. U.job \in Job /\ U.phase \in Phase \ {"SUCCESS"}
  BY <1>3 DEF UiShape, Phase, Terminal, ActiveOAuth, ActiveUpload, Job
<1>5. UNCHANGED <<disk, volatile, files, ghosts>>
  BY DEF Put
<1> QED BY <1>2, <1>3, <1>4, <1>5, UiKeeps DEF Keeps, TypeOK

LEMMA UiPutKeeps ==
  ASSUME PublishingInv, Put("ui")
  PROVE  PublishingInv'
<1>0. /\ TypeOK /\ UiShape /\ WorkerShape /\ HandInv /\ OutcomeInv /\ ConnectInv
      /\ ~ WritesMayFail => LastWordInv
  BY DEF PublishingInv
<1>1. /\ actor' \in [Actor -> Activity] /\ W' = W
      /\ U.pc = "put" /\ U'.pc = "write" /\ U'.job = U.job
      /\ U'.phase = U.phase /\ U'.then = U.then
      /\ U.job \in Job /\ U.phase \in Phase \ {"SUCCESS"}
      /\ mem' \in [Job -> Phase \cup {"none"}] /\ mem'[U.job] = U.phase
      /\ \A j \in Job \ {U.job} : mem'[j] = mem[j]
      /\ UNCHANGED <<disk, volatile, files, ghosts>>
  BY <1>0, UiPutMoves
<1>2. TypeOK'
  BY <1>0, <1>1 DEF TypeOK, volatile, files, ghosts
<1>3. UiShape' /\ WorkerShape'
  BY <1>0, <1>1 DEF UiShape, WorkerShape
<1>4. HandInv'
  <2>1. U.phase # "none"
    BY <1>1 DEF Phase, Terminal, ActiveOAuth, ActiveUpload
  <2>2. \A j \in Job : mem[j] # "none" => mem'[j] # "none"
    BY <1>1, <2>1
  <2>3. \A j \in Job : mem'[j] # "none" => mem[j] # "none" \/ j = U.job
    BY <1>1
  <2>4. U.job \in used
    BY <1>0, <1>1, KindAssumption DEF HandInv
  <2>5. \A j \in Job : Submitting(j)' => mem'[j] # "none"
    BY <1>1, <2>1 DEF Submitting
  <2> QED BY <1>0, <1>1, <2>2, <2>3, <2>4, <2>5
          DEF HandInv, InQueue, Submitting, volatile, files, ghosts, TypeOK, Activity
<1>5. OutcomeInv'
  <2>1. SuccessIsBacked'
    BY <1>0, <1>1 DEF OutcomeInv, ShownIsTrue, SuccessIsBacked, ShownIn, Job, files, ghosts
  <2>2. ReceiptIsTrue'
    BY <1>0, <1>1 DEF OutcomeInv, ShownIsTrue, ReceiptIsTrue, files, ghosts
  <2>3. \A j \in UploadJob : (Unsent(j) => published[j] = 0)'
    BY <1>0, <1>1 DEF OutcomeInv, Unsent, InQueue, Submitting, volatile, ghosts
  <2> QED BY <1>0, <1>1, <2>1, <2>2, <2>3 DEF OutcomeInv, ShownIsTrue, Done, files, ghosts
<1>6. ConnectInv'
  <2>1. \A j \in ConnectJob : (InQueue(j) \/ W.job = j \/ Submitting(j) => j \in events)'
    BY <1>0, <1>1 DEF ConnectInv, InQueue, Submitting, volatile
  <2>2. \A j \in ConnectJob : InHand(j)' => mem'[j] \in ActiveOAuth \/ j \in cancelled'
    <3> TAKE j \in ConnectJob
    <3>1. CASE j = U.job
      <4>1. CASE U.phase \in {"STARTING", "WAITING"}
        BY <1>0, <1>1, <3>1, <4>1, KindAssumption DEF UiShape, ActiveOAuth
      <4>2. CASE U.phase = "CANCELLED"
        BY <1>0, <1>1, <2>1, <3>1, <4>2
           DEF ConnectInv, InHand, InQueue, Submitting, volatile
      <4>3. CASE U.phase = "FAILED"
        <5>1. ~ InHand(j)'
          BY <1>0, <1>1, <3>1, <4>3
             DEF UiShape, HandInv, InHand, InQueue, Submitting, volatile
        <5> QED BY <5>1
      <4> QED BY <1>0, <1>1, <4>1, <4>2, <4>3 DEF UiShape
    <3>2. CASE j # U.job
      BY <1>0, <1>1, <3>2
         DEF ConnectInv, InHand, InQueue, Submitting, BeforeLastPut, Job, volatile
    <3> QED BY <3>1, <3>2
  <2>3. \A j \in ConnectJob : Live(j)' => Live(j)
    BY <1>0, <1>1, KindAssumption DEF UiShape, Live, Job, volatile, ActiveOAuth
  <2>4. \A j, k \in ConnectJob : Live(j)' /\ Live(k)' => j = k
    BY <1>0, <2>3 DEF ConnectInv
  <2>5. (U.phase = "CANCELLED" => U.job \in cancelled \/ U.job \notin events)'
    BY <1>0, <1>1 DEF ConnectInv, volatile
  <2> QED BY <2>1, <2>2, <2>4, <2>5 DEF ConnectInv
<1>7. ~ WritesMayFail => LastWordInv'
  <2> SUFFICES ASSUME LastWordInv PROVE LastWordInv'
    BY <1>0
  <2>1. Submitting(U.job)' \/ U.phase \in Terminal
    BY <1>0, <1>1 DEF UiShape, Submitting, Terminal
  <2>2. \A j : InHand(j) => InHand(j)'
    BY <1>1 DEF InHand, InQueue, Submitting, BeforeLastPut, volatile
  <2> QED BY <1>1, <2>1, <2>2 DEF LastWordInv, InQueue, Submitting, volatile
<1> QED BY <1>2, <1>3, <1>4, <1>5, <1>6, <1>7 DEF PublishingInv

-----------------------------------------------------------------------------
(* The second half: the phase is written to the job's file, or that fails  *)

\* Where the worker goes on: in the job, in its finally, or at the next job.
WorkerGoesOn ==
  \/ /\ W'.job = W.job /\ W.phase \notin Terminal
     /\ \/ W'.pc = W.then /\ W.then = "load" /\ W.job \in UploadJob
        \/ W'.pc = W.then /\ W.then = "receipt" /\ W.job \in UploadJob
        \/ W'.pc = W.then /\ W.then \in {"waiting", "token"} /\ W.job \in ConnectJob
        \/ W'.pc = "except" /\ WritesMayFail
  \/ W'.job = W.job /\ W'.pc = "finally" /\ W.phase \in Terminal /\ W.job \in ConnectJob
  \/ W' = Idle /\ (W.phase \in Terminal \/ WritesMayFail)

Written(x, job) == /\ disk' \in [Job -> Phase \cup {"none"}]
                   /\ disk'[job] = x.phase
                   /\ \A j \in Job \ {job} : disk'[j] = disk[j]

LEMMA WorkerWriteMoves ==
  ASSUME TypeOK, WorkerShape, NEW raises \in Raises, Write("worker", raises)
  PROVE  /\ actor' \in [Actor -> Activity] /\ U' = U
         /\ W.pc = "write" /\ W.job \in Job /\ WorkerGoesOn
         /\ Written(W, W.job) \/ (WritesMayFail /\ UNCHANGED disk)
         /\ UNCHANGED <<mem, volatile, files, ghosts>>
<1>1. /\ W.pc = "write" /\ W.job \in Job /\ W.phase \in Phase
      /\ \/ W.job \in ConnectJob /\ W.phase = "WAITING_FOR_AUTHORIZATION" /\ W.then = "waiting"
         \/ W.job \in ConnectJob /\ W.phase = "COMPLETING" /\ W.then = "token"
         \/ W.job \in UploadJob /\ W.phase = "UPLOADING" /\ W.then \in {"load", "receipt"}
         \/ W.job \in ConnectJob /\ W.phase \in Terminal /\ W.then = "finally"
         \/ W.job \in UploadJob /\ W.phase \in Terminal /\ W.then = "idle"
  BY DEF Write, At, W, WorkerShape, Phase, Terminal, ActiveOAuth, ActiveUpload
<1>2. /\ {"waiting", "token", "load", "receipt", "finally", "idle", "except"} \subseteq Place
      /\ "OTHER" \in ErrorCode /\ "worker" \in Actor /\ W = actor["worker"]
  BY DEF Place, ErrorCode, Actor, W
<1>3. UNCHANGED <<mem, volatile, files, ghosts>>
  BY DEF Write
<1>4. raises => WritesMayFail
  BY DEF Raises
<1>5. ASSUME NEW pc \in Place, Goto("worker", pc)
      PROVE  actor' \in [Actor -> Activity] /\ U' = U /\ W'.job = W.job /\ W'.pc = pc
  BY <1>5, WorkerGoes, WorkerKeeps DEF Keeps
<1>6. ASSUME Raise("OTHER")
      PROVE  actor' \in [Actor -> Activity] /\ U' = U /\ W'.job = W.job /\ W'.pc = "except"
  BY <1>2, <1>6, RaiseMoves, WorkerKeeps DEF Keeps
<1>7. ASSUME actor' = [actor EXCEPT !["worker"] = Idle]
      PROVE  actor' \in [Actor -> Activity] /\ U' = U /\ W' = Idle
  BY <1>2, <1>7, IdleMoves DEF Actor, U, W
<1>8. CASE raises
  <2>1. AfterFailedWrite("worker") /\ UNCHANGED disk
    BY <1>8 DEF Write
  <2>2. CASE W.then \in {"waiting", "token", "receipt"}
    <3>1. Raise("OTHER")
      BY <1>2, <2>1, <2>2 DEF AfterFailedWrite
    <3>2. W.phase \notin Terminal
      BY <1>1, <2>2 DEF Terminal
    <3> QED BY <1>1, <1>3, <1>4, <1>6, <1>8, <2>1, <3>1, <3>2 DEF WorkerGoesOn
  <2>3. CASE W.then = "finally"
    <3>1. Goto("worker", "finally")
      BY <1>2, <2>1, <2>3 DEF AfterFailedWrite
    <3> QED BY <1>1, <1>2, <1>3, <1>4, <1>5, <1>8, <2>1, <2>3, <3>1 DEF WorkerGoesOn
  <2>4. CASE W.then \in {"load", "idle"}
    <3>1. actor' = [actor EXCEPT !["worker"] = Idle]
      BY <1>2, <2>1, <2>4 DEF AfterFailedWrite
    <3> QED BY <1>1, <1>3, <1>4, <1>7, <1>8, <2>1, <3>1 DEF WorkerGoesOn
  <2> QED BY <1>1, <2>2, <2>3, <2>4
<1>9. CASE ~ raises
  <2>1. Resume("worker") /\ disk' = [disk EXCEPT ![W.job] = W.phase]
    BY <1>2, <1>9 DEF Write
  <2>2. Written(W, W.job)
    BY <1>1, <2>1 DEF Written, TypeOK
  <2>3. CASE W.then = "idle"
    <3>1. actor' = [actor EXCEPT !["worker"] = Idle]
      BY <1>2, <2>1, <2>3 DEF Resume
    <3> QED BY <1>1, <1>3, <1>7, <2>2, <2>3, <3>1 DEF WorkerGoesOn
  <2>4. CASE W.then # "idle"
    <3>1. Goto("worker", W.then) /\ W.then \in Place
      BY <1>1, <1>2, <2>1, <2>4 DEF Resume
    <3>2. PICK pc \in Place : pc = W.then /\ Goto("worker", pc)
      BY <3>1
    <3>3. actor' \in [Actor -> Activity] /\ U' = U /\ W'.job = W.job /\ W'.pc = W.then
      BY <1>5, <3>2
    <3>4. {"WAITING_FOR_AUTHORIZATION", "COMPLETING", "UPLOADING"} \cap Terminal = {}
      BY DEF Terminal
    <3> QED BY <1>1, <1>3, <2>2, <2>4, <3>3, <3>4 DEF WorkerGoesOn
  <2> QED BY <2>3, <2>4
<1> QED BY <1>8, <1>9, <1>4 DEF Raises

LEMMA WorkerWriteKeeps ==
  ASSUME PublishingInv, NEW raises \in Raises, Write("worker", raises)
  PROVE  PublishingInv'
<1>0. /\ TypeOK /\ UiShape /\ WorkerShape /\ HandInv /\ OutcomeInv /\ ConnectInv
      /\ ~ WritesMayFail => LastWordInv
  BY DEF PublishingInv
<1>1. /\ actor' \in [Actor -> Activity] /\ U' = U
      /\ W.pc = "write" /\ W.job \in Job /\ WorkerGoesOn
      /\ Written(W, W.job) \/ (WritesMayFail /\ UNCHANGED disk)
      /\ UNCHANGED <<mem, volatile, files, ghosts>>
  BY <1>0, WorkerWriteMoves
<1>2. /\ W'.job = W.job \/ W' = Idle
      /\ W'.job \in {W.job, NoJob}
      /\ Idle.pc = "idle" /\ Idle.job = NoJob /\ NoJob \notin Job /\ Idle.phase = "none"
  BY <1>1, KindAssumption DEF WorkerGoesOn, Idle
<1>3. TypeOK'
  BY <1>0, <1>1 DEF TypeOK, volatile, files, ghosts, Written
<1>4. UiShape' /\ WorkerShape'
  BY <1>0, <1>1, <1>2 DEF UiShape, WorkerShape, WorkerGoesOn, ConnectPlace, UploadPlace
<1>5. HandInv'
  <2>1. \A j \in Job : disk'[j] # "none" => disk[j] # "none" \/ j = W.job
    BY <1>1 DEF Written
  <2>2. W.job \in used
    BY <1>0, <1>1, <1>2 DEF HandInv
  <2>3. \A j \in Job : (mem[j] # "none" \/ disk[j] # "none" => j \in used)'
    BY <1>0, <1>1, <2>1, <2>2 DEF HandInv, ghosts
  <2>4. U.phase = "FAILED" => U.job \in Job
    BY <1>0, <1>2 DEF UiShape, Job
  <2> QED BY <1>0, <1>1, <1>2, <2>2, <2>3, <2>4
          DEF HandInv, InQueue, Submitting, volatile, ghosts
<1>6. OutcomeInv'
  <2>1. W.phase = "SUCCESS" => Done(W.job)
    BY <1>0, <1>1 DEF OutcomeInv
  <2>2. \A j \in Job : disk'[j] = "SUCCESS" => disk[j] = "SUCCESS" \/ Done(j)
    BY <1>1, <2>1 DEF Written
  <2>3. SuccessIsBacked'
    BY <1>0, <1>1, <2>2
       DEF OutcomeInv, ShownIsTrue, SuccessIsBacked, ShownIn, Done, Job, files, ghosts
  <2>4. ReceiptIsTrue'
    BY <1>0, <1>1 DEF OutcomeInv, ShownIsTrue, ReceiptIsTrue, files, ghosts
  <2>5. \A j \in UploadJob : (Unsent(j) => published[j] = 0)'
    <3> SUFFICES ASSUME NEW j \in UploadJob, Unsent(j)' PROVE Unsent(j)
      BY <1>0, <1>1 DEF OutcomeInv, ghosts
    <3> QED BY <1>1, <1>2, KindAssumption
            DEF Unsent, WorkerGoesOn, InQueue, Submitting, volatile, ghosts, Job
  <2>6. (W.pc \in {"progress", "receipt"} => published[W.job] = 1)'
    BY <1>0, <1>1, <1>2, KindAssumption DEF OutcomeInv, WorkerGoesOn, ghosts
  <2>7. W'.pc \notin {"put", "write", "success"}
    BY <1>1, <1>2 DEF WorkerGoesOn
  <2> QED BY <2>3, <2>4, <2>5, <2>6, <2>7 DEF OutcomeInv, ShownIsTrue
<1>7. ConnectInv'
  <2>1. \A j \in ConnectJob : InHand(j)' => InHand(j)
    BY <1>1, <1>2, KindAssumption
       DEF InHand, InQueue, Submitting, BeforeLastPut, WorkerGoesOn, volatile, Job
  <2>2. \A j : Live(j)' => Live(j)
    BY <1>1 DEF Live, volatile
  <2> QED BY <1>0, <1>1, <1>2, <2>1, <2>2
          DEF ConnectInv, InQueue, Submitting, volatile, Job
<1>8. ~ WritesMayFail => LastWordInv'
  <2> SUFFICES ASSUME LastWordInv, ~ WritesMayFail PROVE LastWordInv'
    BY <1>0
  <2>1. Written(W, W.job)
    BY <1>1
  <2>2. \A j \in Job : InHand(j) => InHand(j)'
    <3>1. W.phase \notin Terminal => W'.job = W.job /\ BeforeLastPut'
      BY <1>1 DEF WorkerGoesOn, BeforeLastPut
    <3> QED BY <1>1, <3>1 DEF InHand, InQueue, Submitting, BeforeLastPut, volatile
  <2>3. W.phase \in Terminal \/ (W'.job = W.job /\ W'.pc # "finally")
    BY <1>1 DEF WorkerGoesOn
  <2> QED BY <1>1, <2>1, <2>2, <2>3
          DEF LastWordInv, Written, InQueue, Submitting, volatile
<1> QED BY <1>3, <1>4, <1>5, <1>6, <1>7, <1>8 DEF PublishingInv

LEMMA UiWriteMoves ==
  ASSUME TypeOK, UiShape, NEW raises \in Raises, Write("ui", raises)
  PROVE  /\ actor' \in [Actor -> Activity] /\ W' = W
         /\ U.pc = "write" /\ U.job \in Job /\ U.phase # "SUCCESS"
         /\ \/ /\ U.then = "submit" /\ U'.pc = "submit" /\ U'.job = U.job
               /\ U'.phase = U.phase /\ U'.then = U.then
            \/ U' = Idle /\ (U.then = "idle" \/ WritesMayFail)
         /\ Written(U, U.job) \/ (WritesMayFail /\ UNCHANGED disk)
         /\ UNCHANGED <<mem, volatile, files, ghosts>>
<1>1. /\ U.pc = "write" /\ U.job \in Job /\ U.phase \in Phase \ {"SUCCESS"}
      /\ U.then \in {"submit", "idle"}
  BY DEF Write, At, U, UiShape, Phase, Terminal, ActiveOAuth, ActiveUpload, Job
<1>2. /\ "submit" \in Place /\ "ui" \in Actor /\ U = actor["ui"]
  BY DEF Place, Actor, U
<1>3. UNCHANGED <<mem, volatile, files, ghosts>>
  BY DEF Write
<1>4. raises => WritesMayFail
  BY DEF Raises
<1>5. ASSUME actor' = [actor EXCEPT !["ui"] = Idle]
      PROVE  actor' \in [Actor -> Activity] /\ W' = W /\ U' = Idle
  BY <1>2, <1>5, IdleMoves DEF Actor, U, W
<1>6. CASE raises
  <2>1. AfterFailedWrite("ui") /\ UNCHANGED disk
    BY <1>6 DEF Write
  <2>2. actor' = [actor EXCEPT !["ui"] = Idle]
    BY <1>1, <1>2, <2>1 DEF AfterFailedWrite
  <2> QED BY <1>1, <1>3, <1>4, <1>5, <1>6, <2>1, <2>2
<1>7. CASE ~ raises
  <2>1. Resume("ui") /\ disk' = [disk EXCEPT ![U.job] = U.phase]
    BY <1>2, <1>7 DEF Write
  <2>2. Written(U, U.job)
    BY <1>1, <2>1 DEF Written, TypeOK
  <2>3. CASE U.then = "idle"
    <3>1. actor' = [actor EXCEPT !["ui"] = Idle]
      BY <1>2, <2>1, <2>3 DEF Resume
    <3> QED BY <1>1, <1>3, <1>5, <2>2, <2>3, <3>1
  <2>4. CASE U.then = "submit"
    <3>1. Goto("ui", "submit")
      BY <1>2, <2>1, <2>4 DEF Resume
    <3>2. Keeps("ui") /\ U'.pc = "submit" /\ U'.phase = U.phase /\ U'.then = U.then
      BY <1>2, <3>1, GotoMoves DEF U
    <3> QED BY <1>1, <1>3, <2>2, <2>4, <3>2, UiKeeps DEF Keeps
  <2> QED BY <1>1, <2>3, <2>4
<1> QED BY <1>6, <1>7

LEMMA UiWriteKeeps ==
  ASSUME PublishingInv, NEW raises \in Raises, Write("ui", raises)
  PROVE  PublishingInv'
<1>0. /\ TypeOK /\ UiShape /\ WorkerShape /\ HandInv /\ OutcomeInv /\ ConnectInv
      /\ ~ WritesMayFail => LastWordInv
  BY DEF PublishingInv
<1>1. /\ actor' \in [Actor -> Activity] /\ W' = W
      /\ U.pc = "write" /\ U.job \in Job /\ U.phase # "SUCCESS"
      /\ \/ /\ U.then = "submit" /\ U'.pc = "submit" /\ U'.job = U.job
            /\ U'.phase = U.phase /\ U'.then = U.then
         \/ U' = Idle /\ (U.then = "idle" \/ WritesMayFail)
      /\ Written(U, U.job) \/ (WritesMayFail /\ UNCHANGED disk)
      /\ UNCHANGED <<mem, volatile, files, ghosts>>
  BY <1>0, UiWriteMoves
<1>2. /\ Idle.pc = "idle" /\ Idle.job = NoJob /\ NoJob \notin Job
      /\ Idle.phase = "none" /\ Idle.then = "idle"
  BY KindAssumption DEF Idle
<1>3. \A j : Submitting(j)' => Submitting(j)
  BY <1>1, <1>2 DEF Submitting
<1>4. TypeOK'
  BY <1>0, <1>1 DEF TypeOK, volatile, files, ghosts, Written
<1>5. UiShape' /\ WorkerShape'
  <2>1. U.then = "submit" => U.phase \in {"STARTING", "WAITING"}
    BY <1>0, <1>1 DEF UiShape
  <2> QED BY <1>0, <1>1, <1>2, <2>1 DEF UiShape, WorkerShape
<1>6. HandInv'
  <2>1. \A j \in Job : disk'[j] # "none" => disk[j] # "none" \/ j = U.job
    BY <1>1 DEF Written
  <2>2. \A j \in Job : Submitting(j)' => j # W'.job /\ ~ InQueue(j)'
    BY <1>0, <1>1, <1>3 DEF HandInv, InQueue, volatile
  <2>3. \A j \in Job : Submitting(j)' => mem'[j] # "none"
    BY <1>0, <1>1, <1>3 DEF HandInv
  <2>4. (U.phase = "FAILED" => U.job # W.job /\ ~ InQueue(U.job))'
    BY <1>0, <1>1, <1>2 DEF HandInv, InQueue, volatile
  <2>5. U.job \in used
    BY <1>0, <1>1, KindAssumption DEF HandInv
  <2> QED BY <1>0, <1>1, <1>2, <2>1, <2>2, <2>3, <2>4, <2>5
          DEF HandInv, InQueue, volatile, files, ghosts
<1>7. OutcomeInv'
  <2>1. \A j \in Job : disk'[j] = "SUCCESS" => disk[j] = "SUCCESS"
    BY <1>1 DEF Written
  <2>2. SuccessIsBacked'
    BY <1>0, <1>1, <2>1
       DEF OutcomeInv, ShownIsTrue, SuccessIsBacked, ShownIn, Job, files, ghosts
  <2>3. ReceiptIsTrue'
    BY <1>0, <1>1 DEF OutcomeInv, ShownIsTrue, ReceiptIsTrue, files, ghosts
  <2>4. \A j \in UploadJob : (Unsent(j) => published[j] = 0)'
    BY <1>0, <1>1, <1>3 DEF OutcomeInv, Unsent, InQueue, volatile, ghosts
  <2> QED BY <1>0, <1>1, <2>2, <2>3, <2>4 DEF OutcomeInv, ShownIsTrue, Done, files, ghosts
<1>8. ConnectInv'
  <2>1. \A j : InHand(j)' => InHand(j)
    BY <1>1, <1>3 DEF InHand, InQueue, BeforeLastPut, volatile
  <2>2. \A j : Live(j)' => Live(j)
    BY <1>1, <1>2 DEF Live, volatile
  <2>3. (U.phase = "CANCELLED" => U.job \in cancelled \/ U.job \notin events)'
    BY <1>0, <1>1, <1>2 DEF ConnectInv, volatile
  <2> QED BY <1>0, <1>1, <1>3, <2>1, <2>2, <2>3
          DEF ConnectInv, InQueue, volatile
<1>9. ~ WritesMayFail => LastWordInv'
  <2> SUFFICES ASSUME LastWordInv, ~ WritesMayFail PROVE LastWordInv'
    BY <1>0
  <2>1. Written(U, U.job) /\ \A j : Submitting(j) => Submitting(j)'
    BY <1>1 DEF Submitting
  <2>2. \A j \in Job : InHand(j) => InHand(j)'
    BY <1>1, <2>1 DEF InHand, InQueue, BeforeLastPut, Submitting, volatile
  <2>3. U.phase \in Terminal \/ Submitting(U.job)
    BY <1>0, <1>1 DEF UiShape, Submitting, Terminal
  <2> QED BY <1>1, <2>1, <2>2, <2>3
          DEF LastWordInv, Written, InQueue, volatile
<1> QED BY <1>4, <1>5, <1>6, <1>7, <1>8, <1>9 DEF PublishingInv

-----------------------------------------------------------------------------
(* The requests of the local UI                                            *)

LEMMA UiBeginsMoves ==
  ASSUME TypeOK, NEW j \in Job, NEW phase \in Phase, NEW then \in Place, UiBegins(j, phase, then)
  PROVE  /\ actor' \in [Actor -> Activity] /\ W' = W
         /\ U'.pc = "put" /\ U'.job = j /\ U'.phase = phase /\ U'.then = then
<1> DEFINE x == [Idle EXCEPT !.pc = "put", !.job = j, !.phase = phase, !.then = then]
<1>1. /\ x \in Activity /\ x.pc = "put" /\ x.job = j /\ x.phase = phase /\ x.then = then
  BY DEF Idle, Activity, Place, ErrorCode
<1>2. actor' = [actor EXCEPT !["ui"] = x]
  BY DEF UiBegins
<1> QED
  <2> HIDE DEF x
  <2> QED BY <1>1, <1>2, Actors DEF U, W

\* What a free UI is.
LEMMA FreeUi ==
  ASSUME TypeOK, UiShape, UiFree
  PROVE  /\ ~ stopping /\ U = Idle
         /\ U.pc = "idle" /\ U.job = NoJob /\ U.phase = "none" /\ U.then = "idle"
         /\ \A j : ~ Submitting(j)
BY Actors DEF UiFree, At, U, UiShape, Submitting

\* An id that was not given out is unknown.
LEMMA FreshJob ==
  ASSUME HandInv, NEW j \in Job, j \notin used
  PROVE  ~ InQueue(j) /\ j # W.job /\ j # U.job /\ mem[j] = "none" /\ disk[j] = "none"
BY KindAssumption DEF HandInv

LEMMA StartConnectKeeps ==
  ASSUME PublishingInv, NEW j \in ConnectJob, start_connect(j)
  PROVE  PublishingInv'
<1>0. /\ TypeOK /\ UiShape /\ WorkerShape /\ HandInv /\ OutcomeInv /\ ConnectInv
      /\ ~ WritesMayFail => LastWordInv
  BY DEF PublishingInv
<1>1. /\ j \in Job /\ j \notin UploadJob /\ j \notin used /\ ~ ConnectActive /\ UiFree
      /\ events' = events \cup {j} /\ used' = used \cup {j}
      /\ UNCHANGED <<mem, disk, cancelled, queue, stopping, accounts, receipts,
                     saved, published, request>>
  BY KindAssumption DEF start_connect, Job, files
<1>2. /\ actor' \in [Actor -> Activity] /\ W' = W
      /\ U'.pc = "put" /\ U'.job = j /\ U'.phase = "STARTING" /\ U'.then = "submit"
  <2>1. "STARTING" \in Phase /\ "submit" \in Place
    BY DEF Phase, ActiveOAuth, Place
  <2> QED BY <1>0, <1>1, <2>1, UiBeginsMoves DEF start_connect
<1>3. \A k : Submitting(k)' <=> k = j
  BY <1>2 DEF Submitting
<1>4. ~ InQueue(j) /\ j # W.job /\ mem[j] = "none" /\ disk[j] = "none"
  BY <1>0, <1>1, FreshJob
<1>5. U.pc = "idle" /\ U.phase = "none" /\ U.job = NoJob /\ \A k : ~ Submitting(k)
  BY <1>0, <1>1, FreeUi
<1>6. TypeOK'
  BY <1>0, <1>1, <1>2 DEF TypeOK
<1>7. UiShape' /\ WorkerShape'
  BY <1>0, <1>1, <1>2 DEF UiShape, WorkerShape
<1>8. HandInv'
  BY <1>0, <1>1, <1>2, <1>3, <1>4 DEF HandInv, InQueue
<1>9. OutcomeInv'
  <2>1. ShownIsTrue'
    BY <1>0, <1>1 DEF OutcomeInv, ShownIsTrue, SuccessIsBacked, ReceiptIsTrue, ShownIn
  <2>2. \A k \in UploadJob : (Unsent(k) => published[k] = 0)'
    BY <1>0, <1>1, <1>2, <1>3 DEF OutcomeInv, Unsent, InQueue
  <2> QED BY <1>0, <1>1, <1>2, <2>1, <2>2 DEF OutcomeInv, Done
<1>10. ConnectInv'
  <2>1. \A k : InHand(k)' => InHand(k)
    BY <1>1, <1>2, <1>3 DEF InHand, InQueue, BeforeLastPut
  <2>2. \A k \in ConnectJob : Live(k)' => k = j
    BY <1>1, <1>2 DEF Live, ConnectActive
  <2>3. \A k, l \in ConnectJob : Live(k)' /\ Live(l)' => k = l
    BY <2>2
  <2>4. \A k \in ConnectJob : (InQueue(k) \/ W.job = k \/ Submitting(k) => k \in events)'
    BY <1>0, <1>1, <1>2, <1>3 DEF ConnectInv, InQueue
  <2> QED BY <1>0, <1>1, <1>2, <2>1, <2>3, <2>4 DEF ConnectInv
<1>11. ~ WritesMayFail => LastWordInv'
  BY <1>0, <1>1, <1>2, <1>5 DEF LastWordInv, InHand, InQueue, BeforeLastPut
<1> QED BY <1>6, <1>7, <1>8, <1>9, <1>10, <1>11 DEF PublishingInv

LEMMA StartUploadKeeps ==
  ASSUME PublishingInv, NEW j \in UploadJob, NEW v \in Video, NEW c \in Channel,
         start_upload(j, v, c)
  PROVE  PublishingInv'
<1>0. /\ TypeOK /\ UiShape /\ WorkerShape /\ HandInv /\ OutcomeInv /\ ConnectInv
      /\ ~ WritesMayFail => LastWordInv
  BY DEF PublishingInv
<1>1. /\ j \in Job /\ j \notin ConnectJob /\ j \notin used /\ UiFree
      /\ used' = used \cup {j}
      /\ request' \in [UploadJob -> Request \cup {NoRequest}] /\ request'[j] \in Request
      /\ \A k \in UploadJob \ {j} : request'[k] = request[k]
      /\ UNCHANGED <<mem, disk, events, cancelled, queue, stopping, accounts, receipts,
                     saved, published>>
  BY <1>0, KindAssumption DEF start_upload, Job, files, volatile, TypeOK, Request
<1>2. /\ actor' \in [Actor -> Activity] /\ W' = W
      /\ U'.pc = "put" /\ U'.job = j /\ U'.phase = "WAITING" /\ U'.then = "submit"
  <2>1. "WAITING" \in Phase /\ "submit" \in Place
    BY DEF Phase, ActiveUpload, Place
  <2> QED BY <1>0, <1>1, <2>1, UiBeginsMoves DEF start_upload
<1>3. \A k : Submitting(k)' <=> k = j
  BY <1>2 DEF Submitting
<1>4. ~ InQueue(j) /\ j # W.job /\ mem[j] = "none" /\ disk[j] = "none"
  BY <1>0, <1>1, FreshJob
<1>5. U.pc = "idle" /\ U.phase = "none" /\ U.job = NoJob /\ \A k : ~ Submitting(k)
  BY <1>0, <1>1, FreeUi
<1>6. TypeOK'
  BY <1>0, <1>1, <1>2 DEF TypeOK
<1>7. UiShape' /\ WorkerShape'
  BY <1>0, <1>1, <1>2 DEF UiShape, WorkerShape
<1>8. HandInv'
  BY <1>0, <1>1, <1>2, <1>3, <1>4 DEF HandInv, InQueue
<1>9. OutcomeInv'
  <2>1. published[j] = 0
    BY <1>0, <1>1 DEF OutcomeInv, Unsent
  <2>2. SuccessIsBacked'
    <3>1. \A k \in UploadJob : ShownIn(k, {"SUCCESS"}) => request'[k] = request[k]
      <4> TAKE k \in UploadJob
      <4>1. ShownIn(k, {"SUCCESS"}) => published[k] = 1
        BY <1>0 DEF OutcomeInv, ShownIsTrue, SuccessIsBacked
      <4> QED BY <1>1, <2>1, <4>1
    <3>2. \A k \in Job : ShownIn(k, {"SUCCESS"})' <=> ShownIn(k, {"SUCCESS"})
      BY <1>1 DEF ShownIn
    <3> QED BY <1>0, <1>1, <3>1, <3>2 DEF OutcomeInv, ShownIsTrue, SuccessIsBacked, Job
  <2>3. ReceiptIsTrue'
    <3> SUFFICES ASSUME NEW w \in Video, NEW d \in Channel, receipts[<<w, d>>] # NoJob
                 PROVE  /\ published[receipts[<<w, d>>]] = 1
                        /\ request'[receipts[<<w, d>>]] = [video |-> w, channel |-> d]
      BY <1>1 DEF ReceiptIsTrue
    <3>1. PICK k \in UploadJob : k = receipts[<<w, d>>]
      BY <1>0 DEF TypeOK
    <3>2. published[k] = 1 /\ request[k] = [video |-> w, channel |-> d]
      BY <1>0, <3>1 DEF OutcomeInv, ShownIsTrue, ReceiptIsTrue
    <3>3. k # j
      BY <2>1, <3>2
    <3> QED BY <1>1, <3>1, <3>2, <3>3
  <2>4. \A k \in UploadJob : (Unsent(k) => published[k] = 0)'
    BY <1>0, <1>1, <1>2, <1>3, <2>1 DEF OutcomeInv, Unsent, InQueue
  <2>5. Done(W.job) => Done(W.job)'
    BY <1>1, <1>2, <1>4 DEF Done
  <2> QED BY <1>0, <1>1, <1>2, <2>2, <2>3, <2>4, <2>5 DEF OutcomeInv, ShownIsTrue
<1>10. ConnectInv'
  <2>1. \A k : InHand(k)' => InHand(k)
    BY <1>1, <1>2, <1>3 DEF InHand, InQueue, BeforeLastPut
  <2>2. \A k \in ConnectJob : Live(k)' => Live(k)
    BY <1>1, <1>2 DEF Live
  <2>3. \A k, l \in ConnectJob : Live(k)' /\ Live(l)' => k = l
    BY <1>0, <2>2 DEF ConnectInv
  <2>4. \A k \in ConnectJob : (InQueue(k) \/ W.job = k \/ Submitting(k) => k \in events)'
    BY <1>0, <1>1, <1>2, <1>3 DEF ConnectInv, InQueue
  <2> QED BY <1>0, <1>1, <1>2, <2>1, <2>3, <2>4 DEF ConnectInv
<1>11. ~ WritesMayFail => LastWordInv'
  BY <1>0, <1>1, <1>2, <1>5 DEF LastWordInv, InHand, InQueue, BeforeLastPut
<1> QED BY <1>6, <1>7, <1>8, <1>9, <1>10, <1>11 DEF PublishingInv

LEMMA SubmitKeeps ==
  ASSUME PublishingInv, Submit
  PROVE  PublishingInv'
<1>0. /\ TypeOK /\ UiShape /\ WorkerShape /\ HandInv /\ OutcomeInv /\ ConnectInv
      /\ ~ WritesMayFail => LastWordInv
  BY DEF PublishingInv
<1> DEFINE j == U.job
<1>1. /\ U.pc = "submit" /\ j \in Job /\ U.then = "submit" /\ Submitting(j)
      /\ UNCHANGED <<mem, disk, events, cancelled, stopping, files, ghosts>>
  BY <1>0 DEF Submit, At, U, UiShape, Submitting
<1>2. /\ actor' \in [Actor -> Activity] /\ W' = W /\ U' = Idle
      /\ U'.pc = "idle" /\ U'.job = NoJob /\ U'.phase = "none" /\ U'.then = "idle"
      /\ NoJob \notin Job
  <2>1. actor' \in [Actor -> Activity] /\ W' = W /\ U' = Idle
    BY <1>0, IdleMoves DEF Submit, Actor, U, W
  <2> QED BY <2>1, KindAssumption DEF Idle
<1>3. /\ queue' \in Seq(Job) /\ Len(queue') = Len(queue) + 1 /\ queue'[Len(queue) + 1] = j
      /\ \A i \in 1 .. Len(queue) : queue'[i] = queue[i]
      /\ Len(queue) \in Nat
  BY <1>0, <1>1 DEF Submit, U, TypeOK
<1>4. \A k : InQueue(k)' <=> InQueue(k) \/ k = j
  BY <1>3 DEF InQueue
<1>5. j # W.job /\ ~ InQueue(j) /\ mem[j] # "none" /\ j \in used
  BY <1>0, <1>1, <1>2 DEF HandInv
<1>6. \A k : ~ Submitting(k)'
  BY <1>2 DEF Submitting
<1> HIDE DEF j
<1>7. TypeOK'
  BY <1>0, <1>1, <1>2, <1>3 DEF TypeOK, files, ghosts
<1>8. UiShape' /\ WorkerShape'
  BY <1>0, <1>2 DEF UiShape, WorkerShape
<1>9. HandInv'
  <2>1. \A i, k \in 1 .. Len(queue') : queue'[i] = queue'[k] => i = k
    <3> SUFFICES ASSUME NEW i \in 1 .. Len(queue'), NEW k \in 1 .. Len(queue'),
                        queue'[i] = queue'[k], i # k
                 PROVE  FALSE
      OBVIOUS
    <3>1. i \in 1 .. Len(queue) \/ i = Len(queue) + 1
      BY <1>3
    <3>2. k \in 1 .. Len(queue) \/ k = Len(queue) + 1
      BY <1>3
    <3> QED BY <1>0, <1>3, <1>5, <3>1, <3>2 DEF HandInv, InQueue
  <2>2. \A k \in Job : (InQueue(k) => k \in used /\ k # W.job /\ mem[k] # "none")'
    BY <1>0, <1>1, <1>2, <1>4, <1>5 DEF HandInv, ghosts
  <2> QED BY <1>0, <1>1, <1>2, <1>6, <2>1, <2>2 DEF HandInv, ghosts
<1>10. OutcomeInv'
  <2>1. ShownIsTrue'
    BY <1>0, <1>1 DEF OutcomeInv, ShownIsTrue, SuccessIsBacked, ReceiptIsTrue, ShownIn, files, ghosts
  <2>2. \A k \in UploadJob : (Unsent(k) => published[k] = 0)'
    BY <1>0, <1>1, <1>2, <1>4, <1>6 DEF OutcomeInv, Unsent, ghosts
  <2> QED BY <1>0, <1>1, <1>2, <2>1, <2>2 DEF OutcomeInv, Done, files, ghosts
<1>11. ConnectInv'
  <2>1. \A k : InHand(k)' => InHand(k)
    BY <1>1, <1>2, <1>4, <1>6 DEF InHand, BeforeLastPut
  <2>2. \A k : Live(k)' => Live(k)
    BY <1>1, <1>2 DEF Live
  <2> QED BY <1>0, <1>1, <1>2, <1>4, <1>6, <2>1, <2>2 DEF ConnectInv
<1>12. ~ WritesMayFail => LastWordInv'
  <2> SUFFICES ASSUME LastWordInv PROVE LastWordInv'
    BY <1>0
  <2>1. \A k : InHand(k) \/ Submitting(k) => InHand(k)'
    BY <1>1, <1>2, <1>4 DEF InHand, BeforeLastPut, Submitting, j
  <2>2. \A k : Submitting(k) => InQueue(k)'
    BY <1>4 DEF Submitting, j
  <2> QED BY <1>1, <1>2, <1>4, <2>1, <2>2 DEF LastWordInv
<1> QED BY <1>7, <1>8, <1>9, <1>10, <1>11, <1>12 DEF PublishingInv

\* A request to cancel, its second half, or the recovery of a connection that
\* only its file remembers.
Intervenes == \/ \E j \in ConnectJob : cancel_connect(j) \/ recover_interrupted_connect(j)
              \/ Signal

LEMMA InterventionMoves ==
  ASSUME PublishingInv, Intervenes
  PROVE  /\ actor' \in [Actor -> Activity] /\ W' = W
         /\ \A k : ~ Submitting(k) /\ ~ Submitting(k)'
         /\ UNCHANGED <<mem, disk, events, queue, stopping, files, ghosts>>
         /\ U'.job \in ConnectJob /\ U'.job \in used
         /\ U.pc \in {"idle", "signal"}
         /\ cancelled \subseteq cancelled' /\ cancelled' \subseteq ConnectJob
         /\ \/ U'.pc = "signal" /\ U'.phase = "none" /\ U'.then = "idle"
            \/ /\ U'.pc = "put" /\ U'.phase = "CANCELLED" /\ U'.then = "idle"
               /\ U'.job \in cancelled' \/ U'.job \notin events
            \/ /\ U'.pc = "put" /\ U'.phase = "FAILED" /\ U'.then = "idle"
               /\ U'.job # W.job /\ ~ InQueue(U'.job)
<1>0. TypeOK /\ UiShape /\ HandInv
  BY DEF PublishingInv
<1>1. /\ {"signal", "put", "idle"} \subseteq Place /\ {"CANCELLED", "FAILED"} \subseteq Phase
      /\ "ui" \in Actor /\ U = actor["ui"] /\ ConnectJob \subseteq Job /\ "none" \notin ActiveOAuth
      /\ NoJob \notin Job
  BY KindAssumption DEF Place, Phase, Terminal, Actor, U, Job, ActiveOAuth
<1>2. CASE \E j \in ConnectJob : cancel_connect(j)
  <2>1. PICK j \in ConnectJob : cancel_connect(j)
    BY <1>2
  <2>2. /\ UiFree /\ mem[j] \in ActiveOAuth
        /\ UNCHANGED <<mem, disk, volatile, files, ghosts>>
    BY <2>1 DEF cancel_connect
  <2> DEFINE f1 == [actor EXCEPT !["ui"].pc = "signal"]
             f2 == [f1 EXCEPT !["ui"].job = j]
  <2>3. /\ f1 \in [Actor -> Activity] /\ f1["ui"].pc = "signal"
        /\ f1["ui"].phase = U.phase /\ f1["ui"].then = U.then
        /\ \A b \in Actor \ {"ui"} : f1[b] = actor[b]
    BY <1>0, <1>1, Actors, FieldUpdate
  <2>4. /\ f2 \in [Actor -> Activity] /\ f2["ui"].pc = "signal" /\ f2["ui"].job = j
        /\ f2["ui"].phase = U.phase /\ f2["ui"].then = U.then
        /\ \A b \in Actor \ {"ui"} : f2[b] = actor[b]
    <3> HIDE DEF f1
    <3> QED BY <1>1, <2>3, FieldUpdate
  <2>5. actor' = f2
    BY <2>1 DEF cancel_connect
  <2> HIDE DEF f2
  <2>6. /\ actor' \in [Actor -> Activity] /\ W' = W /\ U'.pc = "signal" /\ U'.job = j
        /\ U'.phase = U.phase /\ U'.then = U.then
    BY <2>4, <2>5 DEF U, W, Actor
  <2>7. U.pc = "idle" /\ U.phase = "none" /\ U.then = "idle" /\ \A k : ~ Submitting(k)
    BY <1>0, <2>2, FreeUi
  <2>8. j \in used
    BY <1>0, <1>1, <2>2 DEF HandInv
  <2> QED BY <1>0, <2>2, <2>6, <2>7, <2>8 DEF Submitting, volatile, TypeOK
<1>3. CASE \E j \in ConnectJob : recover_interrupted_connect(j)
  <2>1. PICK j \in ConnectJob : recover_interrupted_connect(j)
    BY <1>3
  <2>2. /\ UiFree /\ mem[j] = "none" /\ disk[j] \in ActiveOAuth
        /\ UNCHANGED <<mem, disk, volatile, files, ghosts>>
    BY <2>1 DEF recover_interrupted_connect
  <2>3. /\ actor' \in [Actor -> Activity] /\ W' = W /\ U'.pc = "put" /\ U'.job = j
        /\ U'.phase = "FAILED" /\ U'.then = "idle"
    BY <1>0, <1>1, <2>1, UiBeginsMoves DEF recover_interrupted_connect
  <2>4. U.pc = "idle" /\ \A k : ~ Submitting(k)
    BY <1>0, <2>2, FreeUi
  <2>5. j \in used /\ j # W.job /\ ~ InQueue(j)
    BY <1>0, <1>1, <2>2 DEF HandInv
  <2> QED BY <1>0, <2>2, <2>3, <2>4, <2>5 DEF Submitting, volatile, TypeOK
<1>4. CASE Signal
  <2>1. /\ U.pc = "signal" /\ cancelled' = cancelled \cup ({U.job} \cap events)
        /\ Begin("ui", "CANCELLED", "idle")
        /\ UNCHANGED <<mem, disk, events, queue, stopping, files, ghosts>>
    BY <1>1, <1>4 DEF Signal, At
  <2>2. U.job \in ConnectJob /\ U.then = "idle"
    BY <1>0, <2>1 DEF UiShape
  <2>3. /\ Keeps("ui") /\ U'.pc = "put" /\ U'.phase = "CANCELLED" /\ U'.then = "idle"
    BY <1>0, <1>1, <2>1, BeginMoves DEF U
  <2>4. U.job \in used
    BY <1>0, <1>1, <2>2 DEF HandInv
  <2>5. W' = W /\ U'.job = U.job /\ actor' \in [Actor -> Activity]
    BY <1>0, <2>3, UiKeeps DEF Keeps
  <2>6. \A k : ~ Submitting(k) /\ ~ Submitting(k)'
    BY <2>2, <2>3 DEF Submitting
  <2>7. cancelled \subseteq cancelled' /\ cancelled' \subseteq ConnectJob
    BY <1>0, <2>1, <2>2 DEF TypeOK
  <2>8. U.job \in cancelled' \/ U.job \notin events
    BY <2>1
  <2> QED BY <2>1, <2>2, <2>3, <2>4, <2>5, <2>6, <2>7, <2>8
<1> QED BY <1>2, <1>3, <1>4 DEF Intervenes

LEMMA InterventionKeeps ==
  ASSUME PublishingInv, Intervenes
  PROVE  PublishingInv'
<1>0. /\ TypeOK /\ UiShape /\ WorkerShape /\ HandInv /\ OutcomeInv /\ ConnectInv
      /\ ~ WritesMayFail => LastWordInv
  BY DEF PublishingInv
<1>1. /\ actor' \in [Actor -> Activity] /\ W' = W
      /\ \A k : ~ Submitting(k) /\ ~ Submitting(k)'
      /\ UNCHANGED <<mem, disk, events, queue, stopping, files, ghosts>>
      /\ U'.job \in ConnectJob /\ U'.job \in used
      /\ U.pc \in {"idle", "signal"}
      /\ cancelled \subseteq cancelled' /\ cancelled' \subseteq ConnectJob
      /\ \/ U'.pc = "signal" /\ U'.phase = "none" /\ U'.then = "idle"
         \/ /\ U'.pc = "put" /\ U'.phase = "CANCELLED" /\ U'.then = "idle"
            /\ U'.job \in cancelled' \/ U'.job \notin events
         \/ /\ U'.pc = "put" /\ U'.phase = "FAILED" /\ U'.then = "idle"
            /\ U'.job # W.job /\ ~ InQueue(U'.job)
  BY InterventionMoves
<1>2. \A k : InQueue(k)' <=> InQueue(k)
  BY <1>1 DEF InQueue
<1>3. TypeOK'
  BY <1>0, <1>1 DEF TypeOK, files, ghosts
<1>4. UiShape' /\ WorkerShape'
  BY <1>0, <1>1 DEF UiShape, WorkerShape
<1>5. HandInv'
  <2>1. (U.phase = "FAILED" => U.job # W.job /\ ~ InQueue(U.job))'
    BY <1>1 DEF InQueue
  <2> QED BY <1>0, <1>1, <1>2, <2>1 DEF HandInv, ghosts
<1>6. OutcomeInv'
  <2>1. ShownIsTrue'
    BY <1>0, <1>1 DEF OutcomeInv, ShownIsTrue, SuccessIsBacked, ReceiptIsTrue, ShownIn, files, ghosts
  <2>2. \A k \in UploadJob : (Unsent(k) => published[k] = 0)'
    BY <1>0, <1>1, <1>2 DEF OutcomeInv, Unsent, ghosts
  <2> QED BY <1>0, <1>1, <2>1, <2>2 DEF OutcomeInv, Done, files, ghosts
<1>7. ConnectInv'
  <2>1. \A k : InHand(k)' => InHand(k)
    BY <1>1, <1>2 DEF InHand, BeforeLastPut
  <2>2. \A k : Live(k)' => Live(k)
    BY <1>1 DEF Live
  <2> QED BY <1>0, <1>1, <1>2, <2>1, <2>2 DEF ConnectInv
<1>8. ~ WritesMayFail => LastWordInv'
  BY <1>0, <1>1, <1>2 DEF LastWordInv, InHand, BeforeLastPut
<1> QED BY <1>3, <1>4, <1>5, <1>6, <1>7, <1>8 DEF PublishingInv

-----------------------------------------------------------------------------
(* The steps of the worker that change something                           *)

LEMMA TakeKeeps ==
  ASSUME PublishingInv, Take
  PROVE  PublishingInv'
<1>0. /\ TypeOK /\ UiShape /\ WorkerShape /\ HandInv /\ OutcomeInv /\ ConnectInv
      /\ ~ WritesMayFail => LastWordInv
  BY DEF PublishingInv
<1>j. PICK j : j = Head(queue)
  OBVIOUS
<1> DEFINE pc == IF j \in ConnectJob THEN "authorize" ELSE "upload"
           x == [Idle EXCEPT !.job = j, !.pc = pc]
<1>1. /\ W.pc = "idle" /\ queue # <<>> /\ queue' = Tail(queue)
      /\ actor' = [actor EXCEPT !["worker"] = x]
      /\ UNCHANGED <<mem, disk, events, cancelled, stopping, files, ghosts>>
  BY <1>j DEF Take, At, W
<1>2. W = Idle /\ W.job = NoJob /\ NoJob \notin Job
  BY <1>0, <1>1, KindAssumption DEF WorkerShape, Idle
<1>3. /\ j \in Job /\ queue' \in Seq(Job) /\ Len(queue') = Len(queue) - 1
      /\ Len(queue) \in Nat /\ Len(queue) > 0 /\ queue[1] = j
      /\ \A i \in 1 .. Len(queue') : queue'[i] = queue[i + 1]
  BY <1>0, <1>1, <1>j DEF TypeOK
<1>4. /\ x \in Activity /\ x.pc = pc /\ x.job = j /\ x.phase = "none" /\ x.then = "idle"
  BY <1>3 DEF Idle, Activity, Place, ErrorCode
<1>5. /\ actor' \in [Actor -> Activity] /\ U' = U
      /\ W'.pc = pc /\ W'.job = j /\ W'.phase = "none" /\ W'.then = "idle"
  <2> HIDE DEF x
  <2> QED BY <1>0, <1>1, <1>4, Actors DEF U, W
<1> HIDE DEF x
<1>6. \A k : InQueue(k) <=> InQueue(k)' \/ k = j
  <2>1. ASSUME NEW i \in 1 .. Len(queue) PROVE i = 1 \/ i - 1 \in 1 .. Len(queue')
    BY <1>3
  <2>2. ASSUME NEW i \in 1 .. Len(queue') PROVE i + 1 \in 1 .. Len(queue)
    BY <1>3
  <2>3. 1 \in 1 .. Len(queue)
    BY <1>3
  <2>4. ASSUME NEW k, InQueue(k) PROVE InQueue(k)' \/ k = j
    <3>1. PICK i \in 1 .. Len(queue) : queue[i] = k
      BY <2>4 DEF InQueue
    <3>2. CASE i = 1
      BY <1>3, <3>1, <3>2
    <3>3. CASE i # 1
      <4>1. i - 1 \in 1 .. Len(queue') /\ (i - 1) + 1 = i
        BY <2>1, <3>3
      <4> QED BY <1>3, <3>1, <4>1 DEF InQueue
    <3> QED BY <3>2, <3>3
  <2>5. ASSUME NEW k, InQueue(k)' PROVE InQueue(k)
    BY <1>3, <2>2, <2>5 DEF InQueue
  <2>6. InQueue(j)
    BY <1>3, <2>3 DEF InQueue
  <2> QED BY <2>4, <2>5, <2>6
<1>7. ~ InQueue(j)'
  <2> SUFFICES ASSUME NEW i \in 1 .. Len(queue'), queue'[i] = j PROVE FALSE
    BY DEF InQueue
  <2>1. i + 1 \in 1 .. Len(queue) /\ 1 \in 1 .. Len(queue) /\ queue[i + 1] = queue[1] /\ i + 1 # 1
    BY <1>3
  <2> QED BY <1>0, <2>1 DEF HandInv
<1>8. \A i, k \in 1 .. Len(queue') : queue'[i] = queue'[k] => i = k
  <2> TAKE i, k \in 1 .. Len(queue')
  <2> HAVE queue'[i] = queue'[k]
  <2>1. i + 1 \in 1 .. Len(queue) /\ k + 1 \in 1 .. Len(queue) /\ queue[i + 1] = queue[k + 1]
    BY <1>3
  <2>2. i + 1 = k + 1
    BY <1>0, <2>1 DEF HandInv
  <2> QED BY <2>2
<1>9. InQueue(j) /\ j \in used /\ mem[j] # "none" /\ ~ Submitting(j)
  BY <1>0, <1>3, <1>6 DEF HandInv
<1>10. \A k : Submitting(k)' <=> Submitting(k)
  BY <1>5 DEF Submitting
<1>11. pc \in {"authorize", "upload"} /\ (pc = "authorize" <=> j \in ConnectJob)
  OBVIOUS
<1> HIDE DEF pc
<1>12. TypeOK'
  BY <1>0, <1>1, <1>3, <1>5 DEF TypeOK, files, ghosts
<1>13. UiShape' /\ WorkerShape'
  <2>1. pc = "upload" => j \in UploadJob
    BY <1>3, <1>11 DEF Job
  <2> QED BY <1>0, <1>5, <1>11, <2>1 DEF UiShape, WorkerShape, ConnectPlace, UploadPlace
<1>14. HandInv'
  <2>1. \A k \in Job : (InQueue(k) => k \in used /\ k # W.job /\ mem[k] # "none")'
    BY <1>0, <1>1, <1>5, <1>6, <1>7 DEF HandInv, ghosts
  <2>2. \A k \in Job : (Submitting(k) => /\ k # W.job /\ ~ InQueue(k)
                                         /\ U.pc # "put" => mem[k] # "none")'
    BY <1>0, <1>1, <1>5, <1>6, <1>9, <1>10 DEF HandInv
  <2>3. (U.phase = "FAILED" => U.job # W.job /\ ~ InQueue(U.job))'
    <3> HAVE U'.phase = "FAILED"
    <3>1. ~ InQueue(U.job)
      BY <1>0, <1>5 DEF HandInv
    <3>2. U.job # j
      BY <1>9, <3>1
    <3>3. PICK u : u = U.job
      OBVIOUS
    <3>4. ~ InQueue(u)'
      BY <1>6, <3>1, <3>3
    <3> QED BY <1>5, <3>2, <3>3, <3>4 DEF InQueue
  <2> QED BY <1>0, <1>1, <1>5, <1>8, <1>9, <2>1, <2>2, <2>3 DEF HandInv, ghosts
<1>15. OutcomeInv'
  <2>1. ShownIsTrue'
    BY <1>0, <1>1 DEF OutcomeInv, ShownIsTrue, SuccessIsBacked, ReceiptIsTrue, ShownIn, files, ghosts
  <2>2. \A k \in UploadJob : (Unsent(k) => published[k] = 0)'
    BY <1>0, <1>1, <1>5, <1>6, <1>9, <1>10, <1>11 DEF OutcomeInv, Unsent, ghosts
  <2> QED BY <1>5, <1>11, <2>1, <2>2 DEF OutcomeInv
<1>16. ConnectInv'
  <2>1. \A k : InHand(k)' => InHand(k)
    BY <1>5, <1>6, <1>9, <1>10 DEF InHand
  <2>2. \A k : Live(k)' => Live(k)
    BY <1>1, <1>5 DEF Live
  <2> QED BY <1>0, <1>1, <1>5, <1>6, <1>9, <1>10, <2>1, <2>2 DEF ConnectInv
<1>17. ~ WritesMayFail => LastWordInv'
  <2> SUFFICES ASSUME LastWordInv PROVE LastWordInv'
    BY <1>0
  <2>1. BeforeLastPut' /\ W'.pc # "finally"
    BY <1>5, <1>11 DEF BeforeLastPut
  <2>2. \A k \in Job : InHand(k) => InHand(k)'
    BY <1>2, <1>5, <1>6, <1>10, <2>1 DEF InHand
  <2> QED BY <1>1, <1>2, <1>5, <1>6, <1>10, <2>1, <2>2 DEF LastWordInv
<1> QED BY <1>12, <1>13, <1>14, <1>15, <1>16, <1>17 DEF PublishingInv

\* The worker has done something, and goes on with the same job.
Advances == /\ actor' \in [Actor -> Activity] /\ U' = U /\ W'.job = W.job
            /\ W.pc \in {"save", "send", "receipt"}
            /\ \/ W'.pc = "success" /\ W.pc # "send"
               \/ W'.pc = "except"
               \/ W'.pc = "progress" /\ W.pc = "send"
            /\ UNCHANGED <<mem, disk, volatile, used, request>>

LEMMA AdvanceKeeps ==
  ASSUME PublishingInv, Advances
  PROVE  /\ UiShape' /\ WorkerShape' /\ HandInv' /\ ConnectInv'
         /\ ~ WritesMayFail => LastWordInv'
<1>0. /\ TypeOK /\ UiShape /\ WorkerShape /\ HandInv /\ ConnectInv
      /\ ~ WritesMayFail => LastWordInv
  BY DEF PublishingInv
<1>1. UiShape' /\ WorkerShape'
  BY <1>0 DEF UiShape, WorkerShape, Advances, ConnectPlace, UploadPlace, Job
<1>2. HandInv'
  BY <1>0 DEF HandInv, InQueue, Submitting, Advances, volatile
<1>3. BeforeLastPut /\ BeforeLastPut' /\ W'.pc # "finally"
  BY DEF Advances, BeforeLastPut
<1>4. \A k : InHand(k)' <=> InHand(k)
  BY <1>3 DEF Advances, InHand, InQueue, Submitting, volatile
<1>5. ConnectInv'
  <2>1. \A k : Live(k)' => Live(k)
    BY DEF Advances, Live, volatile
  <2> QED BY <1>0, <1>4, <2>1 DEF ConnectInv, InQueue, Submitting, Advances, volatile
<1>6. ~ WritesMayFail => LastWordInv'
  BY <1>0, <1>3, <1>4 DEF LastWordInv, InQueue, Submitting, Advances, volatile
<1> QED BY <1>1, <1>2, <1>5, <1>6

\* Goto and Raise, as Advances wants them.
LEMMA AdvanceMoves ==
  ASSUME TypeOK, NEW pc \in Place, Goto("worker", pc) \/ Raise("OTHER")
  PROVE  /\ actor' \in [Actor -> Activity] /\ U' = U /\ W'.job = W.job
         /\ W'.pc = pc \/ W'.pc = "except"
         /\ Goto("worker", pc) => W'.pc = pc
<1>1. "OTHER" \in ErrorCode
  BY DEF ErrorCode
<1>2. Goto("worker", pc) => Keeps("worker") /\ W'.pc = pc
  BY WorkerGoes
<1>3. Raise("OTHER") => Keeps("worker") /\ W'.pc = "except"
  BY <1>1, RaiseMoves
<1> QED BY <1>2, <1>3, WorkerKeeps DEF Keeps

LEMMA SaveAccountKeeps ==
  ASSUME PublishingInv, NEW c \in Channel, SaveAccount(c)
  PROVE  PublishingInv'
<1>0. TypeOK /\ WorkerShape /\ HandInv /\ OutcomeInv
  BY DEF PublishingInv
<1>1. /\ W.pc = "save" /\ W.job \in ConnectJob /\ W.job \notin UploadJob
      /\ UNCHANGED <<mem, disk, volatile, receipts, used, published, request>>
      /\ Goto("worker", "success") \/ Raise("OTHER")
      /\ \/ Goto("worker", "success") /\ accounts' = accounts \cup {c} /\ saved' = saved \cup {W.job}
         \/ Raise("OTHER") /\ UNCHANGED <<accounts, saved>>
  BY <1>0, KindAssumption DEF SaveAccount, At, W, WorkerShape, ConnectPlace
<1>2. /\ actor' \in [Actor -> Activity] /\ U' = U /\ W'.job = W.job
      /\ W'.pc = "success" \/ W'.pc = "except"
      /\ Goto("worker", "success") => W'.pc = "success"
  <2>1. "success" \in Place
    BY DEF Place
  <2> QED BY <1>0, <1>1, <2>1, AdvanceMoves
<1>3. W'.pc = "success" => accounts' = accounts \cup {c} /\ saved' = saved \cup {W.job}
  <2>1. ASSUME Raise("OTHER") PROVE W'.pc = "except"
    BY <1>0, <2>1, RaiseMoves DEF ErrorCode
  <2> QED BY <1>1, <2>1
<1>4. Advances
  BY <1>1, <1>2 DEF Advances
<1>5. saved \subseteq saved' /\ (accounts # {} => accounts' # {})
      /\ saved' \subseteq ConnectJob /\ accounts' \subseteq Channel
  BY <1>0, <1>1 DEF TypeOK
<1>6. TypeOK'
  BY <1>0, <1>1, <1>2, <1>5 DEF TypeOK, volatile
<1>7. OutcomeInv'
  <2>1. SuccessIsBacked'
    BY <1>0, <1>1, <1>5 DEF OutcomeInv, ShownIsTrue, SuccessIsBacked, ShownIn
  <2>2. ReceiptIsTrue'
    BY <1>0, <1>1 DEF OutcomeInv, ShownIsTrue, ReceiptIsTrue
  <2>3. \A k \in UploadJob : (Unsent(k) => published[k] = 0)'
    BY <1>0, <1>1, <1>2 DEF OutcomeInv, Unsent, InQueue, Submitting, volatile
  <2>4. (W.pc = "success" => Done(W.job))'
    BY <1>1, <1>2, <1>3 DEF Done
  <2> QED BY <1>1, <1>2, <2>1, <2>2, <2>3, <2>4 DEF OutcomeInv, ShownIsTrue
<1> QED BY <1>4, <1>6, <1>7, AdvanceKeeps DEF PublishingInv

LEMMA SendKeeps ==
  ASSUME PublishingInv, Send
  PROVE  PublishingInv'
<1>0. TypeOK /\ WorkerShape /\ HandInv /\ OutcomeInv
  BY DEF PublishingInv
<1>1. PICK j \in UploadJob : j = W.job
  BY <1>0 DEF Send, At, W, WorkerShape, UploadPlace
<1>2. /\ W.pc = "send" /\ published[j] = 0
      /\ UNCHANGED <<mem, disk, volatile, files, used, saved, request>>
      /\ Goto("worker", "progress") \/ Raise("OTHER")
      /\ \/ published' = [published EXCEPT ![j] = @ + 1]
         \/ Raise("OTHER") /\ UNCHANGED published
  BY <1>0, <1>1 DEF Send, At, W, OutcomeInv, Unsent
<1>3. /\ actor' \in [Actor -> Activity] /\ U' = U /\ W'.job = W.job
      /\ W'.pc = "progress" \/ W'.pc = "except"
  <2>1. "progress" \in Place
    BY DEF Place
  <2> QED BY <1>0, <1>2, <2>1, AdvanceMoves
<1>4. Raise("OTHER") => W'.pc = "except"
  BY <1>0, RaiseMoves DEF ErrorCode
<1>5. /\ published' \in [UploadJob -> Nat]
      /\ \A k \in UploadJob \ {j} : published'[k] = published[k]
      /\ W'.pc = "progress" => published'[j] = 1
  BY <1>0, <1>2, <1>3, <1>4 DEF TypeOK
<1>6. Advances
  BY <1>2, <1>3 DEF Advances
<1>7. TypeOK'
  BY <1>0, <1>2, <1>3, <1>5 DEF TypeOK, volatile, files
<1>8. j \in Job /\ j \in used /\ ~ InQueue(j) /\ ~ Submitting(j)
  BY <1>0, <1>1, KindAssumption DEF HandInv, Job
<1>9. OutcomeInv'
  <2>1. \A k \in UploadJob : published[k] = 1 => published'[k] = 1
    BY <1>2, <1>5
  <2>2. SuccessIsBacked'
    BY <1>0, <1>2, <2>1 DEF OutcomeInv, ShownIsTrue, SuccessIsBacked, ShownIn, files
  <2>3. ReceiptIsTrue'
    <3> SUFFICES ASSUME NEW w \in Video, NEW d \in Channel, receipts[<<w, d>>] # NoJob
                 PROVE  /\ published'[receipts[<<w, d>>]] = 1
                        /\ request[receipts[<<w, d>>]] = [video |-> w, channel |-> d]
      BY <1>2 DEF ReceiptIsTrue, files
    <3>1. PICK k \in UploadJob : k = receipts[<<w, d>>]
      BY <1>0 DEF TypeOK
    <3>2. published[k] = 1 /\ request[k] = [video |-> w, channel |-> d]
      BY <1>0, <3>1 DEF OutcomeInv, ShownIsTrue, ReceiptIsTrue
    <3> QED BY <2>1, <3>1, <3>2
  <2>4. \A k \in UploadJob : (Unsent(k) => published[k] = 0)'
    <3> SUFFICES ASSUME NEW k \in UploadJob, Unsent(k)' PROVE published'[k] = 0
      OBVIOUS
    <3>1. k # j
      BY <1>1, <1>2, <1>3, <1>8 DEF Unsent, InQueue, Submitting, volatile
    <3>2. Unsent(k)
      BY <1>1, <1>2, <1>3, <3>1 DEF Unsent, InQueue, Submitting, volatile
    <3> QED BY <1>0, <1>5, <3>1, <3>2 DEF OutcomeInv
  <2> QED BY <1>1, <1>3, <1>5, <2>2, <2>3, <2>4 DEF OutcomeInv, ShownIsTrue
<1> QED BY <1>6, <1>7, <1>9, AdvanceKeeps DEF PublishingInv

LEMMA WriteReceiptKeeps ==
  ASSUME PublishingInv, WriteReceipt
  PROVE  PublishingInv'
<1>0. TypeOK /\ WorkerShape /\ HandInv /\ OutcomeInv
  BY DEF PublishingInv
<1>1. PICK j \in UploadJob : j = W.job
  BY <1>0 DEF WriteReceipt, At, W, WorkerShape, UploadPlace
<1>2. request[j] \in Request /\ published[j] = 1
  BY <1>0, <1>1, KindAssumption DEF WriteReceipt, At, W, HandInv, OutcomeInv, Job
<1>3. PICK v \in Video, c \in Channel : request[j] = [video |-> v, channel |-> c]
  BY <1>2 DEF Request
<1>4. request[j].video = v /\ request[j].channel = c
  BY <1>3
<1>5. /\ W.pc = "receipt"
      /\ UNCHANGED <<mem, disk, volatile, accounts, ghosts>>
      /\ Goto("worker", "success") \/ Raise("OTHER")
      /\ \/ receipts' = [receipts EXCEPT ![<<v, c>>] = j]
         \/ Raise("OTHER") /\ UNCHANGED receipts
  BY <1>1, <1>4 DEF WriteReceipt, At, W
<1>6. /\ actor' \in [Actor -> Activity] /\ U' = U /\ W'.job = W.job
      /\ W'.pc = "success" \/ W'.pc = "except"
  <2>1. "success" \in Place
    BY DEF Place
  <2> QED BY <1>0, <1>5, <2>1, AdvanceMoves
<1>7. Raise("OTHER") => W'.pc = "except"
  BY <1>0, RaiseMoves DEF ErrorCode
<1>8. /\ receipts' \in [Video \X Channel -> UploadJob \cup {NoJob}]
      /\ \A r \in Video \X Channel : receipts'[r] = receipts[r] \/ (r = <<v, c>> /\ receipts'[r] = j)
      /\ W'.pc = "success" => receipts'[<<v, c>>] = j
  BY <1>0, <1>5, <1>6, <1>7 DEF TypeOK
<1>9. Advances
  BY <1>5, <1>6 DEF Advances, ghosts
<1>10. TypeOK'
  BY <1>0, <1>5, <1>6, <1>8 DEF TypeOK, volatile, ghosts
<1>11. j # NoJob
  BY KindAssumption DEF Job
<1>12. OutcomeInv'
  <2>1. SuccessIsBacked'
    <3> SUFFICES ASSUME NEW k \in UploadJob, ShownIn(k, {"SUCCESS"})
                 PROVE  receipts'[<<request[k].video, request[k].channel>>] # NoJob
      BY <1>0, <1>5 DEF OutcomeInv, ShownIsTrue, SuccessIsBacked, ShownIn, volatile, ghosts
    <3>1. /\ published[k] = 1 /\ receipts[<<request[k].video, request[k].channel>>] # NoJob
          /\ k \in Job /\ (mem[k] # "none" \/ disk[k] # "none")
      BY <1>0 DEF OutcomeInv, ShownIsTrue, SuccessIsBacked, ShownIn, Job
    <3>2. request[k] \in Request
      BY <1>0, <3>1 DEF HandInv
    <3>3. <<request[k].video, request[k].channel>> \in Video \X Channel
      BY <3>2 DEF Request
    <3> QED BY <1>8, <1>11, <3>1, <3>3
  <2>2. ReceiptIsTrue'
    <3> SUFFICES ASSUME NEW w \in Video, NEW d \in Channel, receipts'[<<w, d>>] # NoJob
                 PROVE  /\ published[receipts'[<<w, d>>]] = 1
                        /\ request[receipts'[<<w, d>>]] = [video |-> w, channel |-> d]
      BY <1>5 DEF ReceiptIsTrue, ghosts
    <3>1. <<w, d>> \in Video \X Channel
      OBVIOUS
    <3>2. CASE receipts'[<<w, d>>] = receipts[<<w, d>>]
      BY <1>0, <3>2 DEF OutcomeInv, ShownIsTrue, ReceiptIsTrue
    <3>3. CASE <<w, d>> = <<v, c>> /\ receipts'[<<w, d>>] = j
      BY <1>2, <1>3, <3>3
    <3> QED BY <1>8, <3>1, <3>2, <3>3
  <2>3. \A k \in UploadJob : (Unsent(k) => published[k] = 0)'
    BY <1>0, <1>5, <1>6 DEF OutcomeInv, Unsent, InQueue, Submitting, volatile, ghosts
  <2>4. (W.pc = "success" => Done(W.job))'
    BY <1>1, <1>2, <1>4, <1>5, <1>6, <1>8, <1>11, KindAssumption DEF Done, ghosts
  <2> QED BY <1>6, <2>1, <2>2, <2>3, <2>4 DEF OutcomeInv, ShownIsTrue
<1> QED BY <1>9, <1>10, <1>12, AdvanceKeeps DEF PublishingInv

LEMMA FinallyKeeps ==
  ASSUME PublishingInv, Finally
  PROVE  PublishingInv'
<1>0. /\ TypeOK /\ UiShape /\ WorkerShape /\ HandInv /\ OutcomeInv /\ ConnectInv
      /\ ~ WritesMayFail => LastWordInv
  BY DEF PublishingInv
<1>1. /\ W.pc = "finally" /\ W.job \in ConnectJob /\ W.job \in Job
      /\ events' = events \ {W.job}
      /\ UNCHANGED <<mem, disk, cancelled, queue, stopping, files, ghosts>>
  BY <1>0 DEF Finally, At, W, WorkerShape, ConnectPlace, Job
<1>2. /\ actor' \in [Actor -> Activity] /\ U' = U /\ W' = Idle
      /\ W'.pc = "idle" /\ W'.job = NoJob /\ W'.phase = "none" /\ W'.then = "idle"
      /\ NoJob \notin Job
  <2>1. actor' \in [Actor -> Activity] /\ U' = U /\ W' = Idle
    BY <1>0, IdleMoves DEF Finally, Actor, U, W
  <2> QED BY <2>1, KindAssumption DEF Idle
<1>3. \A k : (InQueue(k)' <=> InQueue(k)) /\ (Submitting(k)' <=> Submitting(k))
  BY <1>1, <1>2 DEF InQueue, Submitting
<1>4. TypeOK'
  BY <1>0, <1>1, <1>2 DEF TypeOK, files, ghosts
<1>5. UiShape' /\ WorkerShape'
  BY <1>0, <1>2 DEF UiShape, WorkerShape, ConnectPlace, UploadPlace
<1>6. HandInv'
  <2>1. (U.phase = "FAILED" => U.job # W.job /\ ~ InQueue(U.job))'
    <3>1. U.phase = "FAILED" => U.job \in Job
      BY <1>0 DEF UiShape, Idle, Job
    <3> QED BY <1>0, <1>1, <1>2, <3>1 DEF HandInv, InQueue
  <2> QED BY <1>0, <1>1, <1>2, <1>3, <2>1 DEF HandInv, ghosts
<1>7. OutcomeInv'
  <2>1. ShownIsTrue'
    BY <1>0, <1>1 DEF OutcomeInv, ShownIsTrue, SuccessIsBacked, ReceiptIsTrue, ShownIn, files, ghosts
  <2>2. \A k \in UploadJob : (Unsent(k) => published[k] = 0)'
    BY <1>0, <1>1, <1>2, <1>3 DEF OutcomeInv, Unsent, ghosts
  <2> QED BY <1>2, <2>1, <2>2 DEF OutcomeInv
<1>8. ConnectInv'
  <2>1. \A k \in ConnectJob : InHand(k)' => InHand(k)
    BY <1>2, <1>3 DEF InHand, Job
  <2>2. \A k : Live(k)' => Live(k)
    BY <1>1, <1>2 DEF Live
  <2>3. \A k \in ConnectJob : (InQueue(k) \/ W.job = k \/ Submitting(k) => k \in events)'
    BY <1>0, <1>1, <1>2, <1>3 DEF ConnectInv, HandInv, Job
  <2> QED BY <1>0, <1>1, <1>2, <2>1, <2>2, <2>3 DEF ConnectInv
<1>9. ~ WritesMayFail => LastWordInv'
  BY <1>0, <1>1, <1>2, <1>3 DEF LastWordInv, InHand, BeforeLastPut
<1> QED BY <1>4, <1>5, <1>6, <1>7, <1>8, <1>9 DEF PublishingInv

-----------------------------------------------------------------------------
(* The end of the process, and the invariant                               *)

LEMMA ShutdownKeeps ==
  ASSUME PublishingInv, Shutdown
  PROVE  PublishingInv'
<1>0. /\ TypeOK /\ UiShape /\ WorkerShape /\ HandInv /\ OutcomeInv /\ ConnectInv
  BY DEF PublishingInv
<1>1. /\ stopping' = TRUE /\ cancelled' = cancelled \cup events /\ queue' = <<>>
      /\ U' = U /\ W' = W
      /\ UNCHANGED <<mem, disk, events, actor, files, ghosts>>
  BY DEF Shutdown, U, W
<1>2. queue' \in Seq(Job) /\ \A k : ~ InQueue(k)'
  BY <1>1 DEF InQueue
<1>3. \A k : Submitting(k)' <=> Submitting(k)
  BY <1>1 DEF Submitting
<1>4. TypeOK'
  BY <1>0, <1>1, <1>2 DEF TypeOK, files, ghosts
<1>5. UiShape' /\ WorkerShape'
  BY <1>0, <1>1 DEF UiShape, WorkerShape
<1>6. HandInv'
  <2>1. Len(queue') = 0
    BY <1>1
  <2>2. \A i, k \in 1 .. Len(queue') : queue'[i] = queue'[k] => i = k
    BY <2>1
  <2>3. (U.phase = "FAILED" => U.job # W.job /\ ~ InQueue(U.job))'
    BY <1>0, <1>1, <2>1 DEF HandInv, InQueue
  <2> QED BY <1>0, <1>1, <1>2, <1>3, <2>2, <2>3 DEF HandInv, ghosts
<1>7. OutcomeInv'
  <2>1. ShownIsTrue'
    BY <1>0, <1>1 DEF OutcomeInv, ShownIsTrue, SuccessIsBacked, ReceiptIsTrue, ShownIn, files, ghosts
  <2>2. \A k \in UploadJob : (Unsent(k) => published[k] = 0)'
    BY <1>0, <1>1, <1>2, <1>3 DEF OutcomeInv, Unsent, ghosts
  <2> QED BY <1>0, <1>1, <2>1, <2>2 DEF OutcomeInv, Done, files, ghosts
<1>8. ConnectInv'
  <2>1. \A k : InHand(k)' => InHand(k)
    BY <1>1, <1>2, <1>3 DEF InHand, BeforeLastPut
  <2>2. \A k : Live(k)' => Live(k)
    BY <1>1 DEF Live
  <2> QED BY <1>0, <1>1, <1>2, <1>3, <2>1, <2>2 DEF ConnectInv
<1>9. LastWordInv'
  BY <1>1 DEF LastWordInv
<1> QED BY <1>4, <1>5, <1>6, <1>7, <1>8, <1>9 DEF PublishingInv

\* What holds when neither actor does anything and nothing is known in memory:
\* at the start, and after a restart.
AtRest == /\ U = Idle /\ W = Idle /\ mem = [j \in Job |-> "none"]
          /\ queue = <<>> /\ stopping = FALSE

RestInv == /\ UiShape /\ WorkerShape /\ ConnectInv /\ LastWordInv
           /\ \A j \in Job : ~ InQueue(j) /\ ~ Submitting(j)

LEMMA Resting == AtRest => RestInv
<1> SUFFICES ASSUME AtRest PROVE RestInv
  OBVIOUS
<1> USE DEF AtRest
<1>1. /\ Idle.pc = "idle" /\ Idle.job = NoJob /\ Idle.phase = "none" /\ Idle.then = "idle"
      /\ NoJob \notin Job
  BY KindAssumption DEF Idle
<1>2. \A j : ~ InQueue(j) /\ ~ Submitting(j)
  BY <1>1 DEF InQueue, Submitting
<1>3. UiShape /\ WorkerShape
  BY <1>1 DEF UiShape, WorkerShape, ConnectPlace, UploadPlace
<1>4. \A j \in Job : mem[j] = "none" /\ mem[j] \notin ActiveOAuth
  BY DEF ActiveOAuth
<1>5. ConnectInv
  BY <1>1, <1>2, <1>4 DEF ConnectInv, InHand, Live, Job
<1>6. LastWordInv
  BY <1>4 DEF LastWordInv
<1> QED BY <1>2, <1>3, <1>5, <1>6 DEF RestInv

LEMMA PublishingInit ==
  ASSUME Init
  PROVE  PublishingInv
<1>1. /\ U = Idle /\ W = Idle /\ Idle \in Activity
      /\ Idle.pc = "idle" /\ Idle.job = NoJob /\ Idle.phase = "none"
  BY DEF Init, Actor, U, W, Idle, Activity, Place, ErrorCode
<1>2. RestInv
  BY <1>1, Resting DEF Init, AtRest
<1>3. TypeOK
  <2>1. queue \in Seq(Job)
    BY DEF Init
  <2>2. mem \in [Job -> Phase \cup {"none"}] /\ disk \in [Job -> Phase \cup {"none"}]
    BY DEF Init
  <2>3. /\ receipts \in [Video \X Channel -> UploadJob \cup {NoJob}]
        /\ request \in [UploadJob -> Request \cup {NoRequest}] /\ published \in [UploadJob -> Nat]
    BY DEF Init
  <2> QED BY <1>1, <2>1, <2>2, <2>3 DEF TypeOK, Init
<1>4. HandInv
  <2>1. Len(queue) = 0
    BY DEF Init
  <2> QED BY <1>1, <1>2, <2>1, KindAssumption DEF HandInv, RestInv, Init, Job
<1>5. OutcomeInv
  <2>1. ShownIsTrue
    BY DEF Init, ShownIsTrue, SuccessIsBacked, ReceiptIsTrue, ShownIn, Job
  <2> QED BY <1>1, <2>1 DEF OutcomeInv, Init
<1> QED BY <1>2, <1>3, <1>4, <1>5 DEF PublishingInv, RestInv

LEMMA RestartKeeps ==
  ASSUME PublishingInv, Restart
  PROVE  PublishingInv'
<1>0. TypeOK /\ HandInv /\ OutcomeInv
  BY DEF PublishingInv
<1>1. /\ mem' = [j \in Job |-> "none"] /\ queue' = <<>> /\ stopping' = FALSE
      /\ events' = {} /\ cancelled' = {} /\ actor' \in [Actor -> Activity]
      /\ U' = Idle /\ W' = Idle
      /\ Idle.pc = "idle" /\ Idle.job = NoJob /\ Idle.phase = "none"
      /\ UNCHANGED <<disk, files, ghosts>>
  BY <1>0, Actors DEF Restart, Actor, U, W
<1>2. RestInv'
  <2>1. AtRest'
    BY <1>1 DEF AtRest
  <2> QED BY <2>1, Resting, PTL
<1>3. TypeOK'
  <2>1. queue' \in Seq(Job) /\ mem' \in [Job -> Phase \cup {"none"}]
    BY <1>1
  <2> QED BY <1>0, <1>1, <2>1 DEF TypeOK, files, ghosts
<1>4. HandInv'
  <2>1. Len(queue') = 0
    BY <1>1
  <2> QED BY <1>0, <1>1, <1>2, <2>1 DEF HandInv, RestInv, ghosts
<1>5. OutcomeInv'
  <2>1. \A j \in Job : ShownIn(j, {"SUCCESS"})' => ShownIn(j, {"SUCCESS"})
    BY <1>1 DEF ShownIn
  <2>2. ShownIsTrue'
    BY <1>0, <1>1, <2>1 DEF OutcomeInv, ShownIsTrue, SuccessIsBacked, ReceiptIsTrue, files, ghosts, Job
  <2>3. \A k \in UploadJob : (Unsent(k) => published[k] = 0)'
    BY <1>0, <1>1, <1>2 DEF RestInv, OutcomeInv, Unsent, Job, ghosts
  <2> QED BY <1>1, <2>2, <2>3 DEF OutcomeInv
<1> QED BY <1>2, <1>3, <1>4, <1>5 DEF PublishingInv, RestInv

LEMMA PublishingStep ==
  ASSUME PublishingInv, [Next]_vars
  PROVE  PublishingInv'
<1>1. ASSUME WorkerStep PROVE PublishingInv'
  <2>1. CASE Take
    BY <2>1, TakeKeeps
  <2>2. CASE ConnectStep
    <3>1. QuietStep \/ (\E c \in Channel : SaveAccount(c)) \/ Finally
      BY <2>2 DEF ConnectStep, QuietStep
    <3> QED BY <3>1, QuietKeeps, SaveAccountKeeps, FinallyKeeps
  <2>3. CASE UploadStep
    <3>1. QuietStep \/ Send \/ WriteReceipt
      BY <2>3 DEF UploadStep, QuietStep
    <3> QED BY <3>1, QuietKeeps, SendKeeps, WriteReceiptKeeps
  <2>4. CASE Succeed \/ Except
    BY <2>4, QuietKeeps DEF QuietStep
  <2>5. CASE Put("worker")
    BY <2>5, WorkerPutKeeps
  <2>6. CASE \E raises \in Raises : Write("worker", raises)
    BY <2>6, WorkerWriteKeeps
  <2> QED BY <1>1, <2>1, <2>2, <2>3, <2>4, <2>5, <2>6 DEF WorkerStep
<1>2. ASSUME UiStep PROVE PublishingInv'
  BY <1>2, SubmitKeeps, InterventionKeeps, UiPutKeeps, UiWriteKeeps DEF UiStep, Intervenes
<1>3. ASSUME UiRequest PROVE PublishingInv'
  BY <1>3, StartConnectKeeps, StartUploadKeeps, InterventionKeeps DEF UiRequest, Intervenes
<1>4. CASE UNCHANGED vars
  <2>1. /\ UNCHANGED <<mem, disk, events, cancelled, queue, actor, stopping, accounts,
                       receipts, request, used, saved, published>>
        /\ U' = U /\ W' = W
    BY <1>4 DEF vars, U, W
  <2>2. TypeOK' /\ UiShape' /\ WorkerShape'
    BY <2>1 DEF PublishingInv, TypeOK, UiShape, WorkerShape
  <2>3. HandInv'
    BY <2>1 DEF PublishingInv, HandInv, InQueue, Submitting
  <2>4. OutcomeInv'
    BY <2>1 DEF PublishingInv, OutcomeInv, ShownIsTrue, SuccessIsBacked, ReceiptIsTrue, ShownIn,
               Unsent, Done, InQueue, Submitting
  <2>5. ConnectInv'
    BY <2>1 DEF PublishingInv, ConnectInv, InHand, Live, BeforeLastPut, InQueue, Submitting
  <2>6. ~ WritesMayFail => LastWordInv'
    BY <2>1 DEF PublishingInv, LastWordInv, InHand, BeforeLastPut, InQueue, Submitting
  <2> QED BY <2>2, <2>3, <2>4, <2>5, <2>6 DEF PublishingInv
<1> QED BY <1>1, <1>2, <1>3, <1>4, ShutdownKeeps, RestartKeeps DEF Next

LEMMA OutcomeIsShown == PublishingInv => ShownIsTrue
BY DEF PublishingInv, OutcomeInv

LEMMA ConnectIsOne == PublishingInv => OneLiveConnect
<1> SUFFICES ASSUME PublishingInv, NEW j \in ConnectJob, NEW k \in ConnectJob,
                    {mem[j], mem[k]} \subseteq ActiveOAuth, {j, k} \cap cancelled = {}
             PROVE  j = k
  BY DEF OneLiveConnect
<1>1. Live(j) /\ Live(k)
  BY DEF Live
<1> QED BY <1>1 DEF PublishingInv, ConnectInv

\* Where the two threads can be, which of them a job is with, what an upload
\* has done so far and who has the last word on a job: the inductive invariant.
THEOREM PublishingInvariant == Spec => []PublishingInv
<1> QED BY PublishingInit, PublishingStep, PTL DEF Spec

\* The variables have their types.
THEOREM PublishingTypes == Spec => []TypeOK
<1>1. PublishingInv => TypeOK
  BY DEF PublishingInv
<1> QED BY <1>1, PublishingInvariant, PTL

\* A job shown as SUCCESS, in memory or in a file that a later process reads,
\* saved its account or published exactly one video and has its receipt; a
\* receipt is that of a video of its run and channel (_transition, _upload).
THEOREM PublishedAsShown == Spec => []ShownIsTrue
BY OutcomeIsShown, PublishingInvariant, PTL

\* Of the connections shown as active at most one is not being cancelled,
\* although the worker looks at the cancel event before it writes a phase and
\* not while it does (start_connect, _connect).
THEOREM OneConnectAtATime == Spec => []OneLiveConnect
BY ConnectIsOne, PublishingInvariant, PTL

\* When its file can be written, a job nobody has in hand is finished in memory
\* and in its file: no actor went away with the last word half said.
THEOREM JobsSettle ==
  ASSUME ~ WritesMayFail
  PROVE  Spec => []Settled
<1>1. PublishingInv => Settled
  <2> SUFFICES ASSUME PublishingInv, NEW j \in Job, mem[j] # "none", ~ Working(j), ~ stopping
               PROVE  mem[j] \in Terminal /\ disk[j] \in Terminal
    BY DEF Settled
  <2>1. j # U.job /\ j # W.job /\ ~ InQueue(j)
    BY DEF Working, Actor, U, W, InQueue
  <2>2. ~ InHand(j) /\ ~ Submitting(j)
    BY <2>1 DEF InHand, Submitting
  <2> QED BY <2>1, <2>2 DEF PublishingInv, LastWordInv
<1> QED BY <1>1, PublishingInvariant, PTL
=============================================================================
