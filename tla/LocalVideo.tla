------------------------------ MODULE LocalVideo ------------------------------
(***************************************************************************)
(* The Local Video job manager (video_story.py): jobs that are rendered    *)
(* one at a time by one executor thread, a map of live jobs that forgets   *)
(* finished ones, and a record per job on disk.                            *)
(*                                                                         *)
(* A transition changes the live record and then writes it, both under the *)
(* lock of the live job, but a submission prunes the map without that      *)
(* lock.  A write may fail before or after it replaced the file.           *)
(***************************************************************************)
EXTENDS Naturals, Sequences, FiniteSets

CONSTANTS MaxJobs,       \* bound on submissions
          Retained,      \* max_retained_jobs
          MaxFaults,     \* bound on failed writes
          MaxRestarts    \* bound on restarts of the process

LocalVideoAssumption ==
    /\ MaxJobs \in Nat /\ MaxFaults \in Nat /\ MaxRestarts \in Nat
    /\ Retained \in Nat \ {0}

VARIABLES live,        \* phase in the map of live jobs, if it is there
          disk,        \* phase in job.json, if there is one
          queue,       \* jobs handed to the executor
          worker,      \* the executor's thread
          submitting,  \* the job a request wrote and has not yet registered
          receipts,    \* jobs with a render receipt
          submitted, faults, restarts,
          stranded     \* ghost: jobs whose record nobody will bring up to date

vars == <<live, disk, queue, worker, submitting, receipts, submitted, faults,
          restarts, stranded>>

-----------------------------------------------------------------------------

\* Jobs are numbered as they are submitted: created_at orders them.
Job     == 1..MaxJobs
Ended   == {"COMPLETE", "FAILED"}
Working == {"QUEUED", "PREPARING_STORY", "PREPARING_ASSETS", "RENDERING"}
Phase   == Working \cup Ended

Resting == [pc |-> "idle", job |-> 0, phase |-> "none"]

After(phase) ==
    CASE phase = "QUEUED"           -> "PREPARING_STORY"
      [] phase = "PREPARING_STORY"  -> "PREPARING_ASSETS"
      [] phase = "PREPARING_ASSETS" -> "RENDERING"
      [] phase = "RENDERING"        -> "COMPLETE"

\* What a write leaves of a record that was old: written, failed before the
\* replacement, or failed after it.
Outcome == {"ok", "lost", "late"}

Written(result, old, new) == IF result = "lost" THEN old ELSE new

Fault(result) ==
    /\ result # "ok" => faults < MaxFaults
    /\ faults' = IF result = "ok" THEN faults ELSE faults + 1

-----------------------------------------------------------------------------
(* submit: the record first, then the map, then the executor *)

WriteQueued(result) ==
    /\ submitting = 0 /\ submitted < MaxJobs
    /\ LET j == submitted + 1 IN
       /\ disk' = [disk EXCEPT ![j] = Written(result, "none", "QUEUED")]
       /\ submitting' = IF result = "ok" THEN j ELSE 0
       /\ submitted' = j
    /\ Fault(result)
    /\ stranded' = IF result = "late" THEN stranded \cup {submitted'} ELSE stranded
    /\ UNCHANGED <<live, queue, worker, receipts, restarts>>

Prunable == {j \in Job : live[j] \in Ended}

\* _prune_locked: the oldest finished jobs, while the map is full.
Pruned ==
    LET held   == {j \in Job : live[j] # "none"}
        excess == IF Cardinality(held) < Retained THEN 0
                  ELSE Cardinality(held) - Retained + 1
    IN  {j \in Prunable : Cardinality({k \in Prunable : k < j}) < excess}

Register ==
    /\ submitting # 0
    /\ live' = [j \in Job |-> IF j = submitting THEN "QUEUED"
                              ELSE IF j \in Pruned THEN "none" ELSE live[j]]
    /\ queue' = Append(queue, submitting)
    /\ submitting' = 0
    /\ UNCHANGED <<disk, worker, receipts, submitted, faults, restarts, stranded>>

-----------------------------------------------------------------------------
(* _execute *)

\* The first half of _transition: the live record takes the phase.  A job that
\* is no longer in the map ends the execution with a KeyError.
Mark(j, phase) ==
    IF live[j] = "none"
    THEN /\ worker' = Resting
         /\ UNCHANGED live
    ELSE /\ worker' = [pc |-> "persist", job |-> j, phase |-> phase]
         /\ live' = [live EXCEPT ![j] = phase]

Take ==
    /\ worker = Resting /\ queue # <<>>
    /\ queue' = Tail(queue)
    /\ Mark(Head(queue), After("QUEUED"))
    /\ UNCHANGED <<disk, submitting, receipts, submitted, faults, restarts,
                   stranded>>

\* Mutant of AfterWrite: the first transition is made before the try.
AfterWriteUntried(result) ==
    IF result = "ok" /\ worker.phase \in Working
    THEN [worker EXCEPT !.pc = "work"]
    ELSE IF result = "ok" \/ worker.phase \in {"FAILED", "PREPARING_STORY"}
    THEN Resting ELSE [worker EXCEPT !.pc = "raised"]

\* A failed write raises; _execute answers with FAILED, and an exception of
\* that transition is the executor's.
AfterWrite(result) ==
    IF result = "ok" /\ worker.phase \in Working
    THEN [worker EXCEPT !.pc = "work"]
    ELSE IF result = "ok" \/ worker.phase = "FAILED" THEN Resting
    ELSE [worker EXCEPT !.pc = "raised"]

\* The second half: the record, as the thread holds it, is written.
Persist(result) ==
    /\ worker.pc = "persist"
    /\ disk' = [disk EXCEPT ![worker.job] = Written(result, @, worker.phase)]
    /\ worker' = AfterWrite(result)
    /\ Fault(result)
    /\ stranded' = IF worker.phase \in Working THEN stranded
                   ELSE IF result = "lost" THEN stranded \cup {worker.job}
                   ELSE stranded \ {worker.job}
    /\ UNCHANGED <<live, queue, submitting, receipts, submitted, restarts>>

\* Mutant of Finish: the receipt is left for later.
FinishEarly == receipts

\* The work of the last phase ends with the receipt.
Finish == IF worker.phase = "RENDERING" THEN receipts \cup {worker.job}
          ELSE receipts

\* The story, the narration or the film are made, their timing is recorded,
\* and the next phase begins.
Work ==
    /\ worker.pc = "work"
    /\ receipts' = Finish
    /\ Mark(worker.job, After(worker.phase))
    /\ UNCHANGED <<disk, queue, submitting, submitted, faults, restarts, stranded>>

\* Anything in it may raise: the evidence, the renderer, a write; the write of
\* the receipt also after it replaced the file.
Raise(result) ==
    /\ worker.pc = "work"
    /\ result = "late" => worker.phase = "RENDERING"
    /\ worker' = [worker EXCEPT !.pc = "raised"]
    /\ receipts' = Written(result, receipts, Finish)
    /\ IF result = "late" THEN Fault(result) ELSE UNCHANGED faults
    /\ UNCHANGED <<live, disk, queue, submitting, submitted, restarts, stranded>>

Handle ==
    /\ worker.pc = "raised"
    /\ Mark(worker.job, "FAILED")
    /\ UNCHANGED <<disk, queue, submitting, receipts, submitted, faults,
                   restarts, stranded>>

InHand(j) == \/ j = submitting \/ j = worker.job
             \/ \E i \in DOMAIN queue : queue[i] = j

\* The process stops and starts again; nothing takes a job up.
Restart ==
    /\ restarts < MaxRestarts
    /\ restarts' = restarts + 1
    /\ live' = [j \in Job |-> "none"]
    /\ queue' = <<>> /\ worker' = Resting /\ submitting' = 0
    /\ stranded' = stranded \cup {j \in Job : InHand(j)}
    /\ UNCHANGED <<disk, receipts, submitted, faults>>

Init ==
    /\ live = [j \in Job |-> "none"] /\ disk = [j \in Job |-> "none"]
    /\ queue = <<>> /\ worker = Resting /\ submitting = 0 /\ receipts = {}
    /\ submitted = 0 /\ faults = 0 /\ restarts = 0 /\ stranded = {}

Worker ==
    \/ Take \/ Work \/ Handle
    \/ \E result \in Outcome : Persist(result)
    \/ \E result \in {"lost", "late"} : Raise(result)

Next ==
    \/ \E result \in Outcome : WriteQueued(result)
    \/ Register \/ Worker \/ Restart

Spec == Init /\ [][Next]_vars

\* The executor's thread runs on, and a request ends.
Fairness == WF_vars(Worker) /\ WF_vars(Register)

FairSpec == Spec /\ Fairness

-----------------------------------------------------------------------------
(* Properties *)

\* What get and latest report of a job.
Shown(j) == IF live[j] # "none" THEN live[j] ELSE disk[j]

TypeOK ==
    /\ live \in [Job -> Phase \cup {"none"}]
    /\ disk \in [Job -> Phase \cup {"none"}]
    /\ queue \in Seq(Job)
    /\ worker \in [pc: {"idle", "persist", "work", "raised"},
                   job: Job \cup {0}, phase: Phase \cup {"none"}]
    /\ submitting \in Job \cup {0} /\ receipts \subseteq Job
    /\ submitted \in 0..MaxJobs /\ faults \in 0..MaxFaults
    /\ restarts \in 0..MaxRestarts /\ stranded \subseteq Job

\* Whatever failed and whenever the process stopped, a job that the map has as
\* rendering, or waiting to, is in somebody's hands, and so is one that only its
\* file says so of, but for the jobs stranded: those in hand when the process
\* stopped, one whose own end could not be written, and one whose submission
\* failed after its first write.  No other job's record is left behind by their
\* failures, and pruning the map never takes a job the thread still works on.
ShownIsWorkedOn ==
    \A j \in Job :
        /\ live[j] \in Working => InHand(j)
        /\ Shown(j) \in Working => InHand(j) \/ j \in stranded

\* A finished job was rendered if and only if it says so: COMPLETE, in the map
\* or on disk, has its receipt, and a receipt beside FAILED comes from a
\* failed write only (_execute writes the receipt before it marks the job).
CompleteIsRendered ==
    \A j \in Job :
        /\ "COMPLETE" \in {live[j], disk[j]} => j \in receipts
        /\ Shown(j) = "FAILED" /\ j \in receipts => faults > 0

\* Every registered job leaves the working phases, whatever fails to be
\* written, or is gone with the process (the handler in _execute).
UnderWay(j) == live[j] \in Working

EveryRenderEnds == \A j \in Job : UnderWay(j) ~> ~UnderWay(j)
=============================================================================
