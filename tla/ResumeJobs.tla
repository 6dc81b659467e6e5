------------------------------ MODULE ResumeJobs ------------------------------
(***************************************************************************)
(* The resume jobs of the local UI (local_ui.py): ResumeJobManager, the    *)
(* stages of _run_user_resume it runs one job at a time, the private run   *)
(* directories _save_request_scoped_resume_run leaves, one per locale, and *)
(* the preview that is added to them when the DOCX can already be taken.   *)
(*                                                                         *)
(* The UI thread submits and reads under the manager's lock; the executor  *)
(* takes that lock for each transition only.  Files are replaced one at a  *)
(* time, and the process may stop between any two of them.                 *)
(***************************************************************************)
EXTENDS Naturals, Sequences, FiniteSets

CONSTANTS MaxJobs,       \* bound on submissions
          Retained,      \* max_retained_jobs
          MaxRestarts    \* bound on restarts of the process

ResumeJobsAssumption ==
    MaxJobs \in Nat /\ MaxRestarts \in Nat /\ Retained \in Nat \ {0}

VARIABLES jobs,      \* the manager's records, by job
          asked,     \* the form a job was submitted with
          queue,     \* jobs handed to the executor
          worker,    \* the executor's thread: its job, variant and next step
          draft,     \* per job, the text of its first variant
          candidate, \* per job, the expert patch kept for inspection
          runs,      \* the run directories, per job and variant
          submitted, restarts

vars == <<jobs, asked, queue, worker, draft, candidate, runs, submitted,
          restarts>>

-----------------------------------------------------------------------------

\* Jobs are numbered as they are submitted: created_at orders them.
Job == 1..MaxJobs

Variant == 1..2

\* A form: a draft from the template alone, or by a model for one locale or
\* two, reviewed by an expert model or not.
Forms == {[ai |-> FALSE, expert |-> FALSE, locales |-> 1]}
         \cup [ai: {TRUE}, expert: BOOLEAN, locales: Variant]

Making  == {"QUEUED", "PREPARING", "RETRIEVING", "GENERATING", "VERIFYING",
            "EXPERT_REVIEW", "REVERIFYING", "EXPORTING"}
Shown   == {"DOCX_READY", "PREVIEWING"}
Ended   == {"COMPLETE", "FAILED"}
Preview == {"pending", "rendering", "ready", "needs_attention"}

NoJob  == [phase |-> "none"]
Record == [phase: Making \cup Shown \cup Ended, preview: Preview]

\* A run directory: its DOCX, with the text it holds; its receipts; its
\* preview; and what its metadata and its run.json, if written, say of that.
NoRun  == [docx |-> "none", receipts |-> FALSE, pdf |-> FALSE,
           ui |-> "none", run |-> "none"]
Run    == [docx: {"none", "base", "reviewed"}, receipts: BOOLEAN, pdf: BOOLEAN,
           ui: {"none", "PENDING", "PDF_READY", "NEEDS_ATTENTION"},
           run: {"none", "PENDING", "PDF_READY", "NEEDS_ATTENTION"}]

\* made: the PDF of this variant was made; whole: so were those before it.
Resting == [pc |-> "idle", job |-> 0, variant |-> 1, made |-> FALSE,
            whole |-> TRUE]

At(pc) == worker.pc = pc

Form == asked[worker.job]

\* The records after _transition: nothing happens to a job that was pruned.
Moved(j, phase, preview) ==
    IF jobs[j] = NoJob THEN jobs
    ELSE [jobs EXCEPT ![j] = [phase |-> phase, preview |-> preview]]

\* progress(phase)
Progress(phase) == jobs' = Moved(worker.job, phase, "pending")

Goto(pc) == worker' = [worker EXCEPT !.pc = pc]

-----------------------------------------------------------------------------
(* submit *)

Prunable == {j \in Job : jobs[j].phase \in Ended}

\* _prune_locked: the oldest ended jobs, while there are too many.
Pruned ==
    LET held   == Cardinality({j \in Job : jobs[j] # NoJob})
        excess == IF held < Retained THEN 0 ELSE held - Retained + 1
    IN  {j \in Prunable : Cardinality({k \in Prunable : k < j}) < excess}

Submit(form) ==
    /\ submitted < MaxJobs
    /\ LET new == submitted + 1 IN
       /\ jobs' = [j \in Job |->
                     IF j = new THEN [phase |-> "QUEUED", preview |-> "pending"]
                     ELSE IF j \in Pruned THEN NoJob ELSE jobs[j]]
       /\ asked' = [asked EXCEPT ![new] = form]
       /\ queue' = Append(queue, new)
       /\ submitted' = new
    /\ UNCHANGED <<worker, draft, candidate, runs, restarts>>

-----------------------------------------------------------------------------
(* _run_user_resume, up to the export *)

Take ==
    /\ At("idle") /\ queue # <<>>
    /\ queue' = Tail(queue)
    /\ worker' = [Resting EXCEPT !.pc = "PREPARING", !.job = Head(queue)]
    /\ jobs' = Moved(Head(queue), "PREPARING", "pending")
    /\ UNCHANGED <<asked, draft, candidate, runs, submitted, restarts>>

\* An expert review of two locales is refused.
Refused == Form.expert /\ Form.locales = 2

\* What a job does after a stage that went well.
AfterStage(pc) ==
    CASE pc = "PREPARING"  -> IF Form.ai THEN "RETRIEVING" ELSE "GENERATING"
      [] pc = "RETRIEVING" -> "GENERATING"
      [] pc = "GENERATING" -> "VERIFYING"
      [] pc = "VERIFYING"  -> IF Form.expert THEN "EXPERT_REVIEW"
                              ELSE "EXPORTING"

Stage ==
    /\ worker.pc \in {"PREPARING", "RETRIEVING", "GENERATING", "VERIFYING"}
    /\ ~Refused
    /\ Goto(AfterStage(worker.pc))
    /\ Progress(AfterStage(worker.pc))
    /\ UNCHANGED <<asked, queue, draft, candidate, runs, submitted, restarts>>

\* The expert answered: the patch is kept, and reverified.
Reviewed ==
    /\ At("EXPERT_REVIEW")
    /\ candidate' = [candidate EXCEPT ![worker.job] = "PENDING_VALIDATION"]
    /\ Goto("REVERIFYING") /\ Progress("REVERIFYING")
    /\ UNCHANGED <<asked, queue, draft, runs, submitted, restarts>>

Applied ==
    /\ At("REVERIFYING")
    /\ draft' = [draft EXCEPT ![worker.job] = "reviewed"]
    /\ candidate' = [candidate EXCEPT ![worker.job] = "VALIDATED"]
    /\ Goto("EXPORTING") /\ Progress("EXPORTING")
    /\ UNCHANGED <<asked, queue, runs, submitted, restarts>>

\* The expert's call or the reverification failed: the base draft goes on.
SkipExpert ==
    /\ worker.pc \in {"EXPERT_REVIEW", "REVERIFYING"}
    /\ candidate' = [candidate EXCEPT ![worker.job] = "REJECTED"]
    /\ Goto("EXPORTING") /\ Progress("EXPORTING")
    /\ UNCHANGED <<asked, queue, draft, runs, submitted, restarts>>

-----------------------------------------------------------------------------
(* _save_request_scoped_resume_run, for one variant after the other *)

This == runs[<<worker.job, worker.variant>>]

Files(run) == [runs EXCEPT ![<<worker.job, worker.variant>>] = run]

NextVariant(pc, end) ==
    IF worker.variant < Form.locales
    THEN [worker EXCEPT !.pc = pc, !.variant = @ + 1]
    ELSE [worker EXCEPT !.pc = end, !.variant = 1]

Saving == {"EXPORTING", "receipts", "metadata", "run"}

\* Mutant of Saved: run.json does not wait for the receipts.
SavedEarly ==
    CASE At("EXPORTING") -> [This EXCEPT !.docx = draft[worker.job]]
      [] At("receipts")  -> [This EXCEPT !.run = "PENDING"]
      [] At("metadata")  -> [This EXCEPT !.ui = "PENDING"]
      [] At("run")       -> [This EXCEPT !.receipts = TRUE]

\* What is written in turn: the DOCX; once its claims were checked against it,
\* provenance, trace and pack; the metadata; and run.json.
Saved ==
    CASE At("EXPORTING") -> [This EXCEPT !.docx = draft[worker.job]]
      [] At("receipts")  -> [This EXCEPT !.receipts = TRUE]
      [] At("metadata")  -> [This EXCEPT !.ui = "PENDING"]
      [] At("run")       -> [This EXCEPT !.run = "PENDING"]

Save ==
    /\ worker.pc \in Saving
    /\ runs' = Files(Saved)
    /\ worker' = CASE At("EXPORTING") -> [worker EXCEPT !.pc = "receipts"]
                   [] At("receipts")  -> [worker EXCEPT !.pc = "metadata"]
                   [] At("metadata")  -> [worker EXCEPT !.pc = "run"]
                   [] At("run")       -> NextVariant("EXPORTING", "ready")
    /\ UNCHANGED <<jobs, asked, queue, draft, candidate, submitted, restarts>>

\* Mutant of Fail: the exception ends the execution unseen.
FailUnseen ==
    /\ worker.pc \in Saving \cup Making
    /\ worker' = Resting
    /\ UNCHANGED <<jobs, asked, queue, draft, candidate, runs, submitted,
                   restarts>>

\* Anything before the result may raise, or be refused; a write that raises
\* may have replaced its file.
Fail ==
    /\ worker.pc \in Saving \cup Making
    /\ worker' = Resting
    /\ jobs' = IF jobs[worker.job] = NoJob THEN jobs
               ELSE [jobs EXCEPT ![worker.job].phase = "FAILED"]
    /\ \/ UNCHANGED runs
       \/ worker.pc \in Saving /\ runs' = Files(Saved)
    /\ UNCHANGED <<asked, queue, draft, candidate, submitted, restarts>>

-----------------------------------------------------------------------------
(* _execute, once the result is there, and _finalize_resume_preview *)

DocxReady ==
    /\ At("ready")
    /\ jobs' = Moved(worker.job, "DOCX_READY", "pending")
    /\ Goto("previewing")
    /\ UNCHANGED <<asked, queue, draft, candidate, runs, submitted, restarts>>

Previewing ==
    /\ At("previewing")
    /\ jobs' = Moved(worker.job, "PREVIEWING", "rendering")
    /\ Goto("pdf")
    /\ UNCHANGED <<asked, queue, draft, candidate, runs, submitted, restarts>>

PreviewStep(run, next) ==
    /\ runs' = Files(run)
    /\ worker' = next
    /\ UNCHANGED <<jobs, asked, queue, draft, candidate, submitted, restarts>>

\* The PDF is there, or could not be made; a failing write of it may leave it.
RenderPdf(made, left) ==
    /\ At("pdf")
    /\ made => left
    /\ PreviewStep([This EXCEPT !.pdf = left],
                   [worker EXCEPT !.pc = "pdf_metadata", !.made = made,
                                  !.whole = @ /\ made])

Status == IF worker.made THEN "PDF_READY" ELSE "NEEDS_ATTENTION"

\* 09_user_ui.json and then run.json are read back, changed and replaced.
WritePdfMetadata ==
    /\ At("pdf_metadata")
    /\ PreviewStep([This EXCEPT !.ui = Status],
                   [worker EXCEPT !.pc = "pdf_run"])

WritePdfRun ==
    /\ At("pdf_run")
    /\ PreviewStep([This EXCEPT !.run = Status], NextVariant("pdf", "complete"))

\* A write fails, perhaps after it replaced its file: the preview needs
\* attention, and the job still completes.
FailPreview ==
    /\ worker.pc \in {"pdf_metadata", "pdf_run"}
    /\ \E run \in {This, IF At("pdf_run") THEN [This EXCEPT !.run = Status]
                         ELSE [This EXCEPT !.ui = Status]} :
          PreviewStep(run, [worker EXCEPT !.pc = "complete", !.whole = FALSE])

Complete ==
    /\ At("complete")
    /\ jobs' = Moved(worker.job, "COMPLETE",
                     IF worker.whole THEN "ready" ELSE "needs_attention")
    /\ Goto("timings")
    /\ UNCHANGED <<asked, queue, draft, candidate, runs, submitted, restarts>>

\* _persist_resume_job_timings rewrites the first run.json with the timings.
Timings ==
    /\ At("timings")
    /\ worker' = Resting
    /\ UNCHANGED <<jobs, asked, queue, draft, candidate, runs, submitted,
                   restarts>>

\* The process stops and starts again: jobs are gone, directories stay.
Restart ==
    /\ restarts < MaxRestarts
    /\ restarts' = restarts + 1
    /\ jobs' = [j \in Job |-> NoJob] /\ queue' = <<>> /\ worker' = Resting
    /\ UNCHANGED <<asked, draft, candidate, runs, submitted>>

Init ==
    /\ jobs = [j \in Job |-> NoJob] /\ queue = <<>> /\ worker = Resting
    /\ asked = [j \in Job |-> [ai |-> FALSE, expert |-> FALSE, locales |-> 1]]
    /\ draft = [j \in Job |-> "base"] /\ candidate = [j \in Job |-> "none"]
    /\ runs = [r \in Job \X Variant |-> NoRun]
    /\ submitted = 0 /\ restarts = 0

Worker ==
    \/ Take \/ Stage \/ Reviewed \/ Applied \/ SkipExpert
    \/ Save \/ Fail
    \/ DocxReady \/ Previewing
    \/ \E made, left \in BOOLEAN : RenderPdf(made, left)
    \/ WritePdfMetadata \/ WritePdfRun \/ FailPreview
    \/ Complete \/ Timings

Next == (\E form \in Forms : Submit(form)) \/ Worker \/ Restart

Spec == Init /\ [][Next]_vars

\* The executor's thread runs on: every call it makes has a time limit.
Fairness == WF_vars(Worker)

FairSpec == Spec /\ Fairness

-----------------------------------------------------------------------------
(* Properties *)

TypeOK ==
    /\ jobs \in [Job -> Record \cup {NoJob}]
    /\ asked \in [Job -> [ai: BOOLEAN, expert: BOOLEAN, locales: Variant]]
    /\ queue \in Seq(Job)
    /\ worker.job \in Job \cup {0} /\ worker.variant \in Variant
    /\ worker.made \in BOOLEAN /\ worker.whole \in BOOLEAN
    /\ draft \in [Job -> {"base", "reviewed"}]
    /\ candidate \in [Job -> {"none", "PENDING_VALIDATION", "VALIDATED",
                              "REJECTED"}]
    /\ runs \in [Job \X Variant -> Run]
    /\ submitted \in 0..MaxJobs /\ restarts \in 0..MaxRestarts

Variants(j) == 1..asked[j].locales

\* A job says it is under way if and only if it is in the executor's hands:
\* pruning forgets ended jobs only, and no error path leaves a record behind
\* (_prune_locked, the handlers of _execute).
UnderWayIsTrue ==
    \A j \in Job :
        jobs[j].phase \in Making \cup Shown
            <=> \/ \E i \in DOMAIN queue : queue[i] = j
                \/ worker.job = j /\ worker.pc # "timings"

\* A run that is listed is whole, whenever the process stopped, and a job that
\* offers its DOCX has one listed run for every locale asked for (run.json is
\* written last, one run after the other).
OfferedIsWhole ==
    \A j \in Job :
        /\ \A v \in Variant : runs[<<j, v>>].run # "none" =>
              /\ runs[<<j, v>>].docx # "none"
              /\ runs[<<j, v>>].receipts /\ runs[<<j, v>>].ui # "none"
        /\ jobs[j].phase \in Shown \cup {"COMPLETE"} =>
              \A v \in Variants(j) : runs[<<j, v>>].run # "none"

\* A preview that is called ready exists: for every locale when the job says
\* so, and wherever a metadata file does (_finalize_resume_preview).
PreviewIsThere ==
    \A j \in Job :
        /\ \A v \in Variant :
              "PDF_READY" \in {runs[<<j, v>>].ui, runs[<<j, v>>].run} =>
                  runs[<<j, v>>].pdf
        /\ jobs[j].phase = "COMPLETE" /\ jobs[j].preview = "ready" =>
              \A v \in Variants(j) : runs[<<j, v>>].ui = "PDF_READY"
                                     /\ runs[<<j, v>>].run = "PDF_READY"

\* A DOCX holds the expert's text if and only if the patch kept beside it was
\* validated: a review that failed leaves the base draft as it was.
ExpertTextIsValidated ==
    \A j \in Job : runs[<<j, 1>>].docx # "none" =>
        (runs[<<j, 1>>].docx = "reviewed" <=> candidate[j] = "VALIDATED")

\* Every job that is submitted completes or fails, or is gone with the process.
UnderWay(j) == jobs[j].phase \in Making \cup Shown

EveryResumeJobEnds == \A j \in Job : UnderWay(j) ~> ~UnderWay(j)
=============================================================================
