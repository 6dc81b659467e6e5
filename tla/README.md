# A verification project for SoloScale OS

This directory holds TLA+ models of the parts of SoloScale OS
(`src/src/soloscale`, Python) whose correctness depends on interleavings,
crashes, failing writes, retries and the order of steps; TLC configurations that
check them on small instances; and proofs, checked by TLAPS, of what matters most
for every size of the system.  `PROJECT.json` is the machine-readable index:
components, runs, the lines each definition models, the hazards, the findings and
the theorems.

Sections: [1 the system](#1-the-system), [2 the modules](#2-the-modules),
[3 the runs](#3-the-runs), [4 fairness](#4-fairness),
[5 what is proved](#5-what-is-proved), [6 what the checks found](#6-what-the-checks-found),
[7 what is left out](#7-what-is-left-out), [8 the plan](#8-the-plan),
[9 running it](#9-running-it).

## 1 The system

SoloScale OS is a local-first workspace for one person (résumés, evidence,
content, videos, practice), plus one networked service, *Resume Cloud*.  The
desktop application starts a local HTTP UI (`local_ui.py`, an `HTTPServer` that
handles one request at a time); long work runs in background job managers inside
that process; everything is kept in private files under one data root.  The
command line (`cli.py`) is a second process on the same files.  Resume Cloud is
a FastAPI service, one or more worker processes and PostgreSQL.

How the parts interact:

    browser ── local_ui ──┬── resume jobs ── claims, DOCX, receipt ── run directories
                          │                                             │ bundle
                          │                              application library (shared with others)
                          ├── Creator production ── content run ── sealed artifacts ── publish queue
                          │                            │ Creator Video        │ BuildLog
                          ├── Local Video jobs         │              editorial handoff ── channel accounts
                          ├── YouTube jobs ────────── Google
                          ├── Codex import ── knowledge store ── evidence agent (model)
                          └── evidence catalog (SQLite) ── Casebook, orchestration JSONL
    command line ─────────── the same files

    client ── resume_cloud_api (n instances) ── PostgreSQL ── resume_cloud_worker (n processes)
                                                                  │ one thread per permit
                                                                  └── model provider (paid)

### 1.1 Components with a module

| Component | State | Operations | What makes it hard | Correct when |
|---|---|---|---|---|
| **Resume Cloud worker** (`resume_cloud_worker`, `_service`, `_repository`, `_cache`) | task rows with lease, token and the mark of a paid call; result cache; per process a pool, permits, a heartbeat per call | create, queue, get; claim, look up, mark, call, renew, complete, fail; recover and clean up | a provider call cannot be taken back nor asked about; a stalled worker goes on until it meets a fence; releases share the cache; an uncaught exception ends the process | one call per task at most, recorded first; one thread per task; outcomes final; results reach their client only; every task settles; every input, result and copy is erased |
| **Resume Cloud intake** (`resume_cloud_api`, `create_or_replay`) | rows by idempotency key, a token bucket per client | one transaction per request | requests wait on a unique index and a bucket row; hosts' clocks differ | one creation per key; answers stay true; admissions bounded; no cycle of waits |
| **Task orchestration** (`state_machine`, `orchestration`, `event_store`) | a JSONL file, the `status` field of envelopes | `transition`, `append`, `read_all` | the envelope may be stale or forged; an append may be cut | execution follows triage, plan and approval; acceptance follows review of what was last done |
| **YouTube publishing** (`youtube_publishing`) | jobs in a map and in files, cancel events, account index, receipts | connect, cancel, upload, recover, shut down | each transition has two halves and two threads make them; a cancellation races OAuth; an upload cannot be asked about | what a job or a receipt says is so; one live connection; every job ends |
| **Casebook store** (`casebook_store`) | `attempts.jsonl`, receipts by digest, an interview packet | `record_attempt` | short writes, failing fsync and truncate, kills, a second process without a lock | committed attempts stay; gates in order; a rollback leaves nothing |
| **Codex import** (`work_ui`, `knowledge_store`) | jobs, inventory of fingerprints, stored messages | submit, execute with parse threads, get | sessions grow while parsed; writes fail; kills; a second importer | the inventory claims nothing the store lacks; counts add up; jobs end |
| **Creator production** (`creator_production`, with `content_workspace`, `content_distribution`, `video_factory`, `media_quality`, `buildlog_handoff`) | one content run: review revisions, renders, package, handoff receipt, sealed artifacts, queue entries, job record | generate, review, render, package, stage, publish, seal, enqueue | three threads on one directory without a common lock; checks of one file and use of another; restarts | what was packaged, staged or posted is what was approved; READY means sealed |
| **Local Video jobs** (`video_story`) | live map, `job.json`, render receipt | submit, run, prune, get | pruning without the job's lock; either half of a transition fails | what is shown as under way is, unless a restart or a failing write stranded it; COMPLETE iff the receipt was written; jobs end |
| **Resume jobs of the page** (`local_ui`) | records, queue, private runs per locale, preview | submit, stages, expert review, save, preview, get | pruning during a job; several files per result; restarts | what is offered is whole; jobs end |
| **Resume claims** (`resume_docx`, `resume_claim_truth`) | text and verdict of each claim in strategy and DOCX, diagnostics | validate, restore, fall back, render, review, receipt | a claim is judged several times, against different facts, and changed in between | every exported claim is backed; the receipt's counts are those of the claims, and bound the page's own number |
| **Resume workspace runs** (`resume_workspace`) | private run, bundle in a shared library, `delivery.json`, `run.json`, outcome | stage, rename into place, sync, list, capture | runs and other programs want the same name; a write may fail after it took effect; kills | the receipt never lies; nothing of anybody is replaced |
| **Evidence agent** (`evidence_agent`) | rounds, hits, context, draft, artifacts | plan, search, read neighbours, answer, check citations, save | the index changes during the run; budgets at their limits; any call fails | budgets kept; COMPLETED only with citations as they were shown to the model, and as the check after the answer found them |
| **Evidence catalog** (`evidence_hub`, `evidence_capture`) | sources, items, snapshot, lineage, receipts, bundles, assets, outcomes in SQLite | sync, refresh, capture | statements outside a transaction interleave with other processes | what was cited stays resolvable; receipts are the history |
| **Channel accounts** (`platform_accounts`) | attempt files, pointer, token files, `accounts.json` | start, show, cancel, callback, disconnect | a request makes several writes and may stop after any; callbacks are posted again | a code is sent once, for a current attempt only |
| **Editorial handoff** (`editorial_publishing_handoff`) | stored preview, last receipt, pages in tabs | preview, approve, publish, record | pages are older than the stored preview; accounts change; a post may succeed and raise | a post goes to the account it was previewed for, while connected |

### 1.2 Components without a module

| Component | Why |
|---|---|
| Media cost guard (`media_cost`, `heygen_provider`) | arithmetic on a policy and a snapshot; no code calls the authorisation, the page only shows the evaluation |
| GitHub connection (`github_connect`) | one record, rewritten by one request at a time; what it feeds to the catalog is the content of any collector in `EvidenceHub` |
| Knowledge retrieval, conversation intake, Skill OS, routing and model gateway | ranking, parsing, catalogues and rules: functions of their input.  The gateway's retries are configured to zero (`_HOSTED_MAX_RETRIES`), which is what lets one action stand for one call |
| Learning practice, application records, interview packets | projections of the Casebook, whose store is modelled |
| Generation and sealing of an editorial week; content generation, scan, canon | sequential passes in a directory of their own; what their results are used for is in `CreatorRun` and `EditorialHandoff` |
| Pages (`local_ui`, `content_ui`, `work_ui`, `evidence_ui`), command line | presentation; their handlers are actions where they change state |
| Metrics, migrations, AWS scripts, desktop shell, video factory | counters nobody reads, one-shot scripts, other languages |

## 2 The modules

Each module begins with a comment that names the code it models.  A shared
file, table or dictionary is a variable; whatever is atomic in the code (a
transaction, a block under a lock, one system call, one rename) is one action; a
program counter separates two such steps.  Contents (documents, digests, texts,
messages) are model values, versions or small numbers.  Definitions whose comment
says *Mutant of X* are deliberate bugs used to show that a property can fail.

| Module | Models | How |
|---|---|---|
| `ResumeRepository` | the PostgreSQL state and every transaction of `resume_cloud_repository.py` | `tasks`, `cache`, `claims`, `clock`; one operator per method; a `WHERE` is a guard, `FenceLost` the other outcome of a fenced write |
| `ResumeWorker` | worker processes, `process_one`, heartbeat, the API's queue and get | `slot[p][i]` is a thread's program counter, task, token and heartbeat; faults are `Crash`, `Raise`, `HeartbeatDies`; `calls` is a ghost |
| `ResumeWorkerProperties`, `TaskLedger` | what the service must do; the abstract promise to a client | refinement mapping: each task none, open, running or settled, its charge free, recorded or spent |
| `ResumeIntake` | `create_or_replay`, statement by statement | `handler[h]` is a request in its transaction; waiting is a guard |
| `Orchestration` | the graph, `transition()`, the JSONL file | `history`, how the file ends, `status`; `Alter` is a caller who assigns the field |
| `YouTubeJobs` | `YouTubePublishingJobManager` | `mem` and `disk` phases; two actors, each with the continuation of a two-half transition |
| `Casebook` | `record_attempt` | a call is a sequence of system calls on `log`, `archive`, `packet`; `Faults` says which may fail |
| `AttemptLog` | the abstract promise of a casebook | attempts at the end, promised ones stay, the last one may be withdrawn until then |
| `CodexImport` | import jobs, parse threads, `sync`, a second importer | versions in `file`, `store`, `inventory`; a Boolean parameter of each step that writes says whether it fails |
| `CreatorRun` | the production job, the video thread and the UI on one content run | texts are numbers of review revisions, renders the renderer; `maker`, `video`, `ui` are program counters |
| `LocalVideo` | `LocalVideoJobManager` | `live`, `disk`, `queue`, `worker`, `submitting`; a failing write before or after it replaced the file |
| `ResumeJobs` | `ResumeJobManager` and `_run_user_resume` | records, one worker with its variant and step, run directories file by file |
| `ResumeTruth` | the claims of one tailored resume | a text is its author and its verdicts; validation, restoring, fallback, rendering, expert review, receipt |
| `ResumeDelivery` | `run_resume_workspace` with its bundle | `library` maps a name to its owner; staging beside it, rename that never replaces, `Occupy` by others |
| `EvidenceAgent` | `run()` of the bounded agent | a chunk is its version; `Change` is a sync of the index between any two steps |
| `EvidenceHub` | the catalog's requests, statement by statement | `hub` is the database; a request reads sources, items, receipt number and counts before `BEGIN IMMEDIATE` |
| `ChannelAccounts` | `platform_accounts.py` for one platform | `doing` is the request in progress, one step per write; `Stop` is a kill or a raising write |
| `EditorialHandoff` | preview, approval, post and receipt beside the accounts | extends `ChannelAccounts`; `shown` is what each tab still offers |
| `MCResumeWorker`, `MCResumeIntake` | values and symmetry for TLC | |
| `MCStores`, `MCDesk`, `MCDelivery` | several components in one run | each part is an INSTANCE; its bounds are constants with values in the `.cfg` |
| `*Proofs` | theorems and lemmas | section 5 |

Which composes which.  `ResumeWorker` extends `ResumeRepository` (threads and API
handlers on the database); `ResumeIntake` refines the creation that `ResumeWorker`
takes as one step.  `CreatorRun` is itself a composition: production, review,
rendering, packaging, BuildLog and queue meet in one run's directory.
`EditorialHandoff` extends `ChannelAccounts`, whose accounts decide whether a post
may leave.  The parts of `MCStores`, `MCDesk` and `MCDelivery` share no file, lock
or executor in the code; a behaviour of such a module is one of one part, chosen at
the start, so that the state spaces add up, and its properties are those of its parts.

### What is abstracted, by module

*ResumeRepository, ResumeWorker.*  Hashes are what they are hashes of.  The API
host's clock that stamps `input_expires_at` is the database's.  `ORDER BY` decides
which rows a limited batch takes.  A dead heartbeat, a raised database error and a
crash count as one fault each, bounded by `MaxFaults`.  When a call ends, its
heartbeat ends with it: the code waits two seconds for the thread, so that a renewal
that is later still is taken before the end.

*ResumeIntake.*  Tokens are fixed-point numbers (`Unit` is one token); `Skew`
bounds how far an API clock is from true time.

*Orchestration.*  Actors, evidence receipts and payloads are left out: nothing
else reads them.  The store has one writer.

*YouTubeJobs.*  Repeated `UPLOADING` reports are left out.  Job ids are never
reused.  A file write is atomic (temporary file, rename).

*Casebook.*  A line is written in at most two writes.  Files reach the disk in the
order of their fsync.  `Tamper` is included because the code re-reads a file before
reusing it.

*CodexImport.*  A session file only grows.  Reading it while it grows gives some
version between the fingerprint and the present one.

*CreatorRun.*  One run; other runs share only the executor.  Every review decision
other than APPROVED is DRAFT.  A failing stage raises where the code may raise.
BuildLog publishes or fails.  Staging in BuildLog and its record are one step; a stop
in between leaves an orphan there that nothing here names.  Once two renders of the run
overlapped, nothing is said of the film.

*LocalVideo, ResumeJobs.*  Stories, films, DOCX files and timings are left out; a
stage succeeds or raises.  Queued requests keep the order of the executor.

*ResumeTruth.*  How a verdict is computed from words is left out: validation of a
text gives any verdict, but the same one for the same text against the same facts.

*ResumeDelivery.*  The content of a bundle is its owner.  Directory names are the
wanted name or the run's own suffix.  Others only create or remove directories.

*EvidenceAgent.*  Ranking, excerpts and the byte budget are choices.  Nothing is said of
a sync between the last look at the citations and the write of the result: nobody looks
again.

*EvidenceHub.*  A source has a version; items, bundles, assets and outcomes are
named by what they hash.  The look-ups and the insert of `register_asset` are one
step.  A statement is refused (busy, disk) at most `MaxFaults` times.

*ChannelAccounts, EditorialHandoff.*  The page server handles one request at a
time, so requests do not interleave, but each may stop after any write.  A write
that fails after it replaced its file is the step followed by `Stop` or
`SaveFails`.  The five minutes of each attempt pass independently.  Providers and
BuildLog's gateway are external: the owner may log in to any account, and a publish
that raises may have posted.  A plan's account is BuildLog's choice.  Whether a
plan is a duplicate, or an earlier attempt unresolved, is BuildLog's answer: the page may
hide the form.

## 3 The runs

Each run asks one question.  "States" are distinct states.

| Run | Instance | States | What it shows |
|---|---|---|---|
| `resume_race` | 2 processes of one thread, 2 tasks of any of four kinds (AI approved of two clients, template, AI not approved), clock to 4, one fault | 463 k | no second call, no lease overrun, no result in the wrong hands, and all of it implements `TaskLedger` |
| `resume_fair` | one process of 2 threads with one permit, a legacy template row and a new AI task, one fault | 53 k | every task settles; every input, result and cached copy is erased (the batch takes all rows: the next run is without that) |
| `resume_cleanup_limit` | the same with a cleanup batch of one row | - | *violated*: section 6 |
| `intake` | 2 handlers, 3 fresh keys and a legacy one, 2 clients, 2 payloads, capacity 2, refill 1 | 356 k | answers stay true, the admission bound, no wait without end |
| `youtube_fair` | 2 connections and an upload, writes succeed, both threads run | 195 k | every job ends, in its file too; a cancellation in time is final |
| `youtube_cancel` | one connection | - | *violated*: section 6 |
| `creator_race` | one run: 2 review revisions, 2 renderers, one post, one restart, requests for one or two outputs with and without queueing | 3.56 M | sealed, staged and packaged things stay; READY means sealed (both for the film: unless two renders overlapped); repeated requests do not multiply an item |
| `creator_approved` | the same | - | *violated*: section 6 |
| `editorial_retry` | one account, one plan, one tab | - | *violated*: section 6 |
| `stores` | orchestration: one task in a run of 10 events and one of a single event in one file; Casebook: one process, 3 attempts, every fault, and two processes with kills and an altered file; import: 2 sessions of 2 versions, 2 jobs, failing writes | 1.95 M | approval before execution, review before acceptance; committed attempts stay and are backed; the inventory and the counts tell the truth |
| `desk_fair` | import, Local Video and resume jobs: 2 submissions each, one kept, failing stages and writes, a restart; catalog: 2 requests of 2 processes on 2 sources of 2 versions, one refused statement | 336 k | jobs end; what is shown as under way is in somebody's hands, renderings apart that a restart or a failing write stranded; what is offered is there; citations resolve; receipts are the history |
| `delivery` | 3 runs that want one name, 2 faults, one outsider; a résumé of 2 bullets and a Summary; an agent of 3 chunks, 3 rounds, 2 queries, 3 hits, one change; 2 YouTube connections beside an upload, and 2 uploads beside a connection, with failing writes and restarts; 2 accounts, attempts and plans, one tab | 1.18 M | receipts and pages say what happened; nothing is replaced; codes are spent once; posts go to the connected |

**Why the bounds are enough.**  A race needs two of everything: two threads for
one task, two tasks for one cache key, two requests for one idempotency key, two
uploads for one receipt, two appends to one log, two revisions of which one is
approved, two accounts of which one is disconnected; a third adds more of the same.
Where three are needed there are three: three runs that want one name are the plain
name, the suffixed one, and one of an outsider's; three Casebook attempts are a stage
passed, the next begun, and one to lose; three agent rounds let a budget be divided
twice with a remainder.  In `resume_race` clock 4 lets a lease be renewed, lapse, be
recovered and the stale worker come back, and an output expire.  In `intake` three
keys are one more than the capacity, and the clock's one tick makes a refill matter
and lets a bucket meet a time that runs backwards.  Ten orchestration events are a
complete execution, a block and a second one.  One map entry is kept of two jobs, so
that pruning happens.  Two faults let the second hit the error path of the first.
What section 5 lists is proved for all bounds.

A mutant accompanies every property of every passing run: a named operator with
the error a plausible change would introduce (a lost condition, a fence that ignores
the state, an exception handler that forgets a phase, two steps swapped).  The
property is violated with the mutant under the same configuration.

## 4 Fairness

*Resume Cloud* (`FairSpec` in `ResumeWorker`).  Time passes.  A worker process
restarts after it died (`restart: unless-stopped` in `compose.resume-cloud.yaml`).
Its main loop runs recovery and claims again after each batch
(`resume_cloud_worker.py` 29-52), and each pool thread proceeds: every wait inside
`process_one` is a database statement or a provider call with a timeout.

*YouTube.*  The worker thread and the UI thread run; the browser wait ends at its
deadline (`GoogleYouTubeProvider.authorize`), and sockets have timeouts.

*The page's jobs* (`DeskSpec`).  The executor thread of each manager and the parse
threads of an import proceed, and a request that wrote its job's file goes on to
register it (`Register`): the stages are model calls and subprocesses with timeouts.
Whether a stage succeeds is not assumed, nor that it fails.  That an import can write
its files is the constant `WritesMayFail = FALSE`, not fairness: with failing writes
an import may stay unfinished (section 6).

Nothing is ever assumed of users, clients, other programs or outside answers, and
faults are never required.  The other runs use no fairness.  `CHECK_DEADLOCK FALSE`
is set where the system really stops: after its bounded attempts, jobs or requests.

## 5 What is proved

For every value of the constants, under their named assumptions only:

**`ResumeWorkerProofs`.**  `TypeCorrect`, `NeverChargedTwice` (`AtMostOneCall`),
`NeverChargedInSecret` (`CallsAccountedFor`), `AttemptsExclude`
(`ExclusiveAttempt`).  None is inductive.  `IInv` adds what connects a thread to its
row: a thread at work holds a claimed task (`ThreadHoldsTask`); one thread at most
ever holds a given task (`ExclusiveHold`), even after the lease lapsed, because
recovery settles a lapsed task and never requeues it; a thread about to call has the
charge recorded (`ChargePrepared`); calls follow attempts (`CallsFollowAttempts`).

*In the same module, what becomes of a row.*  `RowsMove` says what can become of a row in one step.
From it follow `OutcomesAreFinal`; `LeasesProtect` (`LiveLeaseProtects`), with the
strengthening `OwnsOrLapsed`; and `LedgerImplemented` (`ImplementsLedger`): each move
of a row is a move of its `TaskLedger` account or a stutter.

*In the same module, results and the cache.*  `CacheIsSound`, `ResultsAreYours` (`ResultsBelong`).  A
result's source is a task that succeeded and was to keep it as long; by
`OutcomesAreFinal` a source stays one.  So every safety property of `resume_race` is
proved for any number of tasks, processes and threads.

**`ResumeIntakeProofs`.**  `TypeCorrect`, `RateBounded`, `OneCreation`,
`NeverOverwritten`, `TokensPayForTasks`, `AnswersAreTrue`, `NeverStuck`.
`IntakeInv` says that a key is inserted and a bucket held by one transaction at a
time, that what a transaction computed for its bucket is still what it would compute,
that no stamp lies beyond the skew, and `Budget`.  The arithmetic is in `SpendSound`.

**`StoresProofs`.**  Every property of the run `stores`, for every value of its
constants: `StoresTypes` (`StoresTypeOK`), `HistoryTheorem` (`ExecutionIsApproved` and
`AcceptedAsReviewed`), `AttemptsStandTheorem` (`AttemptsStand`),
`CommittedBackedTheorem` (`CommittedBacked`), `ImportTellsTheorem` (`ImportTells`).
`StoresInv` is the conjunction of the parts' invariants:

- *Orchestration* (`HistoryInv`; `TypeCorrect`, `AlwaysAWalk`, `NoUnapprovedExecution`,
  `NoUnreviewedAcceptance`, `NoSecondExecution` under its own `Spec`).  The invariant is
  the walk and that receipts are recorded; the consequences follow from lemmas about
  walks along the graph.
- *A casebook with one process* (`SoloInv`), any ladder, any number of attempts and any
  subset of the faults.  `FilesSound` says what the log, the committed and rolled back
  attempts and the packet owe each other.  It is not inductive alone, because a rollback
  cuts the log to a length that the call remembers: `CallSound` adds that the call in
  hand is the latest attempt, that what it read holds every committed attempt and begins
  with the packet, and that the log cut to the remembered length is what it read.  That
  the ladder is climbed is then carried from the gate (`Climbed`, at the time of reading)
  to the append.  `RecordedGrows` is the lemma about reading a log: a chunk adds a record
  exactly when it closes one.  `Recorded` is defined by counting and not by a filter, so
  that this can be proved without induction.
- *The abstract log* (`AttemptLogImplemented`).  `AttemptLog` is what a casebook
  promises, with two variables: the attempts a reader finds and those that were
  promised.  The mapping takes `Recorded(log)` and `committed` for them.  `LogMoves` is
  the step: a call in hand adds its attempt to what it read, or takes it away again; the
  first half of a line and a missing newline are stutters.  `PlacesTheorem` is the
  consequence: a promised attempt keeps its place.
- *A casebook with several processes* (`PairInv`), any number of them, which may be
  killed at any step, write short or find their receipts altered, but whose `write` and
  `fsync` do not raise (`PartsAssumption`; section 6 says what happens if they do).
  `CallBacked`: from the step that names its receipt on, a call's receipt is in the
  archive; `OwnAttempts`: so that the file a call commits is named by its own attempt.
  The two casebooks are different instances with different faults, so their types are
  proved once for each.
- *Imports* (with failing writes and one importer), from `CodexImportProofs`.

**`DeskProofs`.**  Every safety property of the run `desk_fair`, for every value of its
constants: `DeskTypes` (`DeskTypeOK`), `ShownIsWorkedOnTheorem` (`ShownIsUnderWay`),
`OfferedTheorem` (`OfferedIsTrue`), `DeskCitesTheorem` (`CitedStaysResolvable`),
`DeskHistoryTheorem` (`ReceiptsAreTheHistory`), `DeskReceiptsStand` (`ReceiptIsFinal`).
`DeskInv` is the conjunction of the parts' invariants:

- *Catalog* (`HubInv`, also under the catalog's own `Spec`).  `CitedInv`: bundles, assets
  and outcomes refer to frozen items that are in the lineage.  `CountInv`: the counts a
  request read before its transaction are those of the snapshot it replaces, *if* the
  next receipt number is still the one it read; the collision check makes that the only
  case in which they are committed.
- *Renderings* (`VideoInv`).  A job is in one place: the queue, the worker, the request
  that submits it (`VideoQueue`, `VideoHand`, `VideoSubmission`).  The phase in memory is
  the worker's, unless a submission pruned it, and it prunes ended jobs only.
  `VideoRecords` ties memory, file and render receipt; the file may lag behind memory
  for good only for the jobs in `stranded`: those in hand at a restart, those whose
  own end could not be written, and those whose submission failed after its write.  For every other job, whatever failed before, what is shown is worked on.
- *Resume jobs* (`ResumeInv`).  The phase a job shows is the executor's place in the
  program (`PhaseAt`); which files of which locale exist by then (`ResumeHand`) and whose
  previews are ready (`ResumePreviews`) follow the order of the writes.  `JobSound` is
  what remains true of a job after the executor left it, by success, by an error in any
  stage or by a restart.
- *Imports*, from the next module.

**`CodexImportProofs`.**  `ImportTypes`, `ImportAddsUp` (`CountsAddUp`),
`ImportLosesNothing` (`InventoryBacked`, with one importer), `ImportOutcomesStand`
(`ReceiptIsFinal`, while files can be written).  `Accounts` says where each session of a
job is: counted, to be scanned, in the pool or about to be counted, which add up to the
total of the job in hand whatever fails; `Versions` orders, per session, what the
inventory, the store, the scan, the parse and the file have; `FilesAgree`, that a job
file is as memory.

**`YouTubeJobsProofs`.**  `PublishingInvariant`, `PublishedAsShown` (`ShownIsTrue`),
`OneConnectAtATime` (`OneLiveConnect`) and, when job files can be written, `JobsSettle`
(`Settled`).  None of the three is inductive, because a phase is decided in one step,
put in memory in a second and written in a third.  `UiShape` and `WorkerShape` say
where each thread can be and what it carries; `HandInv`, that a job is in one hand at a
time (the queue, the worker, the request that submits it); on that ground `OutcomeInv`
says what an upload has done so far (before `Send` nothing, after it one video),
`ConnectInv` that a connection in somebody's hand is shown as active or is cancelled, so
that the look of `start_connect` suffices, and `LastWordInv` who will still say how a
job ended.  The last needs writes that do not fail, and is a part of the invariant only
then.  The proof has one lemma per action; the worker's steps that only move its own
program counter share `QuietKeeps`.

**`CreatorRunProofs`.**  `CreatorInvariant`, and from it every safety property of
`creator_race`: `CreatorTypes` (`TypeOK`), `SealedStands` (`SealedThingsStand`),
`ReadyMeansSealed` (`ReadyIsSealed`), `QueuedOnce` (`RequestsDoNotMultiply`); beside
them the action property `WholeFilmsStay`.  `TextInv`: a review is written only to a
run that is neither packaged nor staged, and a package follows an approved revision;
`FilmInv`: without an overlap one renderer is at work and has not reached the last file
of the film; `ProgressInv`: the job's place in its program says which artifacts there
are; `ApprovalInv` and `QueueInv`: what is queued was approved, and an item is queued by
the job at most once beside the requests.  Each is kept by every step, and the lemmas
are grouped by part.

**`DeliveryProofs`.**  Every property of the run `delivery`, for every value of its
constants.  `WholeInv` is the conjunction of the parts' invariants; a step of one part
is a stutter of the others (`PartsStep`).  The parts:

- *Application bundles* (`DeliveryTheorem`, `ListedTheorem`, `NothingReplacedTheorem`,
  `NoCopiesTheorem`, of `ResumeDelivery` itself).  `RunInv` ties each place of a run's
  program to its receipt, to the bundle in the library, to the staged copy and to the
  list; because a rename into place never replaces, what one run or an outsider does
  leaves `RunInv` of the others alone (`Same`), so each lemma argues about one run.
- *Claims* (`ReceiptsAreHonest`).  `TruthInv` says what each stage knows of the draft:
  from selection on, every text that is not the source was judged, with the warnings
  that are kept (`Vouched`); the rejected claims fit among those that are sources
  (`RejectedFit`), with the counts of finite sets behind it; and no expert's text is in
  an unvalidated draft.  The page's number, `rejected_rewrites`, is set at rendering and
  not by the expert review: it is the diagnostics' until a review is applied, and after
  it at most the sources and the texts the expert wrote (`ShownFit`).
- *The agent* (`AgentIsFair`), for every budget its constructor accepts.
  `AgentBudgets`: in a search round the chunks taken stay within the round's share, and
  the rounds to come can each have one; the arithmetic is `ShareFits`.  `AgentReads`:
  a version that was read is older than, or equal to, the one the index holds, or the
  chunk is gone (`Follows`, which is transitive), so a citation that is still current at
  the check was current when the draft was asked for; `checked` keeps the index of that
  check, and the saved answer's citations are those of all three moments.
- *YouTube* (`JobsShownAreTrue`, `ConnectsAreOne`), from `YouTubeJobsProofs` for the two
  instances of the run; `LoginSameSpec` and its like say that these are the same.
- *Channels* (`CodesTheorem`, `PostsTheorem`).  A code that may still be sent was never
  sent (`Unsent`), which holds because `VERIFYING_IDENTITY` is on file before the
  exchange; a disconnected account is not listed (`PartedIsUnlisted`); a post under way
  is for an account that is listed with the scope to publish (`BoundToListed`), because
  requests do not interleave.

Only model-checked: all liveness.  Every safety property that a passing run checks is
stated by a theorem.

## 6 What the checks found

Four configurations state what the repository says and are violated by what the
code does:

1. `resume_cleanup_limit`.  The cleanup selects expired results without asking
   whether the bytes are still there (`resume_cloud_repository.py` 375); once a full
   batch of already erased rows exists, later results are not erased.  The runbook
   says "output also expires".
2. `youtube_cancel`.  After its last look at the cancel event
   (`youtube_publishing.py` 871) the worker saves the account; a cancellation in
   between is answered `CANCELLED` with the account saved.
3. `creator_approved`.  `approved_content_artifact` checks the decision of the review
   it loads (`content_workspace.py` 1772) and returns the path of whatever revision is
   the latest at 1780; a draft saved in between is sealed as APPROVED.
4. `editorial_retry`.  A failed publication is recorded as
   `…_DO_NOT_RETRY`, but `publish_editorial_preview` does not look at the receipt; a
   reload or an older tab publishes the plan again.  A test is named
   `test_failed_publish_is_terminal…` and looks at the page only.

Met while modelling, and not claimed against any statement of the repository:

- With two processes on one case, a failed append truncates the log to the length it
  had before the other's committed attempt (`casebook_store.py` 517), and removes the
  receipt it archived, which the other may have found and reused (370).
- A second importer (`work_ui.py` 1056, or `knowledge-sync`) may write an older
  version of a session over the one the inventory records.
- A job whose first write fails stays queued in memory (YouTube 725, importer 419); an
  upload interrupted by a restart stays `UPLOADING` in its file.
- `apply_resume_expert_review` (`resume_docx.py` 2675-2695) resets the diagnostics'
  `rejected_count` but leaves the DOCX result's `rejected_rewrites`, which the page shows
  (`local_ui.py` 5194) and the run keeps (2925, 3660): it may name a number that no
  longer holds.  The model keeps both; what is checked and proved of the page's number is
  a bound (`CountsMatchTheReceipt`).
- A rendering that was in hand at a restart, or whose FAILED could not be written
  (`video_story.py` 873-880), is shown as under way for ever: `get` and `latest`
  (764-817) believe the file.  These are the `stranded` jobs of `LocalVideo`.
- Nothing keeps the production job and a request from enqueueing one artifact twice
  (`creator_production.py` 393-436), nor two renders of one run from mixing their files
  (`video_factory.py` 461).
- Stopped between a publication and its receipt (`buildlog_handoff.py` 149), the text may
  be published again; after an upload whose answer was lost (`youtube_publishing.py` 928)
  the owner's second attempt is a second video.
- The digest in a catalog receipt (`evidence_hub.py` 186) is computed before the
  transaction and may be of another snapshot (`DigestIsTrue` in `EvidenceHub`).
- `disconnect_identity` unlinks the token before it writes the list
  (`platform_accounts.py` 457-464); stopped in between, the account is listed without a
  credential, and `_load_object` reads the missing token as one that never expires, so
  that it is still shown as connected and eligible.
- `PUBLISH` typed into an older tab approves the preview stored now, not the one shown;
  a second `PUBLISH` may replace a receipt of success by one of failure; a kill between
  the post and its receipt leaves the form offered.
- An attempt interrupted in `VERIFYING_IDENTITY` stays there until it is cancelled, and
  cancelling turns `FAILED` into `CANCELLED`.
- A GitHub refresh labels evidence with the stored account, whichever token is in memory.

## 7 What is left out

*Inside modelled components.*  `consume_rate_limit` on its own (nothing calls it);
readiness and metrics; concurrent writers of the orchestration file; YouTube's progress
percentages, token refresh and channel removal; Casebook's `create_case` and a power
loss between a rename and its directory's fsync; sessions that move or disappear;
several content runs at once; the byte budget and the ranking of the evidence agent;
cases and search of the catalog; the later mapping of interview defences onto a saved
run; the device flow of one platform and developer configuration.  `PROJECT.json` says
it for each component.

*Whole components.*  Section 1.2.  By lines, most of the repository is text: pages in
two languages, prompts, parsers, scoring, DOCX surgery, validation of forms.  That code
is sequential and its results are a function of its inputs; a state machine of it would
either repeat it line by line or say nothing, and unit tests reach it.  The models cover
the code that keeps state across requests, threads, processes and crashes.

*Out of the provers' reach.*  Liveness, `ENABLED` and induction over data.

## 8 The plan

Done, in the order of what an error would cost: paid calls and private results
(`ResumeRepository`, `ResumeWorker`, `TaskLedger`), admission (`ResumeIntake`),
governance (`Orchestration`), publication (`YouTubeJobs`, `CreatorRun`,
`ChannelAccounts`, `EditorialHandoff`), what is claimed of a person (`ResumeTruth`,
`ResumeDelivery`, `EvidenceAgent`), evidence (`Casebook`, `CodexImport`, `EvidenceHub`),
and the job managers (`LocalVideo`, `ResumeJobs`).

What would come next: the GitHub connection, when its token and its record are written
by more than one request; the media cost guard, when something calls it; the deploy
journal of the AWS scripts.  Abstract specifications: a job that is pending, done or
failed, for the four job managers.

## 9 Running it

    tlc -workers 2 -config MCResumeRace.cfg MCResumeWorker.tla
    tlc -workers 2 -config MCDelivery.cfg MCDelivery.tla
    tlapm DeliveryProofs.tla

Each `.cfg` belongs to the module named beside it in `PROJECT.json`; every run ends
within five minutes on two cores.
