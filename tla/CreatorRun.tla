----------------------------- MODULE CreatorRun -----------------------------
(***************************************************************************)
(* One content run of the Creator workspace: the production job that       *)
(* creates it (creator_production.py), its owner reviews                   *)
(* (content_workspace.py), its renders (video_factory.py), the media       *)
(* review (media_quality.py), the distribution package                     *)
(* (content_distribution.py), the BuildLog handoff (buildlog_handoff.py),  *)
(* and the sealed artifacts and queue entries made from it.                *)
(*                                                                         *)
(* Three threads of one process work on the run's directory without a      *)
(* common lock: the executor of the production manager ("maker"), the      *)
(* executor of the Creator Video manager ("video"), and the UI thread,     *)
(* which serves one request at a time.  The process may stop anywhere.     *)
(*                                                                         *)
(* A text is the number of the review revision that holds it (0 is the     *)
(* generated draft); a rendered file is the renderer that wrote it.  DRAFT *)
(* stands for every review decision other than APPROVED.                   *)
(***************************************************************************)
EXTENDS Naturals, Sequences

CONSTANTS MaxReviews,    \* bound on review revisions
          MaxPosts,      \* bound on publications of the staged text
          MaxCrashes     \* bound on restarts of the process

ASSUME CreatorAssumption ==
    /\ MaxReviews \in Nat /\ MaxPosts \in Nat /\ MaxCrashes \in Nat

VARIABLES
    job,        \* project.json: the phase and what was asked for
    maker,      \* the production thread: step, and review status it read
    render,     \* per renderer: its step inside render_creator_video
    ui,         \* the UI thread: the request it is in the middle of
    visible,    \* the run has its run.json
    reviews,    \* reviews/review-NNNN, in order
    media,      \* the rendered files
    quality,    \* the media the media-quality review approved, if it did
    meta,       \* 27_youtube_upload.json exists
    package,    \* 26_distribution_package.json
    handoff,    \* 12_buildlog_*: the staged text and its preview
    posts,      \* ghost: the texts published, in order
    artifact,   \* creator-artifacts: the review status, per platform
    sealed,     \* what the digests in them are of: a text and a film
    queue,      \* creator-publish-queue: number of items, per platform
    overlapped, \* ghost: two renders of the run were under way at once
    crashes     \* ghost: restarts so far

vars == <<job, maker, render, ui, visible, reviews, media, quality, meta,
          package, handoff, posts, artifact, sealed, queue, overlapped,
          crashes>>

disk == <<visible, reviews, media, quality, meta, package, handoff, posts,
          artifact, sealed, queue>>

-----------------------------------------------------------------------------
(* Types *)

Platform  == {"linkedin", "youtube"}
Renderer  == {"maker", "video"}
Decision  == {"DRAFT", "APPROVED"}
Running   == {"QUEUED", "GENERATING_CONTENT", "RENDERING_VIDEO"}
Phase     == Running \cup {"READY", "AI_NOT_EXECUTED", "FAILED"}
Revision  == 0..MaxReviews

Request == [outputs: SUBSET Platform \ {{}}, add_to_queue: BOOLEAN]

\* The three actions of the production form.
Requests == {[outputs |-> {"linkedin"}, add_to_queue |-> FALSE],
             [outputs |-> {"youtube"}, add_to_queue |-> FALSE],
             [outputs |-> Platform, add_to_queue |-> TRUE]}

NoJob   == [phase |-> "NONE"]
NoMedia == [inputs |-> FALSE, youtube |-> "none", short |-> "none"]
Media   == [inputs: BOOLEAN, youtube: Renderer \cup {"none"},
            short: Renderer \cup {"none"}]
None    == [revision |-> 0]

MediaWhole == media.youtube # "none" /\ media.short # "none"

UnderWay(a) == render[a] \in {"inputs", "youtube", "short", "finish"}

-----------------------------------------------------------------------------
(* The owner's reviews *)

Latest == reviews[Len(reviews)]

\* load_content_review finds the latest directory without its receipt.
ReviewBroken == reviews # <<>> /\ ~Latest.whole

\* load_content_review returns an approved revision.
ReviewApproved == reviews # <<>> /\ Latest.whole /\ Latest.decision = "APPROVED"

Idle == ui = [pc |-> "idle"]

\* Mutant of BeginReview: a packaged run may still be edited.
BeginReviewPackaged(d) ==
    /\ Idle /\ visible
    /\ handoff = None
    /\ ~ReviewBroken /\ Len(reviews) < MaxReviews
    /\ reviews' = Append(reviews, [decision |-> d, whole |-> FALSE])
    /\ ui' = [pc |-> "review"]
    /\ UNCHANGED <<job, maker, render, visible, media, quality, meta, package,
                   handoff, posts, artifact, sealed, queue, overlapped,
                   crashes>>

\* save_content_review up to the creation of the revision's directory.
BeginReview(d) ==
    /\ Idle /\ visible
    /\ handoff = None /\ package = None
    /\ ~ReviewBroken /\ Len(reviews) < MaxReviews
    /\ reviews' = Append(reviews, [decision |-> d, whole |-> FALSE])
    /\ ui' = [pc |-> "review"]
    /\ UNCHANGED <<job, maker, render, visible, media, quality, meta, package,
                   handoff, posts, artifact, sealed, queue, overlapped,
                   crashes>>

\* The texts and, last of all, review.json; a failed write leaves the
\* directory without its receipt.
EndReview(ok) ==
    /\ ui = [pc |-> "review"]
    /\ reviews' = IF ok THEN [reviews EXCEPT ![Len(reviews)].whole = TRUE]
                        ELSE reviews
    /\ ui' = [pc |-> "idle"]
    /\ UNCHANGED <<job, maker, render, visible, media, quality, meta, package,
                   handoff, posts, artifact, sealed, queue, overlapped,
                   crashes>>

-----------------------------------------------------------------------------
(* render_creator_video, run by either executor *)

\* CreatorVideoJobManager.start: nothing happens while a render is queued.
StartRender ==
    /\ Idle /\ visible
    /\ render["video"] = "idle"
    /\ render' = [render EXCEPT !["video"] = "queued"]
    /\ UNCHANGED <<job, maker, ui, disk, overlapped, crashes>>

\* The protected paths are looked at once, before anything is written.
BeginRender(a) ==
    /\ render[a] = "queued"
    /\ render' = [render EXCEPT ![a] =
                     IF media = NoMedia THEN "inputs" ELSE "failed"]
    /\ overlapped' = (overlapped \/ (media = NoMedia
                                     /\ \E b \in Renderer \ {a} : UnderWay(b)))
    /\ UNCHANGED <<job, maker, ui, disk, crashes>>

RenderStep(a, from, to, files) ==
    /\ render[a] = from
    /\ render' = [render EXCEPT ![a] = to]
    /\ media' = files
    /\ UNCHANGED <<job, maker, ui, visible, reviews, quality, meta, package,
                   handoff, posts, artifact, sealed, queue, overlapped,
                   crashes>>

WriteInputs(a)   == RenderStep(a, "inputs", "youtube",
                               [media EXCEPT !.inputs = TRUE])
RenderYouTube(a) == RenderStep(a, "youtube", "short",
                               [media EXCEPT !.youtube = a])
RenderShort(a)   == RenderStep(a, "short", "finish",
                               [media EXCEPT !.short = a])

\* Any failure so far unlinks every protected path, whoever wrote it.
DiscardRender(a) ==
    \E from \in {"inputs", "youtube", "short"} :
        RenderStep(a, from, "failed", NoMedia)

\* The outputs are looked at again, then the receipts are written; a failure
\* here leaves the files.
FinishRender(a, ok) ==
    /\ render[a] = "finish"
    /\ ok => MediaWhole /\ media.inputs
    /\ render' = [render EXCEPT ![a] = IF ok THEN "done" ELSE "failed"]
    /\ UNCHANGED <<job, maker, ui, disk, overlapped, crashes>>

\* The Creator Video manager marks COMPLETE or FAILED and may start again.
EndVideoJob ==
    /\ render["video"] \in {"done", "failed"}
    /\ render' = [render EXCEPT !["video"] = "idle"]
    /\ UNCHANGED <<job, maker, ui, disk, overlapped, crashes>>

-----------------------------------------------------------------------------
(* Requests about media, package and publication *)

\* save_media_quality_review: the decision and the hashes of what is there.
ReviewQuality(ok) ==
    /\ Idle /\ visible
    /\ package = None /\ MediaWhole /\ media.inputs
    /\ quality' = IF ok THEN media ELSE NoMedia
    /\ UNCHANGED <<job, maker, render, ui, visible, reviews, media, meta,
                   package, handoff, posts, artifact, sealed, queue,
                   overlapped, crashes>>

QualityApproved == quality # NoMedia /\ quality = media

\* prepare_distribution_package: the checks.
BeginPackage ==
    /\ Idle /\ visible
    /\ package = None /\ ~meta
    /\ ReviewApproved /\ MediaWhole /\ QualityApproved
    /\ ui' = [pc |-> "package"]
    /\ UNCHANGED <<job, maker, render, disk, overlapped, crashes>>

\* The media are hashed again for the package; the metadata file comes first.
WriteMetadata ==
    /\ ui = [pc |-> "package"]
    /\ MediaWhole
    /\ meta' = TRUE
    /\ ui' = [pc |-> "seal", media |-> media]
    /\ UNCHANGED <<job, maker, render, visible, reviews, media, quality,
                   package, handoff, posts, artifact, sealed, queue,
                   overlapped, crashes>>

\* A file that is gone by then ends the request.
MediaGone ==
    /\ ui = [pc |-> "package"]
    /\ ~MediaWhole
    /\ ui' = [pc |-> "idle"]
    /\ UNCHANGED <<job, maker, render, disk, overlapped, crashes>>

\* The package itself; if it cannot be written the metadata is removed.
WritePackage(ok) ==
    /\ ui.pc = "seal"
    /\ package' = IF ok THEN [revision |-> Len(reviews), media |-> ui.media]
                        ELSE None
    /\ meta' = ok
    /\ ui' = [pc |-> "idle"]
    /\ UNCHANGED <<job, maker, render, visible, reviews, media, quality,
                   handoff, posts, artifact, sealed, queue, overlapped,
                   crashes>>

\* Mutant of Stage: the revision before the approved one is recorded.
StageBefore ==
    /\ Idle /\ visible
    /\ handoff = None /\ ReviewApproved
    /\ handoff' = [revision |-> Len(reviews) - 1, previewed |-> FALSE]
    /\ UNCHANGED <<job, maker, render, ui, visible, reviews, media, quality,
                   meta, package, posts, artifact, sealed, queue, overlapped,
                   crashes>>

\* stage_for_buildlog: the approved text is handed to BuildLog and recorded (one
\* step; a stop in between leaves an orphan in BuildLog that nothing here names).
Stage ==
    /\ Idle /\ visible
    /\ handoff = None /\ ReviewApproved
    /\ handoff' = [revision |-> Len(reviews), previewed |-> FALSE]
    /\ UNCHANGED <<job, maker, render, ui, visible, reviews, media, quality,
                   meta, package, posts, artifact, sealed, queue, overlapped,
                   crashes>>

\* preview_for_buildlog: what BuildLog holds is shown and recorded.
Preview ==
    /\ Idle /\ handoff # None /\ ~handoff.previewed
    /\ handoff' = [handoff EXCEPT !.previewed = TRUE]
    /\ UNCHANGED <<job, maker, render, ui, visible, reviews, media, quality,
                   meta, package, posts, artifact, sealed, queue, overlapped,
                   crashes>>

\* publish_via_buildlog, to the gateway's answer.  The receipt of an earlier
\* publication is not looked at.
Publish ==
    /\ Idle /\ handoff # None
    /\ handoff.previewed
    /\ Len(posts) < MaxPosts
    /\ posts' = Append(posts, handoff.revision)
    /\ UNCHANGED <<job, maker, render, ui, visible, reviews, media, quality,
                   meta, package, handoff, artifact, sealed, queue, overlapped,
                   crashes>>

\* Mutant of BeginAssign: the queue is not looked at.
BeginAssignAgain(p) ==
    /\ Idle
    /\ artifact[p] = "APPROVED"
    /\ queue[p] < 2
    /\ ui' = [pc |-> "assign", platform |-> p]
    /\ UNCHANGED <<job, maker, render, disk, overlapped, crashes>>

\* assign_artifact_to_account up to the look-up in the queue.
BeginAssign(p) ==
    /\ Idle
    /\ artifact[p] = "APPROVED"
    /\ queue[p] = 0
    /\ ui' = [pc |-> "assign", platform |-> p]
    /\ UNCHANGED <<job, maker, render, disk, overlapped, crashes>>

EndAssign ==
    /\ ui.pc = "assign"
    /\ queue' = [queue EXCEPT ![ui.platform] = @ + 1]
    /\ ui' = [pc |-> "idle"]
    /\ UNCHANGED <<job, maker, render, visible, reviews, media, quality, meta,
                   package, handoff, posts, artifact, sealed, overlapped,
                   crashes>>

\* The publish page projects every package into the artifact store again
\* (sync_distribution_artifacts, article first).
Sync(p) ==
    /\ Idle /\ package # None
    /\ ReviewApproved
    /\ p = "youtube" => MediaWhole
    /\ artifact' = [artifact EXCEPT ![p] = "APPROVED"]
    /\ sealed' = IF p = "linkedin"
                 THEN [sealed EXCEPT !.text = Len(reviews)]
                 ELSE [sealed EXCEPT !.film = media.youtube]
    /\ UNCHANGED <<job, maker, render, ui, visible, reviews, media, quality,
                   meta, package, handoff, posts, queue, overlapped, crashes>>

-----------------------------------------------------------------------------
(* The production job *)

At(pc) == maker.pc = pc

MakerStep(phase, next) ==
    /\ job' = [job EXCEPT !.phase = phase]
    /\ maker' = next
    /\ UNCHANGED <<ui, reviews, quality, meta, package, handoff, posts,
                   overlapped, crashes>>

Goto(pc) == [maker EXCEPT !.pc = pc]

Submit(request) ==
    /\ Idle /\ job = NoJob
    /\ job' = [phase |-> "QUEUED", request |-> request]
    /\ maker' = Goto("queued")
    /\ UNCHANGED <<render, ui, disk, overlapped, crashes>>

Begin ==
    /\ At("queued")
    /\ MakerStep("GENERATING_CONTENT", Goto("generate"))
    /\ UNCHANGED <<render, visible, media, artifact, sealed, queue>>

\* runner(): run_content_workspace resolves the evidence, takes or builds the
\* drafts and makes a fresh directory ...
Compose ==
    /\ At("generate")
    /\ MakerStep("GENERATING_CONTENT", Goto("store"))
    /\ UNCHANGED <<render, visible, media, artifact, sealed, queue>>

\* ... and writes the artifacts into it, run.json last.
StoreRun ==
    /\ At("store")
    /\ visible' = TRUE
    /\ MakerStep("GENERATING_CONTENT", Goto("generated"))
    /\ UNCHANGED <<render, media, artifact, sealed, queue>>

\* No model took part although one was asked for: the runner failed for
\* whatever reason, or its run says so.
NotExecuted ==
    /\ maker.pc \in {"generate", "store", "generated"}
    /\ MakerStep("AI_NOT_EXECUTED", Goto("idle"))
    /\ UNCHANGED <<render, visible, media, artifact, sealed, queue>>

Continue ==
    /\ At("generated")
    /\ IF "youtube" \in job.request.outputs
       THEN /\ MakerStep("RENDERING_VIDEO", Goto("render"))
            /\ render' = [render EXCEPT !["maker"] = "queued"]
       ELSE /\ MakerStep("GENERATING_CONTENT", Goto("seal"))
            /\ UNCHANGED render
    /\ UNCHANGED <<visible, media, artifact, sealed, queue>>

Rendered ==
    /\ At("render") /\ render["maker"] = "done"
    /\ render' = [render EXCEPT !["maker"] = "idle"]
    /\ MakerStep(job.phase, Goto("seal"))
    /\ UNCHANGED <<visible, media, artifact, sealed, queue>>

\* create_run_artifacts reads the review once for the status of all artifacts.
ReadReview ==
    /\ At("seal") /\ ~ReviewBroken
    /\ MakerStep(job.phase,
         [pc |-> IF "linkedin" \in job.request.outputs THEN "text" ELSE "film",
          status |-> IF ReviewApproved THEN "APPROVED" ELSE "DRAFT"])
    /\ UNCHANGED <<render, visible, media, artifact, sealed, queue>>

\* Mutant of AfterText: the film of a request for both outputs is forgotten.
AfterTextEnqueue == "enqueue"

AfterText == IF "youtube" \in job.request.outputs THEN "film" ELSE "enqueue"

SealText(status, revision) ==
    /\ artifact' = [artifact EXCEPT !["linkedin"] = status]
    /\ sealed' = [sealed EXCEPT !.text = revision]
    /\ MakerStep(job.phase, Goto(AfterText))
    /\ UNCHANGED <<render, visible, media, queue>>

SealDraft == At("text") /\ maker.status = "DRAFT" /\ SealText("DRAFT", 0)

\* approved_content_artifact looks at the review a second time ...
RecheckReview ==
    /\ At("text") /\ maker.status = "APPROVED"
    /\ ReviewApproved
    /\ MakerStep(job.phase, Goto("path"))
    /\ UNCHANGED <<render, visible, media, artifact, sealed, queue>>

\* ... and for the latest directory a third time; its text is then sealed.
SealApproved == At("path") /\ SealText("APPROVED", Len(reviews))

\* The long film is sealed first; the job fails if the short one is not there.
SealFilm ==
    /\ At("film") /\ media.youtube # "none"
    /\ artifact' = [artifact EXCEPT !["youtube"] = maker.status]
    /\ sealed' = [sealed EXCEPT !.film = media.youtube]
    /\ IF MediaWhole THEN MakerStep(job.phase, Goto("enqueue"))
       ELSE MakerStep("FAILED", [pc |-> "idle", status |-> "DRAFT"])
    /\ UNCHANGED <<render, visible, media, queue>>

\* assign_artifact_to_account, called by the job for each approved artifact
\* that has exactly one eligible account, article first: the look-up ...
LookUp(p) ==
    /\ At("enqueue")
    /\ job.request.add_to_queue /\ maker.status = "APPROVED"
    /\ artifact[p] = "APPROVED"
    /\ MakerStep(job.phase,
         IF queue[p] = 0
         THEN [pc |-> "put", status |-> "APPROVED", platform |-> p]
         ELSE [pc |-> IF p = "linkedin" THEN "enqueue2" ELSE "ready",
               status |-> "APPROVED"])
    /\ UNCHANGED <<render, visible, media, artifact, sealed, queue>>

LookUpNext ==
    /\ At("enqueue2")
    /\ artifact["youtube"] = "APPROVED"
    /\ MakerStep(job.phase,
         IF queue["youtube"] = 0
         THEN [pc |-> "put", status |-> "APPROVED", platform |-> "youtube"]
         ELSE Goto("ready"))
    /\ UNCHANGED <<render, visible, media, artifact, sealed, queue>>

\* ... and the write of the item.
PutItem ==
    /\ At("put")
    /\ queue' = [queue EXCEPT ![maker.platform] = @ + 1]
    /\ MakerStep(job.phase,
         [pc |-> IF maker.platform = "linkedin" THEN "enqueue2" ELSE "ready",
          status |-> "APPROVED"])
    /\ UNCHANGED <<render, visible, media, artifact, sealed>>

Ready ==
    /\ At("enqueue") \/ At("enqueue2") \/ At("ready")
    /\ MakerStep("READY", Goto("idle"))
    /\ UNCHANGED <<render, visible, media, artifact, sealed, queue>>

\* Every exception ends in FAILED: the runner's, the renderer's, an unreadable
\* review, a missing file, a failed write.
Fail ==
    /\ maker.pc \notin {"idle", "queued"}
    /\ At("render") => render["maker"] = "failed"
    /\ render' = [render EXCEPT !["maker"] = "idle"]
    /\ MakerStep("FAILED", [pc |-> "idle", status |-> "DRAFT"])
    /\ UNCHANGED <<visible, media, artifact, sealed, queue>>

-----------------------------------------------------------------------------
\* The process stops and is started again: the threads are gone, the files
\* stay, and nothing resumes a job.
Crash ==
    /\ crashes < MaxCrashes
    /\ crashes' = crashes + 1
    /\ maker' = [pc |-> "idle", status |-> "DRAFT"]
    /\ render' = [a \in Renderer |-> "idle"]
    /\ ui' = [pc |-> "idle"]
    /\ UNCHANGED <<job, disk, overlapped>>

Init ==
    /\ job = NoJob
    /\ maker = [pc |-> "idle", status |-> "DRAFT"]
    /\ render = [a \in Renderer |-> "idle"]
    /\ ui = [pc |-> "idle"]
    /\ visible = FALSE /\ reviews = <<>> /\ media = NoMedia
    /\ quality = NoMedia
    /\ meta = FALSE /\ package = None /\ handoff = None /\ posts = <<>>
    /\ artifact = [p \in Platform |-> "NONE"]
    /\ sealed = [text |-> 0, film |-> "none"]
    /\ queue = [p \in Platform |-> 0]
    /\ overlapped = FALSE /\ crashes = 0

ReviewRequest ==
    \/ \E d \in Decision : BeginReview(d)
    \/ \E ok \in BOOLEAN : EndReview(ok) \/ ReviewQuality(ok)

PackageRequest ==
    \/ BeginPackage \/ WriteMetadata \/ MediaGone
    \/ \E ok \in BOOLEAN : WritePackage(ok)

PublishRequest ==
    \/ Stage \/ Preview \/ Publish \/ EndAssign
    \/ \E p \in Platform : BeginAssign(p) \/ Sync(p)

RenderThread(a) ==
    \/ BeginRender(a) \/ WriteInputs(a) \/ RenderYouTube(a) \/ RenderShort(a)
    \/ DiscardRender(a)
    \/ \E ok \in BOOLEAN : FinishRender(a, ok)

MakerThread ==
    \/ Begin \/ Compose \/ StoreRun \/ NotExecuted \/ Continue \/ Rendered
    \/ ReadReview \/ SealDraft \/ RecheckReview \/ SealApproved \/ SealFilm
    \/ \E p \in Platform : LookUp(p)
    \/ LookUpNext \/ PutItem \/ Ready \/ Fail

Next ==
    \/ ReviewRequest \/ PackageRequest \/ PublishRequest
    \/ StartRender \/ EndVideoJob
    \/ \E a \in Renderer : RenderThread(a)
    \/ \E request \in Requests : Submit(request)
    \/ MakerThread
    \/ Crash

Spec == Init /\ [][Next]_vars

-----------------------------------------------------------------------------
(* Properties *)

\* What each variable may hold.
TypeOK ==
    /\ job = NoJob \/ job \in [phase: Phase, request: Requests]
    /\ maker.status \in Decision
    /\ render \in [Renderer -> {"idle", "queued", "inputs", "youtube", "short",
                                "finish", "done", "failed"}]
    /\ ui.pc \in {"idle", "review", "package", "seal", "assign"}
    /\ visible \in BOOLEAN /\ meta \in BOOLEAN /\ overlapped \in BOOLEAN
    /\ reviews \in Seq([decision: Decision, whole: BOOLEAN])
    /\ media \in Media
    /\ quality \in Media
    /\ package = None \/ package \in [revision: Revision \ {0}, media: Media]
    /\ handoff = None
        \/ handoff \in [revision: Revision \ {0}, previewed: BOOLEAN]
    /\ posts \in Seq(Revision \ {0})
    /\ artifact \in [Platform -> Decision \cup {"NONE"}]
    /\ sealed \in [text: Revision, film: Renderer \cup {"none"}]
    /\ queue \in [Platform -> Nat]
    /\ crashes \in 0..MaxCrashes

\* Once a run is packaged or staged, its text is settled: the package, the
\* staged text and everything ever published are the last review revision,
\* complete and approved, whatever the owner, the threads and restarts do
\* (save_content_review refuses a sealed run; package and staging take the
\* latest review).
SealedTextStands ==
    /\ package # None => ReviewApproved /\ package.revision = Len(reviews)
    /\ handoff # None => ReviewApproved /\ handoff.revision = Len(reviews)
    /\ \A i \in DOMAIN posts : ReviewApproved /\ posts[i] = Len(reviews)

\* The media of a package are the approved ones and stay on disk as they are,
\* unless two renders of the run overlapped: render_creator_video refuses to
\* touch a rendered run, and the media review is bound to hashes.
PackagedMediaStand ==
    package # None /\ ~overlapped =>
        package.media = media /\ quality = media

\* What was sealed stands: the text for its owner, the media for the player.
SealedThingsStand == SealedTextStands /\ PackagedMediaStand

\* A READY job has a visible run and a sealed artifact for each output, and
\* the sealed film is the one on disk unless two renders overlapped: a job
\* whose renderer or sealing failed never says READY.
ReadyIsSealed ==
    job.phase = "READY" =>
        /\ visible
        /\ \A p \in job.request.outputs : artifact[p] # "NONE"
        /\ "youtube" \in job.request.outputs /\ ~overlapped =>
              sealed.film = media.youtube /\ MediaWhole

\* Nothing of a run is queued before the owner approved some revision of it,
\* and repeated requests never multiply an item: a second one can come only
\* from the job that queues what it made, in the moment a request does the
\* same (assign_artifact_to_account looks the item up before it writes it).
RequestsDoNotMultiply ==
    \A p \in Platform :
        /\ queue[p] > 0 =>
              \E i \in DOMAIN reviews : reviews[i].decision = "APPROVED"
        /\ queue[p] > 1 => queue[p] = 2 /\ job.request.add_to_queue

\* The exact owner-approved artifact: an artifact that says APPROVED is sealed
\* from a review revision the owner approved (docstring of
\* approved_content_artifact).
ApprovedTextWasApproved ==
    artifact["linkedin"] = "APPROVED" =>
        reviews[sealed.text].decision = "APPROVED"
=============================================================================
