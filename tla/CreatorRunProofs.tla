-------------------------- MODULE CreatorRunProofs --------------------------
(***************************************************************************)
(* Theorems about CreatorRun, for any number of reviews, publications and  *)
(* restarts: what was sealed, packaged or published is the last approved   *)
(* revision, a packaged film stays as it was approved, READY means sealed, *)
(* and a second queue item for a platform comes from the job alone.        *)
(*                                                                         *)
(* The inductive invariant has a part for the shapes of the records, and   *)
(* one per subject (texts, film, progress of the job, approval, queue).    *)
(* Each part is kept by every step; the lemmas are grouped that way.       *)
(***************************************************************************)
EXTENDS CreatorRun, TLAPS

-----------------------------------------------------------------------------
(* The inductive invariant                                                 *)

\* The places of the production thread but the one that carries a platform.
MakerPlace == {"idle", "queued", "generate", "store", "generated", "render",
               "seal", "text", "path", "film", "enqueue", "enqueue2", "ready"}

\* What the threads carry from one step to the next.
Shapes ==
    /\ \/ maker \in [pc: MakerPlace, status: Decision]
       \/ maker \in [pc: {"put"}, status: {"APPROVED"}, platform: Platform]
    /\ \/ ui \in [pc: {"idle", "review", "package"}]
       \/ ui \in [pc: {"seal"}, media: Media]
       \/ ui \in [pc: {"assign"}, platform: Platform]
    /\ Len(reviews) <= MaxReviews

\* A review is written before the run is packaged or staged, and a package is
\* prepared from an approved revision; what was published had been staged.
TextInv ==
    /\ SealedTextStands
    /\ ui.pc = "review" => /\ package = None /\ handoff = None
                           /\ reviews # <<>> /\ ~Latest.whole
    /\ ui.pc \in {"package", "seal"} => ReviewApproved
    /\ posts # <<>> => handoff # None

\* Renderer a may still write or unlink a file of the run.
Writing(a) == render[a] \in {"inputs", "youtube", "short"}

\* Without an overlap only one renderer is at work, and it has not written the
\* Short yet while it can still touch a file: so a whole film stays.
FilmInv ==
    ~overlapped =>
        /\ \A a, b \in Renderer : UnderWay(a) /\ UnderWay(b) => a = b
        /\ \A a \in Renderer : Writing(a) => media.short = "none"
        /\ ui.pc = "package" => MediaWhole /\ quality = media
        /\ ui.pc = "seal" => MediaWhole /\ ui.media = media /\ quality = media
        /\ package # None => MediaWhole /\ package.media = media /\ quality = media

Sealing == {"text", "path", "film", "enqueue", "enqueue2", "put", "ready"}
Queueing == {"enqueue", "enqueue2", "put", "ready"}

\* Every output asked for has its artifact, and the sealed film is on disk.
OutputsSealed ==
    /\ \A p \in job.request.outputs : artifact[p] # "NONE"
    /\ "youtube" \in job.request.outputs /\ ~overlapped =>
          sealed.film = media.youtube /\ MediaWhole

\* How far the job is says what there is.
ProgressInv ==
    /\ maker.pc # "idle" => job # NoJob /\ job.phase \in Running
    /\ maker.pc \in {"generated", "render", "seal"} \cup Sealing => visible
    /\ maker.pc \in {"text", "path"} => "linkedin" \in job.request.outputs
    /\ maker.pc = "path" => maker.status = "APPROVED"
    /\ maker.pc = "film" => /\ "youtube" \in job.request.outputs
                            /\ "linkedin" \in job.request.outputs =>
                                  artifact["linkedin"] # "NONE"
    /\ maker.pc \in Queueing => OutputsSealed
    /\ job.phase = "READY" => visible /\ OutputsSealed

\* The owner approved some revision of the run.
SomeApproved == \E i \in DOMAIN reviews : reviews[i].decision = "APPROVED"

\* The job that may queue what it made has queued p, or never will.
MakerPast(p) ==
    /\ job # NoJob /\ job.request.add_to_queue
    /\ \/ maker.pc \in {"idle", "ready"}
       \/ /\ p = "linkedin"
          /\ \/ maker.pc = "enqueue2"
             \/ maker.pc = "put" /\ maker.platform = "youtube"

Assigning(p) == ui.pc = "assign" /\ ui.platform = p

\* Nothing that says APPROVED, or is queued, is without an approval.
ApprovalInv ==
    /\ maker.status = "APPROVED" \/ ui.pc = "assign" => SomeApproved
    /\ \A p \in Platform : artifact[p] = "APPROVED" \/ queue[p] > 0 => SomeApproved
    /\ maker.pc \in {"enqueue2", "put"} =>
          job.request.add_to_queue /\ maker.status = "APPROVED"

\* An item comes from the job once, and from a request while there is none.
QueueInv ==
    \A p \in Platform :
        /\ queue[p] <= 2
        /\ Assigning(p) => queue[p] <= 1
        /\ ~MakerPast(p) => /\ queue[p] <= 1
                            /\ Assigning(p) => queue[p] = 0

CreatorInv == TypeOK /\ Shapes /\ TextInv /\ FilmInv /\ ProgressInv
              /\ ApprovalInv /\ QueueInv

-----------------------------------------------------------------------------
(* Types and shapes                                                        *)

Review == [decision: Decision, whole: BOOLEAN]

\* The receipt of the last review is written: nothing else of it changes.
LEMMA WholeReviews ==
  ASSUME NEW s \in Seq(Review), s # <<>>
  PROVE  LET r == [s EXCEPT ![Len(s)].whole = TRUE]
         IN  /\ r \in Seq(Review) /\ Len(r) = Len(s)
             /\ \A i \in 1..Len(s) : r[i].decision = s[i].decision
             /\ r[Len(s)].whole
<1> DEFINE n == Len(s)
           r == [s EXCEPT ![n].whole = TRUE]
<1>1. n \in 1..Len(s) /\ DOMAIN s = 1..Len(s) /\ s[n] \in Review
  OBVIOUS
<1>2. [s[n] EXCEPT !.whole = TRUE] \in Review
  BY <1>1 DEF Review
<1>3. r \in Seq(Review) /\ Len(r) = Len(s)
  BY <1>1, <1>2
<1>4. r[n] = [s[n] EXCEPT !.whole = TRUE]
  BY <1>1
<1>5. \A i \in 1..Len(s) : i # n => r[i] = s[i]
  BY <1>1
<1>6. r[n].whole /\ r[n].decision = s[n].decision
  BY <1>1, <1>4 DEF Review
<1> QED BY <1>3, <1>5, <1>6

LEMMA InitTypes == Init => TypeOK /\ Shapes
<1> SUFFICES ASSUME Init PROVE TypeOK /\ Shapes
  OBVIOUS
<1>1. /\ reviews \in Seq([decision: Decision, whole: BOOLEAN])
      /\ posts \in Seq(Revision \ {0})
  BY DEF Init
<1>2. media \in Media /\ quality \in Media
  BY DEF Init, Media, NoMedia
<1>3. sealed \in [text: Revision, film: Renderer \cup {"none"}]
  BY CreatorAssumption DEF Init, Revision
<1>4. /\ render \in [Renderer -> {"idle", "queued", "inputs", "youtube", "short",
                                "finish", "done", "failed"}]
      /\ artifact \in [Platform -> Decision \cup {"NONE"}]
      /\ queue \in [Platform -> Nat]
  BY DEF Init
<1>5. maker.status \in Decision /\ ui.pc = "idle" /\ crashes \in 0..MaxCrashes
  BY CreatorAssumption DEF Init, Decision
<1>6. TypeOK
  BY <1>1, <1>2, <1>3, <1>4, <1>5 DEF Init, TypeOK
<1>7. Shapes
  BY CreatorAssumption DEF Init, Shapes, MakerPlace, Decision
<1> QED BY <1>6, <1>7

LEMMA ReviewTypes ==
  ASSUME CreatorInv, ReviewRequest
  PROVE  TypeOK' /\ Shapes'
<1> USE CreatorAssumption
    DEF CreatorInv, TypeOK, Shapes
<1>1. ASSUME NEW d \in Decision, BeginReview(d)
      PROVE  TypeOK' /\ Shapes'
  BY <1>1 DEF BeginReview, Decision
<1>2. ASSUME NEW ok \in BOOLEAN, EndReview(ok)
      PROVE  TypeOK' /\ Shapes'
  <2>1. reviews \in Seq(Review) /\ reviews # <<>>
    BY <1>2 DEF EndReview, TextInv, Review
  <2>2. reviews' \in Seq(Review) /\ Len(reviews') = Len(reviews)
    BY <1>2, <2>1, WholeReviews DEF EndReview
  <2> QED BY <1>2, <2>2 DEF EndReview, Review
<1>3. ASSUME NEW ok \in BOOLEAN, ReviewQuality(ok)
      PROVE  TypeOK' /\ Shapes'
  BY <1>3 DEF ReviewQuality, NoMedia, Media
<1> QED BY <1>1, <1>2, <1>3 DEF ReviewRequest

LEMMA PackageTypes ==
  ASSUME CreatorInv, PackageRequest
  PROVE  TypeOK' /\ Shapes'
<1> USE CreatorAssumption
    DEF CreatorInv, TypeOK, Shapes, disk
<1>1. CASE BeginPackage
  BY <1>1 DEF BeginPackage
<1>2. CASE WriteMetadata
  BY <1>2 DEF WriteMetadata
<1>3. CASE MediaGone
  BY <1>3 DEF MediaGone
<1>4. ASSUME NEW ok \in BOOLEAN, WritePackage(ok)
      PROVE  TypeOK' /\ Shapes'
  <2>1. ui.pc = "seal" /\ ui.media \in Media
    BY <1>4 DEF WritePackage
  <2>2. Len(reviews) \in Revision \ {0}
    BY <2>1 DEF TextInv, ReviewApproved, Revision
  <2> QED BY <1>4, <2>1, <2>2 DEF WritePackage
<1> QED BY <1>1, <1>2, <1>3, <1>4 DEF PackageRequest

LEMMA PublishTypes ==
  ASSUME CreatorInv, PublishRequest
  PROVE  TypeOK' /\ Shapes'
<1> USE CreatorAssumption
    DEF CreatorInv, TypeOK, Shapes, disk
<1>0. ReviewApproved => Len(reviews) \in Revision \ {0}
  BY DEF ReviewApproved, Revision
<1>1. CASE Stage
  BY <1>0, <1>1 DEF Stage
<1>2. CASE Preview
  BY <1>2 DEF Preview, None
<1>3. CASE Publish
  BY <1>3 DEF Publish
<1>4. CASE EndAssign
  BY <1>4 DEF EndAssign
<1>5. ASSUME NEW p \in Platform, BeginAssign(p)
      PROVE  TypeOK' /\ Shapes'
  BY <1>5 DEF BeginAssign
<1>6. ASSUME NEW p \in Platform, Sync(p)
      PROVE  TypeOK' /\ Shapes'
  <2>1. media.youtube \in Renderer \cup {"none"}
    BY DEF Media
  <2>2. sealed' \in [text: Revision, film: Renderer \cup {"none"}]
    BY <1>0, <1>6, <2>1 DEF Sync
  <2> QED BY <1>6, <2>2 DEF Sync, Decision
<1> QED BY <1>1, <1>2, <1>3, <1>4, <1>5, <1>6 DEF PublishRequest

LEMMA RenderTypes ==
  ASSUME CreatorInv, StartRender \/ EndVideoJob \/ \E a \in Renderer : RenderThread(a)
  PROVE  TypeOK' /\ Shapes'
<1> USE CreatorAssumption
    DEF CreatorInv, TypeOK, Shapes, disk
<1>1. CASE StartRender
  BY <1>1 DEF StartRender, Renderer
<1>2. CASE EndVideoJob
  BY <1>2 DEF EndVideoJob, Renderer
<1>3. ASSUME NEW a \in Renderer, RenderThread(a)
      PROVE  TypeOK' /\ Shapes'
  <2>1. CASE BeginRender(a)
    BY <2>1 DEF BeginRender
  <2>2. CASE WriteInputs(a)
    <3>1. media' \in Media
      BY <2>2 DEF WriteInputs, RenderStep, Media
    <3> QED BY <2>2, <3>1 DEF WriteInputs, RenderStep
  <2>3. CASE RenderYouTube(a)
    <3>1. media' \in Media
      BY <2>3 DEF RenderYouTube, RenderStep, Media
    <3> QED BY <2>3, <3>1 DEF RenderYouTube, RenderStep
  <2>4. CASE RenderShort(a)
    <3>1. media' \in Media
      BY <2>4 DEF RenderShort, RenderStep, Media
    <3> QED BY <2>4, <3>1 DEF RenderShort, RenderStep
  <2>5. CASE DiscardRender(a)
    BY <2>5 DEF DiscardRender, RenderStep, Media, NoMedia
  <2>6. ASSUME NEW ok \in BOOLEAN, FinishRender(a, ok)
        PROVE  TypeOK' /\ Shapes'
    BY <2>6 DEF FinishRender
  <2> QED BY <1>3, <2>1, <2>2, <2>3, <2>4, <2>5, <2>6 DEF RenderThread
<1> QED BY <1>1, <1>2, <1>3

LEMMA OtherTypes ==
  ASSUME CreatorInv, Crash \/ (\E request \in Requests : Submit(request)) \/ UNCHANGED vars
  PROVE  TypeOK' /\ Shapes'
<1> USE CreatorAssumption
    DEF CreatorInv, TypeOK, Shapes, disk
<1>1. CASE Crash
  BY <1>1 DEF Crash, Decision, MakerPlace
<1>2. ASSUME NEW request \in Requests, Submit(request)
      PROVE  TypeOK' /\ Shapes'
  <2>1. maker.pc = "idle"
    BY <1>2 DEF Submit, ProgressInv
  <2>2. maker' \in [pc: MakerPlace, status: Decision]
    BY <1>2, <2>1 DEF Submit, Goto, MakerPlace
  <2>3. job' \in [phase : Phase, request : Requests]
    BY <1>2 DEF Submit, Phase, Running
  <2> QED BY <1>2, <2>2, <2>3 DEF Submit
<1>3. CASE UNCHANGED vars
  BY <1>3 DEF vars
<1> QED BY <1>1, <1>2, <1>3

\* Where a thread that carries no platform goes.
LEMMA GotoType ==
  ASSUME Shapes, maker.pc # "put", NEW pc \in MakerPlace
  PROVE  /\ Goto(pc) \in [pc: MakerPlace, status: Decision]
         /\ Goto(pc).pc = pc /\ Goto(pc).status = maker.status
BY DEF Shapes, Goto

\* While the job is in the hands of its thread it has a phase and a request.
LEMMA JobInHand ==
  ASSUME CreatorInv, maker.pc # "idle"
  PROVE  /\ job \in [phase: Running, request: Requests]
         /\ job.phase \in Phase
         /\ job.request.outputs \subseteq Platform /\ job.request.outputs # {}
         /\ job.request.add_to_queue \in BOOLEAN
         /\ \A phase \in Phase :
              LET next == [job EXCEPT !.phase = phase]
              IN  /\ next \in [phase: Phase, request: Requests]
                  /\ next.phase = phase /\ next.request = job.request
<1>1. job \in [phase: Phase, request: Requests] /\ job.phase \in Running
  BY DEF CreatorInv, TypeOK, ProgressInv
<1>2. job.request \in Requests
  BY <1>1
<1>3. /\ job.request.outputs \in {{"linkedin"}, {"youtube"}, Platform}
      /\ job.request.add_to_queue \in BOOLEAN
  <2>1. CASE job.request = [outputs |-> {"linkedin"}, add_to_queue |-> FALSE]
    BY <2>1
  <2>2. CASE job.request = [outputs |-> {"youtube"}, add_to_queue |-> FALSE]
    BY <2>2
  <2>3. CASE job.request = [outputs |-> Platform, add_to_queue |-> TRUE]
    BY <2>3
  <2> QED BY <1>2, <2>1, <2>2, <2>3 DEF Requests
<1>5. job.request.outputs \subseteq Platform
  BY <1>3 DEF Platform
<1>4. job.request.outputs # {}
  BY <1>2 DEF Requests, Platform
<1> QED BY <1>1, <1>3, <1>4, <1>5 DEF Phase

\* A step of the job keeps the types when what it writes has them.
LEMMA MakerStepTypes ==
  ASSUME CreatorInv, maker.pc # "idle", NEW phase \in Phase, NEW next,
         \/ next \in [pc: MakerPlace, status: Decision]
         \/ next \in [pc: {"put"}, status: {"APPROVED"}, platform: Platform],
         MakerStep(phase, next), UNCHANGED media,
         visible' \in BOOLEAN, queue' \in [Platform -> Nat],
         artifact' \in [Platform -> Decision \cup {"NONE"}],
         sealed' \in [text: Revision, film: Renderer \cup {"none"}],
         render' \in [Renderer -> {"idle", "queued", "inputs", "youtube", "short",
                                   "finish", "done", "failed"}]
  PROVE  TypeOK' /\ Shapes'
<1>1. job' \in [phase: Phase, request: Requests]
  BY JobInHand DEF MakerStep
<1>2. maker' = next /\ maker'.status \in Decision
  BY DEF MakerStep, Decision
<1> QED BY <1>1, <1>2 DEF MakerStep, CreatorInv, TypeOK, Shapes

LEMMA MakerTypes ==
  ASSUME CreatorInv, MakerThread
  PROVE  TypeOK' /\ Shapes'
<1> USE DEF At
<1>1. /\ visible \in BOOLEAN /\ queue \in [Platform -> Nat]
      /\ artifact \in [Platform -> Decision \cup {"NONE"}]
      /\ sealed \in [text: Revision, film: Renderer \cup {"none"}]
      /\ render \in [Renderer -> {"idle", "queued", "inputs", "youtube", "short",
                                  "finish", "done", "failed"}]
      /\ Shapes /\ maker.status \in Decision
      /\ {"GENERATING_CONTENT", "RENDERING_VIDEO", "READY", "AI_NOT_EXECUTED",
          "FAILED"} \subseteq Phase
      /\ 0 \in Revision /\ Len(reviews) \in Revision
      /\ media.youtube \in Renderer \cup {"none"}
  BY CreatorAssumption DEF CreatorInv, TypeOK, Shapes, Phase, Running, Revision, Media
<1>2. maker.pc # "idle" => job.phase \in Phase
  BY JobInHand
<1>3. \A pc \in MakerPlace : maker.pc # "put" =>
         Goto(pc) \in [pc: MakerPlace, status: Decision]
  BY <1>1, GotoType
<1> USE <1>1, <1>2, <1>3 DEF MakerPlace, Decision
<1>4. CASE Begin \/ Compose
  BY <1>4, MakerStepTypes DEF Begin, Compose
<1>17. CASE StoreRun
  BY <1>17, MakerStepTypes DEF StoreRun
<1>18. CASE NotExecuted
  BY <1>18, MakerStepTypes DEF NotExecuted
<1>5. CASE Continue
  <2>1. [render EXCEPT !["maker"] = "queued"] \in
           [Renderer -> {"idle", "queued", "inputs", "youtube", "short",
                         "finish", "done", "failed"}]
    OBVIOUS
  <2>2. CASE "youtube" \in job.request.outputs
    BY <1>5, <2>1, <2>2, MakerStepTypes DEF Continue
  <2>3. CASE "youtube" \notin job.request.outputs
    BY <1>5, <2>3, MakerStepTypes DEF Continue
  <2> QED BY <2>2, <2>3
<1>6. CASE Rendered
  BY <1>6, MakerStepTypes DEF Rendered
<1>7. CASE ReadReview
  BY <1>7, MakerStepTypes DEF ReadReview, Decision
<1>8. CASE SealDraft
  <2>1. sealed' \in [text: Revision, film: Renderer \cup {"none"}]
    BY <1>8 DEF SealDraft, SealText
  <2> QED BY <1>8, <2>1, MakerStepTypes DEF SealDraft, SealText, AfterText
<1>9. CASE RecheckReview
  BY <1>9, MakerStepTypes DEF RecheckReview
<1>10. CASE SealApproved
  <2>1. sealed' \in [text: Revision, film: Renderer \cup {"none"}]
    BY <1>10 DEF SealApproved, SealText
  <2> QED BY <1>10, <2>1, MakerStepTypes DEF SealApproved, SealText, AfterText
<1>11. CASE SealFilm
  <2>1. sealed' \in [text: Revision, film: Renderer \cup {"none"}]
    BY <1>11 DEF SealFilm
  <2>2. CASE MediaWhole
    BY <1>11, <2>1, <2>2, MakerStepTypes DEF SealFilm
  <2>3. CASE ~MediaWhole
    <3>1. [pc |-> "idle", status |-> "DRAFT"] \in [pc: MakerPlace, status: Decision]
      OBVIOUS
    <3> QED BY <1>11, <2>1, <2>3, <3>1, MakerStepTypes DEF SealFilm
  <2> QED BY <2>2, <2>3
<1>12. ASSUME NEW p \in Platform, LookUp(p)
       PROVE  TypeOK' /\ Shapes'
  BY <1>12, MakerStepTypes DEF LookUp
<1>13. CASE LookUpNext
  <2>1. "youtube" \in Platform
    BY DEF Platform
  <2> QED BY <1>13, <2>1, MakerStepTypes DEF LookUpNext
<1>14. CASE PutItem
  <2>1. queue' \in [Platform -> Nat]
    BY <1>14 DEF PutItem, Shapes
  <2> QED BY <1>14, <2>1, MakerStepTypes DEF PutItem
<1>15. CASE Ready
  BY <1>15, MakerStepTypes DEF Ready
<1>16. CASE Fail
  <2>1. [pc |-> "idle", status |-> "DRAFT"] \in [pc: MakerPlace, status: Decision]
    OBVIOUS
  <2>2. [render EXCEPT !["maker"] = "idle"] \in
           [Renderer -> {"idle", "queued", "inputs", "youtube", "short",
                         "finish", "done", "failed"}]
    OBVIOUS
  <2> QED BY <1>16, <2>1, <2>2, MakerStepTypes DEF Fail
<1> QED BY <1>4, <1>5, <1>6, <1>7, <1>8, <1>9, <1>10, <1>11, <1>12, <1>13, <1>14,
           <1>15, <1>16, <1>17, <1>18 DEF MakerThread

LEMMA TypesKept == CreatorInv /\ [Next]_vars => TypeOK' /\ Shapes'
BY ReviewTypes, PackageTypes, PublishTypes, RenderTypes, OtherTypes, MakerTypes DEF Next

-----------------------------------------------------------------------------
(* What the threads leave alone                                            *)

LEMMA MakerLeaves ==
  MakerThread => UNCHANGED <<ui, reviews, quality, meta, package, handoff, posts,
                             overlapped, crashes, media>>
BY DEF MakerThread, MakerStep, Begin, Compose, StoreRun, NotExecuted, Continue, Rendered,
       ReadReview, SealDraft, SealText, RecheckReview, SealApproved, SealFilm, LookUp,
       LookUpNext, PutItem, Ready, Fail

Rendering == StartRender \/ EndVideoJob \/ \E a \in Renderer : RenderThread(a)

LEMMA RenderLeaves ==
  Rendering => UNCHANGED <<job, maker, ui, visible, reviews, quality, meta, package,
                           handoff, posts, artifact, sealed, queue, crashes>>
BY DEF Rendering, StartRender, EndVideoJob, RenderThread, BeginRender, RenderStep,
       WriteInputs, RenderYouTube, RenderShort, DiscardRender, FinishRender, disk

\* A request leaves the threads of the executors alone.
LEMMA RequestLeaves ==
  ReviewRequest \/ PackageRequest \/ PublishRequest =>
     UNCHANGED <<job, maker, render, visible, media, overlapped, crashes>>
BY DEF ReviewRequest, PackageRequest, PublishRequest, BeginReview, EndReview, ReviewQuality,
       BeginPackage, WriteMetadata, MediaGone, WritePackage, Stage, Preview, Publish,
       EndAssign, BeginAssign, Sync, disk

-----------------------------------------------------------------------------
(* The texts                                                               *)

LEMMA TextFrame ==
  ASSUME TextInv, UNCHANGED <<reviews, package, handoff, posts>>,
         ui'.pc = ui.pc \/ ui'.pc \in {"idle", "assign"}
  PROVE  TextInv'
BY DEF TextInv, SealedTextStands, ReviewApproved, Latest

\* Nothing is sealed while a review is being written, so the revision a package
\* or a publication holds stays the last one.
LEMMA TextKept == CreatorInv /\ [Next]_vars => TextInv'
<1> SUFFICES ASSUME CreatorInv, [Next]_vars PROVE TextInv'
  OBVIOUS
<1> USE DEF CreatorInv, Idle
<1>1. CASE ReviewRequest
  <2>1. ASSUME NEW d \in Decision, BeginReview(d)
        PROVE  TextInv'
    <3>1. posts = <<>> /\ package = None /\ handoff = None
      BY <2>1 DEF BeginReview, TextInv, TypeOK
    <3>2. reviews' # <<>> /\ ~Latest'.whole
      BY <2>1 DEF BeginReview, Latest, TypeOK, Decision
    <3> QED BY <2>1, <3>1, <3>2 DEF BeginReview, TextInv, SealedTextStands
  <2>2. ASSUME NEW ok \in BOOLEAN, EndReview(ok)
        PROVE  TextInv'
    BY <2>2 DEF EndReview, TextInv, SealedTextStands
  <2>3. ASSUME NEW ok \in BOOLEAN, ReviewQuality(ok)
        PROVE  TextInv'
    BY <2>3, TextFrame DEF ReviewQuality
  <2> QED BY <1>1, <2>1, <2>2, <2>3 DEF ReviewRequest
<1>2. CASE PackageRequest
  <2>1. CASE BeginPackage
    BY <2>1 DEF BeginPackage, TextInv, SealedTextStands, ReviewApproved, Latest, disk
  <2>2. CASE WriteMetadata
    BY <2>2 DEF WriteMetadata, TextInv, SealedTextStands, ReviewApproved, Latest
  <2>3. CASE MediaGone
    BY <2>3, TextFrame DEF MediaGone, disk
  <2>4. ASSUME NEW ok \in BOOLEAN, WritePackage(ok)
        PROVE  TextInv'
    BY <2>4 DEF WritePackage, TextInv, SealedTextStands, ReviewApproved, Latest
  <2> QED BY <1>2, <2>1, <2>2, <2>3, <2>4 DEF PackageRequest
<1>3. CASE PublishRequest
  <2>1. CASE Stage
    BY <2>1 DEF Stage, TextInv, SealedTextStands, ReviewApproved, Latest, None
  <2>2. CASE Preview
    BY <2>2 DEF Preview, TextInv, SealedTextStands, ReviewApproved, Latest, None, TypeOK
  <2>3. CASE Publish
    <3>1. posts' = Append(posts, Len(reviews)) /\ ReviewApproved /\ posts \in Seq(Nat)
      BY <2>3 DEF Publish, TextInv, SealedTextStands, TypeOK, Revision
    <3>2. \A i \in DOMAIN posts' : posts'[i] = Len(reviews)
      BY <3>1 DEF TextInv, SealedTextStands
    <3> QED BY <2>3, <3>1, <3>2 DEF Publish, TextInv, SealedTextStands, ReviewApproved, Latest
  <2>4. CASE EndAssign \/ \E p \in Platform : BeginAssign(p) \/ Sync(p)
    BY <2>4, TextFrame DEF EndAssign, BeginAssign, Sync, disk
  <2> QED BY <1>3, <2>1, <2>2, <2>3, <2>4 DEF PublishRequest
<1>4. CASE Rendering
  BY <1>4, RenderLeaves, TextFrame
<1>5. CASE MakerThread
  BY <1>5, MakerLeaves, TextFrame
<1>6. CASE Crash \/ (\E request \in Requests : Submit(request)) \/ UNCHANGED vars
  BY <1>6, TextFrame DEF Crash, Submit, disk, vars
<1> QED BY <1>1, <1>2, <1>3, <1>4, <1>5, <1>6 DEF Next, Rendering

-----------------------------------------------------------------------------
(* The film                                                                *)

LEMMA FilmFrame ==
  ASSUME FilmInv, UNCHANGED <<media, quality, package>>, ~overlapped' => ~overlapped,
         UNCHANGED ui \/ ui'.pc \in {"idle", "assign", "review"},
         \A a \in Renderer : render'[a] = render[a]
                               \/ render'[a] \in {"idle", "queued", "done", "failed"}
  PROVE  FilmInv'
BY DEF FilmInv, UnderWay, Writing, MediaWhole

\* Once both files are there no renderer touches them, unless two renders of the
\* run have overlapped.
LEMMA WholeFilmStays ==
  ASSUME CreatorInv, [Next]_vars, MediaWhole, ~overlapped'
  PROVE  ~overlapped /\ media' = media
<1> USE DEF CreatorInv
<1>1. CASE Rendering
  <2>1. CASE StartRender \/ EndVideoJob
    BY <2>1 DEF StartRender, EndVideoJob, disk
  <2>2. ASSUME NEW a \in Renderer, RenderThread(a)
        PROVE  ~overlapped /\ media' = media
    <3>1. CASE BeginRender(a)
      BY <3>1 DEF BeginRender, disk, TypeOK
    <3>2. ~BeginRender(a) => ~overlapped
      BY <2>2 DEF RenderThread, RenderStep, WriteInputs, RenderYouTube, RenderShort,
                  DiscardRender, FinishRender
    <3>3. ~overlapped => ~Writing(a)
      BY DEF FilmInv, MediaWhole
    <3>4. \A ok \in BOOLEAN : FinishRender(a, ok) => media' = media
      BY DEF FinishRender, disk
    <3> QED BY <2>2, <3>1, <3>2, <3>3, <3>4
            DEF RenderThread, RenderStep, WriteInputs, RenderYouTube, RenderShort,
                DiscardRender, Writing
  <2> QED BY <1>1, <2>1, <2>2 DEF Rendering
<1>2. CASE ReviewRequest \/ PackageRequest \/ PublishRequest
  BY <1>2, RequestLeaves
<1>3. CASE MakerThread
  BY <1>3, MakerLeaves
<1>4. CASE Crash \/ (\E request \in Requests : Submit(request)) \/ UNCHANGED vars
  BY <1>4 DEF Crash, Submit, disk, vars
<1> QED BY <1>1, <1>2, <1>3, <1>4 DEF Next, Rendering

\* A render writes while the run is not packaged: its files are not whole yet.
LEMMA RenderStepKeepsFilm ==
  ASSUME CreatorInv, NEW a \in Renderer, NEW from, NEW to, NEW files \in Media,
         from \in {"inputs", "youtube", "short"}, RenderStep(a, from, to, files),
         to \in {"youtube", "short"} => files.short = media.short,
         to \in {"youtube", "short", "finish", "failed"}
  PROVE  FilmInv'
<1> SUFFICES ASSUME ~overlapped' PROVE FilmInv'
  BY DEF FilmInv
<1> USE DEF RenderStep
<1>1. ~overlapped /\ Writing(a) /\ media.short = "none" /\ ~MediaWhole
  BY DEF CreatorInv, FilmInv, Writing, MediaWhole
<1>2. package = None /\ ui.pc \notin {"package", "seal"}
  BY <1>1 DEF CreatorInv, FilmInv
<1>3. \A b \in Renderer \ {a} : ~UnderWay(b) /\ ~Writing(b) /\ render'[b] = render[b]
  BY <1>1 DEF CreatorInv, FilmInv, UnderWay, Writing, TypeOK
<1>4. \A b, c \in Renderer : UnderWay(b)' /\ UnderWay(c)' => b = c
  BY <1>3 DEF UnderWay
<1>5. \A b \in Renderer : Writing(b)' => media'.short = "none"
  BY <1>1, <1>3 DEF Writing, CreatorInv, TypeOK
<1> QED BY <1>2, <1>4, <1>5 DEF FilmInv

LEMMA FilmKept == CreatorInv /\ [Next]_vars => FilmInv'
<1> SUFFICES ASSUME CreatorInv, [Next]_vars PROVE FilmInv'
  OBVIOUS
<1> USE DEF Idle
<1>0. FilmInv /\ TypeOK
  BY DEF CreatorInv
<1>1. CASE ReviewRequest
  <2>1. ASSUME NEW d \in Decision, BeginReview(d) PROVE FilmInv'
    BY <1>0, <2>1, FilmFrame DEF BeginReview
  <2>2. ASSUME NEW ok \in BOOLEAN, EndReview(ok) PROVE FilmInv'
    BY <1>0, <2>2, FilmFrame DEF EndReview
  <2>3. ASSUME NEW ok \in BOOLEAN, ReviewQuality(ok) PROVE FilmInv'
    BY <1>0, <2>3 DEF ReviewQuality, FilmInv, UnderWay, Writing, MediaWhole
  <2> QED BY <1>1, <2>1, <2>2, <2>3 DEF ReviewRequest
<1>2. CASE PackageRequest
  <2>1. CASE BeginPackage
    BY <1>0, <2>1 DEF BeginPackage, FilmInv, UnderWay, Writing, MediaWhole, QualityApproved, disk
  <2>2. CASE WriteMetadata
    BY <1>0, <2>2 DEF WriteMetadata, FilmInv, UnderWay, Writing, MediaWhole
  <2>3. CASE MediaGone
    BY <1>0, <2>3, FilmFrame DEF MediaGone, disk
  <2>4. ASSUME NEW ok \in BOOLEAN, WritePackage(ok) PROVE FilmInv'
    BY <1>0, <2>4 DEF WritePackage, FilmInv, UnderWay, Writing, MediaWhole
  <2> QED BY <1>2, <2>1, <2>2, <2>3, <2>4 DEF PackageRequest
<1>3. CASE PublishRequest
  BY <1>0, <1>3, FilmFrame DEF PublishRequest, Stage, Preview, Publish, EndAssign, BeginAssign,
                               Sync, disk
<1>4. CASE Rendering
  <2>1. CASE StartRender \/ EndVideoJob
    BY <1>0, <2>1, FilmFrame DEF StartRender, EndVideoJob, TypeOK, disk
  <2>2. ASSUME NEW a \in Renderer, RenderThread(a) PROVE FilmInv'
    <3>1. CASE BeginRender(a)
      <4>1. CASE media = NoMedia
        <5>1. package = None \/ overlapped
          BY <1>0, <4>1 DEF FilmInv, MediaWhole, NoMedia
        <5>2. ui.pc \notin {"package", "seal"} \/ overlapped
          BY <1>0, <4>1 DEF FilmInv, MediaWhole, NoMedia
        <5>3. ~overlapped' => ~overlapped /\ \A b \in Renderer \ {a} : ~UnderWay(b)
          BY <3>1, <4>1 DEF BeginRender
        <5>4. \A b \in Renderer \ {a} : render'[b] = render[b]
          BY <1>0, <3>1 DEF BeginRender, TypeOK
        <5> QED BY <3>1, <4>1, <5>1, <5>2, <5>3, <5>4
                DEF BeginRender, FilmInv, UnderWay, Writing, NoMedia, disk
      <4>2. CASE media # NoMedia
        BY <1>0, <3>1, <4>2, FilmFrame DEF BeginRender, TypeOK, disk
      <4> QED BY <4>1, <4>2
    <3>2. media \in Media
      BY <1>0 DEF TypeOK
    <3>3. CASE WriteInputs(a)
      <4>1. [media EXCEPT !.inputs = TRUE] \in Media
            /\ [media EXCEPT !.inputs = TRUE].short = media.short
        BY <3>2 DEF Media
      <4> QED BY <3>3, <4>1, RenderStepKeepsFilm DEF WriteInputs
    <3>4. CASE RenderYouTube(a)
      <4>1. [media EXCEPT !.youtube = a] \in Media
            /\ [media EXCEPT !.youtube = a].short = media.short
        BY <3>2 DEF Media
      <4> QED BY <3>4, <4>1, RenderStepKeepsFilm DEF RenderYouTube
    <3>5. CASE RenderShort(a)
      <4>1. [media EXCEPT !.short = a] \in Media
        BY <3>2 DEF Media
      <4> QED BY <3>5, <4>1, RenderStepKeepsFilm DEF RenderShort
    <3>6. CASE DiscardRender(a)
      <4>1. NoMedia \in Media
        BY DEF NoMedia, Media
      <4> QED BY <3>6, <4>1, RenderStepKeepsFilm DEF DiscardRender
    <3>7. ASSUME NEW ok \in BOOLEAN, FinishRender(a, ok) PROVE FilmInv'
      BY <1>0, <3>7, FilmFrame DEF FinishRender, TypeOK, disk
    <3> QED BY <2>2, <3>1, <3>3, <3>4, <3>5, <3>6, <3>7 DEF RenderThread
  <2> QED BY <1>4, <2>1, <2>2 DEF Rendering
<1>5. CASE MakerThread
  <2>1. \A a \in Renderer : render'[a] = render[a] \/ render'[a] \in {"idle", "queued"}
    BY <1>0, <1>5 DEF TypeOK, MakerThread, MakerStep, Begin, Compose, StoreRun, NotExecuted,
       Continue, Rendered, ReadReview, SealDraft, SealText, RecheckReview, SealApproved,
       SealFilm, LookUp, LookUpNext, PutItem, Ready, Fail
  <2> QED BY <1>0, <1>5, <2>1, MakerLeaves, FilmFrame
<1>6. CASE Crash \/ (\E request \in Requests : Submit(request)) \/ UNCHANGED vars
  BY <1>0, <1>6, FilmFrame DEF Crash, Submit, disk, vars
<1> QED BY <1>1, <1>2, <1>3, <1>4, <1>5, <1>6 DEF Next, Rendering

-----------------------------------------------------------------------------
(* The progress of the job                                                 *)

\* What is sealed stays sealed, and the sealed film is still the one on disk.
LEMMA SealedStays ==
  ASSUME CreatorInv, [Next]_vars, job'.request = job.request, OutputsSealed,
         \A p \in Platform : artifact[p] # "NONE" => artifact'[p] # "NONE",
         MediaWhole /\ sealed.film = media.youtube => sealed'.film = media.youtube,
         job.request.outputs \subseteq Platform
  PROVE  OutputsSealed'
<1>1. ~overlapped' /\ MediaWhole => ~overlapped /\ media' = media
  BY WholeFilmStays
<1>2. ~overlapped' => ~overlapped
  BY RequestLeaves, MakerLeaves DEF CreatorInv, Next, Crash, Submit, StartRender, EndVideoJob,
     RenderThread, BeginRender, RenderStep, WriteInputs, RenderYouTube, RenderShort,
     DiscardRender, FinishRender, disk, vars, TypeOK
<1> QED BY <1>1, <1>2 DEF OutputsSealed, MediaWhole

LEMMA ProgressFrame ==
  ASSUME CreatorInv, [Next]_vars, UNCHANGED <<job, maker, visible>>,
         \A p \in Platform : artifact[p] # "NONE" => artifact'[p] # "NONE",
         MediaWhole /\ sealed.film = media.youtube => sealed'.film = media.youtube
  PROVE  ProgressInv'
<1>1. OutputsSealed /\ job # NoJob => OutputsSealed'
  <2>1. job # NoJob => job.request.outputs \subseteq Platform
    BY DEF CreatorInv, TypeOK, Requests, Platform
  <2> QED BY <2>1, SealedStays
<1>2. job.phase = "READY" => job # NoJob
  BY DEF NoJob
<1>3. "linkedin" \in Platform
  BY DEF Platform
<1> QED BY <1>1, <1>2, <1>3 DEF CreatorInv, ProgressInv, Queueing, Sealing

\* A step of the job: its next phase and what it did up to there.
LEMMA MakerProgress ==
  ASSUME CreatorInv, MakerThread
  PROVE  ProgressInv'
<1> USE DEF At, MakerStep
<1>1. /\ ProgressInv /\ [Next]_vars /\ UNCHANGED <<overlapped, media>>
      /\ artifact \in [Platform -> Decision \cup {"NONE"}]
  BY MakerLeaves DEF CreatorInv, TypeOK, Next
<1>2. Platform = {"linkedin", "youtube"} /\ "APPROVED" # "NONE" /\ "DRAFT" # "NONE"
  BY DEF Platform
<1>3. maker.pc # "idle" /\ job.request.outputs \subseteq Platform /\ job.request.outputs # {}
      /\ maker.status \in Decision /\ job # NoJob /\ job.phase \in Running
  BY JobInHand DEF CreatorInv, ProgressInv, TypeOK, MakerThread, Begin, Compose, StoreRun,
     NotExecuted, Continue, Rendered, ReadReview, SealDraft, SealText, RecheckReview,
     SealApproved, SealFilm, LookUp, LookUpNext, PutItem, Ready, Fail
<1>4. job'.request = job.request /\ job' # NoJob
  <2>1. job \in [phase: Running, request: Requests]
    BY <1>3, JobInHand
  <2>2. \E phase \in Phase : job' = [job EXCEPT !.phase = phase]
    BY <1>3, JobInHand DEF MakerThread, Begin, Compose, StoreRun,
     NotExecuted, Continue, Rendered, ReadReview, SealDraft, SealText, RecheckReview,
     SealApproved, SealFilm, LookUp, LookUpNext, PutItem, Ready, Fail, Phase, Running
  <2> QED BY <1>3, <2>1, <2>2, JobInHand DEF NoJob, Phase, Running
<1>5. \A pc \in MakerPlace : maker.pc # "put" =>
         Goto(pc).pc = pc /\ Goto(pc).status = maker.status
  BY GotoType DEF CreatorInv
<1>6. \A phase \in Phase : job' = [job EXCEPT !.phase = phase] => job'.phase = phase
  BY <1>3, JobInHand
<1>7. {"GENERATING_CONTENT", "RENDERING_VIDEO", "READY", "AI_NOT_EXECUTED", "FAILED"} \subseteq Phase
      /\ job.phase \in Phase /\ Running \subseteq Phase
  BY <1>3 DEF Phase, Running
<1> USE <1>1, <1>2, <1>3, <1>4, <1>5, <1>6, <1>7 DEF MakerPlace, Queueing, Sealing
<1>8. CASE Begin \/ Compose \/ StoreRun
  <2>1. job'.phase = "GENERATING_CONTENT" /\ maker'.pc \in {"generate", "store", "generated"}
    BY <1>8 DEF Begin, Compose, StoreRun
  <2>2. maker'.pc = "generated" => visible'
    BY <1>8, <2>1 DEF Begin, Compose, StoreRun
  <2> QED BY <2>1, <2>2 DEF ProgressInv, Running
<1>9. CASE NotExecuted \/ Fail
  <2>1. job'.phase \in {"AI_NOT_EXECUTED", "FAILED"} /\ maker'.pc = "idle"
    BY <1>9 DEF NotExecuted, Fail
  <2> QED BY <2>1 DEF ProgressInv
<1>10. CASE Continue \/ Rendered
  <2>1. /\ job'.phase \in Running /\ maker'.pc \in {"render", "seal"}
        /\ UNCHANGED visible /\ maker.pc \in {"generated", "render"}
    <3>1. CASE Continue /\ "youtube" \in job.request.outputs
      BY <3>1 DEF Continue, Running
    <3>2. CASE Continue /\ "youtube" \notin job.request.outputs
      BY <3>2 DEF Continue, Running
    <3>3. CASE Rendered
      BY <3>3 DEF Rendered
    <3> QED BY <1>10, <3>1, <3>2, <3>3
  <2> QED BY <2>1 DEF ProgressInv, Running
<1>11. CASE ReadReview
  <2>1. /\ job'.phase = job.phase /\ UNCHANGED <<visible, artifact, sealed>> /\ maker.pc = "seal"
        /\ maker'.pc = IF "linkedin" \in job.request.outputs THEN "text" ELSE "film"
    BY <1>11 DEF ReadReview
  <2> QED BY <2>1 DEF ProgressInv, Running
<1>12. CASE RecheckReview
  <2>1. /\ job'.phase = job.phase /\ UNCHANGED <<visible, artifact, sealed>> /\ maker.pc = "text"
        /\ maker'.pc = "path" /\ maker'.status = "APPROVED"
    BY <1>12 DEF RecheckReview
  <2> QED BY <2>1 DEF ProgressInv, Running
<1>13. CASE SealDraft \/ SealApproved
  <2>1. /\ job'.phase = job.phase /\ UNCHANGED visible /\ maker.pc \in {"text", "path"}
        /\ maker'.pc = IF "youtube" \in job.request.outputs THEN "film" ELSE "enqueue"
        /\ artifact'["linkedin"] # "NONE"
    BY <1>13 DEF SealDraft, SealApproved, SealText, AfterText
  <2>2. "youtube" \notin job.request.outputs => OutputsSealed'
    BY <2>1 DEF OutputsSealed
  <2> QED BY <2>1, <2>2 DEF ProgressInv, Running
<1>14. CASE SealFilm /\ ~MediaWhole
  <2>1. job'.phase = "FAILED" /\ maker'.pc = "idle"
    BY <1>14 DEF SealFilm
  <2> QED BY <2>1 DEF ProgressInv
<1>16. CASE SealFilm /\ MediaWhole
  <2>1. /\ job'.phase = job.phase /\ UNCHANGED visible /\ maker.pc = "film"
        /\ maker'.pc = "enqueue" /\ MediaWhole'
    BY <1>16 DEF SealFilm, MediaWhole
  <2>2. /\ artifact'["youtube"] # "NONE" /\ artifact'["linkedin"] = artifact["linkedin"]
    BY <1>16 DEF SealFilm, Decision
  <2>3. sealed'.film = media'.youtube
    BY <1>16 DEF SealFilm, CreatorInv, TypeOK
  <2>4. OutputsSealed'
    BY <2>1, <2>2, <2>3 DEF ProgressInv, OutputsSealed
  <2> QED BY <2>1, <2>4 DEF ProgressInv, Running
<1>15. CASE LookUpNext \/ PutItem \/ Ready \/ \E p \in Platform : LookUp(p)
  <2>1. /\ UNCHANGED <<visible, artifact, sealed>>
        /\ maker.pc \in {"enqueue", "enqueue2", "put", "ready"}
    BY <1>15 DEF LookUp, LookUpNext, PutItem, Ready
  <2>2. OutputsSealed'
    BY <2>1 DEF ProgressInv, OutputsSealed, MediaWhole
  <2>3. \/ job'.phase \in Running /\ maker'.pc \in {"enqueue2", "put", "ready"}
        \/ maker'.pc = "idle"
    BY <1>15 DEF LookUp, LookUpNext, PutItem, Ready
  <2> QED BY <2>1, <2>2, <2>3 DEF ProgressInv, Running
<1> QED BY <1>8, <1>9, <1>10, <1>11, <1>12, <1>13, <1>14, <1>15, <1>16 DEF MakerThread

LEMMA ProgressKept == CreatorInv /\ [Next]_vars => ProgressInv'
<1> SUFFICES ASSUME CreatorInv, [Next]_vars PROVE ProgressInv'
  OBVIOUS
<1>1. ASSUME NEW p \in Platform, Sync(p)
      PROVE  ProgressInv'
  <2>1. UNCHANGED <<job, maker, visible>>
        /\ \A q \in Platform : artifact[q] # "NONE" => artifact'[q] # "NONE"
    BY <1>1 DEF Sync, CreatorInv, TypeOK
  <2>2. MediaWhole /\ sealed.film = media.youtube => sealed'.film = media.youtube
    BY <1>1 DEF Sync, CreatorInv, TypeOK
  <2> QED BY <2>1, <2>2, ProgressFrame
<1>2. CASE ReviewRequest \/ PackageRequest \/ Stage \/ Preview \/ Publish \/ EndAssign
           \/ \E p \in Platform : BeginAssign(p)
  <2>1. UNCHANGED <<job, maker, visible, artifact, sealed>>
    BY <1>2 DEF ReviewRequest, BeginReview, EndReview, ReviewQuality, PackageRequest,
       BeginPackage, WriteMetadata, MediaGone, WritePackage, Stage, Preview, Publish,
       EndAssign, BeginAssign, disk
  <2> QED BY <2>1, ProgressFrame
<1>3. CASE Rendering
  BY <1>3, RenderLeaves, ProgressFrame
<1>4. CASE MakerThread
  BY <1>4, MakerProgress
<1>5. CASE Crash
  <2>1. UNCHANGED <<job, visible, media, artifact, sealed, overlapped>> /\ maker'.pc = "idle"
    BY <1>5 DEF Crash, disk
  <2> QED BY <2>1 DEF CreatorInv, ProgressInv, OutputsSealed, MediaWhole, Sealing, Queueing
<1>6. ASSUME NEW request \in Requests, Submit(request)
      PROVE  ProgressInv'
  <2>1. maker.pc = "idle" /\ Shapes
    BY <1>6 DEF Submit, CreatorInv, ProgressInv
  <2>2. maker'.pc = "queued" /\ job' # NoJob /\ job'.phase = "QUEUED"
    BY <1>6, <2>1, GotoType DEF Submit, NoJob, MakerPlace
  <2> QED BY <2>2 DEF ProgressInv, Sealing, Queueing, Running
<1>7. CASE UNCHANGED vars
  BY <1>7, ProgressFrame DEF vars
<1> QED BY <1>1, <1>2, <1>3, <1>4, <1>5, <1>6, <1>7 DEF Next, PublishRequest, Rendering

-----------------------------------------------------------------------------
(* The queue                                                               *)

\* An approval is never taken back: reviews are added and completed.
LEMMA ApprovalStays ==
  ASSUME CreatorInv, [Next]_vars, SomeApproved
  PROVE  SomeApproved'
<1> USE DEF SomeApproved
<1>1. reviews \in Seq(Review)
  BY DEF CreatorInv, TypeOK, Review
<1>2. ASSUME NEW d \in Decision, BeginReview(d)
      PROVE  SomeApproved'
  BY <1>1, <1>2 DEF BeginReview
<1>3. ASSUME NEW ok \in BOOLEAN, EndReview(ok)
      PROVE  SomeApproved'
  <2>1. CASE ok
    <3>1. reviews # <<>> /\ reviews' = [reviews EXCEPT ![Len(reviews)].whole = TRUE]
      BY <1>3, <2>1 DEF EndReview
    <3> QED BY <1>1, <3>1, WholeReviews
  <2>2. CASE ~ok
    BY <1>3, <2>2 DEF EndReview
  <2> QED BY <2>1, <2>2
<1>4. UNCHANGED reviews => SomeApproved'
  OBVIOUS
<1>5. ~ReviewRequest => UNCHANGED reviews
  BY RenderLeaves, MakerLeaves DEF Next, Rendering, PackageRequest, PublishRequest, BeginPackage,
     WriteMetadata, MediaGone, WritePackage, Stage, Preview, Publish, EndAssign, BeginAssign,
     Sync, Crash, Submit, disk, vars
<1>6. \A ok \in BOOLEAN : ReviewQuality(ok) => UNCHANGED reviews
  BY DEF ReviewQuality
<1> QED BY <1>2, <1>3, <1>4, <1>5, <1>6 DEF ReviewRequest

LEMMA ApprovedIsSome ==
  ASSUME reviews \in Seq(Review), ReviewApproved
  PROVE  SomeApproved
BY DEF ReviewApproved, Latest, SomeApproved

\* The requests that queue nothing.
LEMMA OtherRequests ==
  ASSUME ReviewRequest \/ PackageRequest \/ Stage \/ Preview \/ Publish
  PROVE  /\ UNCHANGED <<job, maker, artifact, queue>>
         /\ ui' = ui \/ ui'.pc \in {"idle", "review", "package", "seal"}
<1>1. CASE ReviewRequest
  <2>1. ASSUME NEW d \in Decision, BeginReview(d)
        PROVE  UNCHANGED <<job, maker, artifact, queue>> /\ ui'.pc = "review"
    BY <2>1 DEF BeginReview
  <2>2. ASSUME NEW ok \in BOOLEAN, EndReview(ok)
        PROVE  UNCHANGED <<job, maker, artifact, queue>> /\ ui'.pc = "idle"
    BY <2>2 DEF EndReview
  <2>3. ASSUME NEW ok \in BOOLEAN, ReviewQuality(ok)
        PROVE  UNCHANGED <<job, maker, artifact, queue, ui>>
    BY <2>3 DEF ReviewQuality
  <2> QED BY <1>1, <2>1, <2>2, <2>3 DEF ReviewRequest
<1>2. CASE PackageRequest
  BY <1>2 DEF PackageRequest, BeginPackage, WriteMetadata, MediaGone, WritePackage, disk
<1>3. CASE Stage \/ Preview \/ Publish
  BY <1>3 DEF Stage, Preview, Publish
<1> QED BY <1>1, <1>2, <1>3

LEMMA ApprovalKept == CreatorInv /\ [Next]_vars => ApprovalInv'
<1> SUFFICES ASSUME CreatorInv, [Next]_vars PROVE ApprovalInv'
  OBVIOUS
<1>1. /\ TypeOK /\ Shapes /\ ApprovalInv /\ reviews \in Seq(Review)
      /\ SomeApproved => SomeApproved'
      /\ ReviewApproved => SomeApproved
  BY ApprovalStays, ApprovedIsSome DEF CreatorInv, TypeOK, Review
\* A step that marks nothing as approved and queues nothing.
<1>2. ASSUME UNCHANGED <<artifact, queue, job>>, UNCHANGED maker \/ maker'.pc = "idle",
             maker'.status = "APPROVED" => maker.status = "APPROVED",
             ui'.pc = "assign" => ui.pc = "assign"
      PROVE  ApprovalInv'
  BY <1>1, <1>2 DEF ApprovalInv
<1>3. CASE ReviewRequest \/ PackageRequest \/ Stage \/ Preview \/ Publish
  BY <1>2, <1>3, OtherRequests
<1>4. CASE EndAssign
  <2>1. UNCHANGED <<artifact, job, maker>> /\ ui.pc = "assign" /\ ui'.pc = "idle"
    BY <1>4 DEF EndAssign
  <2> QED BY <1>1, <2>1 DEF ApprovalInv
<1>5. ASSUME NEW p \in Platform, BeginAssign(p)
      PROVE  ApprovalInv'
  BY <1>1, <1>5 DEF BeginAssign, ApprovalInv, disk
<1>6. ASSUME NEW p \in Platform, Sync(p)
      PROVE  ApprovalInv'
  <2>1. UNCHANGED <<queue, job, maker, ui>> /\ SomeApproved'
    BY <1>1, <1>6 DEF Sync
  <2> QED BY <1>1, <2>1 DEF ApprovalInv
<1>7. CASE Rendering
  BY <1>2, <1>7, RenderLeaves
<1>8. CASE Crash \/ UNCHANGED vars
  BY <1>2, <1>8 DEF Crash, disk, vars
<1>9. ASSUME NEW request \in Requests, Submit(request)
      PROVE  ApprovalInv'
  <2>1. maker.pc = "idle"
    BY <1>9 DEF Submit, CreatorInv, ProgressInv
  <2>2. maker'.pc = "queued" /\ maker'.status = maker.status
    BY <1>1, <1>9, <2>1, GotoType DEF Submit, MakerPlace
  <2>3. UNCHANGED <<artifact, queue, ui>>
    BY <1>9 DEF Submit, disk
  <2> QED BY <1>1, <2>2, <2>3 DEF ApprovalInv
<1>10. CASE MakerThread
  <2>1. UNCHANGED <<ui, reviews>>
    BY <1>10, MakerLeaves
  <2>2. maker.pc # "idle" => job'.request = job.request
    <3>1. maker.pc # "idle" => \E phase \in Phase : job' = [job EXCEPT !.phase = phase]
      BY <1>10, JobInHand DEF MakerThread, MakerStep, Begin, Compose, StoreRun,
         NotExecuted, Continue, Rendered, ReadReview, SealDraft, SealText, RecheckReview,
         SealApproved, SealFilm, LookUp, LookUpNext, PutItem, Ready, Fail, Phase, Running
    <3> QED BY <3>1, JobInHand
  <2>3. \A pc \in MakerPlace : maker.pc # "put" => Goto(pc).pc = pc /\ Goto(pc).status = maker.status
    BY <1>1, GotoType
  <2> USE DEF At, MakerStep
  <2>4. CASE Begin \/ Compose \/ StoreRun \/ NotExecuted \/ Continue \/ Rendered \/ RecheckReview
    <3>1. UNCHANGED <<artifact, queue>> /\ maker'.status = maker.status
          /\ maker'.pc \notin {"enqueue2", "put"}
      BY <2>3, <2>4 DEF Begin, Compose, StoreRun, NotExecuted, Continue, Rendered, RecheckReview,
                        MakerPlace
    <3> QED BY <1>1, <2>1, <3>1 DEF ApprovalInv
  <2>5. CASE ReadReview
    BY <1>1, <2>1, <2>5 DEF ReadReview, ApprovalInv
  <2>6. CASE SealDraft \/ SealApproved \/ SealFilm
    <3>1. /\ UNCHANGED queue /\ maker'.pc \notin {"enqueue2", "put"}
          /\ maker'.status \in {maker.status, "DRAFT"}
      BY <2>3, <2>6 DEF SealDraft, SealApproved, SealText, SealFilm, AfterText, MakerPlace
    <3>2. \A p \in Platform : artifact'[p] = "APPROVED" =>
             artifact[p] = "APPROVED" \/ maker.status = "APPROVED"
      BY <1>1, <2>6 DEF SealDraft, SealApproved, SealText, SealFilm, TypeOK, CreatorInv,
                        ProgressInv
    <3> QED BY <1>1, <2>1, <3>1, <3>2 DEF ApprovalInv
  <2>7. CASE LookUpNext \/ PutItem \/ \E p \in Platform : LookUp(p)
    <3>1. /\ maker.status = "APPROVED" /\ job.request.add_to_queue /\ job'.request = job.request
          /\ UNCHANGED artifact
      BY <1>1, <2>2, <2>7 DEF LookUpNext, PutItem, LookUp, ApprovalInv
    <3>2. maker'.status = "APPROVED"
      BY <2>3, <2>7, <3>1 DEF LookUpNext, PutItem, LookUp, MakerPlace
    <3> QED BY <1>1, <2>1, <3>1, <3>2 DEF ApprovalInv
  <2>8. CASE Ready
    <3>1. UNCHANGED <<artifact, queue>> /\ maker'.status = maker.status /\ maker'.pc = "idle"
      BY <2>3, <2>8 DEF Ready, MakerPlace
    <3> QED BY <1>1, <2>1, <3>1 DEF ApprovalInv
  <2>9. CASE Fail
    BY <1>1, <2>1, <2>9 DEF Fail, ApprovalInv
  <2> QED BY <1>10, <2>4, <2>5, <2>6, <2>7, <2>8, <2>9 DEF MakerThread
<1> QED BY <1>3, <1>4, <1>5, <1>6, <1>7, <1>8, <1>9, <1>10 DEF Next, PublishRequest, Rendering

\* What a request leaves of the job leaves MakerPast.
LEMMA QueueFrame ==
  ASSUME QueueInv, UNCHANGED <<queue, job, maker>>,
         \A p \in Platform : Assigning(p)' => Assigning(p)
  PROVE  QueueInv'
BY DEF QueueInv, MakerPast

LEMMA QueueKept == CreatorInv /\ [Next]_vars => QueueInv'
<1> SUFFICES ASSUME CreatorInv, [Next]_vars PROVE QueueInv'
  OBVIOUS
<1>1. TypeOK /\ Shapes /\ QueueInv /\ ApprovalInv /\ ProgressInv
  BY DEF CreatorInv
<1>2. CASE ReviewRequest \/ PackageRequest \/ Stage \/ Preview \/ Publish
  BY <1>1, <1>2, OtherRequests, QueueFrame DEF Assigning
<1>3. CASE EndAssign
  <2>1. /\ ui.platform \in Platform /\ Assigning(ui.platform)
        /\ \A p \in Platform : ~Assigning(p)'
        /\ queue' = [queue EXCEPT ![ui.platform] = @ + 1]
        /\ \A p \in Platform : MakerPast(p)' <=> MakerPast(p)
    BY <1>1, <1>3 DEF EndAssign, Shapes, Assigning, MakerPast
  <2> QED BY <1>1, <2>1 DEF QueueInv, TypeOK
<1>4. ASSUME NEW p \in Platform, BeginAssign(p)
      PROVE  QueueInv'
  <2>1. /\ queue[p] = 0 /\ UNCHANGED queue
        /\ \A q \in Platform : Assigning(q)' => q = p
        /\ \A q \in Platform : MakerPast(q)' <=> MakerPast(q)
    BY <1>4 DEF BeginAssign, Assigning, MakerPast, disk
  <2> QED BY <1>1, <2>1 DEF QueueInv
<1>5. ASSUME NEW p \in Platform, Sync(p)
      PROVE  QueueInv'
  BY <1>1, <1>5, QueueFrame DEF Sync, Assigning
<1>6. CASE Rendering
  BY <1>1, <1>6, RenderLeaves, QueueFrame DEF Assigning
<1>7. CASE UNCHANGED vars
  BY <1>1, <1>7, QueueFrame DEF vars, Assigning
<1>8. CASE Crash
  <2>1. /\ UNCHANGED <<queue, job>> /\ maker'.pc = "idle" /\ ui'.pc = "idle"
    BY <1>8 DEF Crash, disk
  <2> QED BY <1>1, <2>1 DEF QueueInv, MakerPast, Assigning
<1>9. ASSUME NEW request \in Requests, Submit(request)
      PROVE  QueueInv'
  <2>1. /\ UNCHANGED <<queue, ui>> /\ \A p \in Platform : ~MakerPast(p)
    BY <1>9 DEF Submit, MakerPast, disk
  <2> QED BY <1>1, <2>1 DEF QueueInv, Assigning
<1>10. CASE MakerThread
  <2>1. UNCHANGED ui /\ \A p \in Platform : Assigning(p)' <=> Assigning(p)
    BY <1>10, MakerLeaves DEF Assigning
  <2>2. maker.pc # "idle" => job'.request = job.request /\ job' # NoJob /\ job # NoJob
    <3>1. maker.pc # "idle" => \E phase \in Phase : job' = [job EXCEPT !.phase = phase]
      BY <1>10, JobInHand DEF MakerThread, MakerStep, Begin, Compose, StoreRun,
         NotExecuted, Continue, Rendered, ReadReview, SealDraft, SealText, RecheckReview,
         SealApproved, SealFilm, LookUp, LookUpNext, PutItem, Ready, Fail, Phase, Running
    <3> QED BY <1>1, <3>1, JobInHand DEF NoJob, Phase, Running, ProgressInv
  <2>3. \A pc \in MakerPlace : maker.pc # "put" => Goto(pc).pc = pc
    BY <1>1, GotoType
  <2> USE DEF At, MakerStep
  <2>4. ASSUME UNCHANGED queue, \A p \in Platform : MakerPast(p) => MakerPast(p)'
        PROVE  QueueInv'
    BY <1>1, <2>1, <2>4 DEF QueueInv
  <2>6. CASE \/ Begin \/ Compose \/ StoreRun \/ NotExecuted \/ Continue \/ Rendered
             \/ ReadReview \/ SealDraft \/ RecheckReview \/ SealApproved \/ SealFilm
             \/ \E p \in Platform : LookUp(p)
    <3>1. UNCHANGED queue /\ maker.pc \notin {"idle", "ready", "enqueue2", "put"}
      BY <2>6 DEF Begin, Compose, StoreRun, NotExecuted, Continue, Rendered, ReadReview,
         SealDraft, SealText, RecheckReview, SealApproved, SealFilm, LookUp
    <3> QED BY <2>4, <3>1 DEF MakerPast
  <2>7. CASE LookUpNext
    <3>1. UNCHANGED queue /\ maker.pc = "enqueue2"
      BY <2>7 DEF LookUpNext
    <3>3. maker'.pc = "ready" \/ (maker'.pc = "put" /\ maker'.platform = "youtube")
      <4>1. CASE queue["youtube"] = 0
        BY <2>7, <4>1 DEF LookUpNext
      <4>2. CASE queue["youtube"] # 0
        <5>1. maker' = Goto("ready")
          BY <2>7, <4>2 DEF LookUpNext
        <5> QED BY <2>3, <3>1, <5>1 DEF MakerPlace
      <4> QED BY <4>1, <4>2
    <3> QED BY <2>2, <2>4, <3>1, <3>3 DEF MakerPast
  <2>8. CASE Ready \/ Fail
    <3>1. UNCHANGED queue /\ maker'.pc = "idle" /\ maker.pc # "idle"
      BY <2>3, <2>8 DEF Ready, Fail, MakerPlace
    <3> QED BY <2>2, <2>4, <3>1 DEF MakerPast
  <2>5. CASE PutItem
    <3>1. PICK p \in Platform : maker.pc = "put" /\ maker.platform = p
      BY <1>1, <2>5 DEF PutItem, Shapes, MakerPlace
    <3>2. queue' = [queue EXCEPT ![p] = @ + 1]
      BY <2>5, <3>1 DEF PutItem
    <3>3. maker'.pc = IF p = "linkedin" THEN "enqueue2" ELSE "ready"
      BY <2>5, <3>1 DEF PutItem
    <3>4. job.request.add_to_queue
      BY <1>1, <3>1 DEF ApprovalInv
    <3>5. ~MakerPast(p) /\ MakerPast(p)'
      BY <2>2, <3>1, <3>3, <3>4 DEF MakerPast, Platform
    <3>6. \A q \in Platform : MakerPast(q) => MakerPast(q)'
      BY <2>2, <3>1, <3>3, <3>4 DEF MakerPast, Platform
    <3>7. /\ \A q \in Platform \ {p} : queue'[q] = queue[q]
          /\ queue'[p] = queue[p] + 1 /\ queue[p] \in Nat
      BY <1>1, <3>2 DEF TypeOK
    <3> QED BY <1>1, <2>1, <3>5, <3>6, <3>7 DEF QueueInv
  <2> QED BY <1>10, <2>5, <2>6, <2>7, <2>8 DEF MakerThread
<1> QED BY <1>2, <1>3, <1>4, <1>5, <1>6, <1>7, <1>8, <1>9, <1>10
        DEF Next, PublishRequest, Rendering

-----------------------------------------------------------------------------
(* The theorems                                                            *)

LEMMA InitInv == Init => CreatorInv
<1> SUFFICES ASSUME Init PROVE CreatorInv
  OBVIOUS
<1>1. TypeOK /\ Shapes
  BY InitTypes
<1>2. TextInv
  BY DEF Init, TextInv, SealedTextStands
<1>3. FilmInv
  BY DEF Init, FilmInv, UnderWay, Writing
<1>4. ProgressInv
  BY DEF Init, ProgressInv, NoJob, Sealing, Queueing
<1>5. ApprovalInv /\ QueueInv
  BY DEF Init, ApprovalInv, QueueInv, Assigning, Platform
<1> QED BY <1>1, <1>2, <1>3, <1>4, <1>5 DEF CreatorInv

LEMMA StepInv == CreatorInv /\ [Next]_vars => CreatorInv'
BY TypesKept, TextKept, FilmKept, ProgressKept, ApprovalKept, QueueKept DEF CreatorInv

\* The invariant that carries every theorem below: in every state, what the
\* threads are doing is consistent with what is on disk.
THEOREM CreatorInvariant == Spec => []CreatorInv
BY InitInv, StepInv, PTL DEF Spec

\* Every variable holds what the code can put there, for any number of
\* reviews, publications and restarts.
THEOREM CreatorTypes == Spec => []TypeOK
<1>1. CreatorInv => TypeOK
  BY DEF CreatorInv
<1> QED BY <1>1, CreatorInvariant, PTL

\* Once a run is packaged, staged or published its text is settled, and a
\* packaged film is the approved one still (save_content_review,
\* prepare_distribution_package, stage_for_buildlog, render_creator_video).
THEOREM SealedStands == Spec => []SealedThingsStand
<1>1. CreatorInv => SealedThingsStand
  BY DEF CreatorInv, TextInv, FilmInv, SealedThingsStand, PackagedMediaStand
<1> QED BY <1>1, CreatorInvariant, PTL

\* A job that says READY has sealed what it was asked for, whatever its thread
\* met on the way (_execute of the production manager).
THEOREM ReadyMeansSealed == Spec => []ReadyIsSealed
<1>1. CreatorInv => ReadyIsSealed
  BY DEF CreatorInv, ProgressInv, ReadyIsSealed, OutputsSealed
<1> QED BY <1>1, CreatorInvariant, PTL

\* Nothing is queued before an approval, and requests alone queue an item once
\* (assign_artifact_to_account).
THEOREM QueuedOnce == Spec => []RequestsDoNotMultiply
<1>1. CreatorInv => RequestsDoNotMultiply
  BY DEF CreatorInv, TypeOK, ApprovalInv, QueueInv, MakerPast, SomeApproved,
         RequestsDoNotMultiply
<1> QED BY <1>1, CreatorInvariant, PTL

\* A film that is whole is never touched again, by a renderer, by a failed
\* render's clean-up or by a restart, unless two renders of the run overlapped.
THEOREM WholeFilmsStay == Spec => [][MediaWhole /\ ~overlapped' => media' = media]_vars
<1>1. CreatorInv /\ [Next]_vars => [MediaWhole /\ ~overlapped' => media' = media]_vars
  BY WholeFilmStays
<1> QED BY <1>1, CreatorInvariant, PTL DEF Spec
=============================================================================
