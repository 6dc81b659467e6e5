-------------------------------- MODULE MCDesk --------------------------------
(***************************************************************************)
(* The background jobs of the local page and the evidence catalog, for TLC *)
(* with the fairness of their threads.  The parts share no file and no     *)
(* lock, so a behaviour is one of one part, chosen at the start, and the   *)
(* states of the parts add up instead of multiplying.                      *)
(***************************************************************************)
EXTENDS EvidenceHub, TLC

CONSTANTS Session,
          SessionVersions, \* bound: how often a session file changes
          ParseWorkers,    \* parse threads of an import
          MaxJobs,         \* submissions: imports, renderings or resume jobs
          Retained,        \* ended jobs that are kept in memory
          VideoFaults,     \* writes of a rendering that fail
          MaxRestarts      \* restarts of the process

VARIABLES part,
          file, store, inventory, mem, disk, queued, main, parse, other,
          vLive, vDisk, vQueue, vWorker, vSubmitting, vReceipts, vSubmitted,
          vFaults, vRestarts, vStranded,
          jobs, asked, queue, worker, draft, candidate, runs, submitted, restarts

codexVars == <<file, store, inventory, mem, disk, queued, main, parse, other>>
videoVars == <<vLive, vDisk, vQueue, vWorker, vSubmitting, vReceipts, vSubmitted,
               vFaults, vRestarts, vStranded>>
resumeVars == <<jobs, asked, queue, worker, draft, candidate, runs, submitted,
                restarts>>
allVars == <<part, vars, codexVars, videoVars, resumeVars>>

\* Files can be written, and there is another importer.
Codex == INSTANCE CodexImport WITH
            Job <- 1 .. MaxJobs, NoJob <- 0, MaxVersion <- SessionVersions,
            WritesMayFail <- FALSE, OtherImporter <- TRUE

Video == INSTANCE LocalVideo WITH
            MaxFaults <- VideoFaults,
            live <- vLive, disk <- vDisk, queue <- vQueue, worker <- vWorker,
            submitting <- vSubmitting, receipts <- vReceipts,
            submitted <- vSubmitted, faults <- vFaults, restarts <- vRestarts,
            stranded <- vStranded

Resume == INSTANCE ResumeJobs

ASSUME PartsAssumption == /\ Codex!CodexImportAssumption
                          /\ Video!LocalVideoAssumption
                          /\ Resume!ResumeJobsAssumption

DeskInit == /\ part \in {"hub", "codex", "video", "resume"}
            /\ Init /\ Codex!Init /\ Video!Init /\ Resume!Init
            /\ part # "codex" => file = [s \in Session |-> 0]

DeskNext ==
    /\ UNCHANGED part
    /\ \/ /\ part = "hub" /\ Next
          /\ UNCHANGED <<codexVars, videoVars, resumeVars>>
       \/ /\ part = "codex" /\ Codex!Next
          /\ UNCHANGED <<vars, videoVars, resumeVars>>
       \/ /\ part = "video" /\ Video!Next
          /\ UNCHANGED <<vars, codexVars, resumeVars>>
       \/ /\ part = "resume" /\ Resume!Next
          /\ UNCHANGED <<vars, codexVars, videoVars>>

DeskSpec == /\ DeskInit /\ [][DeskNext]_allVars
            /\ WF_codexVars(part = "codex" /\ \E ok \in BOOLEAN : Codex!Execute(ok))
            /\ \A s \in Session :
                  WF_codexVars(part = "codex" /\ \E ok \in BOOLEAN : Codex!ParseOne(s, ok))
            /\ WF_videoVars(part = "video" /\ Video!Worker)
            /\ WF_videoVars(part = "video" /\ Video!Register)
            /\ WF_resumeVars(part = "resume" /\ Resume!Worker)

------------------------------------------------------------------------------
(* Properties, beside those of the evidence catalog *)

\* The types of the four parts.
DeskTypeOK == /\ part = "hub" => TypeOK
              /\ part = "codex" => Codex!TypeOK
              /\ part = "video" => Video!TypeOK
              /\ part = "resume" => Resume!TypeOK

\* Every import, every rendering and every resume job that began ends, whatever
\* fails to be parsed, rendered or written, or is gone with the process.
\* (EveryJobEnds, EveryRenderEnds and EveryResumeJobEnds of the three modules.)
UnderWay(j) == \/ part = "codex" /\ Codex!UnderWay(j)
               \/ part = "video" /\ Video!UnderWay(j)
               \/ part = "resume" /\ Resume!UnderWay(j)

EveryDeskJobEnds == \A j \in 1 .. MaxJobs : UnderWay(j) ~> ~UnderWay(j)

\* The outcome in the file of an import job is final: neither the executor nor a
\* reader that takes the job for an interrupted one changes it.
ReceiptIsFinal == Codex!ReceiptIsFinal

\* What the page shows as under way is in the hands of a thread or a request,
\* after any failed writes and restarts: pruning forgets ended jobs only, and an
\* error path leaves no record behind but that of the rendering it stranded.
ShownIsUnderWay == /\ part = "video" => Video!ShownIsWorkedOn
                   /\ part = "resume" => Resume!UnderWayIsTrue

\* What is offered is there: a rendering says COMPLETE if and only if its receipt
\* was written; a resume job offers whole runs of every locale asked for, a
\* preview it calls ready, and the expert's text only if it was validated.
OfferedIsTrue ==
    /\ part = "video" => Video!CompleteIsRendered
    /\ part = "resume" => /\ Resume!OfferedIsWhole /\ Resume!PreviewIsThere
                          /\ Resume!ExpertTextIsValidated
===============================================================================
