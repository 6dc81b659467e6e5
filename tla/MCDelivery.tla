------------------------------ MODULE MCDelivery ------------------------------
(***************************************************************************)
(* What is handed over to others, for TLC: the claims of one tailored      *)
(* resume, one run of the evidence agent, the application bundles of       *)
(* resume runs that share a library, the videos sent to YouTube, and the   *)
(* posts handed to BuildLog for the account of a channel.  They share no   *)
(* state, so a behaviour is one of one part, chosen at the start.          *)
(***************************************************************************)
EXTENDS ResumeDelivery, TLC

CONSTANTS Bullet, Summary, Chunk, MaxRounds, MaxQueries, MaxHits, MaxChanges,
          ConnectJob, UploadJob, Lone, Video, Channel, NoJob, NoRequest,
          Account, Attempt, NoAccount, NoAttempt, Staged, NoPlan, Tab

VARIABLES part,
          claims, source, text, docx, warned, rejected, tally, rejectedRewrites,
          review, receipt, stage, candidate, expert,
          round, pending, begun, retrieved, widest, context, cited, asof,
          checked, files, index, changes, agentPc,
          mem, disk, events, cancelled, queue, actor, stopping, accounts,
          receipts, request, used, saved, published,
          attempt, overdue, current, token, authorized, doing, exchanged, parted,
          preview, boundTo, lastReceipt, shown

truthVars == <<stage, claims, source, text, docx, warned, rejected, tally,
               rejectedRewrites, candidate, review, expert, receipt>>
agentVars == <<agentPc, round, pending, begun, retrieved, widest, context, cited,
               asof, checked, files, index, changes>>
filmVars  == <<mem, disk, events, cancelled, queue, actor, stopping, accounts,
               receipts, request, used, saved, published>>
postVars  == <<attempt, overdue, current, token, authorized, doing, exchanged,
               parted, preview, boundTo, lastReceipt, shown>>
allVars   == <<part, vars, truthVars, agentVars, filmVars, postVars>>

Truth == INSTANCE ResumeTruth

Agent == INSTANCE EvidenceAgent WITH pc <- agentPc

\* Two connections beside an upload, two uploads beside a connection; any write
\* of a job file may fail.
Login == INSTANCE YouTubeJobs WITH UploadJob <- {Lone}, WritesMayFail <- TRUE
Film == INSTANCE YouTubeJobs WITH ConnectJob <- {Lone}, WritesMayFail <- TRUE

Post == INSTANCE EditorialHandoff WITH Plan <- Staged, listed <- authorized

ASSUME PartsAssumption == /\ Truth!ResumeTruthAssumption
                          /\ Agent!EvidenceAgentAssumption
                          /\ Login!KindAssumption /\ Film!KindAssumption
                          /\ Post!HandoffAssumption

\* Two kinds of interchangeable ids, which every part uses for its own.
Symmetry == Permutations(ConnectJob) \cup Permutations(UploadJob)

\* One initial state stands for all of a part that takes no step.
DeliveryInit == /\ part \in {"delivery", "truth", "agent", "login", "film", "post"}
                /\ Init /\ Truth!Init /\ Agent!Init /\ Post!HandoffInit
                /\ IF part = "login" THEN Login!Init ELSE Film!Init
                /\ part # "delivery" => asked = {}
                /\ part # "truth" => /\ claims = Bullet
                                     /\ \A b \in Bullet : source[b] = "pass"

DeliveryNext ==
    /\ UNCHANGED part
    /\ \/ part = "delivery" /\ Next /\ UNCHANGED <<truthVars, agentVars, filmVars, postVars>>
       \/ part = "truth" /\ Truth!Next /\ UNCHANGED <<vars, agentVars, filmVars, postVars>>
       \/ part = "agent" /\ Agent!Next /\ UNCHANGED <<vars, truthVars, filmVars, postVars>>
       \/ part = "login" /\ Login!Next /\ UNCHANGED <<vars, truthVars, agentVars, postVars>>
       \/ part = "film" /\ Film!Next /\ UNCHANGED <<vars, truthVars, agentVars, postVars>>
       \/ part = "post" /\ Post!HandoffNext /\ UNCHANGED <<vars, truthVars, agentVars, filmVars>>

DeliverySpec == DeliveryInit /\ [][DeliveryNext]_allVars

------------------------------------------------------------------------------
(* Properties, beside those of the deliveries *)

\* The types of the parts.
PartsTypeOK == /\ part = "delivery" => TypeOK
               /\ part = "truth" => Truth!TypeOK
               /\ part = "agent" => Agent!TypeOK
               /\ part = "login" => Login!TypeOK
               /\ part = "film" => Film!TypeOK
               /\ part = "post" => Post!HandoffTypeOK

\* The provenance receipt of a resume tells the truth of its DOCX: each claim
\* in it is backed, and the counts of the diagnostics are those of the claims.
\* The page's number of rejected suggestions may still count restored claims
\* that an expert's patch has replaced since, and no others.
ReceiptIsHonest == Truth!ExportIsBacked /\ Truth!CountsMatchTheReceipt

\* The agent searches and retrieves within its budgets, whatever was found, and
\* a run is COMPLETED only with citations whose version the index had when they
\* were shown to the model and when they were looked up after its answer.
AgentAnswersFairly == Agent!BudgetsKept /\ Agent!CompletedIsCurrent

\* What a YouTube job or a receipt says of Google is so, and at most one
\* connection that is not being cancelled is shown as active.
ShownIsTrue == /\ part = "login" => Login!ShownIsTrue
               /\ part = "film" => Film!ShownIsTrue
OneLiveConnect == part = "login" => Login!OneLiveConnect

\* An authorization code is sent once and for a current attempt only, and a post
\* goes to the account it was previewed for, never to one that was disconnected.
CodesAreSpentOnce == Post!CodesAreSpentOnce
PostsGoToTheConnected == Post!PostsGoToTheConnected
===============================================================================
