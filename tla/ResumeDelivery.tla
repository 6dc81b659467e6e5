---------------------------- MODULE ResumeDelivery ----------------------------
(***************************************************************************)
(* Resume workspace runs (resume_workspace.py): a private run directory,   *)
(* the application bundle it may publish in a library outside the data     *)
(* root, delivery.json that records how far that went, run.json that lists *)
(* the run, and the outcome captured in the evidence hub.                  *)
(*                                                                         *)
(* Runs are processes of their own (command line, page, background job)    *)
(* for applications that want the same directory name.  A bundle is staged *)
(* beside the bundles and renamed into place; the name is looked at before *)
(* it is staged.  A write may fail before or after it replaced its file,   *)
(* and a run may be killed anywhere.  Others use the library as well.      *)
(***************************************************************************)
EXTENDS Naturals

CONSTANTS Run,           \* the runs
          Outsider,      \* owner of what others put into the library
          Plain,         \* date, company, role and job id: the name all want
          MaxFaults,     \* bound on failed writes and syncs, and kills
          MaxOutside     \* bound on what others do in the library

Absent == "absent"

ASSUME DeliveryAssumption ==
    /\ Outsider \notin Run /\ Plain \notin Run
    /\ Absent \notin Run \cup {Outsider, Plain}
    /\ MaxFaults \in Nat /\ MaxOutside \in Nat

VARIABLES pc,        \* where each run is
          asked,     \* whether a library was asked for
          whole,     \* runs with all their artifacts
          target,    \* the name a run chose in the library
          staging,   \* what is in a run's staging directory
          library,   \* who owns the directory of each name, if it is there
          delivery,  \* delivery.json: state, and the name it records
          listed,    \* runs with a run.json
          outcome,   \* delivery state whose digest the evidence hub holds
          unswept,   \* ghost: runs whose staging directory could not be removed
          faults, killed, outside

vars == <<pc, asked, whole, target, staging, library, delivery, listed,
          outcome, unswept, faults, killed, outside>>

-----------------------------------------------------------------------------

\* A bundle may be called Plain, or after its run.
Name == {Plain} \cup Run

State == {"none", "INTERNAL_READY", "APPLICATION_LIBRARY_PENDING",
          "APPLICATION_LIBRARY_SAVED", "APPLICATION_LIBRARY_FAILED",
          "APPLICATION_LIBRARY_PUBLISHED_DURABILITY_UNCERTAIN"}

Step == {"start", "ready", "pending", "choose", "stage",
         "publish", "sync", "saved", "uncertain", "failed", "list",
         "capture", "done", "raised"}

Stopped(r) == pc[r] \in {"done", "raised"} \/ r \in killed

\* What a write leaves of its file: written, failed before the replacement, or
\* failed after it.
Result == {"ok", "lost", "late"}

Counted(result) ==
    /\ result # "ok" => faults < MaxFaults
    /\ faults' = IF result = "ok" THEN faults ELSE faults + 1

Go(r, from, to) ==
    /\ pc[r] = from /\ r \notin killed
    /\ pc' = [pc EXCEPT ![r] = to]

-----------------------------------------------------------------------------
(* run_resume_workspace, up to the library *)

\* The directory is made, and every artifact is written or the run raises.
WriteArtifacts(r, ok) ==
    /\ Go(r, "start", IF ok THEN "ready" ELSE "raised")
    /\ Counted(IF ok THEN "ok" ELSE "lost")
    /\ whole' = IF ok THEN whole \cup {r} ELSE whole
    /\ UNCHANGED <<asked, target, staging, library, delivery, listed, outcome,
                   unswept, killed, outside>>

\* Mutant of Record: the receipt does not keep the path.
RecordStateOnly(r, from, state, name, next, result) ==
    /\ Go(r, from, IF result = "ok" THEN next ELSE "raised")
    /\ Counted(result)
    /\ delivery' = IF result = "lost" THEN delivery
                   ELSE [delivery EXCEPT ![r] = [state |-> state]]
    /\ UNCHANGED <<asked, whole, target, staging, library, listed, outcome,
                   unswept, killed, outside>>

\* A receipt; after it the run goes on to next, or raises.
Record(r, from, state, name, next, result) ==
    /\ Go(r, from, IF result = "ok" THEN next ELSE "raised")
    /\ Counted(result)
    /\ delivery' = IF result = "lost" THEN delivery
                   ELSE [delivery EXCEPT ![r] = [state |-> state, name |-> name]]
    /\ UNCHANGED <<asked, whole, target, staging, library, listed, outcome,
                   unswept, killed, outside>>

RecordReady(r, result) ==
    Record(r, "ready", "INTERNAL_READY", Absent,
           IF r \in asked THEN "pending" ELSE "list", result)

RecordPending(r, result) ==
    Record(r, "pending", "APPLICATION_LIBRARY_PENDING", Absent, "choose",
           result)

-----------------------------------------------------------------------------
(* _application_bundle *)

\* The name all want, or else the name with the run's id; if that is taken
\* too the bundle is refused.
Choose(r) ==
    LET name == IF library[Plain] = Absent THEN Plain ELSE r IN
    /\ Go(r, "choose", IF library[name] = Absent THEN "stage" ELSE "failed")
    /\ target' = [target EXCEPT ![r] = name]
    /\ UNCHANGED <<asked, whole, staging, library, delivery, listed, outcome,
                   unswept, faults, killed, outside>>

\* The staging directory is removed, or cannot be.
Swept(r, left, removed) ==
    /\ staging' = [staging EXCEPT ![r] = IF removed THEN Absent ELSE left]
    /\ unswept' = IF removed THEN unswept ELSE unswept \cup {r}

\* The staging directory and its files; if one fails the directory is removed.
Stage(r) ==
    /\ Go(r, "stage", "publish")
    /\ staging' = [staging EXCEPT ![r] = "whole"]
    /\ UNCHANGED <<asked, whole, target, library, delivery, listed, outcome,
                   unswept, faults, killed, outside>>

StageFails(r, removed) ==
    /\ Go(r, "stage", "failed")
    /\ Counted("lost")
    /\ Swept(r, "partial", removed)
    /\ UNCHANGED <<asked, whole, target, library, delivery, listed, outcome,
                   killed, outside>>

\* A kill in the middle leaves some of them.
StagePartly(r) ==
    /\ pc[r] = "stage" /\ r \notin killed /\ faults < MaxFaults
    /\ faults' = faults + 1
    /\ killed' = killed \cup {r}
    /\ staging' = [staging EXCEPT ![r] = "partial"]
    /\ UNCHANGED <<pc, asked, whole, target, library, delivery, listed,
                   outcome, unswept, outside>>

\* Mutant of Publish: the rename replaces what is there.
PublishReplacing(r) ==
    /\ Go(r, "publish", "sync")
    /\ library' = [library EXCEPT ![target[r]] = r]
    /\ staging' = [staging EXCEPT ![r] = Absent]
    /\ UNCHANGED <<asked, whole, target, delivery, listed, outcome, unswept,
                   faults, killed, outside>>

\* The rename that never replaces ...
Publish(r) ==
    /\ Go(r, "publish", "sync")
    /\ library[target[r]] = Absent
    /\ library' = [library EXCEPT ![target[r]] = r]
    /\ staging' = [staging EXCEPT ![r] = Absent]
    /\ UNCHANGED <<asked, whole, target, delivery, listed, outcome, unswept,
                   faults, killed, outside>>

\* ... fails on a name that was taken since it was chosen.
PublishFails(r, removed) ==
    /\ Go(r, "publish", "failed")
    /\ library[target[r]] # Absent
    /\ Counted(IF removed THEN "ok" ELSE "lost")
    /\ Swept(r, "whole", removed)
    /\ UNCHANGED <<asked, whole, target, library, delivery, listed, outcome,
                   killed, outside>>

\* Mutant of Sync: a failed sync counts as a failed save.
SyncFailing(r, ok) ==
    /\ Go(r, "sync", IF ok THEN "saved" ELSE "failed")
    /\ Counted(IF ok THEN "ok" ELSE "lost")
    /\ UNCHANGED <<asked, whole, target, staging, library, delivery, listed,
                   outcome, unswept, killed, outside>>

Sync(r, ok) ==
    /\ Go(r, "sync", IF ok THEN "saved" ELSE "uncertain")
    /\ Counted(IF ok THEN "ok" ELSE "lost")
    /\ UNCHANGED <<asked, whole, target, staging, library, delivery, listed,
                   outcome, unswept, killed, outside>>

-----------------------------------------------------------------------------
(* run_resume_workspace, after the library *)

RecordSaved(r, result) ==
    Record(r, "saved", "APPLICATION_LIBRARY_SAVED", target[r], "list", result)

\* Mutant of RecordUncertain: the run goes on as if the bundle were saved.
RecordUncertainGoOn(r, result) ==
    Record(r, "uncertain",
           "APPLICATION_LIBRARY_PUBLISHED_DURABILITY_UNCERTAIN", target[r],
           "list", result)

RecordUncertain(r, result) ==
    Record(r, "uncertain",
           "APPLICATION_LIBRARY_PUBLISHED_DURABILITY_UNCERTAIN", target[r],
           "raised", result)

RecordFailed(r, result) ==
    Record(r, "failed", "APPLICATION_LIBRARY_FAILED", Absent, "raised", result)

ListRun(r, result) ==
    /\ Go(r, "list", IF result = "ok" THEN "capture" ELSE "raised")
    /\ Counted(result)
    /\ listed' = IF result = "lost" THEN listed ELSE listed \cup {r}
    /\ UNCHANGED <<asked, whole, target, staging, library, delivery, outcome,
                   unswept, killed, outside>>

\* The artifacts and, for a saved bundle, the digest of delivery.json go to
\* the evidence hub.  An error of the hub becomes a warning; what raises, from
\* a run that is listed, is reading delivery.json for its digest.
Capture(r, ok) ==
    /\ Go(r, "capture", IF ok THEN "done" ELSE "raised")
    /\ Counted(IF ok THEN "ok" ELSE "lost")
    /\ ok \/ r \in asked
    /\ \/ outcome' = outcome
       \/ /\ ok /\ r \in asked
          /\ outcome' = [outcome EXCEPT ![r] = delivery[r].state]
    /\ UNCHANGED <<asked, whole, target, staging, library, delivery, listed,
                   unswept, killed, outside>>

-----------------------------------------------------------------------------
(* The surroundings *)

Kill(r) ==
    /\ ~Stopped(r) /\ faults < MaxFaults
    /\ faults' = faults + 1
    /\ killed' = killed \cup {r}
    /\ UNCHANGED <<pc, asked, whole, target, staging, library, delivery,
                   listed, outcome, unswept, outside>>

\* Somebody makes a directory with a name nobody had taken.
Occupy(name) ==
    /\ outside < MaxOutside /\ library[name] = Absent
    /\ outside' = outside + 1
    /\ library' = [library EXCEPT ![name] = Outsider]
    /\ UNCHANGED <<pc, asked, whole, target, staging, delivery, listed,
                   outcome, unswept, faults, killed>>

Init ==
    /\ pc = [r \in Run |-> "start"]
    /\ asked \in SUBSET Run
    /\ whole = {} /\ listed = {} /\ killed = {}
    /\ target = [r \in Run |-> Absent]
    /\ staging = [r \in Run |-> Absent]
    /\ library = [name \in Name |-> Absent]
    /\ delivery = [r \in Run |-> [state |-> "none", name |-> Absent]]
    /\ outcome = [r \in Run |-> "none"] /\ unswept = {}
    /\ faults = 0 /\ outside = 0

RunStep(r) ==
    \/ Choose(r) \/ Stage(r) \/ Publish(r)
    \/ \E removed \in BOOLEAN : StageFails(r, removed) \/ PublishFails(r, removed)
    \/ \E ok \in BOOLEAN : WriteArtifacts(r, ok) \/ Sync(r, ok) \/ Capture(r, ok)
    \/ \E result \in Result :
          \/ RecordReady(r, result) \/ RecordPending(r, result)
          \/ RecordSaved(r, result) \/ RecordUncertain(r, result)
          \/ RecordFailed(r, result) \/ ListRun(r, result)

Next ==
    \/ \E r \in Run : RunStep(r) \/ StagePartly(r) \/ Kill(r)
    \/ \E name \in Name : Occupy(name)

Spec == Init /\ [][Next]_vars

-----------------------------------------------------------------------------
(* Properties *)

TypeOK ==
    /\ pc \in [Run -> Step]
    /\ asked \subseteq Run /\ whole \subseteq Run /\ listed \subseteq Run
    /\ killed \subseteq Run
    /\ target \in [Run -> Name \cup {Absent}]
    /\ staging \in [Run -> {Absent, "partial", "whole"}]
    /\ library \in [Name -> Run \cup {Outsider, Absent}]
    /\ delivery \in [Run -> [state: State, name: Name \cup {Absent}]]
    /\ outcome \in [Run -> State] /\ unswept \subseteq Run
    /\ faults \in 0..MaxFaults /\ outside \in 0..MaxOutside

Published(r) == \E name \in Name : library[name] = r

\* Whatever fails, and whoever else uses the library, delivery.json does not
\* lie about it: SAVED and UNCERTAIN name the run's own bundle, FAILED and the
\* states before a library was asked mean there is none, and a run that ended
\* in PENDING was killed or could not write its receipt.
DeliveryIsTrue ==
    \A r \in Run :
        /\ delivery[r].state \in
              {"APPLICATION_LIBRARY_SAVED",
               "APPLICATION_LIBRARY_PUBLISHED_DURABILITY_UNCERTAIN"} =>
              delivery[r].name \in Name /\ library[delivery[r].name] = r
        /\ delivery[r].state \in {"none", "INTERNAL_READY",
                                  "APPLICATION_LIBRARY_FAILED"} =>
              ~Published(r)
        /\ delivery[r].state = "APPLICATION_LIBRARY_PENDING" /\ Stopped(r) =>
              faults > 0

\* A listed run has all it lists: its artifacts and, when a library was asked
\* for, a bundle that is saved and the receipt that says so; what the evidence
\* hub was told is what the receipt says (run.json comes after all of them).
ListedIsDelivered ==
    \A r \in Run :
        /\ r \in listed => r \in whole
        /\ r \in listed /\ r \in asked =>
              delivery[r].state = "APPLICATION_LIBRARY_SAVED" /\ Published(r)
        /\ outcome[r] # "none" =>
              r \in listed /\ outcome[r] = delivery[r].state

\* A run publishes one bundle at most, and leaves no staged copy of a private
\* document behind unless it was killed or the copy could not be removed.
NoCopiesLeft ==
    \A r \in Run :
        /\ \A name1, name2 \in Name :
              library[name1] = r /\ library[name2] = r => name1 = name2
        /\ Published(r) => staging[r] = Absent
        /\ staging[r] # Absent /\ Stopped(r) => r \in killed \cup unswept

\* No step ever replaces a directory of the library, whoever made it and
\* whenever (_atomic_rename_directory_no_replace).
NothingReplaced ==
    [][\A name \in Name :
          library[name] # Absent => library'[name] = library[name]]_vars
=============================================================================
