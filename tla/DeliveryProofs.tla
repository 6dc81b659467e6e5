----------------------------- MODULE DeliveryProofs -----------------------------
(***************************************************************************)
(* Proofs about what is handed over to others, for every value of the      *)
(* constants of MCDelivery: any number of resume runs and of faults, any   *)
(* claims and chunks, the budgets the agent's constructor allows, any ids  *)
(* of jobs, accounts, attempts and plans.                                  *)
(*                                                                         *)
(* Each part has an inductive invariant of its own.  WholeInv is all of    *)
(* them together: a step of one part is a stutter of every other.  What is *)
(* proved of YouTubeJobs is taken from YouTubeJobsProofs.                  *)
(***************************************************************************)
EXTENDS MCDelivery, FiniteSetTheorems, TLAPS

-----------------------------------------------------------------------------
(* Application bundles.  RunInv says, for one run, what each step of its   *)
(* program has left in the receipt, the library and the staging directory. *)
(* A step changes these for the run that takes it; for any other run the   *)
(* library changes only at a name that was free, so nothing it owns comes  *)
(* or goes (Frame).                                                        *)

\* What is so of a run before its bundle is in the library.
Unpublished == {"start", "ready", "pending", "choose", "stage", "publish",
                "failed"}

InLibrary == {"choose", "stage", "publish", "sync", "saved", "uncertain",
              "failed"}

ReceiptInv(r) ==
    /\ pc[r] \in {"start", "ready"} => delivery[r].state = "none"
    /\ pc[r] = "pending" => delivery[r].state = "INTERNAL_READY" /\ r \in asked
    /\ pc[r] \in InLibrary =>
          delivery[r].state = "APPLICATION_LIBRARY_PENDING" /\ r \in asked
    /\ pc[r] \in {"list", "capture", "done"} =>
          delivery[r].state = IF r \in asked THEN "APPLICATION_LIBRARY_SAVED"
                              ELSE "INTERNAL_READY"
    /\ pc[r] = "raised" /\ delivery[r].state = "APPLICATION_LIBRARY_PENDING" =>
          faults > 0
    /\ r \in killed => faults > 0

LibraryInv(r) ==
    /\ pc[r] \in Unpublished => \A name \in Name : library[name] # r
    /\ r \notin asked => \A name \in Name : library[name] # r
    /\ pc[r] \in {"stage", "publish", "sync", "saved", "uncertain"} =>
          target[r] \in Name
    /\ pc[r] \in {"sync", "saved", "uncertain"} => library[target[r]] = r
    /\ delivery[r].state \in
          {"APPLICATION_LIBRARY_SAVED",
           "APPLICATION_LIBRARY_PUBLISHED_DURABILITY_UNCERTAIN"} =>
          delivery[r].name \in Name /\ library[delivery[r].name] = r
    /\ delivery[r].state \in {"none", "INTERNAL_READY",
                              "APPLICATION_LIBRARY_FAILED"} =>
          \A name \in Name : library[name] # r
    /\ \A name1, name2 \in Name :
          library[name1] = r /\ library[name2] = r => name1 = name2

ListInv(r) ==
    /\ pc[r] \notin {"start", "raised"} => r \in whole
    /\ r \in listed => pc[r] \in {"capture", "done", "raised"} /\ r \in whole
    /\ pc[r] \in {"capture", "done"} => r \in listed
    /\ r \in listed /\ r \in asked =>
          delivery[r].state = "APPLICATION_LIBRARY_SAVED"
    /\ outcome[r] # "none" =>
          pc[r] = "done" /\ r \in listed /\ outcome[r] = delivery[r].state

StagingInv(r) ==
    /\ staging[r] # Absent =>
          \/ pc[r] = "publish" \/ r \in unswept
          \/ pc[r] = "stage" /\ r \in killed
    /\ r \in unswept => pc[r] \in {"failed", "raised"}
    /\ r \in unswept => \A name \in Name : library[name] # r

RunInv(r) == ReceiptInv(r) /\ LibraryInv(r) /\ ListInv(r) /\ StagingInv(r)

IInv == TypeOK /\ \A r \in Run : RunInv(r)

-----------------------------------------------------------------------------

\* What a step of another run, or of an outsider, leaves of a run.
Same(r) ==
    /\ pc'[r] = pc[r] /\ (r \in killed' <=> r \in killed)
    /\ asked' = asked
    /\ (r \in whole' <=> r \in whole) /\ target'[r] = target[r]
    /\ staging'[r] = staging[r] /\ delivery'[r] = delivery[r]
    /\ (r \in listed' <=> r \in listed) /\ outcome'[r] = outcome[r]
    /\ (r \in unswept' <=> r \in unswept)
    /\ faults' \in Nat /\ faults' >= faults
    /\ \A name \in Name : library'[name] = r <=> library[name] = r

\* A run nobody touched keeps its invariant.
LEMMA Frame ==
    ASSUME NEW r \in Run, TypeOK, RunInv(r), Same(r)
    PROVE  RunInv(r)'
<1>1. faults \in Nat /\ faults' \in Nat /\ faults' >= faults
      BY DeliveryAssumption DEF TypeOK, Same
<1>2. ReceiptInv(r)'
      BY <1>1 DEF RunInv, ReceiptInv, Same
<1>3. LibraryInv(r)'
      BY DEF RunInv, LibraryInv, Same
<1>4. ListInv(r)'
      BY DEF RunInv, ListInv, Same
<1>5. StagingInv(r)'
      BY DEF RunInv, StagingInv, Same
<1> QED BY <1>2, <1>3, <1>4, <1>5 DEF RunInv

\* The artifacts: the receipt and the library are untouched.
LEMMA WriteArtifactsInv ==
    ASSUME IInv, NEW s \in Run, NEW ok \in BOOLEAN, WriteArtifacts(s, ok)
    PROVE  IInv'
<1> USE DeliveryAssumption
<1>1. TypeOK'
      BY DEF IInv, TypeOK, WriteArtifacts, Go, Counted, Name, State, Step,
             Absent
<1>2. RunInv(s)'
  <2>1. ReceiptInv(s)'
        BY DEF IInv, TypeOK, RunInv, ReceiptInv, InLibrary, WriteArtifacts, Go,
               Counted, Name, State, Step, Absent
  <2>2. LibraryInv(s)'
        BY DEF IInv, TypeOK, RunInv, ReceiptInv, LibraryInv, InLibrary,
               Unpublished, WriteArtifacts, Go, Counted, Name, State, Step,
               Absent
  <2>3. ListInv(s)'
        BY DEF IInv, TypeOK, RunInv, ReceiptInv, ListInv, WriteArtifacts, Go,
               Counted, Name, State, Step, Absent
  <2>4. StagingInv(s)'
        BY DEF IInv, TypeOK, RunInv, LibraryInv, StagingInv, Unpublished,
               WriteArtifacts, Go, Counted, Name, State, Step, Absent
  <2> QED BY <2>1, <2>2, <2>3, <2>4 DEF RunInv
<1>3. ASSUME NEW r \in Run, r # s PROVE RunInv(r)'
  <2>1. Same(r)
        BY <1>3 DEF IInv, TypeOK, Same, WriteArtifacts, Go, Counted, Name,
           State, Step, Absent
  <2> QED BY <2>1, Frame DEF IInv
<1> QED BY <1>1, <1>2, <1>3 DEF IInv

\* INTERNAL_READY: nothing is in the library yet.
LEMMA RecordReadyInv ==
    ASSUME IInv, NEW s \in Run, NEW result \in Result, RecordReady(s, result)
    PROVE  IInv'
<1> USE DeliveryAssumption
<1>1. TypeOK'
      BY DEF IInv, TypeOK, RecordReady, Record, Go, Counted, Result, Name,
             State, Step, Absent
<1>2. RunInv(s)'
  <2>1. ReceiptInv(s)'
        BY DEF IInv, TypeOK, RunInv, ReceiptInv, InLibrary, RecordReady,
               Record, Go, Counted, Result, Name, State, Step, Absent
  <2>2. LibraryInv(s)'
        BY DEF IInv, TypeOK, RunInv, ReceiptInv, LibraryInv, InLibrary,
               Unpublished, RecordReady, Record, Go, Counted, Result, Name,
               State, Step, Absent
  <2>3. ListInv(s)'
        BY DEF IInv, TypeOK, RunInv, ReceiptInv, ListInv, RecordReady, Record,
               Go, Counted, Result, Name, State, Step, Absent
  <2>4. StagingInv(s)'
        BY DEF IInv, TypeOK, RunInv, LibraryInv, StagingInv, Unpublished,
               RecordReady, Record, Go, Counted, Result, Name, State, Step,
               Absent
  <2> QED BY <2>1, <2>2, <2>3, <2>4 DEF RunInv
<1>3. ASSUME NEW r \in Run, r # s PROVE RunInv(r)'
  <2>1. Same(r)
        BY <1>3 DEF IInv, TypeOK, Same, RecordReady, Record, Go, Counted,
           Result, Name, State, Step, Absent
  <2> QED BY <2>1, Frame DEF IInv
<1> QED BY <1>1, <1>2, <1>3 DEF IInv

\* PENDING: a run that stops here has failed to write.
LEMMA RecordPendingInv ==
    ASSUME IInv, NEW s \in Run, NEW result \in Result, RecordPending(s, result)
    PROVE  IInv'
<1> USE DeliveryAssumption
<1>1. TypeOK'
      BY DEF IInv, TypeOK, RecordPending, Record, Go, Counted, Result, Name,
             State, Step, Absent
<1>2. RunInv(s)'
  <2>1. ReceiptInv(s)'
        BY DEF IInv, TypeOK, RunInv, ReceiptInv, InLibrary, RecordPending,
               Record, Go, Counted, Result, Name, State, Step, Absent
  <2>2. LibraryInv(s)'
        BY DEF IInv, TypeOK, RunInv, ReceiptInv, LibraryInv, InLibrary,
               Unpublished, RecordPending, Record, Go, Counted, Result, Name,
               State, Step, Absent
  <2>3. ListInv(s)'
        BY DEF IInv, TypeOK, RunInv, ReceiptInv, ListInv, RecordPending,
               Record, Go, Counted, Result, Name, State, Step, Absent
  <2>4. StagingInv(s)'
        BY DEF IInv, TypeOK, RunInv, LibraryInv, StagingInv, Unpublished,
               RecordPending, Record, Go, Counted, Result, Name, State, Step,
               Absent
  <2> QED BY <2>1, <2>2, <2>3, <2>4 DEF RunInv
<1>3. ASSUME NEW r \in Run, r # s PROVE RunInv(r)'
  <2>1. Same(r)
        BY <1>3 DEF IInv, TypeOK, Same, RecordPending, Record, Go, Counted,
           Result, Name, State, Step, Absent
  <2> QED BY <2>1, Frame DEF IInv
<1> QED BY <1>1, <1>2, <1>3 DEF IInv

\* A name is chosen; nothing is published.
LEMMA ChooseInv ==
    ASSUME IInv, NEW s \in Run, Choose(s)
    PROVE  IInv'
<1> USE DeliveryAssumption
<1>1. TypeOK'
      BY DEF IInv, TypeOK, Choose, Go, Name, State, Step, Absent
<1>2. RunInv(s)'
  <2>1. ReceiptInv(s)'
        BY DEF IInv, TypeOK, RunInv, ReceiptInv, InLibrary, Choose, Go, Name,
               State, Step, Absent
  <2>2. LibraryInv(s)'
        BY DEF IInv, TypeOK, RunInv, ReceiptInv, LibraryInv, InLibrary,
               Unpublished, Choose, Go, Name, State, Step, Absent
  <2>3. ListInv(s)'
        BY DEF IInv, TypeOK, RunInv, ReceiptInv, ListInv, Choose, Go, Name,
               State, Step, Absent
  <2>4. StagingInv(s)'
        BY DEF IInv, TypeOK, RunInv, LibraryInv, StagingInv, Unpublished,
               Choose, Go, Name, State, Step, Absent
  <2> QED BY <2>1, <2>2, <2>3, <2>4 DEF RunInv
<1>3. ASSUME NEW r \in Run, r # s PROVE RunInv(r)'
  <2>1. Same(r)
        BY <1>3 DEF IInv, TypeOK, Same, Choose, Go, Name, State, Step, Absent
  <2> QED BY <2>1, Frame DEF IInv
<1> QED BY <1>1, <1>2, <1>3 DEF IInv

\* The staging directory is there until the rename.
LEMMA StageInv ==
    ASSUME IInv, NEW s \in Run, Stage(s)
    PROVE  IInv'
<1> USE DeliveryAssumption
<1>1. TypeOK'
      BY DEF IInv, TypeOK, Stage, Go, Name, State, Step, Absent
<1>2. RunInv(s)'
  <2>1. ReceiptInv(s)'
        BY DEF IInv, TypeOK, RunInv, ReceiptInv, InLibrary, Stage, Go, Name,
               State, Step, Absent
  <2>2. LibraryInv(s)'
        BY DEF IInv, TypeOK, RunInv, ReceiptInv, LibraryInv, InLibrary,
               Unpublished, Stage, Go, Name, State, Step, Absent
  <2>3. ListInv(s)'
        BY DEF IInv, TypeOK, RunInv, ReceiptInv, ListInv, Stage, Go, Name,
               State, Step, Absent
  <2>4. StagingInv(s)'
        BY DEF IInv, TypeOK, RunInv, LibraryInv, StagingInv, Unpublished,
               Stage, Go, Name, State, Step, Absent
  <2> QED BY <2>1, <2>2, <2>3, <2>4 DEF RunInv
<1>3. ASSUME NEW r \in Run, r # s PROVE RunInv(r)'
  <2>1. Same(r)
        BY <1>3 DEF IInv, TypeOK, Same, Stage, Go, Name, State, Step, Absent
  <2> QED BY <2>1, Frame DEF IInv
<1> QED BY <1>1, <1>2, <1>3 DEF IInv

\* What could not be swept is remembered.
LEMMA StageFailsInv ==
    ASSUME IInv, NEW s \in Run, NEW removed \in BOOLEAN, StageFails(s, removed)
    PROVE  IInv'
<1> USE DeliveryAssumption
<1>1. TypeOK'
      BY DEF IInv, TypeOK, StageFails, Swept, Go, Counted, Name, State, Step,
             Absent
<1>2. RunInv(s)'
  <2>1. ReceiptInv(s)'
        BY DEF IInv, TypeOK, RunInv, ReceiptInv, InLibrary, StageFails, Swept,
               Go, Counted, Name, State, Step, Absent
  <2>2. LibraryInv(s)'
        BY DEF IInv, TypeOK, RunInv, ReceiptInv, LibraryInv, InLibrary,
               Unpublished, StageFails, Swept, Go, Counted, Name, State, Step,
               Absent
  <2>3. ListInv(s)'
        BY DEF IInv, TypeOK, RunInv, ReceiptInv, ListInv, StageFails, Swept,
               Go, Counted, Name, State, Step, Absent
  <2>4. StagingInv(s)'
        BY DEF IInv, TypeOK, RunInv, LibraryInv, StagingInv, Unpublished,
               StageFails, Swept, Go, Counted, Name, State, Step, Absent
  <2> QED BY <2>1, <2>2, <2>3, <2>4 DEF RunInv
<1>3. ASSUME NEW r \in Run, r # s PROVE RunInv(r)'
  <2>1. Same(r)
        BY <1>3 DEF IInv, TypeOK, Same, StageFails, Swept, Go, Counted, Name,
           State, Step, Absent
  <2> QED BY <2>1, Frame DEF IInv
<1> QED BY <1>1, <1>2, <1>3 DEF IInv

\* A kill counts as a fault.
LEMMA StagePartlyInv ==
    ASSUME IInv, NEW s \in Run, StagePartly(s)
    PROVE  IInv'
<1> USE DeliveryAssumption
<1>1. TypeOK'
      BY DEF IInv, TypeOK, StagePartly, Name, State, Step, Absent
<1>2. RunInv(s)'
  <2>1. ReceiptInv(s)'
        BY DEF IInv, TypeOK, RunInv, ReceiptInv, InLibrary, StagePartly, Name,
               State, Step, Absent
  <2>2. LibraryInv(s)'
        BY DEF IInv, TypeOK, RunInv, ReceiptInv, LibraryInv, InLibrary,
               Unpublished, StagePartly, Name, State, Step, Absent
  <2>3. ListInv(s)'
        BY DEF IInv, TypeOK, RunInv, ReceiptInv, ListInv, StagePartly, Name,
               State, Step, Absent
  <2>4. StagingInv(s)'
        BY DEF IInv, TypeOK, RunInv, LibraryInv, StagingInv, Unpublished,
               StagePartly, Name, State, Step, Absent
  <2> QED BY <2>1, <2>2, <2>3, <2>4 DEF RunInv
<1>3. ASSUME NEW r \in Run, r # s PROVE RunInv(r)'
  <2>1. Same(r)
        BY <1>3 DEF IInv, TypeOK, Same, StagePartly, Name, State, Step, Absent
  <2> QED BY <2>1, Frame DEF IInv
<1> QED BY <1>1, <1>2, <1>3 DEF IInv

\* The name was free, so the bundle is the run's only one.
LEMMA PublishInv ==
    ASSUME IInv, NEW s \in Run, Publish(s)
    PROVE  IInv'
<1> USE DeliveryAssumption
<1>1. TypeOK'
      BY DEF IInv, TypeOK, Publish, Go, Name, State, Step, Absent
<1>2. RunInv(s)'
  <2>1. ReceiptInv(s)'
        BY DEF IInv, TypeOK, RunInv, ReceiptInv, InLibrary, Publish, Go, Name,
               State, Step, Absent
  <2>2. LibraryInv(s)'
        BY DEF IInv, TypeOK, RunInv, ReceiptInv, LibraryInv, InLibrary,
               Unpublished, Publish, Go, Name, State, Step, Absent
  <2>3. ListInv(s)'
        BY DEF IInv, TypeOK, RunInv, ReceiptInv, ListInv, Publish, Go, Name,
               State, Step, Absent
  <2>4. StagingInv(s)'
        BY DEF IInv, TypeOK, RunInv, LibraryInv, StagingInv, Unpublished,
               Publish, Go, Name, State, Step, Absent
  <2> QED BY <2>1, <2>2, <2>3, <2>4 DEF RunInv
<1>3. ASSUME NEW r \in Run, r # s PROVE RunInv(r)'
  <2>1. Same(r)
        BY <1>3 DEF IInv, TypeOK, Same, Publish, Go, Name, State, Step, Absent
  <2> QED BY <2>1, Frame DEF IInv
<1> QED BY <1>1, <1>2, <1>3 DEF IInv

\* A name that was taken leaves the run without a bundle.
LEMMA PublishFailsInv ==
    ASSUME IInv, NEW s \in Run, NEW removed \in BOOLEAN, PublishFails(s, removed)
    PROVE  IInv'
<1> USE DeliveryAssumption
<1>1. TypeOK'
      BY DEF IInv, TypeOK, PublishFails, Swept, Go, Counted, Name, State, Step,
             Absent
<1>2. RunInv(s)'
  <2>1. ReceiptInv(s)'
        BY DEF IInv, TypeOK, RunInv, ReceiptInv, InLibrary, PublishFails,
               Swept, Go, Counted, Name, State, Step, Absent
  <2>2. LibraryInv(s)'
        BY DEF IInv, TypeOK, RunInv, ReceiptInv, LibraryInv, InLibrary,
               Unpublished, PublishFails, Swept, Go, Counted, Name, State,
               Step, Absent
  <2>3. ListInv(s)'
        BY DEF IInv, TypeOK, RunInv, ReceiptInv, ListInv, PublishFails, Swept,
               Go, Counted, Name, State, Step, Absent
  <2>4. StagingInv(s)'
        BY DEF IInv, TypeOK, RunInv, LibraryInv, StagingInv, Unpublished,
               PublishFails, Swept, Go, Counted, Name, State, Step, Absent
  <2> QED BY <2>1, <2>2, <2>3, <2>4 DEF RunInv
<1>3. ASSUME NEW r \in Run, r # s PROVE RunInv(r)'
  <2>1. Same(r)
        BY <1>3 DEF IInv, TypeOK, Same, PublishFails, Swept, Go, Counted, Name,
           State, Step, Absent
  <2> QED BY <2>1, Frame DEF IInv
<1> QED BY <1>1, <1>2, <1>3 DEF IInv

\* Synced or not, the bundle is there.
LEMMA SyncInv ==
    ASSUME IInv, NEW s \in Run, NEW ok \in BOOLEAN, Sync(s, ok)
    PROVE  IInv'
<1> USE DeliveryAssumption
<1>1. TypeOK'
      BY DEF IInv, TypeOK, Sync, Go, Counted, Name, State, Step, Absent
<1>2. RunInv(s)'
  <2>1. ReceiptInv(s)'
        BY DEF IInv, TypeOK, RunInv, ReceiptInv, InLibrary, Sync, Go, Counted,
               Name, State, Step, Absent
  <2>2. LibraryInv(s)'
        BY DEF IInv, TypeOK, RunInv, ReceiptInv, LibraryInv, InLibrary,
               Unpublished, Sync, Go, Counted, Name, State, Step, Absent
  <2>3. ListInv(s)'
        BY DEF IInv, TypeOK, RunInv, ReceiptInv, ListInv, Sync, Go, Counted,
               Name, State, Step, Absent
  <2>4. StagingInv(s)'
        BY DEF IInv, TypeOK, RunInv, LibraryInv, StagingInv, Unpublished, Sync,
               Go, Counted, Name, State, Step, Absent
  <2> QED BY <2>1, <2>2, <2>3, <2>4 DEF RunInv
<1>3. ASSUME NEW r \in Run, r # s PROVE RunInv(r)'
  <2>1. Same(r)
        BY <1>3 DEF IInv, TypeOK, Same, Sync, Go, Counted, Name, State, Step,
           Absent
  <2> QED BY <2>1, Frame DEF IInv
<1> QED BY <1>1, <1>2, <1>3 DEF IInv

\* SAVED names the run's bundle.
LEMMA RecordSavedInv ==
    ASSUME IInv, NEW s \in Run, NEW result \in Result, RecordSaved(s, result)
    PROVE  IInv'
<1> USE DeliveryAssumption
<1>1. TypeOK'
      BY DEF IInv, TypeOK, RecordSaved, Record, Go, Counted, Result, Name,
             State, Step, Absent
<1>2. RunInv(s)'
  <2>1. ReceiptInv(s)'
        BY DEF IInv, TypeOK, RunInv, ReceiptInv, InLibrary, RecordSaved,
               Record, Go, Counted, Result, Name, State, Step, Absent
  <2>2. LibraryInv(s)'
        BY DEF IInv, TypeOK, RunInv, ReceiptInv, LibraryInv, InLibrary,
               Unpublished, RecordSaved, Record, Go, Counted, Result, Name,
               State, Step, Absent
  <2>3. ListInv(s)'
        BY DEF IInv, TypeOK, RunInv, ReceiptInv, ListInv, RecordSaved, Record,
               Go, Counted, Result, Name, State, Step, Absent
  <2>4. StagingInv(s)'
        BY DEF IInv, TypeOK, RunInv, LibraryInv, StagingInv, Unpublished,
               RecordSaved, Record, Go, Counted, Result, Name, State, Step,
               Absent
  <2> QED BY <2>1, <2>2, <2>3, <2>4 DEF RunInv
<1>3. ASSUME NEW r \in Run, r # s PROVE RunInv(r)'
  <2>1. Same(r)
        BY <1>3 DEF IInv, TypeOK, Same, RecordSaved, Record, Go, Counted,
           Result, Name, State, Step, Absent
  <2> QED BY <2>1, Frame DEF IInv
<1> QED BY <1>1, <1>2, <1>3 DEF IInv

\* UNCERTAIN names it as well.
LEMMA RecordUncertainInv ==
    ASSUME IInv, NEW s \in Run, NEW result \in Result, RecordUncertain(s, result)
    PROVE  IInv'
<1> USE DeliveryAssumption
<1>1. TypeOK'
      BY DEF IInv, TypeOK, RecordUncertain, Record, Go, Counted, Result, Name,
             State, Step, Absent
<1>2. RunInv(s)'
  <2>1. ReceiptInv(s)'
        BY DEF IInv, TypeOK, RunInv, ReceiptInv, InLibrary, RecordUncertain,
               Record, Go, Counted, Result, Name, State, Step, Absent
  <2>2. LibraryInv(s)'
        BY DEF IInv, TypeOK, RunInv, ReceiptInv, LibraryInv, InLibrary,
               Unpublished, RecordUncertain, Record, Go, Counted, Result, Name,
               State, Step, Absent
  <2>3. ListInv(s)'
        BY DEF IInv, TypeOK, RunInv, ReceiptInv, ListInv, RecordUncertain,
               Record, Go, Counted, Result, Name, State, Step, Absent
  <2>4. StagingInv(s)'
        BY DEF IInv, TypeOK, RunInv, LibraryInv, StagingInv, Unpublished,
               RecordUncertain, Record, Go, Counted, Result, Name, State, Step,
               Absent
  <2> QED BY <2>1, <2>2, <2>3, <2>4 DEF RunInv
<1>3. ASSUME NEW r \in Run, r # s PROVE RunInv(r)'
  <2>1. Same(r)
        BY <1>3 DEF IInv, TypeOK, Same, RecordUncertain, Record, Go, Counted,
           Result, Name, State, Step, Absent
  <2> QED BY <2>1, Frame DEF IInv
<1> QED BY <1>1, <1>2, <1>3 DEF IInv

\* FAILED: there is no bundle.
LEMMA RecordFailedInv ==
    ASSUME IInv, NEW s \in Run, NEW result \in Result, RecordFailed(s, result)
    PROVE  IInv'
<1> USE DeliveryAssumption
<1>1. TypeOK'
      BY DEF IInv, TypeOK, RecordFailed, Record, Go, Counted, Result, Name,
             State, Step, Absent
<1>2. RunInv(s)'
  <2>1. ReceiptInv(s)'
        BY DEF IInv, TypeOK, RunInv, ReceiptInv, InLibrary, RecordFailed,
               Record, Go, Counted, Result, Name, State, Step, Absent
  <2>2. LibraryInv(s)'
        BY DEF IInv, TypeOK, RunInv, ReceiptInv, LibraryInv, InLibrary,
               Unpublished, RecordFailed, Record, Go, Counted, Result, Name,
               State, Step, Absent
  <2>3. ListInv(s)'
        BY DEF IInv, TypeOK, RunInv, ReceiptInv, ListInv, RecordFailed, Record,
               Go, Counted, Result, Name, State, Step, Absent
  <2>4. StagingInv(s)'
        BY DEF IInv, TypeOK, RunInv, LibraryInv, StagingInv, Unpublished,
               RecordFailed, Record, Go, Counted, Result, Name, State, Step,
               Absent
  <2> QED BY <2>1, <2>2, <2>3, <2>4 DEF RunInv
<1>3. ASSUME NEW r \in Run, r # s PROVE RunInv(r)'
  <2>1. Same(r)
        BY <1>3 DEF IInv, TypeOK, Same, RecordFailed, Record, Go, Counted,
           Result, Name, State, Step, Absent
  <2> QED BY <2>1, Frame DEF IInv
<1> QED BY <1>1, <1>2, <1>3 DEF IInv

\* A run is listed once its receipt is final.
LEMMA ListRunInv ==
    ASSUME IInv, NEW s \in Run, NEW result \in Result, ListRun(s, result)
    PROVE  IInv'
<1> USE DeliveryAssumption
<1>1. TypeOK'
      BY DEF IInv, TypeOK, ListRun, Go, Counted, Result, Name, State, Step,
             Absent
<1>2. RunInv(s)'
  <2>1. ReceiptInv(s)'
        BY DEF IInv, TypeOK, RunInv, ReceiptInv, InLibrary, ListRun, Go,
               Counted, Result, Name, State, Step, Absent
  <2>2. LibraryInv(s)'
        BY DEF IInv, TypeOK, RunInv, ReceiptInv, LibraryInv, InLibrary,
               Unpublished, ListRun, Go, Counted, Result, Name, State, Step,
               Absent
  <2>3. ListInv(s)'
        BY DEF IInv, TypeOK, RunInv, ReceiptInv, ListInv, ListRun, Go, Counted,
               Result, Name, State, Step, Absent
  <2>4. StagingInv(s)'
        BY DEF IInv, TypeOK, RunInv, LibraryInv, StagingInv, Unpublished,
               ListRun, Go, Counted, Result, Name, State, Step, Absent
  <2> QED BY <2>1, <2>2, <2>3, <2>4 DEF RunInv
<1>3. ASSUME NEW r \in Run, r # s PROVE RunInv(r)'
  <2>1. Same(r)
        BY <1>3 DEF IInv, TypeOK, Same, ListRun, Go, Counted, Result, Name,
           State, Step, Absent
  <2> QED BY <2>1, Frame DEF IInv
<1> QED BY <1>1, <1>2, <1>3 DEF IInv

\* The evidence hub is told what the receipt says.
LEMMA CaptureInv ==
    ASSUME IInv, NEW s \in Run, NEW ok \in BOOLEAN, Capture(s, ok)
    PROVE  IInv'
<1> USE DeliveryAssumption
<1>1. TypeOK'
      BY DEF IInv, TypeOK, Capture, Go, Counted, Name, State, Step, Absent
<1>2. RunInv(s)'
  <2>1. ReceiptInv(s)'
        BY DEF IInv, TypeOK, RunInv, ReceiptInv, InLibrary, Capture, Go,
               Counted, Name, State, Step, Absent
  <2>2. LibraryInv(s)'
        BY DEF IInv, TypeOK, RunInv, ReceiptInv, LibraryInv, InLibrary,
               Unpublished, Capture, Go, Counted, Name, State, Step, Absent
  <2>3. ListInv(s)'
        BY DEF IInv, TypeOK, RunInv, ReceiptInv, ListInv, Capture, Go, Counted,
               Name, State, Step, Absent
  <2>4. StagingInv(s)'
        BY DEF IInv, TypeOK, RunInv, LibraryInv, StagingInv, Unpublished,
               Capture, Go, Counted, Name, State, Step, Absent
  <2> QED BY <2>1, <2>2, <2>3, <2>4 DEF RunInv
<1>3. ASSUME NEW r \in Run, r # s PROVE RunInv(r)'
  <2>1. Same(r)
        BY <1>3 DEF IInv, TypeOK, Same, Capture, Go, Counted, Name, State,
           Step, Absent
  <2> QED BY <2>1, Frame DEF IInv
<1> QED BY <1>1, <1>2, <1>3 DEF IInv

\* A kill counts as a fault.
LEMMA KillInv ==
    ASSUME IInv, NEW s \in Run, Kill(s)
    PROVE  IInv'
<1> USE DeliveryAssumption
<1>1. TypeOK'
      BY DEF IInv, TypeOK, Kill, Stopped, Name, State, Step, Absent
<1>2. RunInv(s)'
  <2>1. ReceiptInv(s)'
        BY DEF IInv, TypeOK, RunInv, ReceiptInv, InLibrary, Kill, Stopped,
               Name, State, Step, Absent
  <2>2. LibraryInv(s)'
        BY DEF IInv, TypeOK, RunInv, ReceiptInv, LibraryInv, InLibrary,
               Unpublished, Kill, Stopped, Name, State, Step, Absent
  <2>3. ListInv(s)'
        BY DEF IInv, TypeOK, RunInv, ReceiptInv, ListInv, Kill, Stopped, Name,
               State, Step, Absent
  <2>4. StagingInv(s)'
        BY DEF IInv, TypeOK, RunInv, LibraryInv, StagingInv, Unpublished, Kill,
               Stopped, Name, State, Step, Absent
  <2> QED BY <2>1, <2>2, <2>3, <2>4 DEF RunInv
<1>3. ASSUME NEW r \in Run, r # s PROVE RunInv(r)'
  <2>1. Same(r)
        BY <1>3 DEF IInv, TypeOK, Same, Kill, Stopped, Name, State, Step,
           Absent
  <2> QED BY <2>1, Frame DEF IInv
<1> QED BY <1>1, <1>2, <1>3 DEF IInv

\* Others take names that were free.
LEMMA OccupyInv ==
    ASSUME IInv, NEW name \in Name, Occupy(name)
    PROVE  IInv'
<1> USE DeliveryAssumption
<1>1. TypeOK'
      BY DEF IInv, TypeOK, Occupy, Name, Absent
<1>2. ASSUME NEW r \in Run PROVE RunInv(r)'
  <2>1. Same(r)
        BY DEF IInv, TypeOK, Same, Occupy, Name, Absent
  <2> QED BY <2>1, Frame DEF IInv
<1> QED BY <1>1, <1>2 DEF IInv

-----------------------------------------------------------------------------

\* A step of a run keeps the invariant.
LEMMA RunStepInv ==
    ASSUME IInv, NEW s \in Run, RunStep(s)
    PROVE  IInv'
<1>1. CASE Choose(s)
      BY <1>1, ChooseInv
<1>2. CASE Stage(s)
      BY <1>2, StageInv
<1>3. CASE Publish(s)
      BY <1>3, PublishInv
<1>4. CASE \E removed \in BOOLEAN : StageFails(s, removed) \/ PublishFails(s, removed)
      BY <1>4, StageFailsInv, PublishFailsInv
<1>5. CASE \E ok \in BOOLEAN : WriteArtifacts(s, ok) \/ Sync(s, ok) \/ Capture(s, ok)
      BY <1>5, WriteArtifactsInv, SyncInv, CaptureInv
<1>6. CASE \E result \in Result :
              \/ RecordReady(s, result) \/ RecordPending(s, result)
              \/ RecordSaved(s, result) \/ RecordUncertain(s, result)
              \/ RecordFailed(s, result) \/ ListRun(s, result)
      BY <1>6, RecordReadyInv, RecordPendingInv, RecordSavedInv,
         RecordUncertainInv, RecordFailedInv, ListRunInv
<1> QED BY <1>1, <1>2, <1>3, <1>4, <1>5, <1>6 DEF RunStep

LEMMA DeliveryStart == Init => IInv
BY DeliveryAssumption
   DEF Init, IInv, TypeOK, RunInv, ReceiptInv, LibraryInv, ListInv, StagingInv,
       InLibrary, Unpublished, Name, State, Step, Absent

LEMMA DeliveryStep == IInv /\ [Next]_vars => IInv'
<1> SUFFICES ASSUME IInv, [Next]_vars PROVE IInv'
    OBVIOUS
<1>1. ASSUME NEW s \in Run, RunStep(s) PROVE IInv'
      BY <1>1, RunStepInv
<1>2. ASSUME NEW s \in Run, StagePartly(s) \/ Kill(s) PROVE IInv'
      BY <1>2, StagePartlyInv, KillInv
<1>3. ASSUME NEW name \in Name, Occupy(name) PROVE IInv'
      BY <1>3, OccupyInv
<1>4. CASE UNCHANGED vars
  <2>1. TypeOK'
        BY <1>4 DEF IInv, TypeOK, vars
  <2>2. ASSUME NEW r \in Run PROVE RunInv(r)'
    <3>1. faults \in Nat
          BY DeliveryAssumption DEF IInv, TypeOK
    <3>2. Same(r)
          BY <1>4, <3>1 DEF Same, vars
    <3> QED BY <3>2, Frame DEF IInv
  <2> QED BY <2>1, <2>2 DEF IInv
<1> QED BY <1>1, <1>2, <1>3, <1>4 DEF Next

\* The inductive invariant holds throughout.
THEOREM DeliveryInvariance == Spec => []IInv
BY DeliveryStart, DeliveryStep, PTL DEF Spec

\* Receipts, directories and program counters of all runs keep their types.
THEOREM DeliveryTypes == Spec => []TypeOK
BY DeliveryInvariance, PTL DEF IInv

\* delivery.json never lies about the library, whatever runs, kills, failed
\* writes and outsiders do.
THEOREM DeliveryTheorem == Spec => []DeliveryIsTrue
<1>1. IInv => DeliveryIsTrue
  <2> SUFFICES ASSUME IInv, NEW r \in Run
               PROVE  DeliveryIsTrue!(r)
      BY DEF DeliveryIsTrue
  <2>1. RunInv(r)
        BY DEF IInv
  <2>2. delivery[r].state = "APPLICATION_LIBRARY_PENDING" /\ Stopped(r) =>
           faults > 0
        BY <2>1 DEF RunInv, ReceiptInv, Stopped, IInv, TypeOK
  <2> QED BY <2>1, <2>2 DEF RunInv, LibraryInv, Published
<1> QED BY <1>1, DeliveryInvariance, PTL

\* A listed run has its artifacts and, if asked for, its saved bundle.
THEOREM ListedTheorem == Spec => []ListedIsDelivered
<1>1. IInv => ListedIsDelivered
  <2> SUFFICES ASSUME IInv, NEW r \in Run
               PROVE  ListedIsDelivered!(r)
      BY DEF ListedIsDelivered
  <2>1. RunInv(r)
        BY DEF IInv
  <2> QED BY <2>1 DEF RunInv, LibraryInv, ListInv, Published
<1> QED BY <1>1, DeliveryInvariance, PTL

\* One bundle per run at most, and no staged copy left.
THEOREM NoCopiesTheorem == Spec => []NoCopiesLeft
<1>1. IInv => NoCopiesLeft
  <2> SUFFICES ASSUME IInv, NEW r \in Run
               PROVE  NoCopiesLeft!(r)
      BY DEF NoCopiesLeft
  <2>1. RunInv(r)
        BY DEF IInv
  <2>2. Published(r) => staging[r] = Absent
        BY <2>1 DEF RunInv, LibraryInv, StagingInv, Published, Unpublished
  <2>3. staging[r] # Absent /\ Stopped(r) => r \in killed \cup unswept
        BY <2>1 DEF RunInv, StagingInv, Stopped
  <2> QED BY <2>1, <2>2, <2>3 DEF RunInv, LibraryInv
<1> QED BY <1>1, DeliveryInvariance, PTL

\* No directory of the library is ever replaced.
THEOREM NothingReplacedTheorem == Spec => NothingReplaced
<1>1. IInv /\ [Next]_vars =>
        [\A name \in Name :
            library[name] # Absent => library'[name] = library[name]]_vars
  <2> SUFFICES ASSUME IInv, Next, NEW name \in Name, library[name] # Absent
               PROVE  library'[name] = library[name]
      BY DEF vars
  <2> USE DEF IInv, TypeOK
  <2>1. ASSUME NEW r \in Run, Publish(r) PROVE library'[name] = library[name]
        BY <2>1 DEF Publish
  <2>2. ASSUME NEW new \in Name, Occupy(new)
        PROVE  library'[name] = library[name]
        BY <2>2 DEF Occupy
  <2>3. CASE UNCHANGED library
        BY <2>3
  <2>4. \/ UNCHANGED library
        \/ \E r \in Run : Publish(r)
        \/ \E new \in Name : Occupy(new)
        BY DEF Next, RunStep, StagePartly, Kill, Choose, Stage, StageFails,
               PublishFails, WriteArtifacts, Sync, Capture, RecordReady,
               RecordPending, RecordSaved, RecordUncertain, RecordFailed,
               Record, ListRun
  <2> QED BY <2>1, <2>2, <2>3, <2>4
<1> QED BY <1>1, DeliveryInvariance, PTL DEF Spec, NothingReplaced

-----------------------------------------------------------------------------
(* What a generated resume may say                                         *)

\* The sets and counts of the instance are those of this module.
LEMMA SameSets ==
    /\ \A S : Truth!IsFiniteSet(S) <=> IsFiniteSet(S)
    /\ \A S : Truth!Cardinality(S) = Cardinality(S)
<1>1. \A S : Truth!IsFiniteSet(S) <=> IsFiniteSet(S)
      BY DEF Truth!IsFiniteSet, IsFiniteSet
<1>2. ASSUME NEW S PROVE Truth!Cardinality(S) = Cardinality(S)
      BY DEF Truth!Cardinality, Cardinality
<1> QED BY <1>1, <1>2

LEMMA Counts ==
    ASSUME NEW C, IsFiniteSet(C), NEW D \in SUBSET C
    PROVE  /\ IsFiniteSet(D) /\ Cardinality(C) \in Nat /\ Cardinality(D) \in Nat
           /\ Cardinality(D) <= Cardinality(C)
           /\ Cardinality(C \ D) = Cardinality(C) - Cardinality(D)
<1>1. IsFiniteSet(D) /\ Cardinality(D) <= Cardinality(C)
      BY FS_Subset
<1>2. Cardinality(C) \in Nat /\ Cardinality(D) \in Nat
      BY <1>1, FS_CardinalityType
<1>3. C \cap D = D
      OBVIOUS
<1>4. Cardinality(C \ D) = Cardinality(C) - Cardinality(C \cap D)
      BY FS_Difference
<1> QED BY <1>1, <1>2, <1>3, <1>4

\* No text that is not the source failed, and w says which were warned of.
Vouched(texts, w) ==
    \A c \in claims : texts[c] # Truth!Source =>
        /\ texts[c].verdict \in {"pass", "warn"}
        /\ texts[c].verdict = "warn" <=> c \in w

\* The rejected claims are among those whose text is the source.
RejectedFit(texts, n) ==
    n \in Nat /\ n + Cardinality(Truth!Changed(texts)) <= Cardinality(claims)

\* The number the page shows counts claims that are sources, or were patched.
ShownFit ==
    /\ expert # "VALIDATED" => rejectedRewrites = rejected
    /\ rejectedRewrites <= Cardinality((claims \ Truth!Changed(text)) \cup Truth!Rewritten)
    /\ Truth!Rewritten \subseteq claims

LEMMA FitShown ==
    ASSUME IsFiniteSet(claims), NEW texts, NEW n, RejectedFit(texts, n)
    PROVE  n \in Nat /\ n <= Cardinality(claims \ Truth!Changed(texts))
<1>1. Truth!Changed(texts) \in SUBSET claims
      BY DEF Truth!Changed
<1> QED BY <1>1, Counts DEF RejectedFit

TruthStage == {"asked", "proposed", "selected", "rendered", "reviewing", "done",
               "exported", "raised"}

\* What each stage knows of the draft, the DOCX and the counts.
TruthInv ==
    /\ Truth!TypeOK /\ stage \in TruthStage
    /\ claims \in {Bullet, Bullet \cup {Summary}}
    /\ stage = "asked" => text = [c \in claims |-> Truth!Source]
    /\ stage = "proposed" => text \in [claims -> {Truth!Source} \cup Truth!By("model")]
    /\ stage = "selected" => /\ text \in [claims -> {Truth!Source} \cup Truth!By("model")]
                             /\ Vouched(text, warned) /\ RejectedFit(text, rejected)
    /\ stage \in {"rendered", "reviewing", "done", "exported"} =>
          /\ docx = text /\ Vouched(text, warned) /\ warned \subseteq Truth!Changed(text)
          /\ RejectedFit(text, rejected) /\ tally = Truth!Tally(text, warned, rejected)
          /\ expert # "VALIDATED" => \A c \in claims : text[c].by # "expert"
          /\ ShownFit
    /\ stage = "reviewing" => /\ DOMAIN review \subseteq claims \ {Summary}
                              /\ \A c \in DOMAIN review : review[c] \in Truth!By("expert")
    /\ stage \in {"asked", "proposed", "selected", "rendered", "reviewing"} => expert # "VALIDATED"
    /\ stage = "exported" => receipt = [c \in claims |-> Truth!Status(c)]

LEMMA FiniteClaims ==
    ASSUME claims \in {Bullet, Bullet \cup {Summary}}
    PROVE  IsFiniteSet(claims) /\ Cardinality(claims) \in Nat /\ claims \ {Summary} \subseteq Bullet
<1>1. IsFiniteSet(Bullet)
      BY PartsAssumption, SameSets DEF Truth!ResumeTruthAssumption
<1>2. IsFiniteSet(claims)
      BY <1>1, FS_AddElement
<1> QED BY <1>2, FS_CardinalityType

LEMMA TextKinds ==
    /\ Truth!Source \in Truth!Text /\ Truth!Source.by = "source"
    /\ \A t \in Truth!By("model") : /\ t \in Truth!Text /\ t # Truth!Source /\ t.by = "model"
                                    /\ t.verdict \in Truth!Verdict
    /\ \A t \in Truth!By("expert") : /\ t \in Truth!Text /\ t # Truth!Source /\ t.by = "expert"
                                     /\ t.verdict \in Truth!Verdict
    /\ \A t \in Truth!Text : t # Truth!Source => t.verdict \in Truth!Verdict
BY DEF Truth!Source, Truth!Text, Truth!By, Truth!Verdict

\* The counts of a draft are counts of its claims.
LEMMA TallyFits ==
    ASSUME IsFiniteSet(claims), NEW texts, NEW w, NEW n, w \subseteq Truth!Changed(texts),
           RejectedFit(texts, n)
    PROVE  /\ Truth!Tally(texts, w, n) \in [verified: 0..Cardinality(claims),
                                            supported: 0..Cardinality(claims),
                                            unverified: 0..Cardinality(claims)]
           /\ n \in 0..Cardinality(claims)
<1> DEFINE C == Cardinality(claims)
           D == Cardinality(Truth!Changed(texts))
           E == Cardinality(w)
<1>1. Truth!Changed(texts) \in SUBSET claims
      BY DEF Truth!Changed
<1>2. IsFiniteSet(Truth!Changed(texts)) /\ C \in Nat /\ D \in Nat /\ D <= C
      BY <1>1, Counts
<1>3. E \in Nat /\ E <= D
      BY <1>2, Counts
<1>4. n \in Nat /\ n + D <= C
      BY DEF RejectedFit
<1>5. Truth!Tally(texts, w, n) = [verified |-> C - n - D, supported |-> D - E, unverified |-> E]
      BY SameSets DEF Truth!Tally
<1> HIDE DEF C, D, E
<1>6. C - n - D \in 0..C /\ D - E \in 0..C /\ E \in 0..C /\ n \in 0..C
      BY <1>2, <1>3, <1>4
<1> QED BY <1>5, <1>6 DEF C

\* The judgement of a text that is not the source is the validator's.
LEMMA JudgedAsWritten ==
    ASSUME NEW texts \in [claims -> Truth!Text], Truth!Failing(texts) = {}
    PROVE  Vouched(texts, Truth!Unsure(texts))
<1> SUFFICES ASSUME NEW c \in claims, texts[c] # Truth!Source
             PROVE  /\ texts[c].verdict \in {"pass", "warn"}
                    /\ texts[c].verdict = "warn" <=> c \in Truth!Unsure(texts)
    BY DEF Vouched
<1>1. Truth!Judged(c, texts[c]) = texts[c].verdict
      BY DEF Truth!Judged
<1>2. texts[c].verdict \in Truth!Verdict
      BY TextKinds
<1>3. texts[c].verdict # "fail"
      BY <1>1 DEF Truth!Failing
<1> QED BY <1>1, <1>2, <1>3 DEF Truth!Unsure, Truth!Verdict

LEMMA TruthInit == Truth!Init => TruthInv
<1> SUFFICES ASSUME Truth!Init PROVE TruthInv
    OBVIOUS
<1>1. claims \in {Bullet, Bullet \cup {Summary}} /\ Cardinality(claims) \in Nat
      BY FiniteClaims DEF Truth!Init
<1>2. text \in [claims -> Truth!Text] /\ docx \in [claims -> Truth!Text]
      BY TextKinds DEF Truth!Init
<1>3. /\ tally \in [verified: 0..Cardinality(claims), supported: 0..Cardinality(claims),
                    unverified: 0..Cardinality(claims)]
      /\ rejected \in 0..Cardinality(claims) /\ rejectedRewrites \in 0..Cardinality(claims)
      BY <1>1 DEF Truth!Init
<1>4. Truth!TypeOK
      BY <1>1, <1>2, <1>3, SameSets DEF Truth!TypeOK, Truth!Init
<1> QED BY <1>1, <1>4 DEF TruthInv, Truth!Init, TruthStage

\* The first answer of the model.
LEMMA ProposeStep == ASSUME TruthInv, Truth!Propose PROVE TruthInv'
<1>1. text' \in [claims -> Truth!Text]
      BY TextKinds DEF Truth!Propose
<1>2. Truth!TypeOK'
      BY <1>1 DEF TruthInv, Truth!TypeOK, Truth!Propose
<1> QED BY <1>2 DEF TruthInv, TruthStage, Truth!Propose

\* A selected draft: no claim of it failed, and the rejected ones are sources.
LEMMA SelectedStep ==
    ASSUME TruthInv, NEW texts \in [claims -> {Truth!Source} \cup Truth!By("model")],
           NEW w \in SUBSET claims, NEW n, NEW status, Truth!Selected(texts, w, n, status),
           Vouched(texts, w), RejectedFit(texts, n)
    PROVE  TruthInv'
<1>1. texts \in [claims -> Truth!Text]
      BY TextKinds
<1>2. IsFiniteSet(claims) /\ Cardinality(claims) \in Nat
      BY FiniteClaims DEF TruthInv
<1>3. n \in 0..Truth!Cardinality(claims)
  <2>1. Truth!Changed(texts) \in SUBSET claims
        BY DEF Truth!Changed
  <2>2. Cardinality(Truth!Changed(texts)) \in Nat
        BY <1>2, <2>1, Counts
  <2> QED BY <1>2, <2>2, SameSets DEF RejectedFit
<1>4. Truth!TypeOK'
      BY <1>1, <1>3 DEF TruthInv, Truth!TypeOK, Truth!Selected
<1>5. Vouched(text, warned)' /\ RejectedFit(text, rejected)'
      BY DEF Vouched, RejectedFit, Truth!Changed, Truth!Selected
<1> QED BY <1>4, <1>5 DEF TruthInv, TruthStage, Truth!Selected

LEMMA SelectSteps ==
    ASSUME TruthInv, Truth!Accept \/ Truth!Restore \/ Truth!Fallback
    PROVE  TruthInv'
<1> DEFINE Draft == [claims -> {Truth!Source} \cup Truth!By("model")]
<1>1. /\ text \in Draft /\ IsFiniteSet(claims) /\ Cardinality(claims) \in Nat
      /\ \A D \in SUBSET claims : Cardinality(D) \in Nat /\ Cardinality(D) <= Cardinality(claims)
      /\ \A D \in SUBSET claims : Cardinality(claims \ D) = Cardinality(claims) - Cardinality(D)
  <2>1. stage = "proposed"
        BY DEF Truth!Accept, Truth!Restore, Truth!Fallback, Truth!Selected
  <2>2. IsFiniteSet(claims) /\ Cardinality(claims) \in Nat
        BY FiniteClaims DEF TruthInv
  <2> QED BY <2>1, <2>2, Counts DEF TruthInv
<1>2. \A texts \in Draft : texts \in [claims -> Truth!Text]
      BY TextKinds
<1>3. \A texts : /\ Truth!Changed(texts) \in SUBSET claims /\ Truth!Failing(texts) \in SUBSET claims
                 /\ Truth!Unsure(texts) \in SUBSET claims
      BY DEF Truth!Changed, Truth!Failing, Truth!Unsure
<1>4. CASE Truth!Accept
  <2>1. Truth!Failing(text) = {} /\ Truth!Selected(text, Truth!Unsure(text), 0, "VALIDATED")
        BY <1>4 DEF Truth!Accept
  <2>2. Vouched(text, Truth!Unsure(text))
        BY <1>1, <1>2, <2>1, JudgedAsWritten
  <2>3. RejectedFit(text, 0)
        BY <1>1, <1>3 DEF RejectedFit
  <2> QED BY <1>1, <1>3, <2>1, <2>2, <2>3, SelectedStep
<1>5. CASE Truth!Restore
  <2>1. /\ Truth!Failing(Truth!Restored) = {}
        /\ Truth!Selected(Truth!Restored, Truth!Unsure(Truth!Restored),
                          Cardinality(Truth!Failing(text)), "REJECTED")
        BY <1>5, SameSets DEF Truth!Restore
  <2>2. Truth!Restored \in Draft
        BY <1>1 DEF Truth!Restored
  <2>3. Vouched(Truth!Restored, Truth!Unsure(Truth!Restored))
        BY <1>2, <2>1, <2>2, JudgedAsWritten
  <2>4. Truth!Changed(Truth!Restored) \in SUBSET (claims \ Truth!Failing(text))
        BY DEF Truth!Changed, Truth!Restored
  <2>5. Cardinality(Truth!Changed(Truth!Restored)) <= Cardinality(claims \ Truth!Failing(text))
        BY <1>1, <1>3, <2>4, FS_Subset
  <2>6. RejectedFit(Truth!Restored, Cardinality(Truth!Failing(text)))
        BY <1>1, <1>3, <2>5 DEF RejectedFit
  <2> QED BY <1>1, <1>3, <2>1, <2>2, <2>3, <2>6, SelectedStep
<1>6. CASE Truth!Fallback
  <2> DEFINE sources == [c \in claims |-> Truth!Source]
  <2>1. PICK named \in SUBSET claims :
             Truth!Selected(sources, {}, Cardinality(named), "REJECTED")
        BY <1>6, SameSets DEF Truth!Fallback
  <2>2. sources \in Draft /\ Vouched(sources, {}) /\ Truth!Changed(sources) = {}
        BY DEF Vouched, Truth!Changed
  <2>3. RejectedFit(sources, Cardinality(named))
        BY <1>1, <2>2, FS_EmptySet DEF RejectedFit
  <2> HIDE DEF sources
  <2> QED BY <2>1, <2>2, <2>3, SelectedStep
<1> QED BY <1>4, <1>5, <1>6

\* What the DOCX is written and read back as.
LEMMA RenderStep ==
    ASSUME TruthInv, NEW placed \in BOOLEAN, Truth!Render(placed)
    PROVE  TruthInv'
<1>1. /\ stage = "selected" /\ stage' = "rendered" /\ claims' = claims /\ source' = source
      /\ review' = review /\ docx' = Truth!Placed(placed) /\ text' = docx'
      /\ ~placed => Summary \in Truth!Changed(text)
      /\ rejected' = IF placed THEN rejected ELSE rejected + 1
      /\ rejectedRewrites' = rejected'
      BY DEF Truth!Render
<1>2. PICK texts : texts = Truth!Placed(placed)
      OBVIOUS
<1>3. /\ text \in [claims -> {Truth!Source} \cup Truth!By("model")]
      /\ Vouched(text, warned) /\ RejectedFit(text, rejected)
      /\ IsFiniteSet(claims) /\ Cardinality(claims) \in Nat
      BY <1>1, FiniteClaims DEF TruthInv
<1>4. /\ texts \in [claims -> {Truth!Source} \cup Truth!By("model")]
      /\ \A c \in claims : texts[c] = IF ~placed /\ c = Summary THEN Truth!Source ELSE text[c]
      BY <1>2, <1>3 DEF Truth!Placed
<1>5. Truth!Changed(texts) = IF placed THEN Truth!Changed(text) ELSE Truth!Changed(text) \ {Summary}
      BY <1>4 DEF Truth!Changed
<1>6. PICK w : w = warned \cap Truth!Changed(texts)
      OBVIOUS
<1>7. /\ \A t : Truth!Changed(t)' = Truth!Changed(t)
      /\ text' = texts /\ warned' = w
  <2>1. \A t : Truth!Changed(t)' = Truth!Changed(t)
        BY <1>1 DEF Truth!Changed
  <2>2. text' = texts
        BY <1>1, <1>2
  <2>3. warned' = warned \cap {c \in claims : text'[c] # Truth!Source}
        BY <1>1 DEF Truth!Render, Truth!Changed
  <2> QED BY <1>6, <2>1, <2>2, <2>3 DEF Truth!Changed
<1>8. Vouched(texts, w)
      BY <1>3, <1>4, <1>5, <1>6 DEF Vouched, Truth!Changed
<1>9. RejectedFit(texts, rejected')
  <2>1. Truth!Changed(text) \in SUBSET claims /\ IsFiniteSet(Truth!Changed(text))
        BY <1>3, FS_Subset DEF Truth!Changed
  <2>2. Cardinality(Truth!Changed(text)) \in Nat
        BY <2>1, FS_CardinalityType
  <2>3. ~placed => Cardinality(Truth!Changed(texts)) = Cardinality(Truth!Changed(text)) - 1
        BY <1>1, <1>5, <2>1, FS_RemoveElement
  <2> QED BY <1>1, <1>3, <1>5, <2>2, <2>3 DEF RejectedFit
<1>10. tally' = Truth!Tally(texts, w, rejected')
  <2>1. tally' = Truth!Tally(text', warned', rejected')
        BY <1>1, <1>7 DEF Truth!Render, Truth!Tally, Truth!Changed
  <2> QED BY <1>7, <2>1
<1>11. /\ tally' \in [verified: 0..Cardinality(claims), supported: 0..Cardinality(claims),
                      unverified: 0..Cardinality(claims)]
       /\ rejected' \in 0..Cardinality(claims)
       BY <1>3, <1>6, <1>9, <1>10, TallyFits
<1>12. texts \in [claims -> Truth!Text] /\ \A c \in claims : texts[c].by # "expert"
       BY <1>4, TextKinds
<1>13. Truth!TypeOK'
       BY <1>1, <1>6, <1>7, <1>11, <1>12, SameSets DEF TruthInv, Truth!TypeOK, Truth!Changed
<1>14. Vouched(text, warned)' /\ RejectedFit(text, rejected)'
       BY <1>1, <1>7, <1>8, <1>9 DEF Vouched, RejectedFit
<1>15. (tally = Truth!Tally(text, warned, rejected))'
       BY <1>1, <1>7, <1>10 DEF Truth!Tally
<1>16. (warned \subseteq Truth!Changed(text))'
       BY <1>1, <1>6, <1>7 DEF Truth!Changed
<1>17. claims \in {Bullet, Bullet \cup {Summary}} /\ (docx = text)' /\ (\A c \in claims : text[c].by # "expert")'
       BY <1>1, <1>7, <1>12 DEF TruthInv
<1>18. (expert # "VALIDATED")'
       BY <1>1 DEF TruthInv, Truth!Render
<1>19. ShownFit'
  <2>1. rejected' \in Nat /\ rejected' <= Cardinality(claims \ Truth!Changed(texts))
        BY <1>3, <1>9, FitShown
  <2>2. Truth!Rewritten' = {}
        BY <1>18 DEF Truth!Rewritten
  <2>3. Truth!Changed(text)' = Truth!Changed(texts)
        BY <1>7 DEF Truth!Changed
  <2> QED BY <1>1, <2>1, <2>2, <2>3 DEF ShownFit
<1> QED BY <1>1, <1>13, <1>14, <1>15, <1>16, <1>17, <1>18, <1>19 DEF TruthInv, TruthStage

\* The patched draft: the expert's texts over those of the draft.
LEMMA PatchedText ==
    ASSUME text \in [claims -> Truth!Text], DOMAIN review \subseteq claims,
           \A c \in DOMAIN review : review[c] \in Truth!By("expert")
    PROVE  Truth!Patched \in [claims -> Truth!Text]
BY TextKinds DEF Truth!Patched

\* What is judged of the draft stays as the draft and its counts stay.
LEMMA DraftKept ==
    ASSUME UNCHANGED <<claims, source, text, docx, warned, rejected, tally>>
    PROVE  /\ Vouched(text, warned)' <=> Vouched(text, warned)
           /\ RejectedFit(text, rejected)' <=> RejectedFit(text, rejected)
           /\ (warned \subseteq Truth!Changed(text))' <=> warned \subseteq Truth!Changed(text)
           /\ (tally = Truth!Tally(text, warned, rejected))' <=> tally = Truth!Tally(text, warned, rejected)
BY DEF Vouched, RejectedFit, Truth!Changed, Truth!Tally

LEMMA RequestStep == ASSUME TruthInv, Truth!RequestReview PROVE TruthInv'
<1>1. PICK patched \in SUBSET (claims \ {Summary}) : review' \in [patched -> Truth!By("expert")]
      BY DEF Truth!RequestReview
<1>2. DOMAIN review' \subseteq Bullet /\ DOMAIN review' \subseteq claims \ {Summary}
      BY <1>1, FiniteClaims DEF TruthInv
<1>3. /\ stage = "rendered" /\ stage' = "reviewing" /\ expert' = "PENDING_VALIDATION"
      /\ UNCHANGED <<claims, source, text, docx, warned, rejected, tally, rejectedRewrites,
                     candidate, receipt>>
      BY DEF Truth!RequestReview
<1>4. Truth!TypeOK'
      BY <1>2, <1>3 DEF TruthInv, Truth!TypeOK
<1>5. /\ docx = text /\ Vouched(text, warned) /\ warned \subseteq Truth!Changed(text)
      /\ RejectedFit(text, rejected) /\ tally = Truth!Tally(text, warned, rejected)
      /\ claims \in {Bullet, Bullet \cup {Summary}}
      BY <1>3 DEF TruthInv
<1>6. /\ Vouched(text, warned)' /\ (warned \subseteq Truth!Changed(text))'
      /\ RejectedFit(text, rejected)' /\ (tally = Truth!Tally(text, warned, rejected))'
      BY <1>3, <1>5, DraftKept
<1>7. /\ \A c \in claims : text[c].by # "expert"
      /\ expert # "VALIDATED" /\ ShownFit
      BY <1>3 DEF TruthInv
<1>8. ShownFit'
      BY <1>3, <1>7 DEF ShownFit, Truth!Rewritten, Truth!Changed
<1> QED BY <1>1, <1>2, <1>3, <1>4, <1>5, <1>6, <1>7, <1>8 DEF TruthInv, TruthStage

LEMMA ApplyStep == ASSUME TruthInv, Truth!ApplyReview PROVE TruthInv'
<1>1. PICK texts : texts = Truth!Patched
      OBVIOUS
<1>2. PICK w : w = Truth!Unsure(texts) \cap Truth!Changed(texts)
      OBVIOUS
<1>3. /\ stage = "reviewing" /\ stage' = "done" /\ Truth!Failing(texts) = {}
      /\ text' = texts /\ docx' = texts /\ warned' = w /\ rejected' = 0 /\ expert' = "VALIDATED"
      /\ UNCHANGED <<claims, source, rejectedRewrites, candidate, review, receipt>>
      BY <1>1, <1>2 DEF Truth!ApplyReview
<1>4. tally' = Truth!Tally(texts, w, 0)
      BY <1>1, <1>3 DEF Truth!ApplyReview
<1>5. IsFiniteSet(claims) /\ Cardinality(claims) \in Nat
      BY FiniteClaims DEF TruthInv
<1>6. texts \in [claims -> Truth!Text]
      BY <1>1, <1>3, PatchedText DEF TruthInv, Truth!TypeOK
<1>7. Vouched(texts, w)
  <2>1. Vouched(texts, Truth!Unsure(texts))
        BY <1>3, <1>6, JudgedAsWritten
  <2> QED BY <1>2, <2>1 DEF Vouched, Truth!Changed
<1>8. RejectedFit(texts, 0) /\ w \subseteq Truth!Changed(texts) /\ w \subseteq claims
  <2>1. Truth!Changed(texts) \in SUBSET claims
        BY DEF Truth!Changed
  <2>2. Cardinality(Truth!Changed(texts)) \in Nat /\ Cardinality(Truth!Changed(texts)) <= Cardinality(claims)
        BY <1>5, <2>1, Counts
  <2> QED BY <1>2, <1>5, <2>1, <2>2 DEF RejectedFit
<1>9. /\ tally' \in [verified: 0..Cardinality(claims), supported: 0..Cardinality(claims),
                     unverified: 0..Cardinality(claims)]
      /\ rejected' \in 0..Cardinality(claims)
      BY <1>3, <1>4, <1>5, <1>8, TallyFits
<1>10. Truth!TypeOK'
       BY <1>3, <1>6, <1>8, <1>9, SameSets DEF TruthInv, Truth!TypeOK
<1>11. Vouched(text, warned)' /\ RejectedFit(text, rejected)' /\ (warned \subseteq Truth!Changed(text))'
       BY <1>3, <1>7, <1>8 DEF Vouched, RejectedFit, Truth!Changed
<1>12. (tally = Truth!Tally(text, warned, rejected))'
       BY <1>3, <1>4 DEF Truth!Tally, Truth!Changed
<1>13. ShownFit'
  <2> DEFINE before == claims \ Truth!Changed(text)
             after  == (claims \ Truth!Changed(texts)) \cup DOMAIN review
  <2>1. DOMAIN review \subseteq claims /\ expert # "VALIDATED" /\ ShownFit
        BY <1>3 DEF TruthInv
  <2>2. rejectedRewrites <= Cardinality(before) /\ rejectedRewrites \in Nat
        BY <1>5, <2>1, SameSets DEF ShownFit, Truth!Rewritten, TruthInv, Truth!TypeOK
  <2>3. before \in SUBSET after
        BY <1>1 DEF Truth!Changed, Truth!Patched
  <2>4. after \in SUBSET claims
        BY <2>1
  <2>5. Cardinality(before) <= Cardinality(after) /\ Cardinality(after) \in Nat /\ Cardinality(before) \in Nat
        BY <1>5, <2>3, <2>4, Counts
  <2>6. rejectedRewrites <= Cardinality(after)
        BY <2>2, <2>5
  <2>7. Truth!Rewritten' = DOMAIN review /\ Truth!Changed(text)' = Truth!Changed(texts)
        BY <1>3 DEF Truth!Rewritten, Truth!Changed
  <2> QED BY <1>3, <2>1, <2>6, <2>7 DEF ShownFit
<1> QED BY <1>3, <1>10, <1>11, <1>12, <1>13 DEF TruthInv, TruthStage

\* The steps that change neither the draft nor its counts.
LEMMA QuietStep ==
    ASSUME TruthInv,
           \/ Truth!RefuseReview \/ Truth!NoReview \/ Truth!Export \/ Truth!Raise
           \/ UNCHANGED Truth!vars
    PROVE  TruthInv'
<1>1. UNCHANGED <<claims, source, text, docx, warned, rejected, tally, rejectedRewrites, review>>
      BY DEF Truth!RefuseReview, Truth!NoReview, Truth!Export, Truth!Raise, Truth!vars
<1>2. Truth!TypeOK'
      BY <1>1 DEF TruthInv, Truth!TypeOK
<1>3. /\ Vouched(text, warned)' <=> Vouched(text, warned)
      /\ RejectedFit(text, rejected)' <=> RejectedFit(text, rejected)
      /\ (warned \subseteq Truth!Changed(text))' <=> warned \subseteq Truth!Changed(text)
      /\ (tally = Truth!Tally(text, warned, rejected))' <=> tally = Truth!Tally(text, warned, rejected)
      BY <1>1, DraftKept
<1>4. expert' = expert => (ShownFit' <=> ShownFit)
      BY <1>1 DEF ShownFit, Truth!Rewritten, Truth!Changed
<1>5. CASE Truth!RefuseReview
  <2>1. stage \in {"rendered", "reviewing"} /\ stage' = "done" /\ expert' = "REJECTED"
        BY <1>5 DEF Truth!RefuseReview
  <2>2. \A c \in claims : text[c].by # "expert"
        BY <2>1 DEF TruthInv
  <2>3. /\ docx = text /\ Vouched(text, warned) /\ warned \subseteq Truth!Changed(text)
        /\ RejectedFit(text, rejected) /\ tally = Truth!Tally(text, warned, rejected)
        /\ claims \in {Bullet, Bullet \cup {Summary}}
        BY <2>1 DEF TruthInv
  <2>4. ShownFit /\ expert # "VALIDATED"
        BY <2>1 DEF TruthInv
  <2>5. ShownFit'
        BY <1>1, <2>1, <2>4 DEF ShownFit, Truth!Rewritten, Truth!Changed
  <2> QED BY <1>1, <1>2, <1>3, <2>1, <2>2, <2>3, <2>5 DEF TruthInv, TruthStage
<1>6. CASE Truth!NoReview
      BY <1>1, <1>2, <1>3, <1>6, <1>4 DEF TruthInv, TruthStage, Truth!NoReview
<1>7. CASE Truth!Export
  <2>1. receipt' = [c \in claims |-> Truth!Status(c)]
        BY <1>7 DEF Truth!Export
  <2>2. (receipt = [c \in claims |-> Truth!Status(c)])'
        BY <1>1, <2>1 DEF Truth!Status
  <2> QED BY <1>1, <1>2, <1>3, <1>7, <1>4, <2>2 DEF TruthInv, TruthStage, Truth!Export
<1>8. CASE Truth!Raise
      BY <1>1, <1>2, <1>3, <1>8 DEF TruthInv, TruthStage, Truth!Raise
<1>9. CASE UNCHANGED Truth!vars
  <2>1. UNCHANGED <<stage, expert, receipt>>
        BY <1>9 DEF Truth!vars
  <2> QED BY <1>1, <1>2, <1>3, <1>4, <2>1 DEF TruthInv, TruthStage, Truth!Status
<1> QED BY <1>5, <1>6, <1>7, <1>8, <1>9

LEMMA TruthStep == ASSUME TruthInv, [Truth!Next]_(Truth!vars) PROVE TruthInv'
<1>1. CASE Truth!Propose
      BY <1>1, ProposeStep
<1>2. CASE Truth!Accept \/ Truth!Restore \/ Truth!Fallback
      BY <1>2, SelectSteps
<1>3. CASE \E placed \in BOOLEAN : Truth!Render(placed)
      BY <1>3, RenderStep
<1>4. CASE Truth!RequestReview
      BY <1>4, RequestStep
<1>5. CASE Truth!ApplyReview
      BY <1>5, ApplyStep
<1>6. CASE \/ Truth!RefuseReview \/ Truth!NoReview \/ Truth!Export \/ Truth!Raise
           \/ UNCHANGED Truth!vars
      BY <1>6, QuietStep
<1> QED BY <1>1, <1>2, <1>3, <1>4, <1>5, <1>6 DEF Truth!Next

\* What the receipt says of a claim, and the counts beside it.
LEMMA TruthTold == ASSUME TruthInv PROVE Truth!ExportIsBacked /\ Truth!CountsMatchTheReceipt
<1> SUFFICES ASSUME stage = "exported"
             PROVE  Truth!ExportIsBacked /\ Truth!CountsMatchTheReceipt
    BY DEF Truth!ExportIsBacked, Truth!CountsMatchTheReceipt
<1>1. /\ docx = text /\ Vouched(text, warned) /\ warned \subseteq Truth!Changed(text)
      /\ RejectedFit(text, rejected) /\ tally = Truth!Tally(text, warned, rejected)
      /\ expert # "VALIDATED" => \A c \in claims : text[c].by # "expert"
      /\ receipt = [c \in claims |-> Truth!Status(c)] /\ ShownFit
      /\ IsFiniteSet(claims) /\ Cardinality(claims) \in Nat
      BY FiniteClaims DEF TruthInv
<1>2. Truth!ExportIsBacked
      BY <1>1 DEF Truth!ExportIsBacked, Truth!Status, Vouched
<1>3. Truth!CountsMatchTheReceipt
  <2> DEFINE D == Truth!Changed(text)
  <2>1. D \in SUBSET claims /\ warned \in SUBSET D
        BY <1>1 DEF Truth!Changed
  <2>2. /\ Truth!Claims("SUPPORTED") = D \ warned
        /\ Truth!Claims("UNVERIFIED") = warned
        /\ Truth!Claims("VERIFIED") = claims \ D
        BY <1>1, <2>1 DEF Truth!Claims, Truth!Status, Truth!Changed
  <2>3. IsFiniteSet(D) /\ Cardinality(D) \in Nat /\ Cardinality(claims \ D) = Cardinality(claims) - Cardinality(D)
        BY <1>1, <2>1, Counts
  <2>4. Cardinality(warned) \in Nat /\ Cardinality(D \ warned) = Cardinality(D) - Cardinality(warned)
        BY <2>1, <2>3, Counts
  <2>5. /\ tally.supported = Cardinality(D) - Cardinality(warned)
        /\ tally.unverified = Cardinality(warned)
        /\ tally.verified = Cardinality(claims) - rejected - Cardinality(D)
        BY <1>1, SameSets DEF Truth!Tally
  <2>6. rejected \in Nat
        BY <1>1 DEF RejectedFit
  <2>7. tally.verified + rejected = Cardinality(claims \ D)
        BY <1>1, <2>3, <2>5, <2>6
  <2>8. /\ expert # "VALIDATED" => rejectedRewrites = rejected
        /\ rejectedRewrites <= Cardinality(Truth!Claims("VERIFIED") \cup Truth!Rewritten)
        BY <1>1, <2>2 DEF ShownFit
  <2> QED BY <2>2, <2>4, <2>5, <2>7, <2>8, SameSets DEF Truth!CountsMatchTheReceipt
<1> QED BY <1>2, <1>3

-----------------------------------------------------------------------------
(* One run of the evidence agent                                           *)

LEMMA AgentSets ==
    /\ \A S : Agent!IsFiniteSet(S) <=> IsFiniteSet(S)
    /\ \A S : Agent!Cardinality(S) = Cardinality(S)
<1>1. \A S : Agent!IsFiniteSet(S) <=> IsFiniteSet(S)
      BY DEF Agent!IsFiniteSet, IsFiniteSet
<1>2. ASSUME NEW S PROVE Agent!Cardinality(S) = Cardinality(S)
      BY DEF Agent!Cardinality, Cardinality
<1> QED BY <1>1, <1>2

LEMMA AgentBounds ==
    /\ MaxRounds \in 1..3 /\ MaxQueries \in 1..4 /\ MaxHits \in 1..12 /\ MaxChanges \in Nat
    /\ IsFiniteSet(Chunk)
BY PartsAssumption, AgentSets DEF Agent!EvidenceAgentAssumption

\* A share of n things among k takes one where there is one, and leaves one for
\* every other of the k where there are as many as they.
LEMMA ShareFits ==
    ASSUME NEW n \in Nat, NEW k \in 1..4
    PROVE  /\ Agent!CeilDiv(n, k) \in 0..n
           /\ n >= 1 => Agent!CeilDiv(n, k) >= 1
           /\ n >= k => n - Agent!CeilDiv(n, k) >= k - 1
<1>1. CASE k = 1
      BY <1>1, Z3 DEF Agent!CeilDiv
<1>2. CASE k = 2
      BY <1>2, Z3 DEF Agent!CeilDiv
<1>3. CASE k = 3
      BY <1>3, Z3 DEF Agent!CeilDiv
<1>4. CASE k = 4
      BY <1>4, Z3 DEF Agent!CeilDiv
<1> QED BY <1>1, <1>2, <1>3, <1>4

\* A later reading b of a chunk whose version was a: as new, newer, or gone.
Follows(a, b) == a \in Nat /\ b \in Nat /\ (b # 0 => 1 <= a /\ a <= b)

LEMMA FollowsOn ==
    /\ \A a \in Nat : Follows(a, a)
    /\ \A a, b, c : Follows(a, b) /\ Follows(b, c) => Follows(a, c)
    /\ \A a, b : Follows(a, b) /\ a = 0 => b = 0
BY DEF Follows

\* The rounds that are left, this one among them, can each take a chunk.
SearchInv ==
    /\ round \in 1..MaxRounds /\ begun \in 0..MaxHits
    /\ begun <= Cardinality(Agent!Found)
    /\ Cardinality(Agent!Found) - begun <= Agent!RoundBudget
    /\ MaxRounds <= MaxHits => MaxHits - begun >= MaxRounds - round + 1

AgentBudgets ==
    /\ Agent!TypeOK /\ widest \in 0..MaxHits /\ Cardinality(Agent!Found) <= MaxHits
    /\ agentPc = "plan" => Agent!Found = {}
    /\ agentPc = "search" => SearchInv

CitesHold == \A c \in cited :
                /\ c \in DOMAIN context
                /\ context[c] = asof[c] /\ context[c] = checked[c]
Listed    == {"00_input", "02_retrieval", "03_retrieval_manifest"}

AgentReads ==
    /\ Agent!TypeOK /\ index \in [Chunk -> Nat] /\ asof \in [Chunk -> Nat]
    /\ \A c \in Chunk : Follows(asof[c], index[c])
    /\ \A c \in Agent!Found : retrieved[c] # 0 /\ Follows(retrieved[c], index[c])
    /\ \A c \in DOMAIN context : context[c] # 0
    /\ agentPc = "expand" => \A c \in DOMAIN context : Follows(context[c], index[c])
    /\ agentPc \in {"draft", "check"} => \A c \in DOMAIN context : Follows(context[c], asof[c])
    /\ agentPc = "check" => cited \subseteq DOMAIN context
    /\ agentPc = "result" => CitesHold
    /\ agentPc \in {"search", "expand"} => "00_input" \in files
    /\ agentPc \in {"draft", "check", "result"} => Listed \subseteq files
    /\ "04_result" \in files => /\ agentPc \in {"returned", "raised"}
                                /\ Listed \subseteq files /\ CitesHold

LEMMA AgentInit == Agent!Init => AgentBudgets /\ AgentReads
<1> SUFFICES ASSUME Agent!Init PROVE AgentBudgets /\ AgentReads
    OBVIOUS
<1>1. DOMAIN retrieved = {} /\ DOMAIN context = {}
      BY DEF Agent!Init
<1>2. Cardinality(Agent!Found) = 0
      BY <1>1, FS_EmptySet DEF Agent!Found
<1>3. Agent!TypeOK
      BY <1>1, AgentBounds DEF Agent!TypeOK, Agent!Init, Agent!Found
<1>4. AgentBudgets
      BY <1>1, <1>2, <1>3, AgentBounds DEF AgentBudgets, Agent!Init, Agent!Found
<1>5. index \in [Chunk -> Nat] /\ asof = index
      BY DEF Agent!Init
<1>6. \A c \in Chunk : Follows(asof[c], index[c])
      BY <1>5, FollowsOn
<1>7. AgentReads
      BY <1>1, <1>3, <1>5, <1>6 DEF AgentReads, Agent!Init, Agent!Found
<1> QED BY <1>4, <1>7

\* What a query may take: something, and no more than the round may still have.
LEMMA QueryFits ==
    ASSUME AgentBudgets, agentPc = "search", pending > 0, Agent!Accepted < Agent!RoundBudget
    PROVE  /\ Cardinality(Agent!Found) \in Nat /\ Agent!RoundBudget \in 0..(MaxHits - begun)
           /\ Agent!QueryLimit \in 1..(Agent!RoundBudget - Agent!Accepted)
           /\ Agent!Accepted = Cardinality(Agent!Found) - begun /\ Agent!Accepted \in Nat
           /\ MaxRounds <= MaxHits => MaxHits - begun - Agent!RoundBudget >= MaxRounds - round
<1>1. Cardinality(Agent!Found) \in Nat
      BY AgentBounds, FS_Subset, FS_CardinalityType DEF AgentBudgets, Agent!TypeOK
<1>2. /\ round \in 1..MaxRounds /\ begun \in 0..MaxHits /\ begun <= Cardinality(Agent!Found)
      /\ MaxRounds <= MaxHits => MaxHits - begun >= MaxRounds - round + 1
      BY DEF AgentBudgets, SearchInv
<1>3. Agent!Accepted = Cardinality(Agent!Found) - begun /\ Agent!Accepted \in Nat
      BY <1>1, <1>2, AgentSets DEF Agent!Accepted
<1>4. PICK n \in Nat, k \in 1..4 : n = MaxHits - begun /\ k = MaxRounds - round + 1
      BY <1>2, AgentBounds
<1>5. Agent!RoundBudget = Agent!CeilDiv(n, k)
      BY <1>4 DEF Agent!RoundBudget
<1>6. Agent!RoundBudget \in 0..n /\ (n >= k => n - Agent!RoundBudget >= k - 1)
      BY <1>5, ShareFits
<1>7. PICK m \in Nat : m = Agent!RoundBudget - Agent!Accepted /\ m >= 1
      BY <1>3, <1>4, <1>6
<1>8. pending \in 1..4
      BY AgentBounds DEF AgentBudgets, Agent!TypeOK
<1>9. Agent!CeilDiv(m, pending) \in 1..m
  <2>1. Agent!CeilDiv(m, pending) \in 0..m /\ (m >= 1 => Agent!CeilDiv(m, pending) >= 1)
        BY <1>8, ShareFits
  <2> QED BY <1>7, <2>1
<1>10. Agent!QueryLimit \in 1..m
      BY <1>7, <1>9 DEF Agent!QueryLimit, Agent!Greatest
<1> QED BY <1>1, <1>2, <1>3, <1>4, <1>6, <1>7, <1>10, AgentBounds

LEMMA SearchKeepsBudgets ==
    ASSUME AgentBudgets, NEW returned \in SUBSET Chunk, NEW taken \in SUBSET returned,
           Agent!Search(returned, taken)
    PROVE  AgentBudgets'
<1>1. /\ agentPc = "search" /\ pending > 0 /\ Agent!Accepted < Agent!RoundBudget
      /\ taken \subseteq returned \ Agent!Found
      /\ Agent!Cardinality(taken) = Agent!Least(Agent!QueryLimit, Agent!Cardinality(returned \ Agent!Found))
      /\ retrieved' = Agent!With(retrieved, taken) /\ pending' = pending - 1
      /\ widest' = Agent!Greatest(widest, Agent!SearchLimit)
      /\ UNCHANGED <<agentPc, round, begun, context, cited, asof, checked, files, index, changes>>
      BY DEF Agent!Search
<1>2. /\ Cardinality(Agent!Found) \in Nat /\ Agent!RoundBudget \in 0..(MaxHits - begun)
      /\ Agent!QueryLimit \in 1..(Agent!RoundBudget - Agent!Accepted)
      /\ Agent!Accepted = Cardinality(Agent!Found) - begun /\ Agent!Accepted \in Nat
      /\ MaxRounds <= MaxHits => MaxHits - begun - Agent!RoundBudget >= MaxRounds - round
      BY <1>1, QueryFits
<1>3. Agent!Found' = Agent!Found \cup taken
      BY <1>1 DEF Agent!Found, Agent!With
<1>4. IsFiniteSet(Agent!Found) /\ IsFiniteSet(taken) /\ IsFiniteSet(returned \ Agent!Found)
      BY AgentBounds, FS_Subset DEF AgentBudgets, Agent!TypeOK
<1>5. /\ Cardinality(taken) \in Nat /\ Cardinality(returned \ Agent!Found) \in Nat
      /\ Cardinality(taken) <= Agent!QueryLimit
      BY <1>1, <1>2, <1>4, AgentSets, FS_CardinalityType DEF Agent!Least
<1>6. Cardinality(Agent!Found \cup taken) = Cardinality(Agent!Found) + Cardinality(taken)
  <2>1. Agent!Found \cap taken = {}
        BY <1>1
  <2>2. Cardinality(Agent!Found \cup taken) = Cardinality(Agent!Found) + Cardinality(taken)
                                              - Cardinality(Agent!Found \cap taken)
        BY <1>4, FS_Union
  <2>3. Cardinality(Agent!Found \cap taken) = 0
        BY <2>1, FS_EmptySet
  <2> QED BY <1>2, <1>5, <2>2, <2>3
<1>7. PICK f \in Nat : f = Cardinality(Agent!Found') /\ f <= begun + Agent!RoundBudget /\ f >= begun
  <2>1. begun \in 0..MaxHits
        BY <1>1 DEF AgentBudgets, SearchInv
  <2> QED BY <1>2, <1>3, <1>5, <1>6, <2>1
<1>8. Agent!RoundBudget' = Agent!RoundBudget
      BY <1>1 DEF Agent!RoundBudget
<1>9. SearchInv'
  <2>1. /\ round \in 1..MaxRounds /\ begun \in 0..MaxHits
        /\ MaxRounds <= MaxHits => MaxHits - begun >= MaxRounds - round + 1
        BY <1>1 DEF AgentBudgets, SearchInv
  <2>2. f - begun <= Agent!RoundBudget
        BY <1>2, <1>7, <2>1
  <2> QED BY <1>1, <1>7, <1>8, <2>1, <2>2 DEF SearchInv
<1>10. widest' \in 0..MaxHits
  <2>1. Agent!SearchLimit \in 0..MaxHits
        BY <1>2, AgentBounds, AgentSets DEF Agent!SearchLimit, Agent!Least
  <2> QED BY <1>1, <2>1 DEF Agent!Greatest, AgentBudgets
<1>11. Agent!TypeOK'
  <2>1. pending' \in 0..MaxQueries
        BY <1>1, AgentBounds DEF AgentBudgets, Agent!TypeOK
  <2>2. Agent!Found' \subseteq Chunk
        BY <1>3 DEF AgentBudgets, Agent!TypeOK
  <2> QED BY <1>1, <2>1, <2>2 DEF AgentBudgets, Agent!TypeOK
<1>12. Cardinality(Agent!Found') <= MaxHits
  <2>1. begun \in 0..MaxHits
        BY <1>1 DEF AgentBudgets, SearchInv
  <2> QED BY <1>2, <1>7, <2>1, AgentBounds
<1> QED BY <1>1, <1>9, <1>10, <1>11, <1>12 DEF AgentBudgets

LEMMA PlanKeepsBudgets ==
    ASSUME AgentBudgets, NEW queries \in 1..MaxQueries, Agent!Plan(queries)
    PROVE  AgentBudgets'
<1>1. /\ agentPc = "plan" /\ agentPc' = "search" /\ round' = 1 /\ pending' = queries /\ begun' = 0
      /\ UNCHANGED <<retrieved, widest, context, cited, asof, checked, index, changes>>
      BY DEF Agent!Plan
<1>2. Agent!Found' = {} /\ Agent!Found = {}
      BY <1>1 DEF AgentBudgets, Agent!Found
<1>3. Cardinality(Agent!Found') = 0
      BY <1>2, FS_EmptySet
<1>4. Agent!TypeOK'
      BY <1>1, <1>2, AgentBounds DEF AgentBudgets, Agent!TypeOK
<1>5. PICK n \in Nat, k \in 1..4 : n = MaxHits - 0 /\ k = MaxRounds - 1 + 1
      BY AgentBounds
<1>6. Agent!RoundBudget' = Agent!CeilDiv(n, k)
      BY <1>1, <1>5 DEF Agent!RoundBudget, Agent!CeilDiv
<1>7. Agent!RoundBudget' \in 0..n
      BY <1>5, <1>6, ShareFits
<1>8. SearchInv'
      BY <1>1, <1>3, <1>7, AgentBounds DEF SearchInv
<1> QED BY <1>1, <1>3, <1>4, <1>8, AgentBounds DEF AgentBudgets

LEMMA CoverKeepsBudgets ==
    ASSUME AgentBudgets, NEW queries \in 0..MaxQueries, Agent!Cover(queries)
    PROVE  AgentBudgets'
<1>1. /\ agentPc = "search" /\ UNCHANGED <<retrieved, widest, cited, asof, checked, files, index, changes>>
      BY DEF Agent!Cover
<1>2. Agent!Found' = Agent!Found /\ Agent!Found \subseteq Chunk
      BY <1>1 DEF Agent!Found, AgentBudgets, Agent!TypeOK
<1>3. CASE /\ agentPc' = "expand" /\ context' = retrieved /\ UNCHANGED <<round, pending, begun>>
  <2>1. Agent!TypeOK'
        BY <1>1, <1>2, <1>3 DEF AgentBudgets, Agent!TypeOK, Agent!Found
  <2> QED BY <1>1, <1>2, <1>3, <2>1 DEF AgentBudgets
<1>4. CASE /\ ~(queries = 0 \/ round = MaxRounds \/ Agent!Cardinality(Agent!Found) >= MaxHits)
           /\ round' = round + 1 /\ pending' = queries /\ begun' = Agent!Cardinality(Agent!Found)
           /\ UNCHANGED <<agentPc, context>>
  <2>1. PICK f \in Nat : f = Cardinality(Agent!Found) /\ begun' = f /\ f < MaxHits
    <3>1. Cardinality(Agent!Found) \in Nat
          BY <1>2, AgentBounds, FS_Subset, FS_CardinalityType
    <3> QED BY <1>4, <3>1, AgentBounds, AgentSets
  <2>2. /\ round \in 1..MaxRounds /\ round # MaxRounds /\ begun \in 0..MaxHits /\ begun <= f
        /\ f - begun <= Agent!RoundBudget
        /\ MaxRounds <= MaxHits => MaxHits - begun >= MaxRounds - round + 1
        BY <1>1, <1>4, <2>1 DEF AgentBudgets, SearchInv
  <2>3. PICK n \in Nat, k \in 1..4 : n = MaxHits - begun /\ k = MaxRounds - round + 1
    <3>1. MaxHits - begun \in Nat /\ MaxRounds - round + 1 \in 1..4
          BY <2>2, AgentBounds
    <3> QED BY <3>1
  <2>4. Agent!RoundBudget = Agent!CeilDiv(n, k)
        BY <2>3 DEF Agent!RoundBudget
  <2>5. Agent!RoundBudget \in 0..n /\ (n >= k => n - Agent!RoundBudget >= k - 1)
        BY <2>3, <2>4, ShareFits
  <2>6. MaxRounds <= MaxHits => MaxHits - f >= MaxRounds - (round + 1) + 1
        BY <2>1, <2>2, <2>3, <2>5, AgentBounds
  <2>7. PICK m \in Nat, j \in 1..4 : m = MaxHits - f /\ j = MaxRounds - (round + 1) + 1
        BY <2>1, <2>2, AgentBounds
  <2>8. Agent!RoundBudget' = Agent!CeilDiv(m, j)
        BY <1>4, <2>1, <2>7 DEF Agent!RoundBudget, Agent!CeilDiv
  <2>9. Agent!RoundBudget' \in 0..m
        BY <2>7, <2>8, ShareFits
  <2>10. SearchInv'
        BY <1>2, <1>4, <2>1, <2>2, <2>6, <2>9, AgentBounds DEF SearchInv
  <2>11. Agent!TypeOK'
        BY <1>1, <1>2, <1>4, <2>2, AgentBounds DEF AgentBudgets, Agent!TypeOK
  <2> QED BY <1>1, <1>2, <1>4, <2>10, <2>11 DEF AgentBudgets
<1> QED BY <1>3, <1>4 DEF Agent!Cover

LEMMA OthersKeepBudgets ==
    ASSUME AgentBudgets,
           \/ \E c \in Chunk : Agent!Expand(c)
           \/ \E chunks \in SUBSET Chunk : Agent!Show(chunks) \/ Agent!Draft(chunks)
           \/ Agent!Check \/ Agent!Return
           \/ \E left \in SUBSET {"04_result"}, receipt0 \in SUBSET {"failure"} : Agent!Fail(left, receipt0)
           \/ \E c \in Chunk, gone \in BOOLEAN : Agent!Change(c, gone)
           \/ UNCHANGED Agent!vars
    PROVE  AgentBudgets'
<1>1. /\ UNCHANGED <<round, pending, begun, retrieved, widest>>
      /\ agentPc' = agentPc \/ agentPc' \in {"draft", "check", "result", "returned", "raised"}
      BY DEF Agent!Expand, Agent!Show, Agent!Draft, Agent!Check, Agent!Return, Agent!Wrote,
             Agent!Fail, Agent!Change, Agent!vars
<1>2. DOMAIN context' \subseteq Chunk /\ cited' \subseteq Chunk /\ changes' \in 0..MaxChanges
  <2>1. CASE \E c \in Chunk : Agent!Expand(c)
        BY <2>1 DEF Agent!Expand, Agent!With, AgentBudgets, Agent!TypeOK
  <2>2. CASE \E chunks \in SUBSET Chunk : Agent!Show(chunks) \/ Agent!Draft(chunks)
        BY <2>2 DEF Agent!Show, Agent!Draft, AgentBudgets, Agent!TypeOK
  <2>3. CASE \/ Agent!Check \/ Agent!Return \/ UNCHANGED Agent!vars
             \/ \E left \in SUBSET {"04_result"}, receipt0 \in SUBSET {"failure"} : Agent!Fail(left, receipt0)
        BY <2>3 DEF Agent!Check, Agent!Return, Agent!Fail, Agent!vars, AgentBudgets, Agent!TypeOK
  <2>4. CASE \E c \in Chunk, gone \in BOOLEAN : Agent!Change(c, gone)
        BY <2>4, AgentBounds DEF Agent!Change, AgentBudgets, Agent!TypeOK
  <2> QED BY <2>1, <2>2, <2>3, <2>4
<1>3. Agent!Found' = Agent!Found
      BY <1>1 DEF Agent!Found
<1>4. Agent!RoundBudget' = Agent!RoundBudget
      BY <1>1 DEF Agent!RoundBudget
<1>5. Agent!TypeOK'
      BY <1>1, <1>2, <1>3 DEF AgentBudgets, Agent!TypeOK
<1>6. agentPc' = "search" => SearchInv'
      BY <1>1, <1>3, <1>4 DEF AgentBudgets, SearchInv
<1> QED BY <1>1, <1>3, <1>5, <1>6 DEF AgentBudgets

\* The steps that read the index.
LEMMA SearchKeepsReads ==
    ASSUME AgentReads, NEW returned \in SUBSET Chunk, NEW taken \in SUBSET returned,
           Agent!Search(returned, taken), Agent!TypeOK'
    PROVE  AgentReads'
<1>1. /\ agentPc = "search" /\ taken \subseteq Agent!Present
      /\ retrieved' = Agent!With(retrieved, taken)
      /\ UNCHANGED <<agentPc, context, cited, asof, checked, files, index>>
      BY DEF Agent!Search
<1>2. ASSUME NEW c \in Agent!Found'
      PROVE  retrieved'[c] # 0 /\ Follows(retrieved'[c], index[c])
  <2>1. c \in Agent!Found \cup taken
        BY <1>1, <1>2 DEF Agent!Found, Agent!With
  <2>2. retrieved'[c] = IF c \in Agent!Found THEN retrieved[c] ELSE index[c]
        BY <1>1, <2>1 DEF Agent!With, Agent!Found
  <2>3. CASE c \in Agent!Found
        BY <2>2, <2>3 DEF AgentReads
  <2>4. CASE c \notin Agent!Found
    <3>1. c \in Chunk /\ index[c] # 0 /\ index[c] \in Nat
          BY <1>1, <2>1, <2>4 DEF Agent!Present, AgentReads
    <3> QED BY <2>2, <2>4, <3>1, FollowsOn
  <2> QED BY <2>3, <2>4
<1>3. (\A c \in Agent!Found : retrieved[c] # 0 /\ Follows(retrieved[c], index[c]))'
      BY <1>1, <1>2
<1>4. CitesHold' <=> CitesHold
      BY <1>1 DEF CitesHold
<1> QED BY <1>1, <1>3, <1>4 DEF AgentReads

LEMMA CoverKeepsReads ==
    ASSUME AgentReads, NEW queries \in 0..MaxQueries, Agent!Cover(queries), Agent!TypeOK'
    PROVE  AgentReads'
<1>1. /\ agentPc = "search"
      /\ \/ agentPc' = "expand" /\ context' = retrieved
         \/ UNCHANGED <<agentPc, context>>
      /\ UNCHANGED <<retrieved, cited, asof, checked, files, index>>
      BY DEF Agent!Cover
<1>2. (\A c \in Agent!Found : retrieved[c] # 0 /\ Follows(retrieved[c], index[c]))'
      BY <1>1 DEF AgentReads, Agent!Found
<1>3. (\A c \in DOMAIN context : context[c] # 0)'
      BY <1>1 DEF AgentReads, Agent!Found
<1>4. (agentPc = "expand" => \A c \in DOMAIN context : Follows(context[c], index[c]))'
      BY <1>1 DEF AgentReads, Agent!Found
<1>5. "04_result" \notin files'
      BY <1>1 DEF AgentReads
<1> QED BY <1>1, <1>2, <1>3, <1>4, <1>5 DEF AgentReads

LEMMA ExpandKeepsReads ==
    ASSUME AgentReads, NEW c \in Chunk, Agent!Expand(c), Agent!TypeOK'
    PROVE  AgentReads'
<1>1. /\ agentPc = "expand" /\ c \in Agent!Present /\ context' = Agent!With(context, {c})
      /\ UNCHANGED <<agentPc, retrieved, cited, asof, checked, files, index>>
      BY DEF Agent!Expand
<1>2. ASSUME NEW d \in DOMAIN context'
      PROVE  context'[d] # 0 /\ Follows(context'[d], index[d])
  <2>1. d \in DOMAIN context \cup {c}
        BY <1>1, <1>2 DEF Agent!With
  <2>2. context'[d] = IF d \in DOMAIN context THEN context[d] ELSE index[d]
        BY <1>1, <2>1 DEF Agent!With
  <2>3. CASE d \in DOMAIN context
        BY <1>1, <2>2, <2>3 DEF AgentReads
  <2>4. CASE d \notin DOMAIN context
    <3>1. d \in Chunk /\ index[d] # 0 /\ index[d] \in Nat
          BY <1>1, <2>1, <2>4 DEF Agent!Present, AgentReads
    <3> QED BY <2>2, <2>4, <3>1, FollowsOn
  <2> QED BY <2>3, <2>4
<1>3. (\A d \in DOMAIN context : context[d] # 0 /\ Follows(context[d], index[d]))'
      BY <1>1, <1>2
<1>4. (\A d \in Agent!Found : retrieved[d] # 0 /\ Follows(retrieved[d], index[d]))'
      BY <1>1 DEF AgentReads, Agent!Found
<1>5. "04_result" \notin files'
      BY <1>1 DEF AgentReads
<1> QED BY <1>1, <1>3, <1>4, <1>5 DEF AgentReads

LEMMA ShowKeepsReads ==
    ASSUME AgentReads, NEW fitting \in SUBSET Chunk, Agent!Show(fitting), Agent!TypeOK'
    PROVE  AgentReads'
<1>1. /\ agentPc = "expand" /\ agentPc' = "draft" /\ fitting \subseteq DOMAIN context
      /\ context' = [c \in fitting |-> context[c]] /\ asof' = index
      /\ files' = files \cup {"02_retrieval", "03_retrieval_manifest"}
      /\ UNCHANGED <<retrieved, cited, index>>
      BY DEF Agent!Show
<1>2. /\ index \in [Chunk -> Nat] /\ "00_input" \in files /\ "04_result" \notin files
      /\ \A c \in DOMAIN context : context[c] # 0 /\ Follows(context[c], index[c])
      BY <1>1 DEF AgentReads
<1>3. (\A c \in DOMAIN context : context[c] # 0 /\ Follows(context[c], asof[c]))'
      BY <1>1, <1>2
<1>4. (\A c \in Chunk : Follows(asof[c], index[c]))'
      BY <1>1, <1>2, FollowsOn
<1>5. (\A c \in Agent!Found : retrieved[c] # 0 /\ Follows(retrieved[c], index[c]))'
      BY <1>1 DEF AgentReads, Agent!Found
<1>6. Listed \subseteq files' /\ "04_result" \notin files'
      BY <1>1, <1>2 DEF Listed
<1> QED BY <1>1, <1>2, <1>3, <1>4, <1>5, <1>6 DEF AgentReads

\* A version that is read again where it was read before did not change between.
LEMMA CheckKeepsReads == ASSUME AgentReads, Agent!Check, Agent!TypeOK' PROVE AgentReads'
<1>1. /\ agentPc = "check" /\ agentPc' = "result" /\ \A c \in cited : index[c] = context[c]
      /\ checked' = index /\ UNCHANGED <<retrieved, context, cited, asof, files, index>>
      BY DEF Agent!Check
<1>2. \A c \in cited : c \in DOMAIN context /\ context[c] = asof[c] /\ context[c] = index[c]
  <2> SUFFICES ASSUME NEW c \in cited
               PROVE  c \in DOMAIN context /\ context[c] = asof[c] /\ context[c] = index[c]
      OBVIOUS
  <2>1. c \in DOMAIN context /\ c \in Chunk
        BY <1>1 DEF AgentReads, Agent!TypeOK
  <2>2. Follows(context[c], asof[c]) /\ Follows(asof[c], index[c]) /\ context[c] # 0
        BY <1>1, <2>1 DEF AgentReads
  <2>3. index[c] = context[c]
        BY <1>1
  <2> QED BY <2>1, <2>2, <2>3 DEF Follows
<1>3. CitesHold'
      BY <1>1, <1>2 DEF CitesHold
<1>4. (\A c \in Agent!Found : retrieved[c] # 0 /\ Follows(retrieved[c], index[c]))'
      BY <1>1 DEF AgentReads, Agent!Found
<1>5. Listed \subseteq files /\ "04_result" \notin files
      BY <1>1 DEF AgentReads
<1> QED BY <1>1, <1>3, <1>4, <1>5 DEF AgentReads

LEMMA ChangeKeepsReads ==
    ASSUME AgentReads, NEW c \in Chunk, NEW gone \in BOOLEAN, Agent!Change(c, gone), Agent!TypeOK'
    PROVE  AgentReads'
<1>1. /\ index[c] # 0 /\ index' = [index EXCEPT ![c] = IF gone THEN 0 ELSE index[c] + 1]
      /\ UNCHANGED <<agentPc, retrieved, context, cited, asof, checked, files>>
      BY DEF Agent!Change, Agent!Present
<1>2. index \in [Chunk -> Nat] /\ index' \in [Chunk -> Nat]
      BY <1>1 DEF AgentReads
<1>3. \A d \in Chunk : Follows(index[d], index'[d])
      BY <1>1, <1>2 DEF Follows
<1>4. Agent!Found \subseteq Chunk /\ DOMAIN context \subseteq Chunk
      BY DEF AgentReads, Agent!TypeOK
<1>5. (\A d \in Chunk : Follows(asof[d], index[d]))'
      BY <1>1, <1>3, FollowsOn DEF AgentReads
<1>6. (\A d \in Agent!Found : retrieved[d] # 0 /\ Follows(retrieved[d], index[d]))'
      BY <1>1, <1>3, <1>4, FollowsOn DEF AgentReads, Agent!Found
<1>7. (agentPc = "expand" => \A d \in DOMAIN context : Follows(context[d], index[d]))'
      BY <1>1, <1>3, <1>4, FollowsOn DEF AgentReads
<1>8. CitesHold' <=> CitesHold
      BY <1>1 DEF CitesHold
<1> QED BY <1>1, <1>2, <1>5, <1>6, <1>7, <1>8 DEF AgentReads

\* The steps that neither read the index nor change it.
LEMMA OthersKeepReads ==
    ASSUME AgentReads, Agent!TypeOK',
           \/ \E queries \in 1..MaxQueries : Agent!Plan(queries)
           \/ \E chunks \in SUBSET Chunk : Agent!Draft(chunks)
           \/ Agent!Return
           \/ \E left \in SUBSET {"04_result"}, receipt0 \in SUBSET {"failure"} : Agent!Fail(left, receipt0)
           \/ UNCHANGED Agent!vars
    PROVE  AgentReads'
<1>1. UNCHANGED <<retrieved, context, asof, checked, index>>
      BY DEF Agent!Plan, Agent!Draft, Agent!Return, Agent!Fail, Agent!vars
<1>2. /\ (\A c \in Chunk : Follows(asof[c], index[c]))'
      /\ (\A c \in Agent!Found : retrieved[c] # 0 /\ Follows(retrieved[c], index[c]))'
      /\ (\A c \in DOMAIN context : context[c] # 0)'
      /\ index' \in [Chunk -> Nat] /\ asof' \in [Chunk -> Nat]
      BY <1>1 DEF AgentReads, Agent!Found
<1>3. CASE \E queries \in 1..MaxQueries : Agent!Plan(queries)
  <2>1. /\ agentPc = "plan" /\ agentPc' = "search" /\ cited' = cited
        /\ files' = files \cup {"00_input", "01_query_plan"}
        BY <1>3 DEF Agent!Plan
  <2>2. "04_result" \notin files'
        BY <2>1 DEF AgentReads
  <2> QED BY <1>2, <2>1, <2>2 DEF AgentReads
<1>4. CASE \E chunks \in SUBSET Chunk : Agent!Draft(chunks)
  <2>1. agentPc = "draft" /\ agentPc' = "check" /\ cited' \subseteq DOMAIN context /\ files' = files
        BY <1>4 DEF Agent!Draft
  <2>2. /\ "04_result" \notin files /\ Listed \subseteq files
        /\ \A c \in DOMAIN context : Follows(context[c], asof[c])
        BY <2>1 DEF AgentReads
  <2>3. (\A c \in DOMAIN context : Follows(context[c], asof[c]))'
        BY <1>1, <2>2
  <2> QED BY <1>1, <1>2, <2>1, <2>2, <2>3 DEF AgentReads
<1>5. CASE Agent!Return
  <2>1. agentPc = "result" /\ agentPc' = "returned" /\ files' = files \cup {"04_result"} /\ cited' = cited
        BY <1>5 DEF Agent!Return, Agent!Wrote
  <2>2. Listed \subseteq files /\ CitesHold
        BY <2>1 DEF AgentReads
  <2>3. CitesHold'
        BY <1>1, <2>1, <2>2 DEF CitesHold
  <2> QED BY <1>2, <2>1, <2>2, <2>3 DEF AgentReads
<1>6. CASE \E left \in SUBSET {"04_result"}, receipt0 \in SUBSET {"failure"} : Agent!Fail(left, receipt0)
  <2>1. PICK left \in SUBSET {"04_result"}, receipt0 \in SUBSET {"failure"} : Agent!Fail(left, receipt0)
        BY <1>6
  <2>2. /\ agentPc \notin {"returned", "raised"} /\ agentPc' = "raised" /\ cited' = cited
        /\ left \subseteq (IF agentPc = "result" THEN {"04_result"} ELSE {})
        /\ files' = files \cup left \cup receipt0
        BY <2>1 DEF Agent!Fail
  <2>3. "04_result" \notin files
        BY <2>2 DEF AgentReads
  <2>4. "04_result" \in files' => agentPc = "result"
        BY <2>2, <2>3
  <2>5. "04_result" \in files' => Listed \subseteq files' /\ CitesHold
        BY <2>2, <2>4 DEF AgentReads
  <2>6. CitesHold' <=> CitesHold
        BY <1>1, <2>2 DEF CitesHold
  <2> QED BY <1>2, <2>2, <2>5, <2>6 DEF AgentReads
<1>7. CASE UNCHANGED Agent!vars
  <2>1. UNCHANGED <<agentPc, cited, files>>
        BY <1>7 DEF Agent!vars
  <2>2. CitesHold' <=> CitesHold
        BY <1>1, <2>1 DEF CitesHold
  <2> QED BY <1>1, <1>2, <2>1, <2>2 DEF AgentReads
<1> QED BY <1>3, <1>4, <1>5, <1>6, <1>7

LEMMA AgentStep ==
    ASSUME AgentBudgets, AgentReads, [Agent!Next]_(Agent!vars)
    PROVE  AgentBudgets' /\ AgentReads'
<1>1. CASE \E queries \in 1..MaxQueries : Agent!Plan(queries)
  <2>1. AgentBudgets'
        BY <1>1, PlanKeepsBudgets
  <2>2. AgentReads'
        BY <1>1, <2>1, OthersKeepReads DEF AgentBudgets
  <2> QED BY <2>1, <2>2
<1>2. CASE \E returned \in SUBSET Chunk : \E taken \in SUBSET returned : Agent!Search(returned, taken)
  <2>1. PICK returned \in SUBSET Chunk : \E taken \in SUBSET returned : Agent!Search(returned, taken)
        BY <1>2
  <2>2. PICK taken \in SUBSET returned : Agent!Search(returned, taken)
        BY <2>1
  <2>3. AgentBudgets'
        BY <2>2, SearchKeepsBudgets
  <2>4. AgentReads'
        BY <2>2, <2>3, SearchKeepsReads DEF AgentBudgets
  <2> QED BY <2>3, <2>4
<1>3. CASE \E queries \in 0..MaxQueries : Agent!Cover(queries)
  <2>1. PICK queries \in 0..MaxQueries : Agent!Cover(queries)
        BY <1>3
  <2>2. AgentBudgets'
        BY <2>1, CoverKeepsBudgets
  <2>3. AgentReads'
        BY <2>1, <2>2, CoverKeepsReads DEF AgentBudgets
  <2> QED BY <2>2, <2>3
<1>4. CASE \/ \E c \in Chunk : Agent!Expand(c)
           \/ \E chunks \in SUBSET Chunk : Agent!Show(chunks) \/ Agent!Draft(chunks)
           \/ Agent!Check \/ Agent!Return
           \/ \E left \in SUBSET {"04_result"}, receipt0 \in SUBSET {"failure"} : Agent!Fail(left, receipt0)
           \/ \E c \in Chunk, gone \in BOOLEAN : Agent!Change(c, gone)
           \/ UNCHANGED Agent!vars
  <2>1. AgentBudgets'
        BY <1>4, OthersKeepBudgets
  <2>2. Agent!TypeOK'
        BY <2>1 DEF AgentBudgets
  <2>3. AgentReads'
        BY <1>4, <2>2, ExpandKeepsReads, ShowKeepsReads, CheckKeepsReads, ChangeKeepsReads, OthersKeepReads
  <2> QED BY <2>1, <2>3
<1> QED BY <1>1, <1>2, <1>3, <1>4 DEF Agent!Next

LEMMA AgentTold == ASSUME AgentBudgets, AgentReads PROVE Agent!BudgetsKept /\ Agent!CompletedIsCurrent
<1>1. Agent!BudgetsKept
  <2>1. Cardinality(Agent!Found) \in Nat
        BY AgentBounds, FS_Subset, FS_CardinalityType DEF AgentBudgets, Agent!TypeOK
  <2>2. Cardinality(Agent!Found) <= MaxHits /\ widest <= MaxHits
        BY DEF AgentBudgets
  <2>3. ASSUME agentPc = "search", MaxRounds <= MaxHits
        PROVE  MaxHits - Cardinality(Agent!Found) >= MaxRounds - round
    <3>1. /\ round \in 1..MaxRounds /\ begun \in 0..MaxHits
          /\ Cardinality(Agent!Found) - begun <= Agent!RoundBudget
          /\ MaxHits - begun >= MaxRounds - round + 1
          BY <2>3 DEF AgentBudgets, SearchInv
    <3>2. PICK n \in Nat, k \in 1..4 : n = MaxHits - begun /\ k = MaxRounds - round + 1
      <4>1. MaxHits - begun \in Nat /\ MaxRounds - round + 1 \in 1..4
            BY <3>1, AgentBounds
      <4> QED BY <4>1
    <3>3. Agent!RoundBudget = Agent!CeilDiv(n, k)
          BY <3>2 DEF Agent!RoundBudget
    <3>4. Agent!RoundBudget \in 0..n /\ (n >= k => n - Agent!RoundBudget >= k - 1)
          BY <3>2, <3>3, ShareFits
    <3> QED BY <2>1, <3>1, <3>2, <3>4, AgentBounds
  <2> QED BY <2>2, <2>3, AgentSets DEF Agent!BudgetsKept
<1>2. Agent!CompletedIsCurrent
      BY DEF AgentReads, Agent!CompletedIsCurrent, CitesHold, Listed
<1> QED BY <1>1, <1>2

-----------------------------------------------------------------------------
(* The videos sent to YouTube                                              *)

LoginProofs == INSTANCE YouTubeJobsProofs WITH UploadJob <- {Lone}, WritesMayFail <- TRUE
FilmProofs == INSTANCE YouTubeJobsProofs WITH ConnectJob <- {Lone}, WritesMayFail <- TRUE

LEMMA LoginSameSpec ==
    /\ Login!Init <=> LoginProofs!Init
    /\ [Login!Next]_(Login!vars) <=> [LoginProofs!Next]_(LoginProofs!vars)
BY DEF Login!Job, LoginProofs!Job, Login!files, LoginProofs!files, Login!volatile, LoginProofs!volatile,
   Login!ghosts, LoginProofs!ghosts, Login!vars, LoginProofs!vars, Login!ActiveOAuth,
   LoginProofs!ActiveOAuth, Login!ActiveUpload, LoginProofs!ActiveUpload, Login!Terminal,
   LoginProofs!Terminal, Login!Phase, LoginProofs!Phase, Login!Request, LoginProofs!Request,
   Login!Place, LoginProofs!Place, Login!ErrorCode, LoginProofs!ErrorCode, Login!Actor,
   LoginProofs!Actor, Login!Activity, LoginProofs!Activity, Login!Idle, LoginProofs!Idle, Login!At,
   LoginProofs!At, Login!Goto, LoginProofs!Goto, Login!Raise, LoginProofs!Raise, Login!Begin,
   LoginProofs!Begin, Login!Init, LoginProofs!Init, Login!Put, LoginProofs!Put, Login!Resume,
   LoginProofs!Resume, Login!AfterFailedWrite, LoginProofs!AfterFailedWrite, Login!Raises,
   LoginProofs!Raises, Login!Write, LoginProofs!Write, Login!UiFree, LoginProofs!UiFree,
   Login!ConnectActive, LoginProofs!ConnectActive, Login!UiBegins, LoginProofs!UiBegins,
   Login!start_connect, LoginProofs!start_connect, Login!start_upload, LoginProofs!start_upload,
   Login!Submit, LoginProofs!Submit, Login!cancel_connect, LoginProofs!cancel_connect, Login!Signal,
   LoginProofs!Signal, Login!recover_interrupted_connect, LoginProofs!recover_interrupted_connect,
   Login!Take, LoginProofs!Take, Login!IsCancelled, LoginProofs!IsCancelled, Login!Status,
   LoginProofs!Status, Login!AwaitBrowser, LoginProofs!AwaitBrowser, Login!FetchToken,
   LoginProofs!FetchToken, Login!CheckCancelled, LoginProofs!CheckCancelled, Login!SaveAccount,
   LoginProofs!SaveAccount, Login!AfterJob, LoginProofs!AfterJob, Login!Succeed, LoginProofs!Succeed,
   Login!ErrorPhase, LoginProofs!ErrorPhase, Login!Except, LoginProofs!Except, Login!Finally,
   LoginProofs!Finally, Login!StartSending, LoginProofs!StartSending, Login!LoadCredentials,
   LoginProofs!LoadCredentials, Login!Send, LoginProofs!Send, Login!LastProgress,
   LoginProofs!LastProgress, Login!WriteReceipt, LoginProofs!WriteReceipt, Login!Shutdown,
   LoginProofs!Shutdown, Login!Restart, LoginProofs!Restart, Login!ConnectStep,
   LoginProofs!ConnectStep, Login!UploadStep, LoginProofs!UploadStep, Login!WorkerStep,
   LoginProofs!WorkerStep, Login!UiStep, LoginProofs!UiStep, Login!UiRequest, LoginProofs!UiRequest,
   Login!Next, LoginProofs!Next

LEMMA LoginSameSays ==
    /\ Login!TypeOK <=> LoginProofs!TypeOK
    /\ Login!ShownIsTrue <=> LoginProofs!ShownIsTrue
    /\ Login!OneLiveConnect <=> LoginProofs!OneLiveConnect
BY DEF Login!Job, LoginProofs!Job, Login!ActiveOAuth, LoginProofs!ActiveOAuth, Login!ActiveUpload,
   LoginProofs!ActiveUpload, Login!Terminal, LoginProofs!Terminal, Login!Phase, LoginProofs!Phase,
   Login!Request, LoginProofs!Request, Login!Place, LoginProofs!Place, Login!ErrorCode,
   LoginProofs!ErrorCode, Login!Actor, LoginProofs!Actor, Login!Activity, LoginProofs!Activity,
   Login!Idle, LoginProofs!Idle, Login!TypeOK, LoginProofs!TypeOK, Login!Working, LoginProofs!Working,
   Login!ShownIn, LoginProofs!ShownIn, Login!SuccessIsBacked, LoginProofs!SuccessIsBacked,
   Login!ReceiptIsTrue, LoginProofs!ReceiptIsTrue, Login!ShownIsTrue, LoginProofs!ShownIsTrue,
   Login!OneLiveConnect, LoginProofs!OneLiveConnect

LEMMA FilmSameSpec ==
    /\ Film!Init <=> FilmProofs!Init
    /\ [Film!Next]_(Film!vars) <=> [FilmProofs!Next]_(FilmProofs!vars)
BY DEF Film!Job, FilmProofs!Job, Film!files, FilmProofs!files, Film!volatile, FilmProofs!volatile,
   Film!ghosts, FilmProofs!ghosts, Film!vars, FilmProofs!vars, Film!ActiveOAuth,
   FilmProofs!ActiveOAuth, Film!ActiveUpload, FilmProofs!ActiveUpload, Film!Terminal,
   FilmProofs!Terminal, Film!Phase, FilmProofs!Phase, Film!Request, FilmProofs!Request, Film!Place,
   FilmProofs!Place, Film!ErrorCode, FilmProofs!ErrorCode, Film!Actor, FilmProofs!Actor, Film!Activity,
   FilmProofs!Activity, Film!Idle, FilmProofs!Idle, Film!At, FilmProofs!At, Film!Goto, FilmProofs!Goto,
   Film!Raise, FilmProofs!Raise, Film!Begin, FilmProofs!Begin, Film!Init, FilmProofs!Init, Film!Put,
   FilmProofs!Put, Film!Resume, FilmProofs!Resume, Film!AfterFailedWrite, FilmProofs!AfterFailedWrite,
   Film!Raises, FilmProofs!Raises, Film!Write, FilmProofs!Write, Film!UiFree, FilmProofs!UiFree,
   Film!ConnectActive, FilmProofs!ConnectActive, Film!UiBegins, FilmProofs!UiBegins,
   Film!start_connect, FilmProofs!start_connect, Film!start_upload, FilmProofs!start_upload,
   Film!Submit, FilmProofs!Submit, Film!cancel_connect, FilmProofs!cancel_connect, Film!Signal,
   FilmProofs!Signal, Film!recover_interrupted_connect, FilmProofs!recover_interrupted_connect,
   Film!Take, FilmProofs!Take, Film!IsCancelled, FilmProofs!IsCancelled, Film!Status,
   FilmProofs!Status, Film!AwaitBrowser, FilmProofs!AwaitBrowser, Film!FetchToken,
   FilmProofs!FetchToken, Film!CheckCancelled, FilmProofs!CheckCancelled, Film!SaveAccount,
   FilmProofs!SaveAccount, Film!AfterJob, FilmProofs!AfterJob, Film!Succeed, FilmProofs!Succeed,
   Film!ErrorPhase, FilmProofs!ErrorPhase, Film!Except, FilmProofs!Except, Film!Finally,
   FilmProofs!Finally, Film!StartSending, FilmProofs!StartSending, Film!LoadCredentials,
   FilmProofs!LoadCredentials, Film!Send, FilmProofs!Send, Film!LastProgress, FilmProofs!LastProgress,
   Film!WriteReceipt, FilmProofs!WriteReceipt, Film!Shutdown, FilmProofs!Shutdown, Film!Restart,
   FilmProofs!Restart, Film!ConnectStep, FilmProofs!ConnectStep, Film!UploadStep,
   FilmProofs!UploadStep, Film!WorkerStep, FilmProofs!WorkerStep, Film!UiStep, FilmProofs!UiStep,
   Film!UiRequest, FilmProofs!UiRequest, Film!Next, FilmProofs!Next

LEMMA FilmSameSays ==
    /\ Film!TypeOK <=> FilmProofs!TypeOK
    /\ Film!ShownIsTrue <=> FilmProofs!ShownIsTrue
    /\ Film!OneLiveConnect <=> FilmProofs!OneLiveConnect
BY DEF Film!Job, FilmProofs!Job, Film!ActiveOAuth, FilmProofs!ActiveOAuth, Film!ActiveUpload,
   FilmProofs!ActiveUpload, Film!Terminal, FilmProofs!Terminal, Film!Phase, FilmProofs!Phase,
   Film!Request, FilmProofs!Request, Film!Place, FilmProofs!Place, Film!ErrorCode,
   FilmProofs!ErrorCode, Film!Actor, FilmProofs!Actor, Film!Activity, FilmProofs!Activity, Film!Idle,
   FilmProofs!Idle, Film!TypeOK, FilmProofs!TypeOK, Film!Working, FilmProofs!Working, Film!ShownIn,
   FilmProofs!ShownIn, Film!SuccessIsBacked, FilmProofs!SuccessIsBacked, Film!ReceiptIsTrue,
   FilmProofs!ReceiptIsTrue, Film!ShownIsTrue, FilmProofs!ShownIsTrue, Film!OneLiveConnect,
   FilmProofs!OneLiveConnect

-----------------------------------------------------------------------------
(* The accounts of a channel and the posts handed over for them            *)

\* A request that goes on knows the attempt and the account it goes on with.
Named == /\ doing.at \in {"point", "exchange", "token", "list", "failing", "attempt"} =>
                doing.attempt \in Attempt
         /\ doing.at \in {"token", "list", "unlist"} => doing.account \in Account

\* A code that may still be sent was never sent: an attempt that waits, or that
\* was written VERIFYING_IDENTITY by the very request that is about to send it.
Unsent == /\ \A a \in Attempt :
                attempt[a] \in {"unused", "WAITING_FOR_AUTHORIZATION"} => exchanged[a] = 0
          /\ doing.at = "exchange" =>
                /\ attempt[doing.attempt] = "VERIFYING_IDENTITY"
                /\ exchanged[doing.attempt] = 0
                /\ current = doing.attempt

\* An account that was disconnected is not listed.
PartedIsUnlisted == \A x \in parted : authorized[x] = "none"

\* A post under way is for an account that was found eligible and still is listed.
BoundToListed == doing.at = "publish" => /\ preview \in Staged
                                         /\ boundTo[preview] \in Account
                                         /\ authorized[boundTo[preview]] = "write"

PostInv == Post!HandoffTypeOK /\ Named /\ Unsent /\ PartedIsUnlisted /\ BoundToListed

-----------------------------------------------------------------------------

LEMMA IdleIsTyped == Post!Idle \in Post!Doing /\ Post!Idle.at = "idle"
BY DEF Post!Idle, Post!Doing, Post!Place, Post!Scope

LEMMA PostInit == Post!HandoffInit => PostInv
BY IdleIsTyped DEF Post!HandoffInit, Post!Init, PostInv, Post!HandoffTypeOK, Post!AccountTypeOK, Named, Unsent,
   PartedIsUnlisted, BoundToListed, Post!Phase, Post!Token, Post!Scope, Post!NoReceipt, Post!Status

\* Steps of an attempt that move neither a code nor an account.
LEMMA AttemptSteps ==
    ASSUME PostInv, UNCHANGED Post!handoffVars, NEW a \in Attempt,
           Post!Start(a) \/ Post!Cancel(a) \/ Post!ShowAttempt(a) \/ Post!Accept(a) \/ Post!FiveMinutesPass(a)
    PROVE  PostInv'
<1> USE DEF PostInv, Post!HandoffTypeOK, Post!AccountTypeOK, Named, Unsent, PartedIsUnlisted,
            BoundToListed, Post!handoffVars, Post!Doing, Post!Place, Post!Phase, Post!SetPhase, Post!Idle, Post!Scope
<1>1. CASE Post!Start(a) BY <1>1 DEF Post!Start
<1>2. CASE Post!Cancel(a) BY <1>2 DEF Post!Cancel, Post!OnFile
<1>3. CASE Post!ShowAttempt(a) BY <1>3 DEF Post!ShowAttempt
<1>4. CASE Post!Accept(a) BY <1>4 DEF Post!Accept
<1>5. CASE Post!FiveMinutesPass(a) BY <1>5 DEF Post!FiveMinutesPass
<1> QED BY <1>1, <1>2, <1>3, <1>4, <1>5

\* Sending the code, and whatever the provider answers.
LEMMA CodeSteps ==
    ASSUME PostInv, UNCHANGED Post!handoffVars,
           \/ \E x \in Account, scope \in {"read", "write"} : Post!Exchange(x, scope)
           \/ Post!ExchangeFails
    PROVE  PostInv'
<1> USE DEF PostInv, Post!HandoffTypeOK, Post!AccountTypeOK, Named, Unsent, PartedIsUnlisted,
            BoundToListed, Post!handoffVars, Post!Doing, Post!Place, Post!Phase, Post!SendCode, Post!Goto, Post!Scope
<1>1. ASSUME NEW x \in Account, NEW scope \in {"read", "write"}, Post!Exchange(x, scope)
      PROVE  PostInv'
  <2>1. /\ doing' \in Post!Doing
        /\ doing'.at = "token" /\ doing'.attempt = doing.attempt /\ doing'.account = x
    BY <1>1 DEF Post!Exchange
  <2>2. exchanged' \in [Attempt -> Nat]
    <3>1. doing.attempt \in Attempt /\ exchanged[doing.attempt] = 0
      BY <1>1 DEF Post!Exchange
    <3>2. exchanged' = [exchanged EXCEPT ![doing.attempt] = exchanged[doing.attempt] + 1]
      BY <1>1 DEF Post!Exchange
    <3>3. exchanged \in [Attempt -> Nat]
      OBVIOUS
    <3> HIDE DEF PostInv, Post!SendCode
    <3> QED BY <3>1, <3>2, <3>3
  <2>3. \A a \in Attempt : attempt[a] # "VERIFYING_IDENTITY" => exchanged'[a] = exchanged[a]
    BY <1>1 DEF Post!Exchange
  <2> QED BY <1>1, <2>1, <2>2, <2>3 DEF Post!Exchange
<1>2. CASE Post!ExchangeFails BY <1>2 DEF Post!ExchangeFails
<1> QED BY <1>1, <1>2

\* Saving an account, or failing to.
LEMMA SaveSteps ==
    ASSUME PostInv, UNCHANGED Post!handoffVars,
           Post!SaveToken \/ Post!SaveList \/ Post!SaveFails \/ Post!RecordFailure \/ Post!RemoveAttempt
    PROVE  PostInv'
<1> USE DEF PostInv, Post!HandoffTypeOK, Post!AccountTypeOK, Named, Unsent, PartedIsUnlisted,
            BoundToListed, Post!handoffVars, Post!Doing, Post!Place, Post!Phase, Post!SetPhase, Post!Goto, Post!Idle,
            Post!Scope, Post!Token
<1>1. CASE Post!SaveToken BY <1>1 DEF Post!SaveToken
<1>2. CASE Post!SaveList BY <1>2 DEF Post!SaveList
<1>3. CASE Post!SaveFails BY <1>3 DEF Post!SaveFails
<1>4. CASE Post!RecordFailure BY <1>4 DEF Post!RecordFailure
<1>5. CASE Post!RemoveAttempt BY <1>5 DEF Post!RemoveAttempt
<1> QED BY <1>1, <1>2, <1>3, <1>4, <1>5

\* Pointers, disconnection, the end of a request, and a token's time.
LEMMA OtherAccountSteps ==
    ASSUME PostInv, UNCHANGED Post!handoffVars,
           \/ Post!Point \/ Post!RemovePointer \/ Post!Unlist \/ Post!Stop
           \/ \E x \in Account : Post!Disconnect(x) \/ Post!TokenLapses(x)
    PROVE  PostInv'
<1> USE DEF PostInv, Post!HandoffTypeOK, Post!AccountTypeOK, Named, Unsent, PartedIsUnlisted,
            BoundToListed, Post!handoffVars, Post!Doing, Post!Place, Post!Phase, Post!Idle, Post!Scope, Post!Token
<1>1. CASE Post!Point BY <1>1 DEF Post!Point
<1>2. CASE Post!RemovePointer BY <1>2 DEF Post!RemovePointer
<1>3. CASE Post!Unlist BY <1>3 DEF Post!Unlist
<1>4. CASE Post!Stop BY <1>4 DEF Post!Stop
<1>5. ASSUME NEW x \in Account, Post!Disconnect(x) PROVE PostInv' BY <1>5 DEF Post!Disconnect
<1>6. ASSUME NEW x \in Account, Post!TokenLapses(x) PROVE PostInv' BY <1>6 DEF Post!TokenLapses
<1> QED BY <1>1, <1>2, <1>3, <1>4, <1>5, <1>6

\* The handoff's own steps.
LEMMA HandoffSteps ==
    ASSUME PostInv,
           \/ \E p \in Staged, x \in Account : Post!PreviewDay(p, x)
           \/ \E t \in Tab : Post!LoadPage(t) \/ Post!Approve(t)
           \/ \E answer \in {"succeeded", "raised"} : Post!Publish(answer)
           \/ Post!WriteReceipt
    PROVE  PostInv'
<1> USE DEF PostInv, Post!HandoffTypeOK, Post!AccountTypeOK, Named, Unsent, PartedIsUnlisted,
            BoundToListed, Post!Doing, Post!Place, Post!Idle, Post!Scope
<1>1. ASSUME NEW p \in Staged, NEW x \in Account, Post!PreviewDay(p, x) PROVE PostInv'
  BY <1>1 DEF Post!PreviewDay, Post!accountVars
<1>2. ASSUME NEW t \in Tab, Post!LoadPage(t) PROVE PostInv'
  BY <1>2 DEF Post!LoadPage, Post!accountVars, Post!Offered
<1>3. ASSUME NEW t \in Tab, Post!Approve(t) PROVE PostInv'
  BY <1>3 DEF Post!Approve, Post!Eligible, Post!handoffVars
<1>4. ASSUME NEW answer \in {"succeeded", "raised"}, Post!Publish(answer) PROVE PostInv'
  BY <1>4 DEF Post!Publish, Post!Goto
<1>5. CASE Post!WriteReceipt
  BY <1>5 DEF Post!WriteReceipt, Post!Status
<1> QED BY <1>1, <1>2, <1>3, <1>4, <1>5

LEMMA PostStep == PostInv /\ [Post!HandoffNext]_(Post!vars) => PostInv'
<1> SUFFICES ASSUME PostInv, [Post!HandoffNext]_(Post!vars) PROVE PostInv' OBVIOUS
<1>1. CASE Post!AccountNext /\ UNCHANGED Post!handoffVars
  <2>1. CASE \E a \in Attempt : \/ Post!Start(a) \/ Post!Cancel(a) \/ Post!ShowAttempt(a) \/ Post!Accept(a)
                                \/ Post!FiveMinutesPass(a)
    BY <1>1, <2>1, AttemptSteps
  <2>2. CASE \/ \E x \in Account, scope \in {"read", "write"} : Post!Exchange(x, scope)
             \/ Post!ExchangeFails
    BY <1>1, <2>2, CodeSteps
  <2>3. CASE Post!SaveToken \/ Post!SaveList \/ Post!SaveFails \/ Post!RecordFailure \/ Post!RemoveAttempt
    BY <1>1, <2>3, SaveSteps
  <2>4. CASE \/ Post!Point \/ Post!RemovePointer \/ Post!Unlist \/ Post!Stop
             \/ \E x \in Account : Post!Disconnect(x) \/ Post!TokenLapses(x)
    BY <1>1, <2>4, OtherAccountSteps
  <2> QED BY <1>1, <2>1, <2>2, <2>3, <2>4 DEF Post!AccountNext
<1>2. CASE Post!HandoffNext /\ ~(Post!AccountNext /\ UNCHANGED Post!handoffVars)
  BY <1>2, HandoffSteps DEF Post!HandoffNext
<1>3. CASE UNCHANGED Post!vars
  BY <1>3 DEF Post!vars, Post!accountVars, Post!handoffVars, PostInv, Post!HandoffTypeOK, Post!AccountTypeOK, Named,
     Unsent, PartedIsUnlisted, BoundToListed
<1> QED BY <1>1, <1>2, <1>3

\* Only sending a code changes how often it was sent.
LEMMA OnlyExchangesSend ==
    ASSUME PostInv, [Post!HandoffNext]_(Post!vars), NEW a \in Attempt, exchanged'[a] # exchanged[a]
    PROVE  doing.at = "exchange" /\ a = doing.attempt
<1>1. exchanged' # exchanged OBVIOUS
<1>2. Post!AccountNext
  BY <1>1 DEF Post!HandoffNext, Post!vars, Post!accountVars, Post!PreviewDay, Post!LoadPage, Post!Approve, Post!Publish, Post!WriteReceipt
<1>3. doing.at = "exchange" /\ Post!SendCode
  BY <1>1, <1>2 DEF Post!AccountNext, Post!Start, Post!Cancel, Post!ShowAttempt, Post!Accept, Post!FiveMinutesPass,
     Post!Exchange, Post!Disconnect, Post!TokenLapses, Post!Point, Post!ExchangeFails, Post!SaveToken, Post!SaveList,
     Post!SaveFails, Post!RecordFailure, Post!RemoveAttempt, Post!RemovePointer, Post!Unlist, Post!Stop
<1> QED BY <1>3 DEF Post!SendCode, PostInv, Post!HandoffTypeOK, Post!AccountTypeOK

-----------------------------------------------------------------------------
(* All of it                                                               *)

WholeInv ==
    /\ IInv /\ TruthInv /\ AgentBudgets /\ AgentReads /\ PostInv
    /\ part = "login" => LoginProofs!PublishingInv
    /\ part = "film" => FilmProofs!PublishingInv

LEMMA JobKinds ==
    /\ LoginProofs!KindAssumption /\ LoginProofs!WritesAssumption
    /\ FilmProofs!KindAssumption /\ FilmProofs!WritesAssumption
BY PartsAssumption DEF Login!KindAssumption, Film!KindAssumption, Login!Job, Film!Job,
   LoginProofs!KindAssumption, FilmProofs!KindAssumption, LoginProofs!Job, FilmProofs!Job,
   LoginProofs!WritesAssumption, FilmProofs!WritesAssumption

LEMMA WholeInit == DeliveryInit => WholeInv
<1> SUFFICES ASSUME DeliveryInit PROVE WholeInv
    OBVIOUS
<1>1. IInv /\ TruthInv /\ AgentBudgets /\ AgentReads /\ PostInv
      BY DeliveryStart, TruthInit, AgentInit, PostInit DEF DeliveryInit
<1>2. part = "login" => LoginProofs!PublishingInv
      BY LoginSameSpec, JobKinds, LoginProofs!PublishingInit DEF DeliveryInit
<1>3. part = "film" => FilmProofs!PublishingInv
      BY FilmSameSpec, JobKinds, FilmProofs!PublishingInit DEF DeliveryInit
<1> QED BY <1>1, <1>2, <1>3 DEF WholeInv

\* A step of one part is a stutter of every other.
LEMMA PartsStep ==
    ASSUME [DeliveryNext]_allVars
    PROVE  /\ part' = part
           /\ [Next]_vars /\ [Truth!Next]_(Truth!vars) /\ [Agent!Next]_(Agent!vars)
           /\ [Post!HandoffNext]_(Post!vars)
           /\ part = "login" => [Login!Next]_(Login!vars)
           /\ part = "film" => [Film!Next]_(Film!vars)
<1>1. part' = part
      BY DEF DeliveryNext, allVars
<1>2. [Next]_vars
      BY DEF DeliveryNext, allVars
<1>3. [Truth!Next]_(Truth!vars)
      BY DEF DeliveryNext, allVars, truthVars, Truth!vars
<1>4. [Agent!Next]_(Agent!vars)
      BY DEF DeliveryNext, allVars, agentVars, Agent!vars
<1>5. [Post!HandoffNext]_(Post!vars)
      BY DEF DeliveryNext, allVars, postVars, Post!vars, Post!accountVars, Post!handoffVars
<1>6. part = "login" => [Login!Next]_(Login!vars)
      BY DEF DeliveryNext, allVars, filmVars, Login!vars
<1>7. part = "film" => [Film!Next]_(Film!vars)
      BY DEF DeliveryNext, allVars, filmVars, Film!vars
<1> QED BY <1>1, <1>2, <1>3, <1>4, <1>5, <1>6, <1>7

LEMMA WholeStep == WholeInv /\ [DeliveryNext]_allVars => WholeInv'
<1> SUFFICES ASSUME WholeInv, [DeliveryNext]_allVars PROVE WholeInv'
    OBVIOUS
<1>1. IInv'
      BY PartsStep, DeliveryStep DEF WholeInv
<1>2. TruthInv'
      BY PartsStep, TruthStep DEF WholeInv
<1>3. AgentBudgets' /\ AgentReads'
      BY PartsStep, AgentStep DEF WholeInv
<1>4. PostInv'
      BY PartsStep, PostStep DEF WholeInv
<1>5. part' = "login" => LoginProofs!PublishingInv'
      BY PartsStep, LoginSameSpec, JobKinds, LoginProofs!PublishingStep DEF WholeInv
<1>6. part' = "film" => FilmProofs!PublishingInv'
      BY PartsStep, FilmSameSpec, JobKinds, FilmProofs!PublishingStep DEF WholeInv
<1> QED BY <1>1, <1>2, <1>3, <1>4, <1>5, <1>6 DEF WholeInv

\* The invariants of all parts hold in every behaviour of any of them.
THEOREM WholeInvariance == DeliverySpec => []WholeInv
BY WholeInit, WholeStep, PTL DEF DeliverySpec

\* What each part keeps is of its type.
THEOREM PartsTyped == DeliverySpec => []PartsTypeOK
<1>1. WholeInv => PartsTypeOK
  <2> SUFFICES ASSUME WholeInv PROVE PartsTypeOK
      OBVIOUS
  <2>1. TypeOK /\ Truth!TypeOK /\ Agent!TypeOK /\ Post!HandoffTypeOK
        BY DEF WholeInv, IInv, TruthInv, AgentBudgets, PostInv
  <2>2. part = "login" => Login!TypeOK
        BY LoginSameSays DEF WholeInv, LoginProofs!PublishingInv
  <2>3. part = "film" => Film!TypeOK
        BY FilmSameSays DEF WholeInv, FilmProofs!PublishingInv
  <2> QED BY <2>1, <2>2, <2>3 DEF PartsTypeOK
<1> QED BY <1>1, WholeInvariance, PTL

\* For any claims and any verdicts on their texts, the exported receipt is true
\* of the DOCX and its counts are those of its claims, after restored claims, a
\* Summary that had no place and an expert's patches
\* (_build_resume_provenance_receipt).
THEOREM ReceiptsAreHonest == DeliverySpec => []ReceiptIsHonest
<1>1. WholeInv => ReceiptIsHonest
      BY TruthTold DEF WholeInv, ReceiptIsHonest
<1> QED BY <1>1, WholeInvariance, PTL

\* For all budgets the agent may be constructed with and any index, a run keeps
\* its budgets, and a completed one cites what the index still held
\* (BoundedEvidenceAgent.run).
THEOREM AgentIsFair == DeliverySpec => []AgentAnswersFairly
<1>1. WholeInv => AgentAnswersFairly
      BY AgentTold DEF WholeInv, AgentAnswersFairly
<1> QED BY <1>1, WholeInvariance, PTL

\* For any jobs, videos and channels, and whichever writes of job files fail,
\* SUCCESS and a receipt are shown for what Google has done
\* (YouTubePublishingJobManager).
THEOREM JobsShownAreTrue == DeliverySpec => []ShownIsTrue
<1>1. WholeInv => ShownIsTrue
  <2> SUFFICES ASSUME WholeInv PROVE ShownIsTrue
      OBVIOUS
  <2>1. part = "login" => Login!ShownIsTrue
        BY LoginSameSays, JobKinds, LoginProofs!OutcomeIsShown DEF WholeInv
  <2>2. part = "film" => Film!ShownIsTrue
        BY FilmSameSays, JobKinds, FilmProofs!OutcomeIsShown DEF WholeInv
  <2> QED BY <2>1, <2>2 DEF ShownIsTrue
<1> QED BY <1>1, WholeInvariance, PTL

\* For any number of connections, one at most is shown active and not being
\* cancelled (start_connect).
THEOREM ConnectsAreOne == DeliverySpec => []OneLiveConnect
<1>1. WholeInv => OneLiveConnect
      BY LoginSameSays, JobKinds, LoginProofs!ConnectIsOne DEF WholeInv, OneLiveConnect
<1> QED BY <1>1, WholeInvariance, PTL

\* For any number of attempts, requests that stop anywhere and callbacks posted
\* again, the code of an attempt is sent to the provider once at most, and only
\* while the attempt is current and not ended (consume_authorization_callback).
THEOREM CodesTheorem == DeliverySpec => CodesAreSpentOnce
<1>1. ASSUME WholeInv, [DeliveryNext]_allVars
      PROVE  [\A a \in Attempt : exchanged'[a] # exchanged[a] =>
                 /\ exchanged[a] = 0
                 /\ attempt[a] = "VERIFYING_IDENTITY" /\ current = a]_(Post!accountVars)
      BY <1>1, PartsStep, OnlyExchangesSend DEF WholeInv, PostInv, Unsent
<1> QED BY <1>1, WholeInvariance, PTL DEF DeliverySpec, CodesAreSpentOnce, Post!CodesAreSpentOnce

\* For any number of accounts, plans and tabs, a plan is published only to the
\* account it was previewed for, and not after the owner was told that this
\* account is disconnected (require_publish_account_reference).
THEOREM PostsTheorem == DeliverySpec => PostsGoToTheConnected
<1>1. ASSUME WholeInv
      PROVE  [Post!Asks => boundTo[preview] \notin parted /\ authorized[boundTo[preview]] = "write"]_(Post!vars)
      BY <1>1 DEF WholeInv, PostInv, BoundToListed, PartedIsUnlisted, Post!Asks
<1> QED BY <1>1, WholeInvariance, PTL DEF DeliverySpec, PostsGoToTheConnected, Post!PostsGoToTheConnected
===============================================================================
