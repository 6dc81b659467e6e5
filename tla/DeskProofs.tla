------------------------------- MODULE DeskProofs -------------------------------
(***************************************************************************)
(* Proofs about the background jobs of the local page and the evidence     *)
(* catalog, for every value of the constants of MCDesk: any sources,       *)
(* processes and requests, any sessions and versions, any number of jobs,  *)
(* of jobs kept, of parse threads, of failed writes and restarts.          *)
(*                                                                         *)
(* Each part has an inductive invariant of its own: HubInv, VideoInv,      *)
(* ResumeInv, and ImportInv of CodexImportProofs.  DeskInv is all of them  *)
(* together: a step of one part is a stutter of every other.               *)
(***************************************************************************)
EXTENDS MCDesk, FiniteSetTheorems, TLAPS

------------------------------------------------------------------------------
(* The evidence catalog *)

CitedInv ==
    /\ hub.bundles \subseteq hub.frozen
    /\ hub.bundles \subseteq hub.lineage
    /\ hub.assets \subseteq hub.bundles
    /\ hub.outcomes \subseteq hub.assets
    /\ Records(hub.snap) \subseteq hub.lineage

CountInv ==
    \A p \in Proc :
       /\ req[p].pc \in {"counts", "commit"} => req[p].number <= NextNumber
       /\ req[p].pc = "commit" /\ req[p].number = NextNumber =>
             req[p].counts = Compare(req[p].given, hub.snap)

HubInv == TypeOK /\ CitedInv /\ CountInv

------------------------------------------------------------------------------
(* The operators *)

\* The records of a snapshot are items.
LEMMA RecordsAreItems ==
    ASSUME NEW snap \in Snapshot
    PROVE  Records(snap) \subseteq Item
BY HubAssumption DEF Snapshot, Records, Item

\* A subset of the sources has a count.
LEMMA SubsetHasCount ==
    ASSUME NEW some \in SUBSET Source
    PROVE  Cardinality(some) \in Count
<1>1. IsFiniteSet(Source) BY HubAssumption
<1>2. IsFiniteSet(some) /\ Cardinality(some) <= Cardinality(Source)
  BY <1>1, FS_Subset
<1>3. Cardinality(some) \in Nat /\ Cardinality(Source) \in Nat
  BY <1>1, <1>2, FS_CardinalityType
<1> QED BY <1>2, <1>3 DEF Count

\* The counts of a comparison are counts.
LEMMA CompareIsCounts ==
    ASSUME NEW given \in Snapshot, NEW snap \in Snapshot
    PROVE  Compare(given, snap) \in Counts
<1> DEFINE some == {s \in Source : given[s] > 0}
           created == {s \in some : snap[s] = 0}
           updated == {s \in some : snap[s] \notin {0, given[s]}}
           unchanged == {s \in some : snap[s] = given[s]}
<1>1. created \in SUBSET Source /\ updated \in SUBSET Source
      /\ unchanged \in SUBSET Source
  OBVIOUS
<1>2. Cardinality(created) \in Count /\ Cardinality(updated) \in Count
      /\ Cardinality(unchanged) \in Count
  BY <1>1, SubsetHasCount
<1> QED BY <1>2 DEF Compare, Counts

\* A replacement is a snapshot, and shows what was given or was shown before.
LEMMA ReplacedIsSnapshot ==
    ASSUME TypeOK, NEW p \in Proc
    PROVE  /\ Replaced(p) \in Snapshot
           /\ Records(Replaced(p)) \subseteq Records(req[p].given) \cup Records(hub.snap)
<1>1. req[p].given \in Snapshot /\ hub.snap \in Snapshot
  BY DEF TypeOK, Request, Hub
<1>2. Replaced(p) \in Snapshot
  BY <1>1 DEF Replaced, Snapshot
<1>3. ASSUME NEW s \in Source, Replaced(p)[s] > 0
      PROVE  Replaced(p)[s] = req[p].given[s] \/ Replaced(p)[s] = hub.snap[s]
  BY DEF Replaced
<1> QED BY <1>1, <1>2, <1>3 DEF Records

\* The counts of a comparison are those of the change the replacement makes.
LEMMA CompareTells ==
    ASSUME TypeOK, NEW p \in Proc,
           hub'.snap = Replaced(p)
    PROVE  CountsTell(Compare(req[p].given, hub.snap))
<1> DEFINE given == req[p].given
           some == {s \in Source : given[s] > 0}
<1>1. given \in Snapshot /\ hub.snap \in Snapshot
  BY DEF TypeOK, Request, Hub
<1>2. \A s \in Source : /\ given[s] \in Nat /\ hub.snap[s] \in Nat
                        /\ given[s] > 0 => hub'.snap[s] = given[s]
                        /\ hub'.snap[s] \in {given[s], hub.snap[s]}
                        /\ given[s] = 0 => hub'.snap[s] \in {0, hub.snap[s]}
  <2> TAKE s \in Source
  <2>1. given[s] \in Nat /\ hub.snap[s] \in Nat
    BY <1>1, HubAssumption DEF Snapshot
  <2>2. hub'.snap[s] = IF req[p].kind = "refresh" \/ s \in Given(p)
                       THEN given[s] ELSE hub.snap[s]
    BY DEF Replaced
  <2> QED BY <2>1, <2>2 DEF Given
<1>3. {s \in some : hub.snap[s] = 0}
      = {s \in Source : hub.snap[s] = 0 /\ hub'.snap[s] > 0}
  BY <1>2
<1>4. {s \in some : hub.snap[s] \notin {0, given[s]}}
      = {s \in Source : hub.snap[s] # 0 /\ hub'.snap[s] \notin {0, hub.snap[s]}}
  BY <1>2
<1> QED BY <1>3, <1>4 DEF CountsTell, Compare

\* Appending keeps what was there.
LEMMA AppendKeeps ==
    ASSUME NEW receipts \in Seq(Receipt), NEW r \in Receipt
    PROVE  /\ Append(receipts, r) \in Seq(Receipt)
           /\ Len(Append(receipts, r)) = Len(receipts) + 1
           /\ Append(receipts, r)[Len(receipts) + 1] = r
           /\ SubSeq(Append(receipts, r), 1, Len(receipts)) = receipts
           /\ SubSeq(receipts, 1, Len(receipts)) = receipts
OBVIOUS

------------------------------------------------------------------------------
(* A step that leaves the catalog alone *)

\* One process moves on to the record r; the catalog is as it was.
LEMMA QuietStep ==
    ASSUME HubInv, NEW p \in Proc, NEW r \in Request,
           req' = [req EXCEPT ![p] = r], hub' = hub,
           begun' \in 0 .. MaxRequests, faults' \in 0 .. MaxFaults,
           r.pc \in {"counts", "commit"} => r.number <= NextNumber,
           r.pc = "commit" => r.counts = Compare(r.given, hub.snap)
                              \/ r.number # NextNumber
    PROVE  HubInv'
<1>1. TypeOK' BY DEF HubInv, TypeOK
<1>2. CitedInv' BY DEF HubInv, CitedInv, Records
<1>3. CountInv'
  <2>1. NextNumber' = NextNumber BY DEF NextNumber
  <2>2. ASSUME NEW q \in Proc
        PROVE  /\ req'[q].pc \in {"counts", "commit"} => req'[q].number <= NextNumber
               /\ req'[q].pc = "commit" /\ req'[q].number = NextNumber =>
                     req'[q].counts = Compare(req'[q].given, hub.snap)
    <3>1. req'[q] = IF q = p THEN r ELSE req[q] BY DEF HubInv, TypeOK
    <3> QED BY <3>1 DEF HubInv, CountInv
  <2> QED BY <2>1, <2>2 DEF CountInv, Compare
<1> QED BY <1>1, <1>2, <1>3 DEF HubInv

\* The same, when only the phase changes and no commit comes next.
LEMMA GotoStep ==
    ASSUME HubInv, NEW p \in Proc, NEW pc \in Phase \ {"counts", "commit"},
           Goto(p, pc), hub' = hub,
           begun' \in 0 .. MaxRequests, faults' \in 0 .. MaxFaults
    PROVE  HubInv'
<1> DEFINE r == [req[p] EXCEPT !.pc = pc]
<1>1. req[p] \in Request BY DEF HubInv, TypeOK
<1>2. r \in Request /\ r.pc = pc BY <1>1 DEF Request
<1>3. req' = [req EXCEPT ![p] = r] BY DEF Goto
<1> HIDE DEF r
<1> QED BY <1>2, <1>3, QuietStep

------------------------------------------------------------------------------
(* A step that adds a receipt *)

\* The number a request read before is taken by the new receipt.
LEMMA ReceiptStepKeepsCounts ==
    ASSUME HubInv, NEW p \in Proc, NEW pc \in Phase \ {"counts", "commit"},
           Goto(p, pc), NEW r \in Receipt,
           hub'.receipts = Append(hub.receipts, r)
    PROVE  CountInv'
<1>1. hub.receipts \in Seq(Receipt) BY DEF HubInv, TypeOK, Hub
<1>2. NextNumber' = NextNumber + 1 /\ NextNumber \in Nat
  BY <1>1, AppendKeeps DEF NextNumber
<1>3. ASSUME NEW q \in Proc
      PROVE  req'[q].pc \in {"counts", "commit"} =>
                req'[q].number <= NextNumber' /\ req'[q].number # NextNumber'
  <2>1. req[q] \in Request /\ req[p] \in Request BY DEF HubInv, TypeOK
  <2>2. q # p => req'[q] = req[q] BY DEF Goto, HubInv, TypeOK
  <2>3. q = p => req'[q].pc = pc BY <2>1 DEF Goto, HubInv, TypeOK, Request
  <2>4. req[q].pc \in {"counts", "commit"} => req[q].number <= NextNumber
    BY DEF HubInv, CountInv
  <2>5. req[q].number \in Nat BY <2>1 DEF Request
  <2> QED BY <1>2, <2>2, <2>3, <2>4, <2>5
<1> QED BY <1>3 DEF CountInv

\* A commit replaces the snapshot and appends its receipt.
LEMMA CommitStep ==
    ASSUME HubInv, NEW p \in Proc, Commit(p)
    PROVE  HubInv' /\ ReceiptStep
<1> DEFINE receipt == [succeeded |-> TRUE, counts |-> req[p].counts]
           next == IF req[p].kind = "capture" THEN "build" ELSE "idle"
<1>1. req[p] \in Request /\ hub \in Hub BY DEF HubInv, TypeOK
<1>2. receipt \in Receipt BY <1>1 DEF Request, Receipt
<1>3. hub.receipts \in Seq(Receipt) BY <1>1 DEF Hub
<1>4. /\ hub'.snap = Replaced(p) /\ hub'.lineage = hub.lineage \cup Records(req[p].given)
      /\ hub'.digest = Computed(p) /\ hub'.receipts = Append(hub.receipts, receipt)
      /\ hub'.bundles = hub.bundles /\ hub'.frozen = hub.frozen
      /\ hub'.assets = hub.assets /\ hub'.outcomes = hub.outcomes
      /\ Goto(p, next) /\ begun' = begun /\ faults' = faults
      /\ hub' = [hub EXCEPT !.snap = Replaced(p), !.lineage = Archived(p),
                 !.digest = Computed(p), !.receipts = Append(hub.receipts, receipt)]
  BY <1>1 DEF Commit, Hub, Archived, Same
<1>5. req[p].given \in Snapshot BY <1>1 DEF Request
<1>6. Records(req[p].given) \subseteq Item BY <1>5, RecordsAreItems
<1> HIDE DEF receipt
<1>7. TypeOK'
  <2>1. Computed(p) \in Digest
    BY <1>1, <1>6 DEF Computed, Digest, Request
  <2>2. Append(hub.receipts, receipt) \in Seq(Receipt) BY <1>2, <1>3, AppendKeeps
  <2>3. Replaced(p) \in Snapshot BY ReplacedIsSnapshot DEF HubInv
  <2>4. hub' \in Hub
    BY <1>1, <1>4, <1>6, <2>1, <2>2, <2>3 DEF Hub, Archived
  <2>5. req' \in [Proc -> Request]
    BY <1>1, <1>4 DEF HubInv, TypeOK, Goto, Request, Phase
  <2> QED BY <1>4, <2>4, <2>5 DEF HubInv, TypeOK
<1>8. CitedInv'
  <2>1. Records(Replaced(p)) \subseteq Records(req[p].given) \cup Records(hub.snap)
    BY ReplacedIsSnapshot DEF HubInv
  <2>2. Records(hub'.snap) \subseteq hub'.lineage
    BY <1>4, <2>1 DEF HubInv, CitedInv
  <2>3. Records(hub'.snap) = Records(hub.snap)' BY DEF Records
  <2> QED BY <1>4, <2>2, <2>3 DEF HubInv, CitedInv
<1>9. CountInv'
  <2>1. next \in Phase \ {"counts", "commit"} BY DEF Phase
  <2> QED BY <1>2, <1>4, <2>1, ReceiptStepKeepsCounts
<1>10. ReceiptStep
  <2>1. LastReceipt = receipt /\ Len(hub'.receipts) = Len(hub.receipts) + 1
        /\ SubSeq(hub'.receipts, 1, Len(hub.receipts)) = hub.receipts
    BY <1>2, <1>3, <1>4, AppendKeeps DEF LastReceipt
  <2>2. hub'.receipts # hub.receipts
    BY <2>1, <1>3
  <2>3. req[p].counts = Compare(req[p].given, hub.snap)
    BY DEF HubInv, CountInv, Commit, Collides
  <2>4. CountsTell(req[p].counts)
    BY <1>4, <2>3, CompareTells DEF HubInv
  <2>5. receipt.succeeded /\ receipt.counts = req[p].counts BY DEF receipt
  <2> QED BY <2>1, <2>2, <2>4, <2>5 DEF ReceiptStep
<1> QED BY <1>7, <1>8, <1>9, <1>10 DEF HubInv

------------------------------------------------------------------------------
(* The other actions *)

\* A request that begins has read nothing yet.
LEMMA Begins ==
    ASSUME HubInv, NEW p \in Proc, NEW kind \in {"sync", "capture", "refresh"},
           NEW given \in Snapshot, Begin(p, kind, given)
    PROVE  HubInv' /\ hub' = hub
<1> DEFINE r == Fresh(kind, given)
<1>1. NoCounts \in Counts
  <2>1. Cardinality({}) \in Count BY SubsetHasCount
  <2>2. 0 \in Count BY <2>1, FS_EmptySet
  <2> QED BY <2>2 DEF NoCounts, Counts
<1>2. r \in Request /\ r.pc \notin {"counts", "commit"}
  BY <1>1 DEF Fresh, Request, Phase
<1>3. begun' \in 0 .. MaxRequests /\ faults' \in 0 .. MaxFaults
  BY HubAssumption DEF Begin, HubInv, TypeOK
<1>4. req' = [req EXCEPT ![p] = r] /\ hub' = hub BY DEF Begin
<1> HIDE DEF r
<1> QED BY <1>2, <1>3, <1>4, QuietStep

\* A read changes the request only, and what it reads is what the file shows.
LEMMA Reads ==
    ASSUME HubInv, NEW p \in Proc,
           ReadSources(p) \/ ReadItems(p) \/ ReadNumber(p) \/ ReadCounts(p)
           \/ ReadFailureNumber(p)
    PROVE  HubInv' /\ hub' = hub
<1>1. req[p] \in Request /\ hub \in Hub BY DEF HubInv, TypeOK
<1>2. hub' = hub /\ begun' \in 0 .. MaxRequests /\ faults' \in 0 .. MaxFaults
  BY DEF ReadSources, ReadItems, ReadNumber, ReadCounts, ReadFailureNumber, Same,
         HubInv, TypeOK
<1>3. Others(p) \subseteq Item
  <2>1. hub.snap \in Snapshot BY <1>1 DEF Hub
  <2> QED BY <2>1, RecordsAreItems DEF Others
<1>4. NextNumber \in Nat
  <2>1. hub.receipts \in Seq(Receipt) BY <1>1 DEF Hub
  <2> QED BY <2>1 DEF NextNumber
<1>5. CASE ReadSources(p)
  <2> DEFINE r == [req[p] EXCEPT !.pc = "items", !.sources = Others(p)]
  <2>1. r \in Request /\ r.pc = "items" BY <1>1, <1>3 DEF Request, Phase
  <2>2. req' = [req EXCEPT ![p] = r] BY <1>5 DEF ReadSources
  <2> HIDE DEF r
  <2> QED BY <1>2, <2>1, <2>2, QuietStep
<1>6. CASE ReadItems(p)
  <2>1. PICK pc \in {"number", "failing"} :
           req' = [req EXCEPT ![p].pc = pc, ![p].items = Others(p)]
    BY <1>6 DEF ReadItems
  <2> DEFINE r == [req[p] EXCEPT !.pc = pc, !.items = Others(p)]
  <2>2. r \in Request /\ r.pc = pc BY <1>1, <1>3 DEF Request, Phase
  <2>3. req' = [req EXCEPT ![p] = r] BY <2>1
  <2> HIDE DEF r
  <2> QED BY <1>2, <2>2, <2>3, QuietStep
<1>7. CASE ReadNumber(p)
  <2> DEFINE r == [req[p] EXCEPT !.pc = "counts", !.number = NextNumber]
  <2>1. r \in Request /\ r.pc = "counts" /\ r.number = NextNumber
    BY <1>1, <1>4 DEF Request, Phase
  <2>2. req' = [req EXCEPT ![p] = r] BY <1>7 DEF ReadNumber
  <2> HIDE DEF r
  <2>3. r.number <= NextNumber BY <1>4, <2>1
  <2> QED BY <1>2, <2>1, <2>2, <2>3, QuietStep
<1>8. CASE ReadCounts(p)
  <2> DEFINE counts == Compare(req[p].given, hub.snap)
             r == [req[p] EXCEPT !.pc = "commit", !.counts = counts]
  <2>1. req[p].given \in Snapshot /\ hub.snap \in Snapshot
    BY <1>1 DEF Request, Hub
  <2>2. counts \in Counts BY <2>1, CompareIsCounts
  <2>3. req[p].number <= NextNumber BY <1>8 DEF ReadCounts, HubInv, CountInv
  <2> HIDE DEF counts
  <2>4. r \in Request /\ r.counts = counts /\ r.given = req[p].given
        /\ r.number = req[p].number
    BY <1>1, <2>2 DEF Request, Phase
  <2>5. req' = [req EXCEPT ![p] = r] BY <1>8 DEF ReadCounts, counts
  <2> HIDE DEF r
  <2>6. r.counts = Compare(r.given, hub.snap) BY <2>4 DEF counts
  <2> QED BY <1>2, <2>3, <2>4, <2>5, <2>6, QuietStep
<1>9. CASE ReadFailureNumber(p)
  <2> DEFINE r == [req[p] EXCEPT !.pc = "failed", !.number = NextNumber]
  <2>1. r \in Request /\ r.pc = "failed" BY <1>1, <1>4 DEF Request, Phase
  <2>2. req' = [req EXCEPT ![p] = r] BY <1>9 DEF ReadFailureNumber
  <2> HIDE DEF r
  <2> QED BY <1>2, <2>1, <2>2, QuietStep
<1> QED BY <1>2, <1>5, <1>6, <1>7, <1>8, <1>9

\* A request that gives up, ends or builds its bundle leaves the file alone.
LEMMA Ends ==
    ASSUME HubInv, NEW p \in Proc, RollBack(p) \/ BuildBundle(p) \/ Refused(p)
    PROVE  HubInv' /\ hub' = hub
<1>1. hub' = hub /\ begun' \in 0 .. MaxRequests /\ faults' \in 0 .. MaxFaults
  BY HubAssumption DEF RollBack, BuildBundle, Refused, Same, HubInv, TypeOK
<1>2. \E pc \in {"failing", "idle", "bundle"} : Goto(p, pc)
  BY DEF RollBack, BuildBundle, Refused
<1>3. PICK pc \in {"failing", "idle", "bundle"} : Goto(p, pc)
  BY <1>2
<1>4. pc \in Phase \ {"counts", "commit"} BY DEF Phase
<1> QED BY <1>1, <1>3, <1>4, GotoStep

\* A failure is recorded as one receipt, the snapshot unchanged.
LEMMA FailureRecorded ==
    ASSUME HubInv, NEW p \in Proc, RecordFailure(p)
    PROVE  HubInv' /\ ReceiptStep
<1>1. hub \in Hub /\ hub.receipts \in Seq(Receipt) BY DEF HubInv, TypeOK, Hub
<1>2. CASE Collides(p)
  <2>1. hub' = hub /\ Goto(p, "idle") /\ begun' = begun /\ faults' = faults
    BY <1>2 DEF RecordFailure, Same
  <2>2. "idle" \in Phase \ {"counts", "commit"} BY DEF Phase
  <2>3. HubInv' BY <2>1, <2>2, GotoStep DEF HubInv, TypeOK
  <2>4. ReceiptStep
    <3>1. hub.receipts \in Seq(Receipt) BY <1>1
    <3>2. SubSeq(hub.receipts, 1, Len(hub.receipts)) = hub.receipts BY <3>1
    <3> QED BY <2>1, <3>1, <3>2 DEF ReceiptStep
  <2> QED BY <2>3, <2>4
<1>3. CASE ~Collides(p)
  <2> DEFINE receipt == [succeeded |-> FALSE, counts |-> NoCounts]
  <2>1. hub' = [hub EXCEPT !.receipts = Append(hub.receipts, receipt)]
        /\ Goto(p, "idle") /\ begun' = begun /\ faults' = faults
    BY <1>3 DEF RecordFailure, Same
  <2>2. NoCounts \in Counts
    <3>1. Cardinality({}) \in Count BY SubsetHasCount
    <3>2. 0 \in Count BY <3>1, FS_EmptySet
    <3> QED BY <3>2 DEF NoCounts, Counts
  <2>3. receipt \in Receipt /\ receipt.succeeded = FALSE BY <2>2 DEF Receipt
  <2> HIDE DEF receipt
  <2>4. /\ hub'.receipts = Append(hub.receipts, receipt) /\ hub'.snap = hub.snap
        /\ hub'.lineage = hub.lineage /\ hub'.bundles = hub.bundles
        /\ hub'.frozen = hub.frozen /\ hub'.assets = hub.assets
        /\ hub'.outcomes = hub.outcomes
    BY <1>1, <2>1 DEF Hub
  <2>5. Append(hub.receipts, receipt) \in Seq(Receipt) BY <1>1, <2>3, AppendKeeps
  <2>6. TypeOK'
    <3>1. hub' \in Hub BY <1>1, <2>1, <2>5 DEF Hub
    <3>2. req' \in [Proc -> Request] BY <2>1 DEF HubInv, TypeOK, Goto, Request, Phase
    <3> QED BY <2>1, <3>1, <3>2 DEF HubInv, TypeOK
  <2>7. CitedInv' BY <2>4 DEF HubInv, CitedInv, Records
  <2>8. CountInv'
    <3>1. "idle" \in Phase \ {"counts", "commit"} BY DEF Phase
    <3> QED BY <2>1, <2>3, <2>4, <3>1, ReceiptStepKeepsCounts
  <2>9. ReceiptStep
    <3>1. LastReceipt = receipt /\ Len(hub'.receipts) = Len(hub.receipts) + 1
          /\ SubSeq(hub'.receipts, 1, Len(hub.receipts)) = hub.receipts
      BY <1>1, <2>3, <2>4, AppendKeeps DEF LastReceipt
    <3> QED BY <2>3, <2>4, <3>1 DEF ReceiptStep
  <2> QED BY <2>6, <2>7, <2>8, <2>9 DEF HubInv
<1> QED BY <1>2, <1>3

\* The capture's own records: the snapshot and the receipts stay.
LEMMA RecordStep ==
    ASSUME HubInv, NEW p \in Proc, NEW pc \in Phase \ {"counts", "commit"},
           Goto(p, pc), Same, hub' \in Hub, CitedInv',
           hub'.snap = hub.snap, hub'.receipts = hub.receipts
    PROVE  HubInv'
<1>1. req[p] \in Request BY DEF HubInv, TypeOK
<1>2. TypeOK'
  <2>1. req' \in [Proc -> Request] BY <1>1 DEF HubInv, TypeOK, Goto, Request
  <2> QED BY <2>1 DEF HubInv, TypeOK, Same
<1>3. CountInv'
  <2>1. NextNumber' = NextNumber BY DEF NextNumber
  <2>2. ASSUME NEW q \in Proc
        PROVE  /\ req'[q].pc \in {"counts", "commit"} => req'[q].number <= NextNumber
               /\ req'[q].pc = "commit" /\ req'[q].number = NextNumber =>
                     req'[q].counts = Compare(req'[q].given, hub'.snap)
    <3>1. q # p => req'[q] = req[q] BY DEF Goto, HubInv, TypeOK
    <3>2. q = p => req'[q].pc = pc BY <1>1 DEF Goto, HubInv, TypeOK, Request
    <3> QED BY <3>1, <3>2 DEF HubInv, CountInv
  <2> QED BY <2>1, <2>2 DEF CountInv, Compare
<1> QED BY <1>2, <1>3 DEF HubInv

\* A bundle cites what the lineage has, an asset a bundle, an outcome an asset.
LEMMA Registers ==
    ASSUME HubInv, NEW p \in Proc,
           RegisterBundle(p) \/ RegisterAsset(p) \/ RegisterOutcome(p)
    PROVE  HubInv' /\ hub'.snap = hub.snap /\ hub'.receipts = hub.receipts
<1> DEFINE i == TheItem(p)
<1>1. hub \in Hub /\ hub.snap \in Snapshot BY DEF HubInv, TypeOK, Hub
<1>2. Records(hub.snap) \subseteq Item BY <1>1, RecordsAreItems
<1>3. Same /\ \E pc \in {"idle", "asset", "outcome"} : Goto(p, pc)
  BY DEF RegisterBundle, RegisterAsset, RegisterOutcome
<1>4. PICK pc \in {"idle", "asset", "outcome"} : Goto(p, pc) BY <1>3
<1>5. pc \in Phase \ {"counts", "commit"} BY DEF Phase
<1>6. /\ hub' \in Hub /\ CitedInv'
      /\ hub'.snap = hub.snap /\ hub'.receipts = hub.receipts
  <2>1. CASE hub' = hub BY <1>1, <2>1 DEF HubInv, CitedInv, Records
  <2>2. CASE /\ hub' = [hub EXCEPT !.bundles = @ \cup {i}, !.frozen = @ \cup {i}]
             /\ i \in Records(hub.snap)
    <3> HIDE DEF i
    <3> QED BY <1>1, <1>2, <2>2 DEF Hub, HubInv, CitedInv, Records
  <2>3. CASE hub' = [hub EXCEPT !.assets = @ \cup {i}] /\ i \in hub.bundles
    <3> HIDE DEF i
    <3> QED BY <1>1, <2>3 DEF Hub, HubInv, CitedInv, Records
  <2>4. CASE hub' = [hub EXCEPT !.outcomes = @ \cup {i}] /\ i \in hub.assets
    <3> HIDE DEF i
    <3> QED BY <1>1, <2>4 DEF Hub, HubInv, CitedInv, Records
  <2> QED BY <2>1, <2>2, <2>3, <2>4
         DEF RegisterBundle, RegisterAsset, RegisterOutcome
<1> QED BY <1>3, <1>4, <1>5, <1>6, RecordStep

------------------------------------------------------------------------------
(* The invariant *)

\* The empty catalog satisfies it.
LEMMA InitHub == Init => HubInv
<1> SUFFICES ASSUME Init PROVE HubInv OBVIOUS
<1>1. 0 \in Count
  <2>1. Cardinality({}) \in Count BY SubsetHasCount
  <2> QED BY <2>1, FS_EmptySet
<1>2. Nothing \in Snapshot BY HubAssumption DEF Nothing, Snapshot
<1>3. TypeOK
  <2>1. hub \in Hub BY <1>2 DEF Init, Hub, Digest
  <2>2. Fresh("sync", Nothing) \in Request
    BY <1>1, <1>2 DEF Fresh, Request, Phase, NoCounts, Counts
  <2>3. req \in [Proc -> Request] BY <2>2 DEF Init, Request, Phase
  <2> QED BY <2>1, <2>3, HubAssumption DEF Init, TypeOK
<1>4. Records(hub.snap) = {} BY DEF Init, Records, Nothing
<1>5. CitedInv BY <1>4 DEF Init, CitedInv
<1>6. \A p \in Proc : req[p].pc = "idle" BY DEF Init, Fresh
<1>7. CountInv BY <1>6 DEF CountInv
<1> QED BY <1>3, <1>5, <1>7 DEF HubInv

\* A step keeps it, and writes at most one receipt, which tells what it did.
LEMMA NextHub ==
    ASSUME HubInv, [Next]_vars
    PROVE  HubInv' /\ (ReceiptStep \/ UNCHANGED vars)
<1>1. hub.receipts \in Seq(Receipt) BY DEF HubInv, TypeOK, Hub
<1>2. SubSeq(hub.receipts, 1, Len(hub.receipts)) = hub.receipts BY <1>1
<1>3. hub'.snap = hub.snap /\ hub'.receipts = hub.receipts => ReceiptStep
  BY <1>1, <1>2 DEF ReceiptStep
<1>4. CASE UNCHANGED vars
  BY <1>4 DEF vars, HubInv, TypeOK, CitedInv, CountInv, Records, NextNumber, Compare
<1>5. ASSUME NEW p \in Proc, NEW s \in Source, NEW v \in 1 .. MaxVersion,
             Sync(p, s, v) \/ Capture(p, s, v)
      PROVE  HubInv' /\ ReceiptStep
  <2> DEFINE given == [Nothing EXCEPT ![s] = v]
  <2>1. given \in Snapshot BY HubAssumption DEF Nothing, Snapshot
  <2>2. \E kind \in {"sync", "capture", "refresh"} : Begin(p, kind, given)
    BY <1>5 DEF Sync, Capture
  <2> HIDE DEF given
  <2> QED BY <1>3, <2>1, <2>2, Begins
<1>6. ASSUME NEW p \in Proc, NEW found \in Snapshot, Refresh(p, found)
      PROVE  HubInv' /\ ReceiptStep
  BY <1>3, <1>6, Begins DEF Refresh
<1>7. ASSUME NEW p \in Proc, Step(p)
      PROVE  HubInv' /\ ReceiptStep
  <2>1. CASE \/ ReadSources(p) \/ ReadItems(p) \/ ReadNumber(p) \/ ReadCounts(p)
             \/ ReadFailureNumber(p)
    BY <1>3, <2>1, Reads
  <2>2. CASE Commit(p) BY <2>2, CommitStep
  <2>3. CASE RecordFailure(p) BY <2>3, FailureRecorded
  <2>4. CASE RollBack(p) \/ BuildBundle(p) \/ Refused(p) BY <1>3, <2>4, Ends
  <2>5. CASE RegisterBundle(p) \/ RegisterAsset(p) \/ RegisterOutcome(p)
    BY <1>3, <2>5, Registers
  <2> QED BY <1>7, <2>1, <2>2, <2>3, <2>4, <2>5 DEF Step
<1> QED BY <1>4, <1>5, <1>6, <1>7 DEF Next

\* The invariant of every behaviour.
THEOREM HubInvariance == Spec => []HubInv
<1>1. HubInv /\ [Next]_vars => HubInv' BY NextHub
<1> QED BY <1>1, InitHub, PTL DEF Spec

\* The types.
THEOREM HubTypeCorrect == Spec => []TypeOK
<1>1. HubInv => TypeOK BY DEF HubInv
<1> QED BY <1>1, HubInvariance, PTL

\* What was cited resolves for ever.
THEOREM CitedTheorem == Spec => []CitedStaysResolvable
<1>1. HubInv => CitedStaysResolvable BY DEF HubInv, CitedInv, CitedStaysResolvable, Resolvable
<1> QED BY <1>1, HubInvariance, PTL

\* The receipts are the history of the snapshot.
THEOREM HistoryTheorem == Spec => ReceiptsAreTheHistory
<1>1. HubInv /\ [Next]_vars => [ReceiptStep]_vars BY NextHub
<1> QED BY <1>1, HubInvariance, PTL DEF Spec, ReceiptsAreTheHistory

------------------------------------------------------------------------------
(* The renderings of LocalVideo *)

\* Who works on a rendering.  A queued job waits as it was registered; the
\* thread holds its job's phase, which only a submission may have pruned, and
\* only once it ended; a job nobody works on has ended or was forgotten.
VideoWaits(j) == \E i \in DOMAIN vQueue : vQueue[i] = j

VideoQueue ==
    /\ \A i \in DOMAIN vQueue :
          /\ vLive[vQueue[i]] = "QUEUED" /\ vQueue[i] <= vSubmitted
          /\ vQueue[i] # vWorker.job /\ vQueue[i] # vSubmitting
          /\ vQueue[i] \notin vReceipts
    /\ \A i, k \in DOMAIN vQueue : vQueue[i] = vQueue[k] => i = k

VideoSubmission ==
    /\ vSubmitting # 0 => /\ vLive[vSubmitting] = "none" /\ vSubmitting <= vSubmitted
                          /\ vSubmitting # vWorker.job /\ vSubmitting \notin vReceipts
    /\ \A j \in Video!Job : j > vSubmitted =>
          /\ vLive[j] = "none" /\ vDisk[j] = "none" /\ j \notin vReceipts

VideoHand ==
    /\ vWorker.pc = "idle" => vWorker = Video!Resting
    /\ vWorker.pc # "idle" => vWorker.job \in Video!Job /\ vWorker.job <= vSubmitted
    /\ vWorker.pc = "work" =>
          /\ vWorker.phase \in Video!Working \ {"QUEUED"}
          /\ vLive[vWorker.job] = vWorker.phase /\ vDisk[vWorker.job] = vWorker.phase
          /\ vWorker.job \notin vReceipts
    /\ vWorker.pc = "persist" =>
          /\ vWorker.phase \in Video!Phase \ {"QUEUED"}
          /\ \/ vLive[vWorker.job] = vWorker.phase
             \/ vWorker.phase \in Video!Ended /\ vLive[vWorker.job] = "none"
          /\ vWorker.phase \in Video!Working => vWorker.job \notin vReceipts
          /\ vWorker.phase = "COMPLETE" => vWorker.job \in vReceipts
          /\ vWorker.phase = "FAILED" /\ vFaults = 0 => vWorker.job \notin vReceipts
    /\ vWorker.pc = "raised" =>
          /\ vLive[vWorker.job] # "QUEUED"
          /\ vLive[vWorker.job] \notin Video!Working /\ vDisk[vWorker.job] \in Video!Working =>
                vWorker.job \in vStranded
          /\ vFaults = 0 => /\ vLive[vWorker.job] \in Video!Working
                            /\ vWorker.job \notin vReceipts

VideoRecords ==
    \A j \in Video!Job :
        /\ vLive[j] \in Video!Working => VideoWaits(j) \/ j = vWorker.job
        /\ vDisk[j] \in Video!Working => Video!InHand(j) \/ j \in vStranded
        /\ "COMPLETE" \in {vLive[j], vDisk[j]} => j \in vReceipts
        /\ vFaults = 0 /\ j \in vReceipts => vLive[j] # "FAILED" /\ vDisk[j] # "FAILED"

VideoInv == Video!TypeOK /\ VideoQueue /\ VideoSubmission /\ VideoHand /\ VideoRecords

\* Jobs are numbered from one, so 0 names none.
LEMMA VideoJobs == ASSUME Video!LocalVideoAssumption PROVE Video!Job \subseteq Nat
         /\ 0 \notin Video!Job
  BY DEF Video!Job, Video!LocalVideoAssumption

\* Nothing is submitted at the start.
LEMMA InitVideo == ASSUME Video!LocalVideoAssumption, Video!Init PROVE VideoInv
<1>1. Video!TypeOK
  BY DEF Video!Init, Video!TypeOK, Video!Resting, Video!LocalVideoAssumption
<1>2. VideoQueue /\ VideoSubmission /\ VideoHand
  BY DEF Video!Init, VideoQueue, VideoSubmission, VideoHand, Video!Resting
<1>3. VideoRecords
  BY DEF Video!Init, VideoRecords, Video!Working, VideoWaits, Video!InHand
<1> QED
  BY <1>1, <1>2, <1>3 DEF VideoInv

\* A failed write is counted.
LEMMA VideoFaulty ==
  ASSUME Video!LocalVideoAssumption, VideoInv, NEW result, Video!Fault(result)
  PROVE  /\ result # "ok" => vFaults' > 0
         /\ result = "ok" => vFaults' = vFaults
         /\ vFaults' \in 0..VideoFaults /\ (vFaults' = 0 => vFaults = 0)
<1>1. vFaults \in 0..VideoFaults /\ VideoFaults \in Nat
  BY DEF VideoInv, Video!TypeOK, Video!LocalVideoAssumption
<1> QED BY <1>1 DEF Video!Fault

\* What is appended to a queue, and what is left of it without its head.
LEMMA Appended ==
  ASSUME NEW S, NEW q \in Seq(S), NEW x \in S, NEW r, r = Append(q, x)
  PROVE  /\ r \in Seq(S) /\ DOMAIN r = DOMAIN q \cup {Len(q) + 1}
         /\ r[Len(q) + 1] = x /\ \A i \in DOMAIN q : r[i] = q[i]
         /\ Len(q) + 1 \notin DOMAIN q
  OBVIOUS

\* What is left of a queue without its head.
LEMMA Tailed ==
  ASSUME NEW S, NEW q \in Seq(S), q # <<>>, NEW r, r = Tail(q)
  PROVE  /\ r \in Seq(S) /\ Head(q) = q[1] /\ 1 \in DOMAIN q /\ q[1] \in S
         /\ \A i \in DOMAIN r : i + 1 \in DOMAIN q /\ r[i] = q[i + 1] /\ i + 1 # 1
         /\ \A i \in DOMAIN q : i = 1 \/ (i - 1 \in DOMAIN r /\ r[i - 1] = q[i])
         /\ \A i, k \in DOMAIN r : i + 1 = k + 1 => i = k
  OBVIOUS

\* A request writes the file of a new job, before anybody can see the job.
LEMMA WriteVideo ==
  ASSUME Video!LocalVideoAssumption, VideoInv, NEW result \in Video!Outcome,
      Video!WriteQueued(result)
  PROVE  VideoInv'
<1> USE DEF VideoInv
<1> DEFINE j == vSubmitted + 1
<1>1. /\ vSubmitting = 0 /\ vSubmitted \in Nat /\ j \in Video!Job /\ 0 \notin Video!Job
  BY DEF Video!WriteQueued, Video!TypeOK, Video!Job, Video!LocalVideoAssumption
<1>2. /\ vDisk' = [vDisk EXCEPT ![j] = Video!Written(result, "none", "QUEUED")]
      /\ vSubmitted' = j /\ vSubmitting' = IF result = "ok" THEN j ELSE 0
      /\ UNCHANGED <<vLive, vQueue, vWorker, vReceipts, vRestarts>>
      /\ vStranded' = IF result = "late" THEN vStranded \cup {j} ELSE vStranded
      /\ result # "ok" => vFaults' > 0
      /\ vFaults' \in 0..VideoFaults /\ (vFaults' = 0 => vFaults = 0)
  BY VideoFaulty DEF Video!WriteQueued
<1>3. vLive[j] = "none" /\ vDisk[j] = "none" /\ j \notin vReceipts
  BY <1>1 DEF VideoSubmission
<1>4. /\ vDisk'[j] \in {"none", "QUEUED"} /\ \A k \in Video!Job : k # j => vDisk'[k] = vDisk[k]
      /\ result = "lost" => vDisk'[j] = "none"
      /\ vStranded \subseteq vStranded' /\ vStranded' \subseteq Video!Job
      /\ result = "late" => j \in vStranded'
  BY <1>1, <1>2 DEF Video!TypeOK, Video!Written
<1>5. vDisk' \in [Video!Job -> Video!Phase \cup {"none"}]
  BY <1>1, <1>2 DEF Video!TypeOK, Video!Written, Video!Phase, Video!Working
<1> HIDE DEF j
<1>6. vSubmitted' \in 0..MaxJobs
  BY <1>1, <1>2 DEF Video!Job, j
<1>7. Video!TypeOK'
  BY <1>1, <1>2, <1>4, <1>5, <1>6 DEF Video!TypeOK
<1>8. vWorker.job # j
  BY <1>1, <1>2 DEF VideoHand, Video!Resting, j
<1>9. vSubmitted < j /\ vSubmitted <= j
  BY <1>1 DEF j
<1>10. \A i \in DOMAIN vQueue : vQueue[i] \in Video!Job /\ vQueue[i] <= vSubmitted
         /\ vQueue[i] # j
  BY <1>1, <1>9, VideoJobs DEF VideoQueue, Video!TypeOK
<1>11. VideoQueue'
  BY <1>1, <1>2, <1>10, VideoJobs DEF VideoQueue, j
<1>12. VideoSubmission'
  BY <1>1, <1>2, <1>3, <1>4, <1>8, <1>9, VideoJobs DEF VideoSubmission
<1>13. VideoHand'
  BY <1>1, <1>2, <1>4, <1>8, <1>9, VideoJobs DEF VideoHand, j
<1>14. VideoRecords'
  <2>1. \A k \in Video!Job : Video!InHand(k) => Video!InHand(k)'
    BY <1>1, <1>2, VideoJobs DEF Video!InHand
  <2>2. ASSUME NEW k \in Video!Job PROVE
        /\ vLive[k] \in Video!Working => VideoWaits(k)' \/ k = vWorker'.job
        /\ vDisk'[k] \in Video!Working => Video!InHand(k)' \/ k \in vStranded'
        /\ "COMPLETE" \in {vLive[k], vDisk'[k]} => k \in vReceipts
        /\ vFaults' = 0 /\ k \in vReceipts => vLive[k] # "FAILED" /\ vDisk'[k] # "FAILED"
    <3>1. CASE k = j
      BY <1>2, <1>3, <1>4, <3>1 DEF Video!InHand, Video!Working, Video!Outcome
    <3>2. CASE k # j
      BY <1>2, <1>4, <3>2, <2>1 DEF VideoRecords, VideoWaits, Video!TypeOK
    <3> QED BY <3>1, <3>2
  <2> QED BY <1>2, <2>2 DEF VideoRecords
<1> QED BY <1>7, <1>11, <1>12, <1>13, <1>14

\* The request registers its job and prunes ended ones, without the lock of a job.
LEMMA RegisterVideo ==
  ASSUME Video!LocalVideoAssumption, VideoInv, Video!Register
  PROVE  VideoInv'
<1> USE DEF VideoInv
<1>0. PICK j \in Video!Job : j = vSubmitting /\ j # 0
  BY DEF Video!Register, Video!TypeOK
<1>1. /\ j \in Video!Job /\ j # 0 /\ vSubmitting' = 0 /\ vQueue' = Append(vQueue, j)
      /\ UNCHANGED <<vDisk, vWorker, vReceipts, vSubmitted, vFaults, vRestarts, vStranded>>
  BY <1>0 DEF Video!Register, Video!TypeOK
<1>2. vLive[j] = "none" /\ j <= vSubmitted /\ j # vWorker.job /\ j \notin vReceipts
  BY <1>0 DEF VideoSubmission
<1>3. /\ vLive' \in [Video!Job -> Video!Phase \cup {"none"}] /\ vLive'[j] = "QUEUED"
      /\ \A k \in Video!Job : k # j => \/ vLive'[k] = vLive[k]
                                       \/ vLive[k] \in Video!Ended /\ vLive'[k] = "none"
  BY <1>0 DEF Video!Register, Video!TypeOK, Video!Pruned, Video!Prunable, Video!Phase,
      Video!Working
<1>4. /\ vQueue' \in Seq(Video!Job) /\ DOMAIN vQueue' = DOMAIN vQueue \cup {Len(vQueue) + 1}
      /\ vQueue'[Len(vQueue) + 1] = j /\ \A i \in DOMAIN vQueue : vQueue'[i] = vQueue[i]
      /\ Len(vQueue) + 1 \notin DOMAIN vQueue
  BY <1>1, Appended DEF Video!TypeOK
<1>5. Video!TypeOK'
  BY <1>1, <1>3, <1>4 DEF Video!TypeOK
<1>6. \A i \in DOMAIN vQueue : vQueue[i] \in Video!Job /\ vQueue[i] # j
         /\ vLive[vQueue[i]] = "QUEUED"
  BY <1>0 DEF VideoQueue, Video!TypeOK
<1>7. \A i \in DOMAIN vQueue : vLive'[vQueue[i]] = "QUEUED"
  BY <1>3, <1>6 DEF Video!Ended
<1>8. VideoQueue'
  <2>1. ASSUME NEW i \in DOMAIN vQueue'
        PROVE  /\ vLive'[vQueue'[i]] = "QUEUED" /\ vQueue'[i] <= vSubmitted
               /\ vQueue'[i] # vWorker.job /\ vQueue'[i] # vSubmitting'
               /\ vQueue'[i] \notin vReceipts
    <3>1. CASE i \in DOMAIN vQueue
      BY <1>1, <1>4, <1>6, <1>7, <3>1, VideoJobs DEF VideoQueue
    <3>2. CASE i = Len(vQueue) + 1
      BY <1>1, <1>2, <1>3, <1>4, <3>2
    <3> QED BY <1>4, <3>1, <3>2
  <2>2. ASSUME NEW i \in DOMAIN vQueue', NEW k \in DOMAIN vQueue', vQueue'[i] = vQueue'[k]
        PROVE  i = k
    <3>1. CASE i \in DOMAIN vQueue /\ k \in DOMAIN vQueue
      BY <1>4, <2>2, <3>1 DEF VideoQueue
    <3>2. CASE i \notin DOMAIN vQueue \/ k \notin DOMAIN vQueue
      BY <1>4, <1>6, <2>2, <3>2
    <3> QED BY <3>1, <3>2
  <2> QED BY <1>1, <2>1, <2>2 DEF VideoQueue
<1>9. VideoSubmission'
  BY <1>0, <1>1, <1>2, <1>3, VideoJobs DEF VideoSubmission, Video!Ended, Video!TypeOK
<1>10. vWorker.pc # "idle" => vWorker.job \in Video!Job /\ vWorker.job # j
  BY <1>2 DEF VideoHand
<1>11. VideoHand'
  BY <1>1, <1>3, <1>10 DEF VideoHand, Video!Ended, Video!Working
<1>12. \A k \in Video!Job : Video!InHand(k) => Video!InHand(k)'
  BY <1>0, <1>1, <1>4 DEF Video!InHand
<1>13. VideoWaits(j)' /\ \A k \in Video!Job : VideoWaits(k) => VideoWaits(k)'
  BY <1>4 DEF VideoWaits
<1>14. VideoRecords'
  <2>1. ASSUME NEW k \in Video!Job PROVE
        /\ vLive'[k] \in Video!Working => VideoWaits(k)' \/ k = vWorker'.job
        /\ vDisk'[k] \in Video!Working => Video!InHand(k)' \/ k \in vStranded'
        /\ "COMPLETE" \in {vLive'[k], vDisk'[k]} => k \in vReceipts'
        /\ vFaults' = 0 /\ k \in vReceipts' => vLive'[k] # "FAILED" /\ vDisk'[k] # "FAILED"
    <3>1. CASE k = j
      BY <1>1, <1>2, <1>3, <1>12, <1>13, <3>1 DEF VideoRecords
    <3>2. CASE k # j
      BY <1>1, <1>3, <1>12, <1>13, <3>2 DEF VideoRecords, Video!Ended, Video!Working
    <3> QED BY <3>1, <3>2
  <2> QED BY <2>1 DEF VideoRecords
<1> QED BY <1>5, <1>8, <1>9, <1>11, <1>14

\* A phase that follows a working one.
LEMMA VideoFollows ==
  ASSUME NEW phase \in Video!Working
  PROVE  /\ Video!After(phase) \in Video!Phase \ {"QUEUED", "FAILED"}
         /\ Video!After(phase) = "COMPLETE" <=> phase = "RENDERING"
  BY DEF Video!After, Video!Working, Video!Phase, Video!Ended

\* The executor takes up the job that waited longest.
LEMMA TakeVideo ==
  ASSUME Video!LocalVideoAssumption, VideoInv, Video!Take
  PROVE  VideoInv'
<1> USE DEF VideoInv
<1> DEFINE j == Head(vQueue)
           phase == Video!After("QUEUED")
<1>1. /\ vQueue \in Seq(Video!Job) /\ vQueue # <<>> /\ vQueue' = Tail(vQueue)
      /\ vWorker = Video!Resting /\ vWorker.job = 0
      /\ UNCHANGED <<vDisk, vSubmitting, vReceipts, vSubmitted, vFaults, vRestarts, vStranded>>
      /\ Video!Mark(j, phase)
  BY DEF Video!Take, Video!TypeOK, Video!Resting
<1>2. /\ vQueue' \in Seq(Video!Job) /\ j = vQueue[1] /\ 1 \in DOMAIN vQueue /\ j \in Video!Job
      /\ \A i \in DOMAIN vQueue' : /\ i + 1 \in DOMAIN vQueue /\ vQueue'[i] = vQueue[i + 1]
                                   /\ i + 1 # 1
      /\ \A i \in DOMAIN vQueue : \/ i = 1
                                  \/ i - 1 \in DOMAIN vQueue' /\ vQueue'[i - 1] = vQueue[i]
      /\ \A i, k \in DOMAIN vQueue' : i + 1 = k + 1 => i = k
  BY <1>1, Tailed
<1>3. /\ phase \in Video!Working \ {"QUEUED"} /\ phase \in Video!Phase
  BY DEF Video!After, Video!Working, Video!Phase
<1>4. vLive[j] = "QUEUED" /\ j <= vSubmitted /\ j # vSubmitting /\ j \notin vReceipts /\ j # 0
  BY <1>2, VideoJobs DEF VideoQueue
<1> HIDE DEF j, phase
<1>5. /\ vWorker' = [pc |-> "persist", job |-> j, phase |-> phase]
      /\ vLive' = [vLive EXCEPT ![j] = phase]
  BY <1>1, <1>4 DEF Video!Mark
<1>6. vLive'[j] = phase /\ \A k \in Video!Job : k # j => vLive'[k] = vLive[k]
  BY <1>2, <1>5 DEF Video!TypeOK
<1>7. Video!TypeOK'
  BY <1>1, <1>2, <1>3, <1>5 DEF Video!TypeOK
<1>8. \A i \in DOMAIN vQueue' : /\ vQueue'[i] \in Video!Job /\ vQueue'[i] # j
                                /\ vLive'[vQueue'[i]] = "QUEUED"
  <2> TAKE i \in DOMAIN vQueue'
  <2>1. i + 1 \in DOMAIN vQueue /\ vQueue'[i] = vQueue[i + 1] /\ i + 1 # 1
    BY <1>2
  <2>2. vQueue[i + 1] # j /\ vLive[vQueue[i + 1]] = "QUEUED" /\ vQueue[i + 1] \in Video!Job
    BY <1>1, <1>2, <2>1 DEF VideoQueue
  <2> QED BY <1>6, <2>1, <2>2
<1>9. VideoQueue'
  <2>1. ASSUME NEW i \in DOMAIN vQueue'
        PROVE  vQueue'[i] <= vSubmitted /\ vQueue'[i] # vSubmitting /\ vQueue'[i] \notin vReceipts
    BY <1>2 DEF VideoQueue
  <2>2. \A i, k \in DOMAIN vQueue' : vQueue'[i] = vQueue'[k] => i = k
    BY <1>2 DEF VideoQueue
  <2> QED BY <1>1, <1>5, <1>8, <2>1, <2>2 DEF VideoQueue
<1>10. VideoSubmission'
  <2>1. vSubmitting # 0 => vSubmitting \in Video!Job
    BY DEF Video!TypeOK
  <2> QED BY <1>1, <1>2, <1>4, <1>5, <1>6, <2>1, VideoJobs DEF VideoSubmission, Video!TypeOK
<1>11. VideoHand'
  BY <1>1, <1>2, <1>3, <1>4, <1>5, <1>6 DEF VideoHand, Video!Working
<1>12. \A k \in Video!Job : VideoWaits(k) => VideoWaits(k)' \/ k = vWorker'.job
  BY <1>2, <1>5 DEF VideoWaits
<1>13. \A k \in Video!Job : Video!InHand(k) => Video!InHand(k)'
  <2> TAKE k \in Video!Job
  <2>1. k # vWorker.job
    BY <1>1, VideoJobs
  <2> QED BY <1>1, <1>12, <2>1 DEF Video!InHand, VideoWaits
<1>14. VideoRecords'
  <2>1. ASSUME NEW k \in Video!Job PROVE
        /\ vLive'[k] \in Video!Working => VideoWaits(k)' \/ k = vWorker'.job
        /\ vDisk'[k] \in Video!Working => Video!InHand(k)' \/ k \in vStranded'
        /\ "COMPLETE" \in {vLive'[k], vDisk'[k]} => k \in vReceipts'
        /\ vFaults' = 0 /\ k \in vReceipts' => vLive'[k] # "FAILED" /\ vDisk'[k] # "FAILED"
    <3>1. CASE k = j
      BY <1>1, <1>3, <1>4, <1>5, <1>6, <1>13, <3>1 DEF VideoRecords, Video!Working
    <3>2. CASE k # j
      BY <1>1, <1>6, <1>12, <1>13, <3>2, VideoJobs DEF VideoRecords
    <3> QED BY <3>1, <3>2
  <2> QED BY <2>1 DEF VideoRecords
<1> QED BY <1>7, <1>9, <1>10, <1>11, <1>14

\* A job the thread holds is in no queue, and not being submitted.
LEMMA HeldVideo ==
  ASSUME Video!LocalVideoAssumption, VideoInv, vWorker.pc # "idle"
  PROVE  /\ vWorker.job \in Video!Job /\ vWorker.job # 0 /\ vWorker.job <= vSubmitted
         /\ vWorker.job # vSubmitting /\ ~ VideoWaits(vWorker.job)
<1>1. vWorker.job \in Video!Job /\ vWorker.job # 0 /\ vWorker.job <= vSubmitted
  BY VideoJobs DEF VideoInv, VideoHand
<1>2. vWorker.job # vSubmitting
  BY <1>1 DEF VideoInv, VideoSubmission
<1>3. ~ VideoWaits(vWorker.job)
  BY DEF VideoWaits, VideoInv, VideoQueue
<1> QED BY <1>1, <1>2, <1>3

\* A step of the thread on its job leaves the queue and the submission alone.
LEMMA HeldKeepsVideo ==
  ASSUME Video!LocalVideoAssumption, VideoInv, vWorker.pc # "idle",
         UNCHANGED <<vQueue, vSubmitting, vSubmitted>>,
         vWorker'.job \in {vWorker.job, 0},
         \A k \in Video!Job : k # vWorker.job =>
            vLive'[k] = vLive[k] /\ vDisk'[k] = vDisk[k] /\ (k \in vReceipts' <=> k \in vReceipts)
  PROVE  VideoQueue' /\ VideoSubmission'
<1>1. /\ vWorker.job \in Video!Job /\ vWorker.job # 0 /\ vWorker.job <= vSubmitted
      /\ vWorker.job # vSubmitting /\ ~ VideoWaits(vWorker.job)
  BY HeldVideo
<1>2. Video!TypeOK /\ VideoQueue /\ VideoSubmission
  BY DEF VideoInv
<1>3. \A i \in DOMAIN vQueue : vQueue[i] \in Video!Job /\ vQueue[i] # vWorker.job /\ vQueue[i] # 0
  BY <1>1, <1>2, VideoJobs DEF VideoWaits, Video!TypeOK
<1>4. VideoQueue'
  BY <1>2, <1>3 DEF VideoQueue
<1>5. vSubmitting # 0 => vSubmitting \in Video!Job
  BY <1>2 DEF Video!TypeOK
<1>6. vSubmitted \in Nat /\ \A k \in Video!Job : k \in Nat
  BY <1>2, VideoJobs DEF Video!TypeOK, Video!LocalVideoAssumption
<1>7. VideoSubmission'
  BY <1>1, <1>2, <1>5, <1>6 DEF VideoSubmission
<1> QED BY <1>4, <1>7

\* The transition is written to the file, or the write fails before or after it.
LEMMA PersistVideo ==
  ASSUME Video!LocalVideoAssumption, VideoInv, NEW result \in Video!Outcome, Video!Persist(result)
  PROVE  VideoInv'
<1> USE DEF VideoInv
<1>1. PICK j \in Video!Job : j = vWorker.job /\ j # 0
  BY HeldVideo DEF Video!Persist
<1>2. PICK phase \in Video!Phase \ {"QUEUED"} : phase = vWorker.phase
  BY DEF Video!Persist, VideoHand
<1>3. /\ vWorker.pc = "persist" /\ vWorker.pc # "idle"
      /\ UNCHANGED <<vLive, vQueue, vSubmitting, vReceipts, vSubmitted, vRestarts>>
      /\ vDisk' = [vDisk EXCEPT ![j] = Video!Written(result, vDisk[j], phase)]
      /\ vWorker' = Video!AfterWrite(result)
      /\ vStranded' = IF phase \in Video!Working THEN vStranded
                     ELSE IF result = "lost" THEN vStranded \cup {j} ELSE vStranded \ {j}
      /\ result # "ok" => vFaults' > 0
      /\ result = "ok" => vFaults' = vFaults
      /\ vFaults' \in 0..VideoFaults /\ (vFaults' = 0 => vFaults = 0)
  BY <1>1, <1>2, VideoFaulty DEF Video!Persist
<1>4. /\ \A k \in Video!Job : k # j => vDisk'[k] = vDisk[k]
      /\ vDisk'[j] \in {vDisk[j], phase} /\ (result # "lost" => vDisk'[j] = phase)
      /\ vStranded' \subseteq Video!Job
               /\ \A k \in Video!Job : k # j => (k \in vStranded <=> k \in vStranded')
      /\ phase \notin Video!Working /\ vDisk'[j] \in Video!Working => j \in vStranded'
  <2>1. /\ \A k \in Video!Job : k # j => vDisk'[k] = vDisk[k]
        /\ vDisk'[j] \in {vDisk[j], phase} /\ (result # "lost" => vDisk'[j] = phase)
    BY <1>1, <1>3 DEF Video!TypeOK, Video!Written
  <2>2. vStranded' \subseteq Video!Job
           /\ \A k \in Video!Job : k # j => (k \in vStranded <=> k \in vStranded')
    BY <1>1, <1>3 DEF Video!TypeOK
  <2>3. phase \notin Video!Working /\ vDisk'[j] \in Video!Working => j \in vStranded'
    BY <1>3, <2>1
  <2> QED BY <2>1, <2>2, <2>3
<1>5. vDisk' \in [Video!Job -> Video!Phase \cup {"none"}]
  BY <1>1, <1>2, <1>3 DEF Video!TypeOK, Video!Written
<1>6. \/ /\ result = "ok" /\ phase \in Video!Working /\ vWorker'.pc = "work"
         /\ vWorker'.job = j /\ vWorker'.phase = phase
      \/ /\ result = "ok" \/ phase = "FAILED"
         /\ phase \notin Video!Working \/ result # "ok"
         /\ vWorker' = Video!Resting /\ vWorker'.pc = "idle" /\ vWorker'.job = 0
      \/ /\ result # "ok" /\ phase # "FAILED" /\ vWorker'.pc = "raised"
         /\ vWorker'.job = j /\ vWorker'.phase = phase
  BY <1>1, <1>2, <1>3 DEF Video!AfterWrite, Video!TypeOK, Video!Resting
<1>7. vWorker' \in [pc: {"idle", "persist", "work", "raised"},
                   job: Video!Job \cup {0}, phase: Video!Phase \cup {"none"}]
  BY <1>3 DEF Video!AfterWrite, Video!TypeOK, Video!Resting
<1>8. Video!TypeOK'
  BY <1>3, <1>4, <1>5, <1>7 DEF Video!TypeOK
<1>9. VideoQueue' /\ VideoSubmission'
  <2>1. vWorker'.job \in {vWorker.job, 0}
    BY <1>1, <1>6
  <2> QED BY <1>1, <1>3, <1>4, <2>1, HeldKeepsVideo
<1>10. /\ vLive[j] = phase \/ (phase \in Video!Ended /\ vLive[j] = "none")
       /\ phase \in Video!Working => j \notin vReceipts
       /\ phase = "COMPLETE" => j \in vReceipts
       /\ phase = "FAILED" /\ vFaults = 0 => j \notin vReceipts
       /\ j <= vSubmitted
  BY <1>1, <1>2, <1>3 DEF VideoHand
<1>11. VideoHand'
  <2>1. CASE vWorker'.pc = "work"
    BY <1>2, <1>3, <1>4, <1>6, <1>10, <2>1 DEF VideoHand, Video!Working, Video!Ended,
        Video!Resting
  <2>2. CASE vWorker'.pc = "idle"
    BY <1>3, <1>6, <2>2 DEF VideoHand
  <2>3. CASE vWorker'.pc = "raised"
    <3>1. vLive[j] # "QUEUED" /\ vFaults' # 0
      BY <1>2, <1>3, <1>6, <1>10, <2>3
    <3>2. vLive[j] \notin Video!Working /\ vDisk'[j] \in Video!Working => j \in vStranded'
      BY <1>2, <1>4, <1>10 DEF Video!Working, Video!Ended
    <3> QED BY <1>3, <1>6, <1>10, <2>3, <3>1, <3>2 DEF VideoHand, Video!Resting
  <2> QED BY <1>6, <2>1, <2>2, <2>3
<1>12. VideoWaits(j)' = VideoWaits(j) /\ \A k \in Video!Job : VideoWaits(k)' = VideoWaits(k)
  BY <1>3 DEF VideoWaits
<1>13. VideoRecords'
  <2>1. ASSUME NEW k \in Video!Job PROVE
        /\ vLive[k] \in Video!Working => VideoWaits(k) \/ k = vWorker'.job
        /\ vDisk'[k] \in Video!Working => Video!InHand(k)' \/ k \in vStranded'
        /\ "COMPLETE" \in {vLive[k], vDisk'[k]} => k \in vReceipts
        /\ vFaults' = 0 /\ k \in vReceipts => vLive[k] # "FAILED" /\ vDisk'[k] # "FAILED"
    <3>1. CASE k # j
      <4>1. k # vWorker.job /\ vDisk'[k] = vDisk[k]
        BY <1>1, <1>4, <3>1
      <4>2. Video!InHand(k) => Video!InHand(k)'
        BY <1>3, <4>1 DEF Video!InHand
      <4> QED BY <1>3, <1>4, <3>1, <4>1, <4>2 DEF VideoRecords
    <3>2. CASE k = j
      <4>1. vLive[k] \in Video!Working => VideoWaits(k) \/ k = vWorker'.job
        BY <1>2, <1>6, <1>10, <3>2 DEF Video!Working, Video!Ended
      <4>2. vDisk'[k] \in Video!Working => Video!InHand(k)' \/ k \in vStranded'
        BY <1>2, <1>3, <1>4, <1>6, <3>2 DEF Video!InHand, Video!Working
      <4>3. "COMPLETE" \in {vLive[k], vDisk'[k]} => k \in vReceipts
        BY <1>4, <1>10, <3>2 DEF VideoRecords
      <4>4. vFaults' = 0 /\ k \in vReceipts => vLive[k] # "FAILED" /\ vDisk'[k] # "FAILED"
        BY <1>3, <1>4, <1>10, <3>2 DEF VideoRecords
      <4> QED BY <4>1, <4>2, <4>3, <4>4
    <3> QED BY <3>1, <3>2
  <2> QED BY <1>3, <1>12, <2>1 DEF VideoRecords
<1> QED BY <1>8, <1>9, <1>11, <1>13

\* Marking the job in hand: its record takes the phase, unless it was pruned.
LEMMA MarkedVideo ==
  ASSUME Video!LocalVideoAssumption, VideoInv, NEW j \in Video!Job, NEW phase \in Video!Phase,
      Video!Mark(j, phase)
  PROVE  /\ vLive' \in [Video!Job -> Video!Phase \cup {"none"}]
         /\ vWorker' \in [pc: {"idle", "persist", "work", "raised"},
                         job: Video!Job \cup {0}, phase: Video!Phase \cup {"none"}]
         /\ \A k \in Video!Job : k # j => vLive'[k] = vLive[k]
         /\ \/ /\ vLive[j] = "none" /\ vLive'[j] = "none" /\ vWorker' = Video!Resting
               /\ vWorker'.pc = "idle" /\ vWorker'.job = 0
            \/ /\ vLive[j] # "none" /\ vLive'[j] = phase /\ vWorker'.pc = "persist"
               /\ vWorker'.job = j /\ vWorker'.phase = phase
  BY DEF VideoInv, Video!TypeOK, Video!Mark, Video!Resting

\* What the thread marked, and no other record, is in the records afterwards.
LEMMA MarkedVideoRecords ==
  ASSUME Video!LocalVideoAssumption, VideoInv, NEW j \in Video!Job, j = vWorker.job,
      vWorker.pc # "idle",
         NEW phase \in Video!Phase, Video!Mark(j, phase),
         UNCHANGED <<vDisk, vQueue, vSubmitting, vSubmitted, vFaults, vRestarts, vStranded>>,
         \A k \in Video!Job : k # j => (k \in vReceipts' <=> k \in vReceipts),
         vReceipts \subseteq vReceipts',
         phase = "COMPLETE" => j \in vReceipts',
         vLive[j] = "none" /\ vDisk[j] \in Video!Working => j \in vStranded,
         vFaults = 0 => /\ vLive[j] # "none"
                        /\ j \in vReceipts' => phase # "FAILED" /\ vDisk[j] # "FAILED"
  PROVE  VideoRecords'
<1>1. /\ \A k \in Video!Job : k # j => vLive'[k] = vLive[k]
      /\ \/ vLive[j] = "none" /\ vLive'[j] = "none" /\ vWorker'.job = 0
         \/ vLive[j] # "none" /\ vLive'[j] = phase /\ vWorker'.job = j
  BY MarkedVideo
<1>2. ASSUME NEW k \in Video!Job PROVE
      /\ vLive'[k] \in Video!Working => VideoWaits(k)' \/ k = vWorker'.job
      /\ vDisk[k] \in Video!Working => Video!InHand(k)' \/ k \in vStranded'
      /\ "COMPLETE" \in {vLive'[k], vDisk[k]} => k \in vReceipts'
      /\ vFaults = 0 /\ k \in vReceipts' => vLive'[k] # "FAILED" /\ vDisk[k] # "FAILED"
  <2>1. CASE k # j
    <3>1. /\ vLive'[k] = vLive[k] /\ k # vWorker.job
      BY <1>1, <2>1
    <3>2. (VideoWaits(k) => VideoWaits(k)') /\ (Video!InHand(k) => Video!InHand(k)')
      BY <3>1 DEF VideoWaits, Video!InHand
    <3> QED BY <2>1, <3>1, <3>2 DEF VideoInv, VideoRecords
  <2>2. CASE k = j
    <3>1. vFaults = 0 \/ vFaults > 0
      BY DEF VideoInv, Video!TypeOK, Video!LocalVideoAssumption
    <3>2. vLive'[k] \in Video!Working => k = vWorker'.job
      BY <1>1, <2>2 DEF Video!Working
    <3>3. vDisk[k] \in Video!Working => Video!InHand(k)' \/ k \in vStranded'
      BY <1>1, <2>2, <3>1 DEF Video!InHand
    <3>4. "COMPLETE" \in {vLive'[k], vDisk[k]} => k \in vReceipts'
      BY <1>1, <2>2 DEF VideoInv, VideoRecords
    <3>5. vFaults = 0 /\ k \in vReceipts' => vLive'[k] # "FAILED" /\ vDisk[k] # "FAILED"
      BY <1>1, <2>2
    <3> QED BY <3>2, <3>3, <3>4, <3>5
  <2> QED BY <2>1, <2>2
<1> QED BY <1>2 DEF VideoRecords

\* A stage went well: the next phase, and the receipt once the video is rendered.
LEMMA WorkOnVideo ==
  ASSUME Video!LocalVideoAssumption, VideoInv, Video!Work
  PROVE  VideoInv'
<1> USE DEF VideoInv
<1>1. PICK j \in Video!Job : j = vWorker.job /\ j # 0
  BY HeldVideo DEF Video!Work
<1>2. PICK old \in Video!Working \ {"QUEUED"} : old = vWorker.phase
  BY DEF Video!Work, VideoHand
<1>3. PICK phase \in Video!Phase \ {"QUEUED", "FAILED"} :
         phase = Video!After(old) /\ (phase = "COMPLETE" <=> old = "RENDERING")
  BY VideoFollows
<1>4. /\ vWorker.pc = "work" /\ vWorker.pc # "idle"
      /\ UNCHANGED <<vDisk, vQueue, vSubmitting, vSubmitted, vFaults, vRestarts, vStranded>>
      /\ Video!Mark(j, phase)
      /\ vReceipts' = IF phase = "COMPLETE" THEN vReceipts \cup {j} ELSE vReceipts
  BY <1>1, <1>2, <1>3 DEF Video!Work, Video!Finish
<1>5. vLive[j] = old /\ j \notin vReceipts /\ j <= vSubmitted
  BY <1>1, <1>2, <1>4 DEF VideoHand
<1>6. /\ vLive' \in [Video!Job -> Video!Phase \cup {"none"}]
      /\ vWorker' \in [pc: {"idle", "persist", "work", "raised"},
                      job: Video!Job \cup {0}, phase: Video!Phase \cup {"none"}]
      /\ \A k \in Video!Job : k # j => vLive'[k] = vLive[k]
      /\ vLive'[j] = phase /\ vWorker'.pc = "persist" /\ vWorker'.job = j
               /\ vWorker'.phase = phase
  BY <1>4, <1>5, MarkedVideo DEF Video!Working
<1>7. Video!TypeOK'
  BY <1>4, <1>6 DEF Video!TypeOK
<1>8. \A k \in Video!Job : k # j => (k \in vReceipts' <=> k \in vReceipts)
  BY <1>4
<1>9. VideoQueue' /\ VideoSubmission'
  BY <1>1, <1>4, <1>6, <1>8, HeldKeepsVideo
<1>10. VideoHand'
  BY <1>1, <1>3, <1>4, <1>5, <1>6 DEF VideoHand, Video!Resting, Video!Working
<1>11. vLive[j] # "none" /\ vDisk[j] # "FAILED"
  BY <1>1, <1>2, <1>4, <1>5 DEF VideoHand, Video!Working
<1>12. VideoRecords'
  BY <1>1, <1>3, <1>4, <1>5, <1>8, <1>11, MarkedVideoRecords DEF Video!Working
<1> QED BY <1>7, <1>9, <1>10, <1>12

\* A stage raises; a failing write of the receipt may have left it.
LEMMA RaiseInVideo ==
  ASSUME Video!LocalVideoAssumption, VideoInv, NEW result \in {"lost", "late"},
      Video!Raise(result)
  PROVE  VideoInv'
<1> USE DEF VideoInv
<1>1. PICK j \in Video!Job : j = vWorker.job /\ j # 0
  BY HeldVideo DEF Video!Raise
<1>2. PICK phase \in Video!Working \ {"QUEUED"} : phase = vWorker.phase
  BY DEF Video!Raise, VideoHand
<1>3. /\ vWorker.pc = "work" /\ vWorker.pc # "idle"
      /\ UNCHANGED <<vLive, vDisk, vQueue, vSubmitting, vSubmitted, vRestarts, vStranded>>
      /\ vWorker'.pc = "raised" /\ vWorker'.job = j /\ vWorker'.phase = phase
      /\ vWorker' \in [pc: {"idle", "persist", "work", "raised"},
                      job: Video!Job \cup {0}, phase: Video!Phase \cup {"none"}]
  BY <1>1, <1>2 DEF Video!Raise, Video!TypeOK
<1>4. /\ result = "lost" => vReceipts' = vReceipts /\ vFaults' = vFaults
      /\ vReceipts' \in {vReceipts, vReceipts \cup {j}}
      /\ result = "late" => vFaults' > 0
      /\ vFaults' \in 0..VideoFaults /\ (vFaults' = 0 => vFaults = 0)
  <2>1. CASE result = "late"
    <3>1. Video!Fault(result)
      BY <2>1 DEF Video!Raise
    <3> QED BY <1>1, <2>1, <3>1, VideoFaulty DEF Video!Raise, Video!Written, Video!Finish
  <2>2. CASE result = "lost"
    BY <2>2 DEF Video!Raise, Video!Written, Video!TypeOK
  <2> QED BY <2>1, <2>2
<1>5. vLive[j] = phase /\ j \notin vReceipts /\ j <= vSubmitted /\ vDisk[j] = phase
  BY <1>1, <1>2, <1>3 DEF VideoHand
<1>6. Video!TypeOK'
  <2>1. vReceipts' \subseteq Video!Job /\ vStranded' \subseteq Video!Job
    BY <1>3, <1>4 DEF Video!TypeOK
  <2> QED BY <1>3, <1>4, <2>1 DEF Video!TypeOK
<1>7. \A k \in Video!Job : k # j => (k \in vReceipts' <=> k \in vReceipts)
  BY <1>4
<1>8. VideoQueue' /\ VideoSubmission'
  BY <1>1, <1>3, <1>7, HeldKeepsVideo
<1>9. VideoHand'
  BY <1>3, <1>4, <1>5 DEF VideoHand
<1>10. ASSUME NEW k \in Video!Job PROVE
      /\ vLive[k] \in Video!Working => VideoWaits(k)' \/ k = vWorker'.job
      /\ vDisk[k] \in Video!Working => Video!InHand(k)' \/ k \in vStranded'
      /\ "COMPLETE" \in {vLive[k], vDisk[k]} => k \in vReceipts'
      /\ vFaults' = 0 /\ k \in vReceipts' => vLive[k] # "FAILED" /\ vDisk[k] # "FAILED"
  <2>1. (VideoWaits(k) => VideoWaits(k)') /\ (Video!InHand(k) => Video!InHand(k)')
    BY <1>1, <1>3 DEF VideoWaits, Video!InHand
  <2>2. vWorker'.job = vWorker.job
    BY <1>1, <1>3
  <2>3. vFaults' = 0 => vReceipts' = vReceipts /\ vFaults = 0
    BY <1>4
  <2>4. vFaults > 0 => vFaults' > 0
    BY <1>4 DEF Video!TypeOK, Video!LocalVideoAssumption
  <2>5. j \notin vReceipts /\ k \in vReceipts => k \in vReceipts'
    BY <1>4
  <2> QED BY <1>3, <1>4, <2>1, <2>2, <2>3, <2>4, <2>5 DEF VideoRecords
<1>11. VideoRecords'
  BY <1>3, <1>10 DEF VideoRecords
<1> QED BY <1>6, <1>8, <1>9, <1>11

\* The handler marks the job as failed, if it is still in the map.
LEMMA HandleVideo ==
  ASSUME Video!LocalVideoAssumption, VideoInv, Video!Handle
  PROVE  VideoInv'
<1> USE DEF VideoInv
<1>1. PICK j \in Video!Job : j = vWorker.job /\ j # 0 /\ j <= vSubmitted
  BY HeldVideo DEF Video!Handle
<1>2. /\ vWorker.pc = "raised" /\ vWorker.pc # "idle"
      /\ UNCHANGED <<vDisk, vQueue, vSubmitting, vReceipts, vSubmitted, vFaults, vRestarts, vStranded>>
      /\ Video!Mark(j, "FAILED") /\ "FAILED" \in Video!Phase
  BY <1>1 DEF Video!Handle, Video!Phase, Video!Ended
<1>3. /\ vFaults = 0 => vLive[j] \in Video!Working /\ j \notin vReceipts
      /\ vLive[j] = "none" /\ vDisk[j] \in Video!Working => j \in vStranded
  BY <1>1, <1>2 DEF VideoHand, Video!Working
<1>4. /\ vLive' \in [Video!Job -> Video!Phase \cup {"none"}]
      /\ vWorker' \in [pc: {"idle", "persist", "work", "raised"},
                      job: Video!Job \cup {0}, phase: Video!Phase \cup {"none"}]
      /\ \A k \in Video!Job : k # j => vLive'[k] = vLive[k]
      /\ \/ /\ vLive[j] = "none" /\ vLive'[j] = "none" /\ vWorker' = Video!Resting
            /\ vWorker'.pc = "idle" /\ vWorker'.job = 0
         \/ /\ vLive[j] # "none" /\ vLive'[j] = "FAILED" /\ vWorker'.pc = "persist"
            /\ vWorker'.job = j /\ vWorker'.phase = "FAILED"
  BY <1>2, MarkedVideo
<1>5. Video!TypeOK'
  BY <1>2, <1>4 DEF Video!TypeOK
<1>6. VideoQueue' /\ VideoSubmission'
  BY <1>1, <1>2, <1>4, HeldKeepsVideo
<1>7. VideoHand'
  BY <1>1, <1>2, <1>3, <1>4 DEF VideoHand, Video!Phase, Video!Ended, Video!Working
<1>8. VideoRecords'
  BY <1>1, <1>2, <1>3, MarkedVideoRecords DEF Video!Working
<1> QED BY <1>5, <1>6, <1>7, <1>8

\* The process is gone and with it everything but the files.
LEMMA RestartVideo ==
  ASSUME Video!LocalVideoAssumption, VideoInv, Video!Restart
  PROVE  VideoInv'
<1> USE DEF VideoInv
<1>1. /\ vRestarts \in 0..MaxRestarts /\ vRestarts < MaxRestarts /\ MaxRestarts \in Nat
      /\ vRestarts' = vRestarts + 1
  BY DEF Video!Restart, Video!TypeOK, Video!LocalVideoAssumption
<1>2. vRestarts' \in 0..MaxRestarts /\ vRestarts' > 0
  BY <1>1
<1>3. /\ vLive' = [k \in Video!Job |-> "none"] /\ vQueue' = <<>> /\ vWorker' = Video!Resting
      /\ vSubmitting' = 0 /\ UNCHANGED <<vDisk, vReceipts, vSubmitted, vFaults>>
      /\ vStranded' = vStranded \cup {k \in Video!Job : Video!InHand(k)}
  BY DEF Video!Restart
<1>4. Video!TypeOK'
  BY <1>2, <1>3 DEF Video!TypeOK, Video!Resting
<1>5. VideoQueue' /\ VideoSubmission' /\ VideoHand'
  BY <1>3 DEF VideoQueue, VideoSubmission, VideoHand, Video!Resting
<1>6. VideoRecords'
  BY <1>2, <1>3 DEF VideoRecords, Video!Working
<1> QED BY <1>4, <1>5, <1>6

\* Every step keeps the invariant of the renderings.
LEMMA NextVideo ==
  ASSUME Video!LocalVideoAssumption, VideoInv, [Video!Next]_Video!vars
  PROVE  VideoInv'
<1>1. CASE UNCHANGED Video!vars
  BY <1>1 DEF Video!vars, VideoInv, Video!TypeOK, VideoQueue, VideoSubmission, VideoHand,
      VideoRecords,
              VideoWaits, Video!InHand
<1>2. CASE Video!Worker
  BY <1>2, TakeVideo, WorkOnVideo, HandleVideo, PersistVideo, RaiseInVideo DEF Video!Worker
<1> QED
  BY <1>1, <1>2, WriteVideo, RegisterVideo, RestartVideo DEF Video!Next

\* What the page shows of renderings, and what it offers, follows.
LEMMA VideoIsTrue ==
  ASSUME VideoInv PROVE Video!TypeOK /\ Video!ShownIsWorkedOn /\ Video!CompleteIsRendered
<1>1. Video!TypeOK
  BY DEF VideoInv
<1>2. ASSUME NEW j \in Video!Job
      PROVE  /\ vLive[j] \in Video!Working => Video!InHand(j)
             /\ Video!Shown(j) \in Video!Working => Video!InHand(j) \/ j \in vStranded
  <2>1. vLive[j] \in Video!Working => Video!InHand(j)
    BY DEF VideoInv, VideoRecords, VideoWaits, Video!InHand
  <2>2. vDisk[j] \in Video!Working => Video!InHand(j) \/ j \in vStranded
    BY DEF VideoInv, VideoRecords
  <2> QED BY <2>1, <2>2 DEF Video!Shown
<1>3. ASSUME NEW j \in Video!Job
      PROVE  /\ "COMPLETE" \in {vLive[j], vDisk[j]} => j \in vReceipts
             /\ Video!Shown(j) = "FAILED" /\ j \in vReceipts => vFaults > 0
  <2>1. "COMPLETE" \in {vLive[j], vDisk[j]} => j \in vReceipts
    BY DEF VideoInv, VideoRecords
  <2>2. Video!Shown(j) = "FAILED" => vLive[j] = "FAILED" \/ vDisk[j] = "FAILED"
    BY DEF Video!Shown
  <2>3. vFaults = 0 \/ vFaults > 0
    BY DEF VideoInv, Video!TypeOK
  <2> QED BY <2>1, <2>2, <2>3 DEF VideoInv, VideoRecords
<1> QED BY <1>1, <1>2, <1>3 DEF Video!ShownIsWorkedOn, Video!CompleteIsRendered

------------------------------------------------------------------------------
(* The resume jobs of ResumeJobs *)

\* What the executor does next, by what it has made of its job.
Drafting   == {"PREPARING", "RETRIEVING", "GENERATING", "VERIFYING",
               "EXPERT_REVIEW", "REVERIFYING"}
Rendering  == {"pdf", "pdf_metadata", "pdf_run"}
Offering   == {"previewing"} \cup Rendering \cup {"complete"}
Executing  == Drafting \cup Resume!Saving \cup {"ready"} \cup Offering

\* The phase a job shows while the executor is at a step.
PhaseAt(pc) ==
    CASE pc \in Drafting -> pc
      [] pc \in Resume!Saving \cup {"ready"} -> "EXPORTING"
      [] pc = "previewing" -> "DOCX_READY"
      [] pc \in Rendering \cup {"complete"} -> "PREVIEWING"

\* The jobs that wait: fresh, in the order they came.
ResumeQueue ==
    /\ \A i \in DOMAIN queue :
          /\ jobs[queue[i]].phase = "QUEUED"
          /\ queue[i] <= submitted /\ queue[i] # worker.job
          /\ \A v \in Resume!Variant : runs[<<queue[i], v>>] = Resume!NoRun
          /\ draft[queue[i]] = "base" /\ candidate[queue[i]] # "VALIDATED"
    /\ \A i, k \in DOMAIN queue : queue[i] = queue[k] => i = k

\* Jobs that were not submitted yet.
ResumeFresh ==
    \A j \in Resume!Job : j > submitted =>
        /\ jobs[j] = Resume!NoJob /\ draft[j] = "base" /\ candidate[j] = "none"
        /\ \A v \in Resume!Variant : runs[<<j, v>>] = Resume!NoRun

\* The executor's job and what it has written for it so far.
ResumeHand ==
    /\ worker \in [pc: {"idle", "timings"} \cup Executing, job: Resume!Job \cup {0},
                   variant: Resume!Variant, made: BOOLEAN, whole: BOOLEAN]
    /\ worker.pc = "idle" => worker.job = 0
    /\ worker.pc # "idle" => worker.job \in Resume!Job /\ worker.job <= submitted
    /\ worker.pc \in Executing =>
          /\ jobs[worker.job] # Resume!NoJob
          /\ jobs[worker.job].phase = PhaseAt(worker.pc)
          /\ worker.variant <= asked[worker.job].locales
    /\ worker.pc = "timings" => jobs[worker.job].phase \in {"none", "COMPLETE"}
    /\ worker.pc \in Drafting =>
          /\ draft[worker.job] = "base" /\ candidate[worker.job] # "VALIDATED"
          /\ \A v \in Resume!Variant : runs[<<worker.job, v>>] = Resume!NoRun
          /\ worker.variant = 1 /\ worker.whole = TRUE
    /\ worker.pc \in Resume!Saving =>
          /\ \A v \in Resume!Variant : v < worker.variant => runs[<<worker.job, v>>].run # "none"
          /\ worker.pc \in {"receipts", "metadata", "run"} => Resume!This.docx # "none"
          /\ worker.pc \in {"metadata", "run"} => Resume!This.receipts
          /\ worker.pc = "run" => Resume!This.ui # "none"
          /\ worker.whole = TRUE
    /\ worker.pc \in {"ready"} \cup Offering =>
          \A v \in Resume!Variants(worker.job) : runs[<<worker.job, v>>].run # "none"
    /\ worker.pc \in {"ready", "previewing"} => worker.variant = 1 /\ worker.whole = TRUE

\* A run that names no PDF as ready, and one that names it in both its files.
NoPreview(run)   == "PDF_READY" \notin {run.ui, run.run}
FullPreview(run) == run.ui = "PDF_READY" /\ run.run = "PDF_READY"

\* How far the previews of the job in hand are: none before the export is done,
\* then one variant after the other.
ResumePreviews ==
    /\ worker.pc \in Resume!Saving \cup {"ready", "previewing"} =>
          \A v \in Resume!Variant : NoPreview(runs[<<worker.job, v>>])
    /\ worker.pc \in Rendering =>
          /\ \A v \in Resume!Variant : v > worker.variant => NoPreview(runs[<<worker.job, v>>])
          /\ worker.pc \in {"pdf", "pdf_metadata"} => NoPreview(Resume!This)
          /\ worker.pc \in {"pdf_metadata", "pdf_run"} =>
                (worker.made => Resume!This.pdf) /\ (worker.whole => worker.made)
          /\ worker.pc = "pdf_run" => Resume!This.ui = Resume!Status
                   /\ Resume!This.run # "PDF_READY"
          /\ worker.whole => \A v \in Resume!Variant :
                v < worker.variant => FullPreview(runs[<<worker.job, v>>])
    /\ worker.pc = "complete" /\ worker.whole =>
          \A v \in Resume!Variants(worker.job) : FullPreview(runs[<<worker.job, v>>])

ResumeWaits(j) == \E i \in DOMAIN queue : queue[i] = j

\* What is true of a run whoever wrote it, the draft of its job being text.
RunSound(run, text) ==
    /\ run.docx \in {"none", text}
    /\ run.run # "none" => run.docx # "none" /\ run.receipts /\ run.ui # "none"
    /\ "PDF_READY" \in {run.ui, run.run} => run.pdf

\* What is true of a job, in the executor's hands or not.
JobSound(j) ==
    /\ jobs[j].phase \in Resume!Making \cup Resume!Shown =>
          ResumeWaits(j) \/ (worker.job = j /\ worker.pc # "timings")
    /\ draft[j] = "reviewed" <=> candidate[j] = "VALIDATED"
    /\ \A v \in Resume!Variant : RunSound(runs[<<j, v>>], draft[j])
    /\ jobs[j].phase \in Resume!Shown \cup {"COMPLETE"} =>
          \A v \in Resume!Variants(j) : runs[<<j, v>>].run # "none"
    /\ jobs[j].phase = "COMPLETE" /\ jobs[j].preview = "ready" =>
          \A v \in Resume!Variants(j) : FullPreview(runs[<<j, v>>])

ResumeRuns == \A j \in Resume!Job : JobSound(j)

ResumeInv == Resume!TypeOK /\ ResumeQueue /\ ResumeFresh /\ ResumeHand /\ ResumePreviews
         /\ ResumeRuns

LEMMA ResumeNumbers ==
  ASSUME Resume!ResumeJobsAssumption PROVE /\ Resume!Job \subseteq Nat /\ 0 \notin Resume!Job /\ Resume!Variant = {1, 2}
                                           /\ MaxJobs \in Nat
  BY DEF Resume!Job, Resume!Variant, Resume!ResumeJobsAssumption

\* Nothing is submitted at the start.
LEMMA InitResume == ASSUME Resume!ResumeJobsAssumption, Resume!Init PROVE ResumeInv
<1>1. Resume!TypeOK
  <2>1. \A j \in Resume!Job : [ai |-> FALSE, expert |-> FALSE, locales |-> 1]
                         \in [ai: BOOLEAN, expert: BOOLEAN, locales: Resume!Variant]
    BY DEF Resume!Variant
  <2>2. Resume!NoRun \in Resume!Run /\ Resume!Resting.variant \in Resume!Variant
    BY DEF Resume!NoRun, Resume!Run, Resume!Resting, Resume!Variant
  <2> QED BY <2>1, <2>2 DEF Resume!Init, Resume!TypeOK, Resume!Resting,
      Resume!ResumeJobsAssumption
<1>2. ResumeQueue
  BY DEF Resume!Init, ResumeQueue
<1>3. ResumeFresh
  BY DEF Resume!Init, ResumeFresh
<1>4. ResumeHand /\ ResumePreviews
  BY ResumeNumbers DEF Resume!Init, ResumeHand, ResumePreviews, Resume!Resting, Executing,
      Drafting, Resume!Saving, Offering,
     Rendering
<1>5. ResumeRuns
  BY DEF Resume!Init, ResumeRuns, JobSound, RunSound, Resume!NoJob, Resume!NoRun, Resume!Making,
      Resume!Shown
<1> QED
  BY <1>1, <1>2, <1>3, <1>4, <1>5 DEF ResumeInv

\* The job in hand is in no queue.
LEMMA HeldResume ==
  ASSUME Resume!ResumeJobsAssumption, ResumeInv, worker.pc # "idle"
  PROVE  /\ worker.job \in Resume!Job /\ worker.job # 0 /\ worker.job <= submitted
         /\ ~ ResumeWaits(worker.job)
                  /\ <<worker.job, worker.variant>> \in Resume!Job \X Resume!Variant
         /\ Resume!This \in Resume!Run
                  /\ \A v \in Resume!Variant : runs[<<worker.job, v>>] \in Resume!Run
<1>1. worker.job \in Resume!Job /\ worker.job # 0 /\ worker.job <= submitted
  BY ResumeNumbers DEF ResumeInv, ResumeHand
<1>2. ~ ResumeWaits(worker.job)
  BY DEF ResumeWaits, ResumeInv, ResumeQueue
<1>3. worker.variant \in Resume!Variant
  BY DEF ResumeInv, Resume!TypeOK
<1> QED BY <1>1, <1>2, <1>3 DEF Resume!This, ResumeInv, Resume!TypeOK

\* A step of the executor on its job leaves the other jobs as they are.
LEMMA HeldKeepsResume ==
  ASSUME Resume!ResumeJobsAssumption, ResumeInv, worker.pc # "idle",
         NEW j \in Resume!Job, j = worker.job,
         UNCHANGED <<queue, submitted, asked>>, worker'.job \in {worker.job, 0},
         \A k \in Resume!Job : k # worker.job =>
            /\ jobs'[k] = jobs[k] /\ draft'[k] = draft[k] /\ candidate'[k] = candidate[k]
            /\ \A v \in Resume!Variant : runs'[<<k, v>>] = runs[<<k, v>>]
  PROVE  /\ ResumeQueue' /\ ResumeFresh'
         /\ JobSound(j)' => ResumeRuns'
<1>1. /\ worker.job \in Resume!Job /\ worker.job # 0 /\ worker.job <= submitted
      /\ ~ ResumeWaits(worker.job)
  BY HeldResume
<1>2. Resume!TypeOK /\ ResumeQueue /\ ResumeFresh /\ ResumeRuns
  BY DEF ResumeInv
<1>3. \A i \in DOMAIN queue : queue[i] \in Resume!Job /\ queue[i] # worker.job /\ queue[i] # 0
  BY <1>1, <1>2, ResumeNumbers DEF ResumeWaits, Resume!TypeOK
<1>4. ResumeQueue'
  <2>1. ASSUME NEW i \in DOMAIN queue
        PROVE  /\ jobs'[queue[i]].phase = "QUEUED"
               /\ queue[i] <= submitted /\ queue[i] # worker'.job
               /\ \A v \in Resume!Variant : runs'[<<queue[i], v>>] = Resume!NoRun
               /\ draft'[queue[i]] = "base" /\ candidate'[queue[i]] # "VALIDATED"
    BY <1>2, <1>3 DEF ResumeQueue
  <2> QED BY <1>2, <2>1 DEF ResumeQueue
<1>5. ResumeFresh'
  <2>1. ASSUME NEW k \in Resume!Job, k > submitted PROVE k # worker.job
    BY <1>1, <1>2, <2>1, ResumeNumbers DEF Resume!TypeOK
  <2> QED BY <1>2, <2>1 DEF ResumeFresh
<1>6. ASSUME NEW k \in Resume!Job, k # worker.job PROVE JobSound(k)'
  <2>1. JobSound(k)
    BY <1>2 DEF ResumeRuns
  <2>2. Resume!Variants(k)' = Resume!Variants(k)
    BY DEF Resume!Variants
  <2>3. /\ jobs'[k] = jobs[k] /\ draft'[k] = draft[k] /\ candidate'[k] = candidate[k]
        /\ \A v \in Resume!Variant : runs'[<<k, v>>] = runs[<<k, v>>]
    BY <1>6
  <2>4. Resume!Variants(k) \subseteq Resume!Variant
    BY <1>2 DEF Resume!Variants, Resume!TypeOK, Resume!Variant
  <2>5. jobs'[k].phase \in Resume!Making \cup Resume!Shown =>
          ResumeWaits(k)' \/ (worker'.job = k /\ worker'.pc # "timings")
    <3>1. ResumeWaits(k) => ResumeWaits(k)'
      BY DEF ResumeWaits
    <3> QED BY <1>6, <2>1, <2>3, <3>1 DEF JobSound
  <2>6. \A v \in Resume!Variant : RunSound(runs'[<<k, v>>], draft'[k])
    BY <2>1, <2>3 DEF JobSound
  <2>7. jobs'[k].phase \in Resume!Shown \cup {"COMPLETE"} =>
          \A v \in Resume!Variants(k)' : runs'[<<k, v>>].run # "none"
    BY <2>1, <2>2, <2>3, <2>4 DEF JobSound
  <2>8. jobs'[k].phase = "COMPLETE" /\ jobs'[k].preview = "ready" =>
          \A v \in Resume!Variants(k)' : FullPreview(runs'[<<k, v>>])
    BY <2>1, <2>2, <2>3, <2>4 DEF JobSound
  <2>9. draft'[k] = "reviewed" <=> candidate'[k] = "VALIDATED"
    BY <2>1, <2>3 DEF JobSound
  <2> QED BY <2>5, <2>6, <2>7, <2>8, <2>9 DEF JobSound
<1> QED BY <1>4, <1>5, <1>6 DEF ResumeRuns

\* The record of the job in hand takes a phase.
LEMMA MovedJob ==
  ASSUME Resume!ResumeJobsAssumption, ResumeInv, worker.pc \in Executing,
         NEW phase \in Resume!Making \cup Resume!Shown \cup Resume!Ended, NEW preview \in Resume!Preview,
         jobs' = Resume!Moved(worker.job, phase, preview)
  PROVE  /\ jobs' \in [Resume!Job -> Resume!Record \cup {Resume!NoJob}]
           /\ jobs'[worker.job] # Resume!NoJob
         /\ jobs'[worker.job].phase = phase /\ jobs'[worker.job].preview = preview
         /\ \A k \in Resume!Job : k # worker.job => jobs'[k] = jobs[k]
<1>1. worker.pc # "idle" /\ worker.job \in Resume!Job /\ jobs[worker.job] # Resume!NoJob
  BY HeldResume DEF ResumeInv, ResumeHand, Executing, Drafting, Resume!Saving, Offering, Rendering
<1>2. jobs' = [jobs EXCEPT ![worker.job] = [phase |-> phase, preview |-> preview]]
  BY <1>1 DEF Resume!Moved
<1>3. jobs \in [Resume!Job -> Resume!Record \cup {Resume!NoJob}]
  BY DEF ResumeInv, Resume!TypeOK
<1>4. [phase |-> phase, preview |-> preview] \in Resume!Record
  BY DEF Resume!Record
<1>5. phase # "none"
  BY DEF Resume!Making, Resume!Shown, Resume!Ended
<1> QED BY <1>1, <1>2, <1>3, <1>4, <1>5 DEF Resume!NoJob

\* A job that is only moved, between two steps of its draft.
LEMMA DraftResume ==
  ASSUME Resume!ResumeJobsAssumption, ResumeInv,
      Resume!Stage \/ Resume!Reviewed \/ Resume!Applied \/ Resume!SkipExpert
  PROVE  ResumeInv'
<1> USE DEF ResumeInv
<1>1. PICK j \in Resume!Job : j = worker.job /\ worker.pc \in Drafting /\ worker.pc # "idle"
  BY HeldResume DEF Resume!Stage, Resume!Reviewed, Resume!Applied, Resume!SkipExpert, Resume!At,
      Drafting
<1>2. PICK pc \in Drafting \cup {"EXPORTING"} :
         /\ worker' = [worker EXCEPT !.pc = pc] /\ jobs' = Resume!Moved(j, pc, "pending")
         /\ pc \in {"EXPORTING"} => Resume!Applied \/ Resume!SkipExpert \/ Resume!Stage
         /\ Resume!Applied => pc = "EXPORTING"
  BY <1>1 DEF Resume!Stage, Resume!Reviewed, Resume!Applied, Resume!SkipExpert, Resume!Goto,
      Resume!Progress, Resume!AfterStage, Drafting
<1>3. /\ UNCHANGED <<asked, queue, runs, submitted, restarts>>
      /\ draft' \in [Resume!Job -> {"base", "reviewed"}]
      /\ candidate' \in [Resume!Job -> {"none", "PENDING_VALIDATION", "VALIDATED", "REJECTED"}]
      /\ \A k \in Resume!Job : k # j => draft'[k] = draft[k] /\ candidate'[k] = candidate[k]
      /\ draft'[j] = "reviewed" <=> candidate'[j] = "VALIDATED"
      /\ ~Resume!Applied => draft'[j] = "base" /\ candidate'[j] # "VALIDATED"
  BY <1>1 DEF Resume!Stage, Resume!Reviewed, Resume!Applied, Resume!SkipExpert, Resume!TypeOK,
      ResumeHand
<1>4. /\ jobs' \in [Resume!Job -> Resume!Record \cup {Resume!NoJob}] /\ jobs'[j] # Resume!NoJob
      /\ jobs'[j].phase = pc /\ jobs'[j].preview = "pending"
      /\ \A k \in Resume!Job : k # j => jobs'[k] = jobs[k]
  BY <1>1, <1>2, MovedJob DEF Drafting, Resume!Making, Resume!Preview, Executing
<1>5. /\ worker'.pc = pc /\ worker'.job = j /\ worker'.variant = 1 /\ worker'.whole = TRUE
      /\ worker' \in [pc: {"idle", "timings"} \cup Executing, job: Resume!Job \cup {0},
                      variant: Resume!Variant, made: BOOLEAN, whole: BOOLEAN]
  BY <1>1, <1>2 DEF ResumeHand, Executing, Resume!Saving
<1>6. /\ \A v \in Resume!Variant : runs[<<j, v>>] = Resume!NoRun
      /\ worker.variant <= asked[j].locales /\ worker.variant = 1 /\ j <= submitted
  BY <1>1 DEF ResumeHand, Executing
<1>7. Resume!TypeOK'
  BY <1>3, <1>4, <1>5 DEF Resume!TypeOK
<1>8. ResumeQueue' /\ ResumeFresh' /\ (JobSound(j)' => ResumeRuns')
  BY <1>1, <1>3, <1>4, <1>5, HeldKeepsResume
<1>9. JobSound(j)'
  <2>1. \A v \in Resume!Variant : RunSound(runs[<<j, v>>], draft'[j])
    BY <1>6 DEF RunSound, Resume!NoRun
  <2>2. jobs'[j].phase \notin Resume!Shown \cup {"COMPLETE"}
    BY <1>4 DEF Drafting, Resume!Shown
  <2>3. worker'.job = j /\ worker'.pc # "timings"
    BY <1>5 DEF Drafting
  <2> QED BY <1>3, <2>1, <2>2, <2>3 DEF JobSound
<1>10. ResumeHand'
  <2>1. CASE pc \in Drafting
    BY <1>2, <1>3, <1>4, <1>5, <1>6, <2>1
       DEF ResumeHand, Executing, Drafting, Resume!Saving, Offering, Rendering, PhaseAt
  <2>2. CASE pc = "EXPORTING"
    BY <1>2, <1>3, <1>4, <1>5, <1>6, <2>2, ResumeNumbers
       DEF ResumeHand, Executing, Drafting, Resume!Saving, Offering, Rendering, PhaseAt
  <2> QED BY <2>1, <2>2
<1>11. ResumePreviews'
  BY <1>3, <1>5, <1>6
     DEF ResumePreviews, NoPreview, Resume!NoRun, Drafting, Resume!Saving, Rendering
<1> QED BY <1>7, <1>8, <1>9, <1>10, <1>11

\* A step that writes one run of the job in hand.
LEMMA FiledRun ==
  ASSUME Resume!ResumeJobsAssumption, ResumeInv, worker.pc # "idle", NEW run \in Resume!Run,
         runs' = Resume!Files(run)
  PROVE  /\ runs' \in [Resume!Job \X Resume!Variant -> Resume!Run]
         /\ runs'[<<worker.job, worker.variant>>] = run
         /\ \A v \in Resume!Variant : v # worker.variant =>
               runs'[<<worker.job, v>>] = runs[<<worker.job, v>>]
         /\ \A k \in Resume!Job : k # worker.job =>
               \A v \in Resume!Variant : runs'[<<k, v>>] = runs[<<k, v>>]
<1>1. <<worker.job, worker.variant>> \in Resume!Job \X Resume!Variant
         /\ worker.variant \in Resume!Variant
      /\ worker.job \in Resume!Job
  BY HeldResume DEF ResumeInv, Resume!TypeOK
<1>2. runs \in [Resume!Job \X Resume!Variant -> Resume!Run]
      /\ runs' = [runs EXCEPT ![<<worker.job, worker.variant>>] = run]
  BY DEF ResumeInv, Resume!TypeOK, Resume!Files
<1> QED BY <1>1, <1>2

\* What Save writes of a run: more than was there, and never a ready preview.
LEMMA SavedRun ==
  ASSUME Resume!ResumeJobsAssumption, ResumeInv, worker.pc \in Resume!Saving
  PROVE  /\ Resume!Saved \in Resume!Run /\ RunSound(Resume!Saved, draft[worker.job])
           /\ NoPreview(Resume!Saved)
         /\ Resume!This.run # "none" => Resume!Saved.run # "none"
         /\ worker.pc = "EXPORTING" => Resume!Saved.docx # "none"
         /\ worker.pc = "receipts" => Resume!Saved.docx # "none" /\ Resume!Saved.receipts
         /\ worker.pc = "metadata" => Resume!Saved.docx # "none" /\ Resume!Saved.receipts
                  /\ Resume!Saved.ui # "none"
         /\ worker.pc = "run" => Resume!Saved.run # "none"
<1>1. Resume!This \in Resume!Run /\ worker.job \in Resume!Job /\ worker.pc # "idle"
  BY HeldResume DEF Resume!Saving
<1>2. RunSound(Resume!This, draft[worker.job]) /\ NoPreview(Resume!This)
  BY <1>1 DEF ResumeInv, ResumeRuns, JobSound, ResumePreviews, Resume!TypeOK, Resume!This
<1>3. /\ worker.pc \in {"receipts", "metadata", "run"} => Resume!This.docx # "none"
      /\ worker.pc \in {"metadata", "run"} => Resume!This.receipts
      /\ worker.pc = "run" => Resume!This.ui # "none"
  BY DEF ResumeInv, ResumeHand
<1>4. draft[worker.job] \in {"base", "reviewed"}
  BY <1>1 DEF ResumeInv, Resume!TypeOK
<1>5. CASE worker.pc = "EXPORTING"
  <2>1. Resume!Saved = [Resume!This EXCEPT !.docx = draft[worker.job]]
    BY <1>5 DEF Resume!Saved, Resume!At
  <2> QED BY <1>1, <1>2, <1>4, <1>5, <2>1 DEF Resume!Run, RunSound, NoPreview
<1>6. CASE worker.pc = "receipts"
  <2>1. Resume!Saved = [Resume!This EXCEPT !.receipts = TRUE]
    BY <1>6 DEF Resume!Saved, Resume!At
  <2> QED BY <1>1, <1>2, <1>3, <1>6, <2>1 DEF Resume!Run, RunSound, NoPreview
<1>7. CASE worker.pc = "metadata"
  <2>1. Resume!Saved = [Resume!This EXCEPT !.ui = "PENDING"]
    BY <1>7 DEF Resume!Saved, Resume!At
  <2> QED BY <1>1, <1>2, <1>3, <1>7, <2>1 DEF Resume!Run, RunSound, NoPreview
<1>8. CASE worker.pc = "run"
  <2>1. Resume!Saved = [Resume!This EXCEPT !.run = "PENDING"]
    BY <1>8 DEF Resume!Saved, Resume!At
  <2> QED BY <1>1, <1>2, <1>3, <1>8, <2>1 DEF Resume!Run, RunSound, NoPreview
<1> QED BY <1>5, <1>6, <1>7, <1>8 DEF Resume!Saving

\* The next variant, or the end of them.
LEMMA NextVariantIs ==
  ASSUME Resume!ResumeJobsAssumption, ResumeInv, worker.pc \in Executing,
         NEW pc \in Executing, NEW end \in Executing
  PROVE  LET w == Resume!NextVariant(pc, end) IN
         /\ w \in [pc: {"idle", "timings"} \cup Executing, job: Resume!Job \cup {0},
                   variant: Resume!Variant, made: BOOLEAN, whole: BOOLEAN]
         /\ w.job = worker.job /\ w.whole = worker.whole /\ w.made = worker.made
         /\ \/ /\ worker.variant = 1 /\ asked[worker.job].locales = 2
               /\ w.pc = pc /\ w.variant = 2
            \/ /\ worker.variant = asked[worker.job].locales
               /\ w.pc = end /\ w.variant = 1
<1>1. worker.pc # "idle" /\ worker.job \in Resume!Job
  BY HeldResume DEF Executing, Drafting, Resume!Saving, Offering, Rendering
<1>2. asked[worker.job].locales \in {1, 2} /\ worker.variant \in {1, 2}
      /\ worker.variant <= asked[worker.job].locales
  BY <1>1, ResumeNumbers DEF ResumeInv, Resume!TypeOK, ResumeHand
<1>3. worker \in [pc: {"idle", "timings"} \cup Executing, job: Resume!Job \cup {0},
                  variant: Resume!Variant, made: BOOLEAN, whole: BOOLEAN]
  BY DEF ResumeInv, ResumeHand
<1>4. CASE worker.variant < asked[worker.job].locales
  <2>0. worker.variant = 1 /\ asked[worker.job].locales = 2 /\ worker.variant + 1 = 2
    BY <1>2, <1>4
  <2>1. Resume!NextVariant(pc, end) = [worker EXCEPT !.pc = pc, !.variant = worker.variant + 1]
    BY <1>4 DEF Resume!NextVariant, Resume!Form
  <2> QED BY <1>3, <2>0, <2>1, ResumeNumbers
<1>5. CASE ~ (worker.variant < asked[worker.job].locales)
  <2>1. Resume!NextVariant(pc, end) = [worker EXCEPT !.pc = end, !.variant = 1]
        /\ worker.variant = asked[worker.job].locales
    BY <1>2, <1>5 DEF Resume!NextVariant, Resume!Form
  <2> QED BY <1>2, <1>3, <2>1, ResumeNumbers
<1> QED BY <1>4, <1>5

\* A step that writes a run of the job in hand and shows nothing new of the job.
LEMMA WriteResume ==
  ASSUME Resume!ResumeJobsAssumption, ResumeInv, worker.pc \in Executing,
         NEW j \in Resume!Job, j = worker.job, NEW n \in Resume!Variant, n = worker.variant,
         NEW run \in Resume!Run, RunSound(run, draft[j]), Resume!This.run # "none"
                  => run.run # "none",
         runs' = Resume!Files(run), UNCHANGED <<jobs, asked, queue, draft, candidate, submitted, restarts>>,
         worker' \in [pc: Executing, job: {j}, variant: Resume!Variant, made: BOOLEAN, whole: BOOLEAN]
  PROVE  /\ Resume!TypeOK' /\ ResumeQueue' /\ ResumeFresh' /\ ResumeRuns'
         /\ runs'[<<j, n>>] = run
         /\ \A v \in Resume!Variant : v # n => runs'[<<j, v>>] = runs[<<j, v>>]
         /\ \A v \in Resume!Variant : runs[<<j, v>>].run # "none" => runs'[<<j, v>>].run # "none"
<1>1. worker.pc # "idle" /\ Resume!This = runs[<<j, n>>]
  BY DEF Executing, Drafting, Resume!Saving, Offering, Rendering, Resume!This
<1>2. /\ runs' \in [Resume!Job \X Resume!Variant -> Resume!Run] /\ runs'[<<j, n>>] = run
      /\ \A v \in Resume!Variant : v # n => runs'[<<j, v>>] = runs[<<j, v>>]
      /\ \A k \in Resume!Job : k # j => \A v \in Resume!Variant : runs'[<<k, v>>] = runs[<<k, v>>]
  BY <1>1, FiledRun
<1>3. worker'.job = j /\ worker'.pc \in Executing
  OBVIOUS
<1>4. \A v \in Resume!Variant : runs[<<j, v>>].run # "none" => runs'[<<j, v>>].run # "none"
  BY <1>1, <1>2
<1>5. JobSound(j)
  BY DEF ResumeInv, ResumeRuns
<1>6. JobSound(j)'
  <2>1. worker'.pc # "timings"
    BY <1>3 DEF Executing, Drafting, Resume!Saving, Offering, Rendering
  <2>2. \A v \in Resume!Variant : RunSound(runs'[<<j, v>>], draft'[j])
    BY <1>2, <1>5 DEF JobSound
  <2>3. jobs'[j].phase \in Resume!Shown \cup {"COMPLETE"} =>
           \A v \in Resume!Variants(j)' : runs'[<<j, v>>].run # "none"
    <3>1. Resume!Variants(j)' = Resume!Variants(j) /\ Resume!Variants(j) \subseteq Resume!Variant
      BY DEF Resume!Variants, ResumeInv, Resume!TypeOK, Resume!Variant
    <3> QED BY <1>4, <1>5, <3>1 DEF JobSound
  <2>4. jobs'[j].phase # "COMPLETE"
    <3>1. jobs[j].phase = PhaseAt(worker.pc)
      BY DEF ResumeInv, ResumeHand
    <3> QED BY <3>1 DEF PhaseAt, Executing, Drafting, Resume!Saving, Offering, Rendering
  <2>5. draft'[j] = "reviewed" <=> candidate'[j] = "VALIDATED"
    BY <1>5 DEF JobSound
  <2> QED BY <1>3, <2>1, <2>2, <2>3, <2>4, <2>5 DEF JobSound
<1>7. Resume!TypeOK'
  BY <1>2 DEF ResumeInv, Resume!TypeOK
<1>8. ResumeQueue' /\ ResumeFresh' /\ (JobSound(j)' => ResumeRuns')
  BY <1>1, <1>2, <1>3, HeldKeepsResume
<1> QED BY <1>2, <1>4, <1>6, <1>7, <1>8

\* One file of a run is written; run.json comes last.
LEMMA SaveResume == ASSUME Resume!ResumeJobsAssumption, ResumeInv, Resume!Save PROVE ResumeInv'
<1> DEFINE Hands == [pc: {"idle", "timings"} \cup Executing, job: Resume!Job \cup {0},
                     variant: Resume!Variant, made: BOOLEAN, whole: BOOLEAN]
<1>1. PICK pc \in Resume!Saving : pc = worker.pc
  BY DEF Resume!Save
<1>2. pc \in Executing /\ pc # "idle"
  BY DEF Executing, Resume!Saving
<1>3. PICK j \in Resume!Job : j = worker.job
  BY <1>1, <1>2, HeldResume
<1>4. PICK n \in Resume!Variant : n = worker.variant
  BY DEF ResumeInv, Resume!TypeOK
<1>5. PICK run \in Resume!Run : run = Resume!Saved
  BY <1>1, SavedRun
<1>6. /\ RunSound(run, draft[j]) /\ NoPreview(run)
         /\ (Resume!This.run # "none" => run.run # "none")
      /\ pc = "EXPORTING" => run.docx # "none"
      /\ pc = "receipts" => run.docx # "none" /\ run.receipts
      /\ pc = "metadata" => run.docx # "none" /\ run.receipts /\ run.ui # "none"
      /\ pc = "run" => run.run # "none"
  BY <1>1, <1>3, <1>5, SavedRun
<1>7. /\ worker \in Hands /\ worker.whole = TRUE /\ n <= asked[j].locales
      /\ asked[j].locales \in Resume!Variant /\ j <= submitted
      /\ jobs[j] # Resume!NoJob /\ jobs[j].phase = "EXPORTING"
      /\ \A v \in Resume!Variant : v < n => runs[<<j, v>>].run # "none"
      /\ \A v \in Resume!Variant : NoPreview(runs[<<j, v>>])
  <2>1. /\ worker \in Hands /\ worker.whole = TRUE /\ n <= asked[j].locales
        /\ j <= submitted /\ jobs[j] # Resume!NoJob /\ jobs[j].phase = PhaseAt(pc)
        /\ \A v \in Resume!Variant : v < n => runs[<<j, v>>].run # "none"
    BY <1>1, <1>2, <1>3, <1>4 DEF ResumeInv, ResumeHand
  <2>2. PhaseAt(pc) = "EXPORTING"
    BY DEF PhaseAt, Resume!Saving, Drafting, Rendering
  <2>3. \A v \in Resume!Variant : NoPreview(runs[<<j, v>>])
    BY <1>1, <1>3 DEF ResumeInv, ResumePreviews
  <2>4. asked[j].locales \in Resume!Variant
    BY DEF ResumeInv, Resume!TypeOK
  <2> QED BY <2>1, <2>2, <2>3, <2>4
<1>8. /\ worker' \in [pc: Executing, job: {j}, variant: Resume!Variant, made: BOOLEAN, whole: BOOLEAN]
      /\ worker'.whole = TRUE /\ worker'.variant <= asked[j].locales
      /\ \/ worker'.variant = n /\ pc = "EXPORTING" /\ worker'.pc = "receipts"
         \/ worker'.variant = n /\ pc = "receipts" /\ worker'.pc = "metadata"
         \/ worker'.variant = n /\ pc = "metadata" /\ worker'.pc = "run"
         \/ pc = "run" /\ n = 1 /\ worker'.variant = 2 /\ worker'.pc = "EXPORTING"
         \/ pc = "run" /\ n = asked[j].locales /\ worker'.variant = 1 /\ worker'.pc = "ready"
  <2>1. CASE pc = "EXPORTING"
    <3>1. worker' = [worker EXCEPT !.pc = "receipts"]
      BY <1>1, <2>1 DEF Resume!Save, Resume!At
    <3> QED BY <1>3, <1>4, <1>7, <2>1, <3>1 DEF Executing, Resume!Saving
  <2>2. CASE pc = "receipts"
    <3>1. worker' = [worker EXCEPT !.pc = "metadata"]
      BY <1>1, <2>2 DEF Resume!Save, Resume!At
    <3> QED BY <1>3, <1>4, <1>7, <2>2, <3>1 DEF Executing, Resume!Saving
  <2>3. CASE pc = "metadata"
    <3>1. worker' = [worker EXCEPT !.pc = "run"]
      BY <1>1, <2>3 DEF Resume!Save, Resume!At
    <3> QED BY <1>3, <1>4, <1>7, <2>3, <3>1 DEF Executing, Resume!Saving
  <2>4. CASE pc = "run"
    <3>1. worker' = Resume!NextVariant("EXPORTING", "ready")
      BY <1>1, <2>4 DEF Resume!Save, Resume!At
    <3>2. "EXPORTING" \in Executing /\ "ready" \in Executing
      BY DEF Executing, Resume!Saving
    <3>3. /\ worker' \in Hands /\ worker'.job = j /\ worker'.whole = worker.whole
          /\ worker'.made = worker.made
          /\ \/ /\ n = 1 /\ asked[j].locales = 2
                /\ worker'.pc = "EXPORTING" /\ worker'.variant = 2
             \/ /\ n = asked[j].locales /\ worker'.pc = "ready" /\ worker'.variant = 1
      BY <1>1, <1>2, <1>3, <1>4, <3>1, <3>2, NextVariantIs
    <3> QED BY <1>7, <2>4, <3>2, <3>3 DEF Resume!Variant
  <2> QED BY <2>1, <2>2, <2>3, <2>4 DEF Resume!Saving
<1>9. /\ runs' = Resume!Files(run)
         /\ UNCHANGED <<jobs, asked, queue, draft, candidate, submitted, restarts>>
  BY <1>5 DEF Resume!Save
<1>10. /\ Resume!TypeOK' /\ ResumeQueue' /\ ResumeFresh' /\ ResumeRuns'
       /\ runs'[<<j, n>>] = run
       /\ \A v \in Resume!Variant : v # n => runs'[<<j, v>>] = runs[<<j, v>>]
       /\ \A v \in Resume!Variant : runs[<<j, v>>].run # "none" => runs'[<<j, v>>].run # "none"
  <2>1. worker.pc \in Executing
    BY <1>1, <1>2
  <2> QED BY <1>3, <1>4, <1>6, <1>8, <1>9, <2>1, WriteResume
<1>11. /\ worker' \in Hands /\ worker'.pc \in Resume!Saving \cup {"ready"} /\ worker'.job = j
       /\ PhaseAt(worker'.pc) = "EXPORTING"
  <2>1. worker' \in Hands /\ worker'.job = j
    BY <1>8
  <2>2. worker'.pc \in Resume!Saving \cup {"ready"}
    BY <1>8 DEF Resume!Saving
  <2>3. PhaseAt(worker'.pc) = "EXPORTING"
    BY <2>2 DEF PhaseAt, Resume!Saving, Drafting, Rendering
  <2> QED BY <2>1, <2>2, <2>3
<1>12. ResumeHand'
  <2>1. worker'.pc \in Resume!Saving =>
          \A v \in Resume!Variant : v < worker'.variant => runs'[<<j, v>>].run # "none"
    BY <1>6, <1>7, <1>8, <1>10 DEF Resume!Variant
  <2>2. /\ worker'.pc \in {"receipts", "metadata", "run"}
           => runs'[<<j, worker'.variant>>].docx # "none"
        /\ worker'.pc \in {"metadata", "run"} => runs'[<<j, worker'.variant>>].receipts
        /\ worker'.pc = "run" => runs'[<<j, worker'.variant>>].ui # "none"
    BY <1>6, <1>8, <1>10
  <2>3. worker'.pc = "ready" => worker'.variant = 1
          /\ \A v \in 1..asked'[j].locales : runs'[<<j, v>>].run # "none"
    BY <1>6, <1>7, <1>8, <1>9, <1>10 DEF Resume!Variant, Resume!Saving
  <2> QED
    BY <1>7, <1>8, <1>9, <1>11, <2>1, <2>2, <2>3, ResumeNumbers
       DEF ResumeHand, Resume!This, Resume!Variants, Executing, Resume!Saving, Drafting,
       Offering, Rendering
<1>13. ResumePreviews'
  <2>1. \A v \in Resume!Variant : NoPreview(runs'[<<j, v>>])
    <3>1. TAKE v \in Resume!Variant
    <3>2. CASE v = n
      BY <1>6, <1>10, <3>2
    <3>3. CASE v # n
      <4>1. runs'[<<j, v>>] = runs[<<j, v>>]
        BY <1>10, <3>3
      <4>2. NoPreview(runs[<<j, v>>])
        BY <1>7
      <4> QED BY <4>1, <4>2
    <3> QED BY <3>2, <3>3
  <2> QED BY <1>11, <2>1 DEF ResumePreviews, Resume!Saving, Rendering
<1> QED BY <1>10, <1>12, <1>13 DEF ResumeInv

\* The executor gives up on a job: whatever it wrote stays, and the job failed.
LEMMA FailResume == ASSUME Resume!ResumeJobsAssumption, ResumeInv, Resume!Fail PROVE ResumeInv'
<1>1. PICK pc \in Executing : pc = worker.pc /\ pc # "idle"
  BY DEF Resume!Fail, ResumeInv, ResumeHand, Executing, Resume!Saving, Resume!Making, Drafting
<1>2. PICK j \in Resume!Job : j = worker.job
  BY <1>1, HeldResume
<1>3. PICK n \in Resume!Variant : n = worker.variant
  BY DEF ResumeInv, Resume!TypeOK
<1>4. Resume!This \in Resume!Run /\ Resume!This = runs[<<j, n>>]
         /\ RunSound(Resume!This, draft[j])
  BY <1>2, <1>3 DEF Resume!This, ResumeInv, ResumeRuns, JobSound, Resume!TypeOK
<1>5. PICK run \in Resume!Run : runs' = Resume!Files(run) /\ RunSound(run, draft[j])
  <2>1. CASE runs' = runs
    <3>1. runs' = Resume!Files(Resume!This)
      BY <2>1 DEF Resume!Files, Resume!This, ResumeInv, Resume!TypeOK
    <3> QED BY <1>4, <3>1
  <2>2. CASE worker.pc \in Resume!Saving /\ runs' = Resume!Files(Resume!Saved)
    BY <1>2, <2>2, SavedRun
  <2> QED BY <2>1, <2>2 DEF Resume!Fail
<1>6. /\ runs' \in [Resume!Job \X Resume!Variant -> Resume!Run] /\ runs'[<<j, n>>] = run
      /\ \A v \in Resume!Variant : v # n => runs'[<<j, v>>] = runs[<<j, v>>]
      /\ \A k \in Resume!Job : k # j => \A v \in Resume!Variant : runs'[<<k, v>>] = runs[<<k, v>>]
  BY <1>1, <1>2, <1>3, <1>5, FiledRun
<1>7. /\ jobs' \in [Resume!Job -> Resume!Record \cup {Resume!NoJob}] /\ jobs'[j].phase = "FAILED"
      /\ \A k \in Resume!Job : k # j => jobs'[k] = jobs[k]
  <2>1. jobs[j] # Resume!NoJob /\ jobs \in [Resume!Job -> Resume!Record \cup {Resume!NoJob}]
    BY <1>1, <1>2 DEF ResumeInv, Resume!TypeOK, ResumeHand
  <2>2. jobs' = [jobs EXCEPT ![j].phase = "FAILED"] /\ jobs[j] \in Resume!Record
    BY <1>2, <2>1 DEF Resume!Fail
  <2> QED BY <2>1, <2>2 DEF Resume!Record, Resume!Ended
<1>8. /\ worker'.pc = "idle" /\ worker'.job = 0 /\ worker' = Resume!Resting
      /\ UNCHANGED <<asked, queue, draft, candidate, submitted, restarts>>
  BY DEF Resume!Fail, Resume!Resting
<1>9. Resume!TypeOK'
  BY <1>6, <1>7, <1>8 DEF ResumeInv, Resume!TypeOK, Resume!Resting, Resume!Variant
<1>10. JobSound(j)'
  <2>1. JobSound(j)
    BY DEF ResumeInv, ResumeRuns
  <2>2. \A v \in Resume!Variant : RunSound(runs'[<<j, v>>], draft'[j])
    BY <1>5, <1>6, <1>8, <2>1 DEF JobSound
  <2>3. jobs'[j].phase \notin Resume!Making \cup Resume!Shown \cup {"COMPLETE"}
    BY <1>7 DEF Resume!Making, Resume!Shown
  <2>4. draft'[j] = "reviewed" <=> candidate'[j] = "VALIDATED"
    BY <1>8, <2>1 DEF JobSound
  <2> QED BY <2>2, <2>3, <2>4 DEF JobSound
<1>11. ResumeQueue' /\ ResumeFresh' /\ (JobSound(j)' => ResumeRuns')
  BY <1>1, <1>2, <1>6, <1>7, <1>8, HeldKeepsResume
<1>12. ResumeHand' /\ ResumePreviews'
  BY <1>8 DEF ResumeHand, ResumePreviews, Resume!Resting, Resume!Variant, Executing, Drafting,
      Resume!Saving,
     Offering, Rendering
<1> QED BY <1>9, <1>10, <1>11, <1>12 DEF ResumeInv

\* The phases of a job that is offered, and its end.
LEMMA OfferResume ==
  ASSUME Resume!ResumeJobsAssumption, ResumeInv,
      Resume!DocxReady \/ Resume!Previewing \/ Resume!Complete
  PROVE  ResumeInv'
<1>1. PICK pc \in {"ready", "previewing", "complete"} :
         /\ pc = worker.pc
         /\ pc = "ready" => Resume!DocxReady
         /\ pc = "previewing" => Resume!Previewing
         /\ pc = "complete" => Resume!Complete
  BY DEF Resume!DocxReady, Resume!Previewing, Resume!Complete, Resume!At
<1>2. pc \in Executing /\ pc # "idle"
  BY DEF Executing, Offering
<1>3. PICK j \in Resume!Job : j = worker.job
  BY <1>1, <1>2, HeldResume
<1>4. PICK phase \in Resume!Making \cup Resume!Shown \cup Resume!Ended,
    preview \in Resume!Preview, next \in Offering \cup {"timings"} :
         /\ jobs' = Resume!Moved(j, phase, preview) /\ worker' = [worker EXCEPT !.pc = next]
         /\ UNCHANGED <<asked, queue, draft, candidate, runs, submitted, restarts>>
         /\ \/ pc = "ready" /\ phase = "DOCX_READY" /\ next = "previewing"
            \/ pc = "previewing" /\ phase = "PREVIEWING" /\ next = "pdf"
            \/ /\ pc = "complete" /\ phase = "COMPLETE" /\ next = "timings"
               /\ preview = "ready" => worker.whole
  BY <1>1, <1>3 DEF Resume!DocxReady, Resume!Previewing, Resume!Complete, Resume!Goto,
      Resume!Making, Resume!Shown, Resume!Ended, Resume!Preview, Offering,
     Rendering
<1>5. /\ jobs' \in [Resume!Job -> Resume!Record \cup {Resume!NoJob}] /\ jobs'[j] # Resume!NoJob
      /\ jobs'[j].phase = phase /\ jobs'[j].preview = preview
      /\ \A k \in Resume!Job : k # j => jobs'[k] = jobs[k]
  <2>1. worker.pc \in Executing
    BY <1>1, <1>2
  <2> QED BY <1>3, <1>4, <2>1, MovedJob
<1>6. /\ worker \in [pc: {"idle", "timings"} \cup Executing, job: Resume!Job \cup {0},
                     variant: Resume!Variant, made: BOOLEAN, whole: BOOLEAN]
      /\ worker.variant <= asked[j].locales /\ j <= submitted
      /\ \A v \in Resume!Variants(j) : runs[<<j, v>>].run # "none"
      /\ pc \in {"ready", "previewing"} =>
            /\ worker.variant = 1 /\ worker.whole = TRUE
            /\ \A v \in Resume!Variant : NoPreview(runs[<<j, v>>])
      /\ pc = "complete"
               /\ worker.whole => \A v \in Resume!Variants(j) : FullPreview(runs[<<j, v>>])
  BY <1>1, <1>2, <1>3 DEF ResumeInv, ResumeHand, ResumePreviews, Offering
<1>7. /\ worker' \in [pc: {"idle", "timings"} \cup Executing, job: Resume!Job \cup {0},
                      variant: Resume!Variant, made: BOOLEAN, whole: BOOLEAN]
      /\ worker'.pc = next /\ worker'.job = j /\ worker'.variant = worker.variant
      /\ worker'.whole = worker.whole /\ worker'.made = worker.made
  BY <1>3, <1>4, <1>6 DEF Executing
<1>8. Resume!TypeOK'
  BY <1>4, <1>5, <1>7 DEF ResumeInv, Resume!TypeOK
<1>9. JobSound(j)'
  <2>1. JobSound(j)
    BY DEF ResumeInv, ResumeRuns
  <2>2. jobs'[j].phase \in Resume!Making \cup Resume!Shown => worker'.job = j
           /\ worker'.pc # "timings"
    BY <1>4, <1>5, <1>7 DEF Resume!Making, Resume!Shown
  <2>3. Resume!Variants(j)' = Resume!Variants(j)
    BY <1>4 DEF Resume!Variants
  <2>4. \A v \in Resume!Variants(j)' : runs'[<<j, v>>].run # "none"
    BY <1>4, <1>6, <2>3
  <2>5. jobs'[j].phase = "COMPLETE" /\ jobs'[j].preview = "ready" =>
          \A v \in Resume!Variants(j)' : FullPreview(runs'[<<j, v>>])
    BY <1>4, <1>5, <1>6, <2>3
  <2>6. /\ draft'[j] = "reviewed" <=> candidate'[j] = "VALIDATED"
        /\ \A v \in Resume!Variant : RunSound(runs'[<<j, v>>], draft'[j])
    BY <1>4, <2>1 DEF JobSound
  <2> QED BY <2>2, <2>4, <2>5, <2>6 DEF JobSound
<1>10. ResumeQueue' /\ ResumeFresh' /\ (JobSound(j)' => ResumeRuns')
  <2>1. worker'.job \in {worker.job, 0} /\ worker.pc # "idle"
    BY <1>1, <1>2, <1>3, <1>7
  <2> QED BY <1>3, <1>4, <1>5, <2>1, HeldKeepsResume
<1>11. ResumeHand'
  <2>1. CASE next \in Offering
    <3>1. jobs'[j].phase = PhaseAt(next) /\ next \in {"previewing", "pdf"}
      BY <1>4, <1>5, <2>1 DEF PhaseAt, Offering, Rendering, Drafting, Resume!Saving
    <3> QED
      BY <1>4, <1>5, <1>6, <1>7, <2>1, <3>1, ResumeNumbers
         DEF ResumeHand, Resume!Variants, Executing, Offering, Rendering, Drafting, Resume!Saving
  <2>2. CASE next = "timings"
    BY <1>4, <1>5, <1>6, <1>7, <2>2, ResumeNumbers
       DEF ResumeHand, Executing, Offering, Rendering, Drafting, Resume!Saving
  <2> QED BY <1>4, <2>1, <2>2
<1>12. ResumePreviews'
  <2>1. CASE next = "previewing"
    BY <1>4, <1>6, <1>7, <2>1 DEF ResumePreviews, Resume!Saving, Rendering
  <2>2. CASE next = "pdf"
    BY <1>4, <1>6, <1>7, <2>2, ResumeNumbers DEF ResumePreviews, Resume!Saving, Rendering,
        Resume!This, Resume!Variant
  <2>3. CASE next = "timings"
    BY <1>7, <2>3 DEF ResumePreviews, Resume!Saving, Rendering
  <2> QED BY <1>4, <2>1, <2>2, <2>3
<1> QED BY <1>8, <1>9, <1>10, <1>11, <1>12 DEF ResumeInv

\* What the executor knows of its job while it makes the previews.
LEMMA AtPreviews ==
  ASSUME Resume!ResumeJobsAssumption, ResumeInv, worker.pc \in Rendering
  PROVE  /\ worker.pc \in Executing /\ worker.pc # "idle"
         /\ worker.job \in Resume!Job /\ worker.job <= submitted
         /\ worker \in [pc: {"idle", "timings"} \cup Executing, job: Resume!Job \cup {0},
                        variant: Resume!Variant, made: BOOLEAN, whole: BOOLEAN]
         /\ jobs[worker.job] # Resume!NoJob /\ jobs[worker.job].phase = "PREVIEWING"
         /\ asked[worker.job].locales \in Resume!Variant
                  /\ worker.variant <= asked[worker.job].locales
         /\ \A v \in Resume!Variants(worker.job) : runs[<<worker.job, v>>].run # "none"
         /\ \A v \in Resume!Variant : v > worker.variant => NoPreview(runs[<<worker.job, v>>])
         /\ worker.whole => \A v \in Resume!Variant :
               v < worker.variant => FullPreview(runs[<<worker.job, v>>])
         /\ Resume!This \in Resume!Run /\ Resume!This.run # "none"
                  /\ RunSound(Resume!This, draft[worker.job])
<1>1. /\ worker.pc \in Executing /\ worker.pc # "idle" /\ PhaseAt(worker.pc) = "PREVIEWING"
      /\ worker.pc \in Offering
  BY DEF Executing, Offering, Rendering, PhaseAt, Drafting, Resume!Saving
<1>2. worker.job \in Resume!Job /\ worker.job <= submitted /\ Resume!This \in Resume!Run
  BY <1>1, HeldResume
<1>3. /\ jobs[worker.job] # Resume!NoJob /\ jobs[worker.job].phase = "PREVIEWING"
      /\ worker \in [pc: {"idle", "timings"} \cup Executing, job: Resume!Job \cup {0},
                     variant: Resume!Variant, made: BOOLEAN, whole: BOOLEAN]
      /\ worker.variant <= asked[worker.job].locales
      /\ \A v \in Resume!Variants(worker.job) : runs[<<worker.job, v>>].run # "none"
  BY <1>1 DEF ResumeInv, ResumeHand
<1>4. asked[worker.job].locales \in Resume!Variant /\ worker.variant \in Resume!Variant
  BY <1>2 DEF ResumeInv, Resume!TypeOK
<1>5. /\ \A v \in Resume!Variant : v > worker.variant => NoPreview(runs[<<worker.job, v>>])
      /\ worker.whole => \A v \in Resume!Variant :
            v < worker.variant => FullPreview(runs[<<worker.job, v>>])
  BY DEF ResumeInv, ResumePreviews
<1>6. Resume!This.run # "none"
  BY <1>3, <1>4 DEF Resume!This, Resume!Variants, Resume!Variant
<1>7. RunSound(Resume!This, draft[worker.job])
  BY <1>2, <1>4 DEF Resume!This, ResumeInv, ResumeRuns, JobSound
<1> QED BY <1>1, <1>2, <1>3, <1>4, <1>5, <1>6, <1>7

\* A step that writes a run for a preview, what it means for the step that follows
\* left to be shown.
LEMMA PreviewKeeps ==
  ASSUME Resume!ResumeJobsAssumption, ResumeInv, worker.pc \in Rendering,
         NEW j \in Resume!Job, j = worker.job, NEW n \in Resume!Variant, n = worker.variant,
         NEW run \in Resume!Run, RunSound(run, draft[j]), run.run # "none",
         Resume!PreviewStep(run, worker'),
         worker' \in [pc: Rendering \cup {"complete"}, job: {j}, variant: Resume!Variant,
                      made: BOOLEAN, whole: BOOLEAN],
         worker'.variant <= asked[j].locales
  PROVE  /\ Resume!TypeOK' /\ ResumeQueue' /\ ResumeFresh' /\ ResumeRuns' /\ ResumeHand'
         /\ runs'[<<j, n>>] = run /\ UNCHANGED asked
         /\ \A v \in Resume!Variant : v # n => runs'[<<j, v>>] = runs[<<j, v>>]
<1>1. /\ worker.pc \in Executing /\ j <= submitted
      /\ jobs[j] # Resume!NoJob /\ jobs[j].phase = "PREVIEWING"
      /\ asked[j].locales \in Resume!Variant
      /\ \A v \in Resume!Variants(j) : runs[<<j, v>>].run # "none"
  BY AtPreviews
<1>2. /\ runs' = Resume!Files(run)
      /\ UNCHANGED <<jobs, asked, queue, draft, candidate, submitted, restarts>>
  BY DEF Resume!PreviewStep
<1>3. worker' \in [pc: Executing, job: {j}, variant: Resume!Variant, made: BOOLEAN, whole: BOOLEAN]
  BY DEF Executing, Offering
<1>4. /\ Resume!TypeOK' /\ ResumeQueue' /\ ResumeFresh' /\ ResumeRuns'
      /\ runs'[<<j, n>>] = run
      /\ \A v \in Resume!Variant : v # n => runs'[<<j, v>>] = runs[<<j, v>>]
      /\ \A v \in Resume!Variant : runs[<<j, v>>].run # "none" => runs'[<<j, v>>].run # "none"
  BY <1>1, <1>2, <1>3, WriteResume
<1>5. ResumeHand'
  <2>1. /\ worker'.pc \in Rendering \cup {"complete"} /\ worker'.job = j
        /\ PhaseAt(worker'.pc) = "PREVIEWING"
    BY DEF PhaseAt, Rendering, Drafting, Resume!Saving
  <2>2. \A v \in 1..asked'[j].locales : runs'[<<j, v>>].run # "none"
    <3>1. 1..asked[j].locales \subseteq Resume!Variant
      BY <1>1 DEF Resume!Variant
    <3> QED BY <1>1, <1>2, <1>4, <3>1 DEF Resume!Variants
  <2>3. worker' \in [pc: {"idle", "timings"} \cup Executing, job: Resume!Job \cup {0},
                     variant: Resume!Variant, made: BOOLEAN, whole: BOOLEAN]
    BY <1>3
  <2> QED
    BY <1>1, <1>2, <2>1, <2>2, <2>3, ResumeNumbers
       DEF ResumeHand, Resume!Variants, Executing, Resume!Saving, Drafting, Offering, Rendering
<1> QED BY <1>2, <1>4, <1>5

\* The PDF of a variant is made, or not.
LEMMA RenderResume ==
  ASSUME Resume!ResumeJobsAssumption, ResumeInv, NEW made \in BOOLEAN, NEW left \in BOOLEAN,
         Resume!RenderPdf(made, left)
  PROVE  ResumeInv'
<1>1. worker.pc = "pdf" /\ worker.pc \in Rendering /\ (made => left)
  BY DEF Resume!RenderPdf, Resume!At, Rendering
<1>2. PICK j \in Resume!Job : j = worker.job
  BY <1>1, AtPreviews
<1>3. PICK n \in Resume!Variant : n = worker.variant
  BY DEF ResumeInv, Resume!TypeOK
<1>4. PICK run : run = [Resume!This EXCEPT !.pdf = left]
  OBVIOUS
<1>5. /\ Resume!This \in Resume!Run /\ Resume!This.run # "none"
         /\ RunSound(Resume!This, draft[j]) /\ NoPreview(Resume!This)
  BY <1>1, <1>2, AtPreviews DEF ResumeInv, ResumePreviews
<1>6. run \in Resume!Run /\ run.run # "none" /\ RunSound(run, draft[j]) /\ run.pdf = left
  BY <1>4, <1>5 DEF Resume!Run, RunSound, NoPreview
<1>7. NoPreview(run)
  BY <1>4, <1>5 DEF Resume!Run, NoPreview
<1>8. Resume!PreviewStep(run, worker')
  BY <1>4 DEF Resume!RenderPdf, Resume!PreviewStep
<1>9. /\ worker \in [pc: {"idle", "timings"} \cup Executing, job: Resume!Job \cup {0},
                     variant: Resume!Variant, made: BOOLEAN, whole: BOOLEAN]
      /\ n <= asked[j].locales
  BY <1>1, <1>2, <1>3, AtPreviews
<1>10. /\ worker'.pc = "pdf_metadata" /\ worker'.job = j /\ worker'.variant = n
       /\ worker'.made = made /\ worker'.whole = (worker.whole /\ made)
       /\ worker' \in [pc: Rendering \cup {"complete"}, job: {j}, variant: Resume!Variant,
                       made: BOOLEAN, whole: BOOLEAN]
  BY <1>2, <1>3, <1>9 DEF Resume!RenderPdf, Resume!PreviewStep, Rendering
<1>11. /\ Resume!TypeOK' /\ ResumeQueue' /\ ResumeFresh' /\ ResumeRuns' /\ ResumeHand'
       /\ runs'[<<j, n>>] = run
       /\ \A v \in Resume!Variant : v # n => runs'[<<j, v>>] = runs[<<j, v>>]
  <2>1. worker'.variant <= asked[j].locales
    BY <1>9, <1>10
  <2> QED BY <1>1, <1>2, <1>3, <1>6, <1>8, <1>10, <2>1, PreviewKeeps
<1>12. ResumePreviews'
  <2>1. /\ \A v \in Resume!Variant : v > n => NoPreview(runs[<<j, v>>])
        /\ worker.whole => \A v \in Resume!Variant : v < n => FullPreview(runs[<<j, v>>])
    BY <1>1, <1>2, <1>3, AtPreviews
  <2>2. \A v \in Resume!Variant : v > n => NoPreview(runs'[<<j, v>>])
    BY <1>11, <2>1 DEF Resume!Variant
  <2>3. worker'.whole => \A v \in Resume!Variant : v < n => FullPreview(runs'[<<j, v>>])
    BY <1>10, <1>11, <2>1 DEF Resume!Variant
  <2>4. worker'.made => runs'[<<j, n>>].pdf
    BY <1>1, <1>6, <1>10, <1>11
  <2> QED BY <1>7, <1>10, <1>11, <2>2, <2>3, <2>4 DEF ResumePreviews, Resume!This, Resume!Saving,
      Rendering
<1> QED BY <1>11, <1>12 DEF ResumeInv

\* The metadata say what came of the PDF.
LEMMA PdfMetadataResume ==
  ASSUME Resume!ResumeJobsAssumption, ResumeInv, Resume!WritePdfMetadata PROVE ResumeInv'
<1>1. worker.pc = "pdf_metadata" /\ worker.pc \in Rendering
  BY DEF Resume!WritePdfMetadata, Resume!At, Rendering
<1>2. PICK j \in Resume!Job : j = worker.job
  BY <1>1, AtPreviews
<1>3. PICK n \in Resume!Variant : n = worker.variant
  BY DEF ResumeInv, Resume!TypeOK
<1>4. PICK status : status = Resume!Status
  OBVIOUS
<1>5. PICK run : run = [Resume!This EXCEPT !.ui = status]
  OBVIOUS
<1>6. /\ Resume!This \in Resume!Run /\ Resume!This.run # "none" /\ RunSound(Resume!This, draft[j])
      /\ NoPreview(Resume!This) /\ (worker.made => Resume!This.pdf)
               /\ (worker.whole => worker.made)
  BY <1>1, <1>2, AtPreviews DEF ResumeInv, ResumePreviews
<1>7. status \in {"PDF_READY", "NEEDS_ATTENTION"} /\ (status = "PDF_READY" => worker.made)
  BY <1>4 DEF Resume!Status
<1>8. /\ run \in Resume!Run /\ run.run # "none" /\ RunSound(run, draft[j])
      /\ run.ui = status /\ run.run # "PDF_READY" /\ (worker.made => run.pdf)
  BY <1>5, <1>6, <1>7 DEF Resume!Run, RunSound, NoPreview
<1>9. Resume!PreviewStep(run, worker')
  BY <1>4, <1>5 DEF Resume!WritePdfMetadata, Resume!PreviewStep
<1>10. /\ worker \in [pc: {"idle", "timings"} \cup Executing, job: Resume!Job \cup {0},
                      variant: Resume!Variant, made: BOOLEAN, whole: BOOLEAN]
       /\ n <= asked[j].locales
  BY <1>1, <1>2, <1>3, AtPreviews
<1>11. /\ worker'.pc = "pdf_run" /\ worker'.job = j /\ worker'.variant = n
       /\ worker'.made = worker.made /\ worker'.whole = worker.whole
       /\ worker' \in [pc: Rendering \cup {"complete"}, job: {j}, variant: Resume!Variant,
                       made: BOOLEAN, whole: BOOLEAN]
  BY <1>2, <1>3, <1>10 DEF Resume!WritePdfMetadata, Resume!PreviewStep, Rendering
<1>12. /\ Resume!TypeOK' /\ ResumeQueue' /\ ResumeFresh' /\ ResumeRuns' /\ ResumeHand'
       /\ runs'[<<j, n>>] = run
       /\ \A v \in Resume!Variant : v # n => runs'[<<j, v>>] = runs[<<j, v>>]
  <2>1. worker'.variant <= asked[j].locales
    BY <1>10, <1>11
  <2> QED BY <1>1, <1>2, <1>3, <1>8, <1>9, <1>11, <2>1, PreviewKeeps
<1>13. ResumePreviews'
  <2>1. /\ \A v \in Resume!Variant : v > n => NoPreview(runs[<<j, v>>])
        /\ worker.whole => \A v \in Resume!Variant : v < n => FullPreview(runs[<<j, v>>])
    BY <1>1, <1>2, <1>3, AtPreviews
  <2>2. \A v \in Resume!Variant : v > n => NoPreview(runs'[<<j, v>>])
    BY <1>12, <2>1 DEF Resume!Variant
  <2>3. worker'.whole => \A v \in Resume!Variant : v < n => FullPreview(runs'[<<j, v>>])
    BY <1>11, <1>12, <2>1 DEF Resume!Variant
  <2>4. runs'[<<j, n>>].ui = Resume!Status'
    BY <1>4, <1>8, <1>11, <1>12 DEF Resume!Status
  <2> QED BY <1>6, <1>8, <1>11, <1>12, <2>2, <2>3, <2>4 DEF ResumePreviews, Resume!This,
      Resume!Saving, Rendering
<1> QED BY <1>12, <1>13 DEF ResumeInv

\* Then run.json does, and the next variant follows.
LEMMA PdfRunResume ==
  ASSUME Resume!ResumeJobsAssumption, ResumeInv, Resume!WritePdfRun PROVE ResumeInv'
<1>1. worker.pc = "pdf_run" /\ worker.pc \in Rendering /\ worker.pc \in Executing
  BY DEF Resume!WritePdfRun, Resume!At, Rendering, Executing, Offering
<1>2. PICK j \in Resume!Job : j = worker.job
  BY <1>1, AtPreviews
<1>3. PICK n \in Resume!Variant : n = worker.variant
  BY DEF ResumeInv, Resume!TypeOK
<1>4. PICK status : status = Resume!Status
  OBVIOUS
<1>5. PICK run : run = [Resume!This EXCEPT !.run = status]
  OBVIOUS
<1>6. /\ Resume!This \in Resume!Run /\ Resume!This.run # "none"
         /\ RunSound(Resume!This, draft[j]) /\ Resume!This.ui = status
      /\ (worker.made => Resume!This.pdf) /\ (worker.whole => worker.made)
  BY <1>1, <1>2, <1>4, AtPreviews DEF ResumeInv, ResumePreviews
<1>7. /\ status \in {"PDF_READY", "NEEDS_ATTENTION"} /\ (status = "PDF_READY" => worker.made)
      /\ worker.made => status = "PDF_READY"
  BY <1>4 DEF Resume!Status
<1>8. /\ run \in Resume!Run /\ run.run # "none" /\ RunSound(run, draft[j])
      /\ (worker.whole => FullPreview(run))
  BY <1>5, <1>6, <1>7 DEF Resume!Run, RunSound, FullPreview
<1>9. Resume!PreviewStep(run, worker')
  BY <1>4, <1>5 DEF Resume!WritePdfRun, Resume!PreviewStep
<1>10. asked[j].locales \in Resume!Variant
  BY <1>1, <1>2, AtPreviews
<1>11. /\ worker' \in [pc: Rendering \cup {"complete"}, job: {j}, variant: Resume!Variant,
                       made: BOOLEAN, whole: BOOLEAN]
       /\ worker'.whole = worker.whole /\ worker'.variant <= asked[j].locales
       /\ \/ n = 1 /\ worker'.pc = "pdf" /\ worker'.variant = 2
          \/ n = asked[j].locales /\ worker'.pc = "complete" /\ worker'.variant = 1
  <2>1. "pdf" \in Executing /\ "complete" \in Executing
    BY DEF Executing, Offering, Rendering
  <2>2. worker' = Resume!NextVariant("pdf", "complete")
    BY DEF Resume!WritePdfRun, Resume!PreviewStep
  <2>3. /\ worker' \in [pc: {"idle", "timings"} \cup Executing, job: Resume!Job \cup {0},
                       variant: Resume!Variant, made: BOOLEAN, whole: BOOLEAN]
        /\ worker'.job = j /\ worker'.whole = worker.whole
        /\ \/ /\ n = 1 /\ asked[j].locales = 2
              /\ worker'.pc = "pdf" /\ worker'.variant = 2
           \/ /\ n = asked[j].locales
              /\ worker'.pc = "complete" /\ worker'.variant = 1
    BY <1>1, <1>2, <1>3, <2>1, <2>2, NextVariantIs
  <2> QED BY <1>10, <2>3 DEF Rendering, Resume!Variant
<1>12. /\ Resume!TypeOK' /\ ResumeQueue' /\ ResumeFresh' /\ ResumeRuns' /\ ResumeHand'
       /\ runs'[<<j, n>>] = run /\ UNCHANGED asked
       /\ \A v \in Resume!Variant : v # n => runs'[<<j, v>>] = runs[<<j, v>>]
  BY <1>1, <1>2, <1>3, <1>8, <1>9, <1>11, PreviewKeeps
<1>13. /\ \A v \in Resume!Variant : v > n => NoPreview(runs[<<j, v>>])
       /\ worker.whole => \A v \in Resume!Variant : v < n => FullPreview(runs[<<j, v>>])
  BY <1>1, <1>2, <1>3, AtPreviews
<1>14. CASE n = 1 /\ worker'.pc = "pdf" /\ worker'.variant = 2
  <2>1. NoPreview(runs'[<<j, 2>>])
    BY <1>12, <1>13, <1>14 DEF Resume!Variant
  <2>2. worker'.whole => FullPreview(runs'[<<j, 1>>])
    BY <1>8, <1>11, <1>12, <1>14
  <2>3. worker'.job = j /\ Resume!Variant = {1, 2}
    BY <1>11, ResumeNumbers
  <2>4. ResumePreviews'
    BY <1>14, <2>1, <2>2, <2>3 DEF ResumePreviews, Resume!This, Resume!Saving, Rendering
  <2> QED BY <1>12, <2>4 DEF ResumeInv
<1>15. CASE n = asked[j].locales /\ worker'.pc = "complete" /\ worker'.variant = 1
  <2>1. ASSUME worker'.whole, NEW v \in 1..asked'[j].locales PROVE FullPreview(runs'[<<j, v>>])
    <3>1. v \in Resume!Variant /\ (v = n \/ v < n)
      BY <1>10, <1>12, <1>15 DEF Resume!Variant
    <3>2. CASE v = n
      BY <1>8, <1>11, <1>12, <2>1, <3>2
    <3>3. CASE v < n
      <4>1. runs'[<<j, v>>] = runs[<<j, v>>]
        BY <1>12, <3>1, <3>3 DEF Resume!Variant
      <4> QED BY <1>11, <1>13, <2>1, <3>1, <3>3, <4>1
    <3> QED BY <3>1, <3>2, <3>3
  <2>2. worker'.job = j
    BY <1>11
  <2>3. ResumePreviews'
    BY <1>15, <2>1, <2>2 DEF ResumePreviews, Resume!Saving, Rendering, Resume!Variants
  <2> QED BY <1>12, <2>3 DEF ResumeInv
<1> QED BY <1>11, <1>14, <1>15

\* A write of the preview fails: it needs attention, whatever is in the files.
LEMMA FailPreviewResume ==
  ASSUME Resume!ResumeJobsAssumption, ResumeInv, Resume!FailPreview PROVE ResumeInv'
<1>1. worker.pc \in {"pdf_metadata", "pdf_run"} /\ worker.pc \in Rendering
  BY DEF Resume!FailPreview, Rendering
<1>2. PICK j \in Resume!Job : j = worker.job
  BY <1>1, AtPreviews
<1>3. PICK n \in Resume!Variant : n = worker.variant
  BY DEF ResumeInv, Resume!TypeOK
<1>4. PICK run \in {Resume!This,
    IF Resume!At("pdf_run") THEN [Resume!This EXCEPT !.run = Resume!Status]
                         ELSE [Resume!This EXCEPT !.ui = Resume!Status]} :
         Resume!PreviewStep(run, [worker EXCEPT !.pc = "complete", !.whole = FALSE])
  BY DEF Resume!FailPreview
<1>5. PICK status : status = Resume!Status
  OBVIOUS
<1>6. status \in {"PDF_READY", "NEEDS_ATTENTION"} /\ (status = "PDF_READY" => worker.made)
  BY <1>5 DEF Resume!Status
<1>7. /\ Resume!This \in Resume!Run /\ Resume!This.run # "none" /\ RunSound(Resume!This, draft[j])
      /\ (worker.made => Resume!This.pdf)
  BY <1>1, <1>2, AtPreviews DEF ResumeInv, ResumePreviews
<1>8. run \in Resume!Run /\ run.run # "none" /\ RunSound(run, draft[j])
  <2>1. CASE run = Resume!This
    BY <1>7, <2>1
  <2>2. CASE run = [Resume!This EXCEPT !.run = status]
    BY <1>6, <1>7, <2>2 DEF Resume!Run, RunSound
  <2>3. CASE run = [Resume!This EXCEPT !.ui = status]
    BY <1>6, <1>7, <2>3 DEF Resume!Run, RunSound
  <2> QED BY <1>4, <1>5, <2>1, <2>2, <2>3
<1>9. /\ worker \in [pc: {"idle", "timings"} \cup Executing, job: Resume!Job \cup {0},
                     variant: Resume!Variant, made: BOOLEAN, whole: BOOLEAN]
      /\ n <= asked[j].locales
  BY <1>1, <1>2, <1>3, AtPreviews
<1>10. /\ worker' \in [pc: Rendering \cup {"complete"}, job: {j}, variant: Resume!Variant,
                       made: BOOLEAN, whole: BOOLEAN]
       /\ worker'.pc = "complete" /\ worker'.whole = FALSE /\ worker'.variant = n
  BY <1>2, <1>3, <1>4, <1>9 DEF Resume!PreviewStep
<1>11. Resume!PreviewStep(run, worker')
  BY <1>4 DEF Resume!PreviewStep
<1>12. Resume!TypeOK' /\ ResumeQueue' /\ ResumeFresh' /\ ResumeRuns' /\ ResumeHand'
  <2>1. worker'.variant <= asked[j].locales
    BY <1>9, <1>10
  <2> QED BY <1>1, <1>2, <1>3, <1>8, <1>10, <1>11, <2>1, PreviewKeeps
<1>13. ResumePreviews'
  BY <1>10 DEF ResumePreviews, Resume!Saving, Rendering
<1> QED BY <1>12, <1>13 DEF ResumeInv

\* The timings are added; the executor is free again.
LEMMA TimingsResume == ASSUME Resume!ResumeJobsAssumption, ResumeInv, Resume!Timings PROVE ResumeInv'
<1> USE DEF ResumeInv
<1>1. /\ worker.pc = "timings" /\ worker' = Resume!Resting /\ worker'.pc = "idle"
         /\ worker'.job = 0
      /\ UNCHANGED <<jobs, asked, queue, draft, candidate, runs, submitted, restarts>>
  BY DEF Resume!Timings, Resume!At, Resume!Resting
<1>2. PICK j \in Resume!Job : j = worker.job
  BY <1>1, HeldResume
<1>3. jobs[j].phase \in {"none", "COMPLETE"}
  BY <1>1, <1>2 DEF ResumeHand
<1>4. JobSound(j)'
  <2>1. JobSound(j)
    BY DEF ResumeRuns
  <2>2. jobs'[j].phase \notin Resume!Making \cup Resume!Shown
           /\ Resume!Variants(j)' = Resume!Variants(j)
    BY <1>1, <1>3 DEF Resume!Making, Resume!Shown, Resume!Variants
  <2> QED BY <1>1, <2>1, <2>2 DEF JobSound
<1>5. ResumeQueue' /\ ResumeFresh' /\ (JobSound(j)' => ResumeRuns')
  BY <1>1, <1>2, HeldKeepsResume
<1>6. Resume!TypeOK'
  BY <1>1 DEF Resume!TypeOK, Resume!Resting, Resume!Variant
<1>7. ResumeHand' /\ ResumePreviews'
  BY <1>1 DEF ResumeHand, ResumePreviews, Resume!Resting, Resume!Variant, Executing, Drafting,
      Resume!Saving,
     Offering, Rendering
<1> QED BY <1>4, <1>5, <1>6, <1>7

\* The process is gone: its jobs are forgotten, their runs stay.
LEMMA RestartResume == ASSUME Resume!ResumeJobsAssumption, ResumeInv, Resume!Restart PROVE ResumeInv'
<1> USE DEF ResumeInv
<1>1. /\ jobs' = [j \in Resume!Job |-> Resume!NoJob] /\ queue' = <<>> /\ worker' = Resume!Resting
      /\ UNCHANGED <<asked, draft, candidate, runs, submitted>>
      /\ restarts' \in 0..MaxRestarts
  BY DEF Resume!Restart, Resume!TypeOK, Resume!ResumeJobsAssumption
<1>2. Resume!TypeOK'
  BY <1>1 DEF Resume!TypeOK, Resume!Resting, Resume!Variant
<1>3. ResumeQueue' /\ ResumeFresh'
  BY <1>1 DEF ResumeQueue, ResumeFresh
<1>4. ResumeHand' /\ ResumePreviews'
  BY <1>1 DEF ResumeHand, ResumePreviews, Resume!Resting, Resume!Variant, Executing, Drafting,
      Resume!Saving,
     Offering, Rendering
<1>5. ASSUME NEW j \in Resume!Job PROVE JobSound(j)'
  <2>1. JobSound(j)
    BY DEF ResumeRuns
  <2>2. jobs'[j].phase = "none"
    BY <1>1 DEF Resume!NoJob
  <2> QED BY <1>1, <2>1, <2>2 DEF JobSound, Resume!Making, Resume!Shown
<1> QED BY <1>2, <1>3, <1>4, <1>5 DEF ResumeRuns

\* A job is submitted; the oldest ended ones are forgotten.
LEMMA SubmitResume ==
  ASSUME Resume!ResumeJobsAssumption, ResumeInv, NEW form \in Resume!Forms,
      Resume!Submit(form) PROVE ResumeInv'
<1> USE DEF ResumeInv
<1>1. PICK n : n = submitted + 1
  OBVIOUS
<1>2. n \in Resume!Job /\ submitted \in Nat /\ n > submitted /\ Resume!Job \subseteq Nat
         /\ 0 \notin Resume!Job
  BY <1>1, ResumeNumbers DEF Resume!Submit, Resume!TypeOK, Resume!Job
<1>3. \A k \in Resume!Job : k <= submitted => k # n /\ k <= n
  BY <1>1, <1>2
<1>4. \A k \in Resume!Job : k > n => k # n /\ k > submitted
  BY <1>1, <1>2
<1>5. /\ jobs' = [j \in Resume!Job |->
                    IF j = n THEN [phase |-> "QUEUED", preview |-> "pending"]
                    ELSE IF j \in Resume!Pruned THEN Resume!NoJob ELSE jobs[j]]
      /\ asked' = [asked EXCEPT ![n] = form] /\ queue' = Append(queue, n) /\ submitted' = n
      /\ UNCHANGED <<worker, draft, candidate, runs, restarts>>
  BY <1>1 DEF Resume!Submit
<1>6. \A k \in Resume!Pruned : jobs[k].phase \in Resume!Ended
  BY DEF Resume!Pruned, Resume!Prunable
<1>7. /\ jobs'[n].phase = "QUEUED" /\ jobs'[n] \in Resume!Record
      /\ \A k \in Resume!Job : k # n /\ jobs[k].phase \notin Resume!Ended => jobs'[k] = jobs[k]
      /\ \A k \in Resume!Job : k # n => jobs'[k] = jobs[k] \/ jobs'[k] = Resume!NoJob
  BY <1>2, <1>5, <1>6 DEF Resume!Record, Resume!Making, Resume!Preview
<1>8. /\ queue' \in Seq(Resume!Job) /\ DOMAIN queue' = DOMAIN queue \cup {Len(queue) + 1}
      /\ queue'[Len(queue) + 1] = n /\ \A i \in DOMAIN queue : queue'[i] = queue[i]
      /\ Len(queue) + 1 \notin DOMAIN queue
  BY <1>2, <1>5, Appended DEF Resume!TypeOK
<1>9. PICK e : e = Len(queue) + 1
  OBVIOUS
<1>10. /\ DOMAIN queue' = DOMAIN queue \cup {e} /\ queue'[e] = n
       /\ \A i \in DOMAIN queue : queue'[i] = queue[i] /\ queue[i] \in Resume!Job
  BY <1>8, <1>9 DEF Resume!TypeOK
<1>11. /\ \A k \in Resume!Job : k # n => asked'[k] = asked[k]
       /\ asked' \in [Resume!Job -> [ai: BOOLEAN, expert: BOOLEAN, locales: Resume!Variant]]
  <2>1. form \in [ai: BOOLEAN, expert: BOOLEAN, locales: Resume!Variant]
    <3>1. CASE form = [ai |-> FALSE, expert |-> FALSE, locales |-> 1]
      BY <3>1, ResumeNumbers
    <3>2. CASE form \in [ai: {TRUE}, expert: BOOLEAN, locales: Resume!Variant]
      BY <3>2
    <3> QED BY <3>1, <3>2 DEF Resume!Forms
  <2> QED BY <1>2, <1>5, <2>1 DEF Resume!TypeOK
<1>12. Resume!TypeOK'
  <2>1. jobs' \in [Resume!Job -> Resume!Record \cup {Resume!NoJob}]
    BY <1>5, <1>7 DEF Resume!TypeOK
  <2>2. submitted' \in 0..MaxJobs
    BY <1>1, <1>2, <1>5, ResumeNumbers DEF Resume!Job
  <2> QED BY <1>5, <1>8, <1>11, <2>1, <2>2 DEF Resume!TypeOK
<1>13. worker.job # n /\ (worker.pc # "idle" => worker.job \in Resume!Job /\ worker.job <= submitted)
       /\ (worker.pc = "idle" => worker.job = 0)
  BY <1>2, <1>3 DEF ResumeHand
<1>14. /\ jobs[n] = Resume!NoJob /\ draft[n] = "base" /\ candidate[n] = "none"
       /\ \A v \in Resume!Variant : runs[<<n, v>>] = Resume!NoRun
  BY <1>2 DEF ResumeFresh
<1>15. ResumeQueue'
  <2>1. ASSUME NEW i \in DOMAIN queue'
        PROVE  /\ jobs'[queue'[i]].phase = "QUEUED"
               /\ queue'[i] <= n /\ queue'[i] # worker.job
               /\ \A v \in Resume!Variant : runs[<<queue'[i], v>>] = Resume!NoRun
               /\ draft[queue'[i]] = "base" /\ candidate[queue'[i]] # "VALIDATED"
    <3>1. CASE i = e
      BY <1>2, <1>7, <1>10, <1>13, <1>14, <3>1
    <3>2. CASE i \in DOMAIN queue
      <4>1. PICK k \in Resume!Job : k = queue[i] /\ k = queue'[i]
        BY <1>10, <3>2
      <4>2. /\ jobs[k].phase = "QUEUED" /\ k <= submitted /\ k # worker.job
            /\ \A v \in Resume!Variant : runs[<<k, v>>] = Resume!NoRun
            /\ draft[k] = "base" /\ candidate[k] # "VALIDATED"
        BY <3>2, <4>1 DEF ResumeQueue
      <4>3. jobs'[k] = jobs[k] /\ k <= n
        BY <1>3, <1>7, <4>2 DEF Resume!Ended
      <4> QED BY <4>1, <4>2, <4>3
    <3> QED BY <1>10, <3>1, <3>2
  <2>2. ASSUME NEW i \in DOMAIN queue', NEW k \in DOMAIN queue', queue'[i] = queue'[k] PROVE i = k
    <3>1. \A d \in DOMAIN queue : queue'[d] # n
      BY <1>3, <1>10 DEF ResumeQueue
    <3>2. \A c, d \in DOMAIN queue : queue'[c] = queue'[d] => c = d
      BY <1>10 DEF ResumeQueue
    <3> QED BY <1>10, <2>2, <3>1, <3>2
  <2> QED BY <1>5, <2>1, <2>2 DEF ResumeQueue
<1>16. ResumeFresh'
  BY <1>4, <1>5, <1>7 DEF ResumeFresh, Resume!NoJob, Resume!Ended
<1>17. worker.pc # "idle" =>
          /\ asked'[worker.job] = asked[worker.job] /\ worker.job <= n
          /\ worker.pc \in Executing => jobs'[worker.job] = jobs[worker.job]
  <2>1. worker.pc \in Executing => jobs[worker.job].phase \notin Resume!Ended
    BY DEF ResumeHand, PhaseAt, Executing, Drafting, Resume!Saving, Offering, Rendering,
        Resume!Ended
  <2> QED BY <1>3, <1>7, <1>11, <1>13, <2>1
<1>18. ResumeHand'
  <2>1. worker.pc = "timings" => jobs'[worker.job].phase \in {"none", "COMPLETE"}
    BY <1>7, <1>13 DEF ResumeHand, Resume!NoJob
  <2>2. worker.pc \in Executing => worker.pc # "idle"
    BY DEF Executing, Drafting, Resume!Saving, Offering, Rendering
  <2>3. worker.pc # "idle" => Resume!Variants(worker.job)' = Resume!Variants(worker.job)
    BY <1>5, <1>17 DEF Resume!Variants
  <2>4. /\ worker' = worker
        /\ worker.pc \in Executing =>
             /\ jobs'[worker.job] # Resume!NoJob
             /\ jobs'[worker.job].phase = PhaseAt(worker.pc)
             /\ worker.variant <= asked'[worker.job].locales
    BY <1>5, <1>17, <2>2 DEF ResumeHand
  <2>5. worker.pc \in {"ready"} \cup Offering =>
          \A v \in Resume!Variants(worker.job)' : runs[<<worker.job, v>>].run # "none"
    BY <2>2, <2>3 DEF ResumeHand, Executing
  <2>6. Resume!This' = Resume!This
    BY <1>5 DEF Resume!This
  <2> QED
    BY <1>5, <1>13, <1>17, <2>1, <2>2, <2>4, <2>5, <2>6 DEF ResumeHand
<1>19. ResumePreviews'
  <2>1. worker.pc = "complete" => Resume!Variants(worker.job)' = Resume!Variants(worker.job)
    BY <1>5, <1>17 DEF Resume!Variants
  <2>2. Resume!This' = Resume!This /\ Resume!Status' = Resume!Status
    BY <1>5 DEF Resume!This, Resume!Status
  <2> QED BY <1>5, <2>1, <2>2 DEF ResumePreviews
<1>20. ASSUME NEW k \in Resume!Job PROVE JobSound(k)'
  <2>1. CASE k = n
    <3>1. ResumeWaits(k)'
      BY <1>10, <2>1 DEF ResumeWaits
    <3>2. jobs'[k].phase = "QUEUED"
      BY <1>7, <2>1
    <3>3. /\ draft'[k] = "base" /\ candidate'[k] = "none"
          /\ \A v \in Resume!Variant : RunSound(runs'[<<k, v>>], draft'[k])
      BY <1>5, <1>14, <2>1 DEF RunSound, Resume!NoRun
    <3> QED BY <3>1, <3>2, <3>3 DEF JobSound, Resume!Shown
  <2>2. CASE k # n
    <3>1. JobSound(k) /\ (jobs'[k] = jobs[k] \/ jobs'[k].phase = "none")
      BY <1>7, <2>2 DEF ResumeRuns, Resume!NoJob
    <3>2. ResumeWaits(k) => ResumeWaits(k)'
      BY <1>10 DEF ResumeWaits
    <3>3. Resume!Variants(k)' = Resume!Variants(k)
      BY <1>11, <2>2 DEF Resume!Variants
    <3>4. CASE jobs'[k] = jobs[k]
      BY <1>5, <3>1, <3>2, <3>3, <3>4 DEF JobSound
    <3>5. CASE jobs'[k].phase = "none"
      BY <1>5, <3>1, <3>5 DEF JobSound, Resume!Making, Resume!Shown
    <3> QED BY <3>1, <3>4, <3>5
  <2> QED BY <2>1, <2>2
<1> QED BY <1>12, <1>15, <1>16, <1>18, <1>19, <1>20 DEF ResumeRuns

\* The executor takes up the job that waited longest.
LEMMA TakeResume == ASSUME Resume!ResumeJobsAssumption, ResumeInv, Resume!Take PROVE ResumeInv'
<1> USE DEF ResumeInv
<1>1. /\ worker.pc = "idle" /\ worker.job = 0 /\ queue # <<>> /\ queue \in Seq(Resume!Job)
      /\ queue' = Tail(queue)
      /\ UNCHANGED <<asked, draft, candidate, runs, submitted, restarts>>
  BY DEF Resume!Take, Resume!At, ResumeHand, Resume!TypeOK
<1>2. /\ queue' \in Seq(Resume!Job) /\ Head(queue) = queue[1] /\ 1 \in DOMAIN queue
         /\ queue[1] \in Resume!Job
      /\ \A i \in DOMAIN queue' : i + 1 \in DOMAIN queue /\ queue'[i] = queue[i + 1] /\ i + 1 # 1
      /\ \A i \in DOMAIN queue : i = 1 \/ (i - 1 \in DOMAIN queue' /\ queue'[i - 1] = queue[i])
      /\ \A i, k \in DOMAIN queue' : i + 1 = k + 1 => i = k
  BY <1>1, Tailed
<1>3. PICK j \in Resume!Job : j = Head(queue) /\ j = queue[1]
  BY <1>2
<1>4. /\ jobs[j].phase = "QUEUED" /\ j <= submitted /\ draft[j] = "base"
      /\ candidate[j] # "VALIDATED" /\ \A v \in Resume!Variant : runs[<<j, v>>] = Resume!NoRun
  BY <1>2, <1>3 DEF ResumeQueue
<1>5. /\ jobs' \in [Resume!Job -> Resume!Record \cup {Resume!NoJob}]
      /\ jobs'[j] = [phase |-> "PREPARING", preview |-> "pending"]
      /\ \A k \in Resume!Job : k # j => jobs'[k] = jobs[k]
  <2>1. jobs[j] # Resume!NoJob
    BY <1>4 DEF Resume!NoJob
  <2>2. jobs' = [jobs EXCEPT ![j] = [phase |-> "PREPARING", preview |-> "pending"]]
    BY <1>3, <2>1 DEF Resume!Take, Resume!Moved
  <2>3. [phase |-> "PREPARING", preview |-> "pending"] \in Resume!Record
    BY DEF Resume!Record, Resume!Making, Resume!Preview
  <2> QED BY <2>2, <2>3 DEF Resume!TypeOK
<1>6. jobs'[j].phase = "PREPARING" /\ jobs'[j] # Resume!NoJob
  BY <1>5 DEF Resume!NoJob
<1>7. /\ worker'.pc = "PREPARING" /\ worker'.job = j /\ worker'.variant = 1
      /\ worker'.made = FALSE /\ worker'.whole = TRUE
      /\ worker' \in [pc: {"idle", "timings"} \cup Executing, job: Resume!Job \cup {0},
                      variant: Resume!Variant, made: BOOLEAN, whole: BOOLEAN]
  <2>1. worker' = [Resume!Resting EXCEPT !.pc = "PREPARING", !.job = j]
    BY <1>3 DEF Resume!Take
  <2>2. "PREPARING" \in Executing /\ 1 \in Resume!Variant
    BY ResumeNumbers DEF Executing, Drafting
  <2> QED BY <2>1, <2>2 DEF Resume!Resting
<1>8. Resume!TypeOK'
  BY <1>1, <1>2, <1>5, <1>7 DEF Resume!TypeOK
<1>9. ResumeQueue'
  <2>1. ASSUME NEW i \in DOMAIN queue'
        PROVE  /\ jobs'[queue'[i]].phase = "QUEUED"
               /\ queue'[i] <= submitted /\ queue'[i] # j
               /\ \A v \in Resume!Variant : runs[<<queue'[i], v>>] = Resume!NoRun
               /\ draft[queue'[i]] = "base" /\ candidate[queue'[i]] # "VALIDATED"
    <3>1. PICK d \in DOMAIN queue : d # 1 /\ queue'[i] = queue[d]
      BY <1>2
    <3>2. queue[d] # j /\ queue[d] \in Resume!Job
      BY <1>1, <1>2, <1>3, <3>1 DEF ResumeQueue
    <3> QED BY <1>5, <3>1, <3>2 DEF ResumeQueue
  <2>2. ASSUME NEW i \in DOMAIN queue', NEW k \in DOMAIN queue', queue'[i] = queue'[k] PROVE i = k
    <3>1. i + 1 = k + 1
      BY <1>2, <2>2 DEF ResumeQueue
    <3> QED BY <1>2, <3>1
  <2> QED BY <1>1, <1>7, <2>1, <2>2 DEF ResumeQueue
<1>10. ResumeFresh'
  <2>1. ASSUME NEW k \in Resume!Job, k > submitted PROVE k # j
    BY <1>4, <2>1, ResumeNumbers DEF Resume!TypeOK
  <2> QED BY <1>1, <1>5, <2>1 DEF ResumeFresh
<1>11. ResumeHand'
  <2>1. PhaseAt("PREPARING") = "PREPARING"
    BY DEF PhaseAt, Drafting, Resume!Saving, Rendering
  <2>2. worker'.variant <= asked'[j].locales
    <3>1. asked[j].locales \in {1, 2}
      BY ResumeNumbers DEF Resume!TypeOK
    <3> QED BY <1>1, <1>7, <3>1
  <2> QED BY <1>1, <1>4, <1>6, <1>7, <2>1, <2>2, ResumeNumbers
         DEF ResumeHand, Executing, Drafting, Resume!Saving, Offering, Rendering
<1>12. ResumePreviews'
  BY <1>7 DEF ResumePreviews, Resume!Saving, Rendering
<1>13. ASSUME NEW k \in Resume!Job PROVE JobSound(k)'
  <2>1. JobSound(k) /\ Resume!Variants(k)' = Resume!Variants(k)
    BY <1>1 DEF ResumeRuns, Resume!Variants
  <2>2. CASE k = j
    BY <1>1, <1>6, <1>7, <2>1, <2>2 DEF JobSound, Resume!Making, Resume!Shown
  <2>3. CASE k # j
    <3>1. ResumeWaits(k) => ResumeWaits(k)'
      BY <1>2, <1>3, <2>3 DEF ResumeWaits
    <3>2. jobs'[k].phase \in Resume!Making \cup Resume!Shown => ResumeWaits(k)'
      <4>1. k # worker.job
        BY <1>1, ResumeNumbers
      <4> QED BY <1>5, <2>1, <2>3, <3>1, <4>1 DEF JobSound
    <3> QED BY <1>1, <1>5, <2>1, <2>3, <3>2 DEF JobSound
  <2> QED BY <2>2, <2>3
<1> QED BY <1>8, <1>9, <1>10, <1>11, <1>12, <1>13 DEF ResumeRuns

\* Every step of the resume jobs keeps their invariant.
LEMMA NextResume == ASSUME Resume!ResumeJobsAssumption, ResumeInv, [Resume!Next]_Resume!vars PROVE ResumeInv'
<1>1. CASE \E form \in Resume!Forms : Resume!Submit(form)
  BY <1>1, SubmitResume
<1>2. CASE Resume!Restart
  BY <1>2, RestartResume
<1>3. CASE Resume!Worker
  BY <1>3, TakeResume, DraftResume, SaveResume, FailResume, OfferResume, RenderResume,
      PdfMetadataResume,
     PdfRunResume, FailPreviewResume, TimingsResume DEF Resume!Worker
<1>4. CASE UNCHANGED Resume!vars
  <2> USE <1>4 DEF Resume!vars, ResumeInv
  <2>1. Resume!TypeOK' /\ ResumeQueue' /\ ResumeFresh'
    BY DEF Resume!TypeOK, ResumeQueue, ResumeFresh
  <2>2. ResumeHand'
    BY DEF ResumeHand, Resume!This, Resume!Variants
  <2>3. ResumePreviews'
    BY DEF ResumePreviews, Resume!This, Resume!Status, Resume!Variants
  <2>4. ResumeRuns'
    BY DEF ResumeRuns, JobSound, ResumeWaits, Resume!Variants
  <2> QED BY <2>1, <2>2, <2>3, <2>4
<1> QED BY <1>1, <1>2, <1>3, <1>4 DEF Resume!Next

\* What the invariant says of the jobs and the runs that are shown.
LEMMA ResumeIsTrue ==
  ASSUME Resume!ResumeJobsAssumption, ResumeInv
  PROVE  /\ Resume!TypeOK /\ Resume!UnderWayIsTrue /\ Resume!OfferedIsWhole
           /\ Resume!PreviewIsThere /\ Resume!ExpertTextIsValidated
<1> USE DEF ResumeInv
<1>1. Resume!UnderWayIsTrue
  <2>1. ASSUME NEW j \in Resume!Job, jobs[j].phase \in Resume!Making \cup Resume!Shown
        PROVE  (\E i \in DOMAIN queue : queue[i] = j) \/ (worker.job = j /\ worker.pc # "timings")
    BY <2>1 DEF ResumeRuns, JobSound, ResumeWaits
  <2>2. ASSUME NEW j \in Resume!Job, NEW i \in DOMAIN queue, queue[i] = j
        PROVE  jobs[j].phase \in Resume!Making \cup Resume!Shown
    BY <2>2 DEF ResumeQueue, Resume!Making
  <2>3. ASSUME NEW j \in Resume!Job, worker.job = j, worker.pc # "timings"
        PROVE  jobs[j].phase \in Resume!Making \cup Resume!Shown
    <3>1. worker.pc \in Executing
      BY <2>3, ResumeNumbers DEF ResumeHand
    <3> QED BY <2>3, <3>1 DEF ResumeHand, PhaseAt, Executing, Drafting, Resume!Saving, Offering,
        Rendering,
               Resume!Making, Resume!Shown
  <2> QED BY <2>1, <2>2, <2>3 DEF Resume!UnderWayIsTrue
<1>2. Resume!OfferedIsWhole
  BY DEF Resume!OfferedIsWhole, ResumeRuns, JobSound, RunSound
<1>3. Resume!PreviewIsThere
  BY DEF Resume!PreviewIsThere, ResumeRuns, JobSound, RunSound, FullPreview
<1>4. Resume!ExpertTextIsValidated
  <2>1. 1 \in Resume!Variant
    BY ResumeNumbers
  <2> QED BY <2>1 DEF Resume!ExpertTextIsValidated, ResumeRuns, JobSound, RunSound, Resume!TypeOK
<1> QED BY <1>1, <1>2, <1>3, <1>4

------------------------------------------------------------------------------
(* The imports of CodexImport *)

CodexProofs == INSTANCE CodexImportProofs WITH
                  Job <- 1 .. MaxJobs, NoJob <- 0, MaxVersion <- SessionVersions,
                  WritesMayFail <- FALSE, OtherImporter <- TRUE

\* Both instances count the same.
LEMMA SameCounts ==
    /\ \A S : Codex!IsFiniteSet(S) <=> IsFiniteSet(S)
    /\ \A S : CodexProofs!IsFiniteSet(S) <=> IsFiniteSet(S)
    /\ \A S : Codex!Cardinality(S) = CodexProofs!Cardinality(S)
<1>1. \A S : Codex!IsFiniteSet(S) <=> IsFiniteSet(S)
  BY DEF Codex!IsFiniteSet, IsFiniteSet
<1>2. \A S : CodexProofs!IsFiniteSet(S) <=> IsFiniteSet(S)
  BY DEF CodexProofs!IsFiniteSet, IsFiniteSet
<1>3. ASSUME NEW S PROVE Codex!Cardinality(S) = CodexProofs!Cardinality(S)
  BY DEF Codex!Cardinality, CodexProofs!Cardinality
<1> QED BY <1>1, <1>2, <1>3

\* What CodexImportProofs proves of its imports holds of these.
LEMMA CodexSameSpec ==
    /\ Codex!Init <=> CodexProofs!Init
    /\ [Codex!Next]_(Codex!vars) <=> [CodexProofs!Next]_(CodexProofs!vars)
BY DEF Codex!Cardinality, CodexProofs!Cardinality, Codex!vars, CodexProofs!vars, Codex!Version,
    CodexProofs!Version,
   Codex!Terminal, CodexProofs!Terminal, Codex!Phase, CodexProofs!Phase, Codex!Count,
   CodexProofs!Count, Codex!Record, CodexProofs!Record, Codex!NoRecord, CodexProofs!NoRecord,
   Codex!NewRecord, CodexProofs!NewRecord, Codex!Verdict, CodexProofs!Verdict, Codex!Place,
   CodexProofs!Place, Codex!Main, CodexProofs!Main, Codex!Nothing, CodexProofs!Nothing,
   Codex!Idle, CodexProofs!Idle, Codex!Parse, CodexProofs!Parse, Codex!NoParse,
   CodexProofs!NoParse, Codex!Counted, CodexProofs!Counted, Codex!Left, CodexProofs!Left,
   Codex!Persist, CodexProofs!Persist, Codex!Goto, CodexProofs!Goto, Codex!At, CodexProofs!At,
   Codex!Mine, CodexProofs!Mine, Codex!Pooled, CodexProofs!Pooled, Codex!NextSeen,
   CodexProofs!NextSeen, Codex!Disposition, CodexProofs!Disposition, Codex!Interrupted,
   CodexProofs!Interrupted, Codex!Init, CodexProofs!Init, Codex!Submit, CodexProofs!Submit,
   Codex!Get, CodexProofs!Get, Codex!Take, CodexProofs!Take, Codex!BeginDiscovery,
   CodexProofs!BeginDiscovery, Codex!Discover, CodexProofs!Discover, Codex!AnnounceTotal,
   CodexProofs!AnnounceTotal, Codex!ScanChanged, CodexProofs!ScanChanged, Codex!ScanDone,
   CodexProofs!ScanDone, Codex!StartPool, CodexProofs!StartPool, Codex!StartParsing,
   CodexProofs!StartParsing, Codex!FinishParsing, CodexProofs!FinishParsing, Codex!Collect,
   CodexProofs!Collect, Codex!CountOne, CodexProofs!CountOne, Codex!Drain, CodexProofs!Drain,
   Codex!Finished, CodexProofs!Finished, Codex!WriteInventory, CodexProofs!WriteInventory,
   Codex!FinishReady, CodexProofs!FinishReady, Codex!RecordFailure, CodexProofs!RecordFailure,
   Codex!FinishFailed, CodexProofs!FinishFailed, Codex!Grow, CodexProofs!Grow, Codex!Restart,
   CodexProofs!Restart, Codex!OtherParses, CodexProofs!OtherParses, Codex!OtherSyncs,
   CodexProofs!OtherSyncs, Codex!Execute, CodexProofs!Execute, Codex!ParseOne,
   CodexProofs!ParseOne, Codex!Next, CodexProofs!Next

\* So do the types.
LEMMA CodexSameTypes == Codex!TypeOK <=> CodexProofs!TypeOK
BY SameCounts DEF Codex!Version, CodexProofs!Version, Codex!Terminal, CodexProofs!Terminal,
   Codex!Phase, CodexProofs!Phase, Codex!Count, CodexProofs!Count, Codex!Record,
   CodexProofs!Record, Codex!NoRecord, CodexProofs!NoRecord, Codex!Verdict, CodexProofs!Verdict,
   Codex!Place, CodexProofs!Place, Codex!Main, CodexProofs!Main, Codex!Parse, CodexProofs!Parse,
   Codex!NoParse, CodexProofs!NoParse, Codex!Nothing, CodexProofs!Nothing, Codex!Idle,
   CodexProofs!Idle, Codex!TypeOK, CodexProofs!TypeOK

\* The assumptions of the imports.
LEMMA CodexAssumed == CodexProofs!CodexImportAssumption
BY PartsAssumption, SameCounts DEF Codex!CodexImportAssumption, CodexProofs!CodexImportAssumption

------------------------------------------------------------------------------
(* All parts together *)

DeskInv == /\ HubInv /\ VideoInv /\ ResumeInv
           /\ CodexProofs!ImportInv

\* Every part starts in its invariant.
LEMMA InitDesk == DeskInit => DeskInv
<1> SUFFICES ASSUME DeskInit PROVE DeskInv
    OBVIOUS
<1>1. HubInv
  BY InitHub DEF DeskInit
<1>2. VideoInv
  BY PartsAssumption, InitVideo DEF DeskInit
<1>3. ResumeInv
  BY PartsAssumption, InitResume DEF DeskInit
<1>4. CodexProofs!ImportInv
  BY CodexAssumed, CodexSameSpec, CodexProofs!InitImport DEF DeskInit
<1> QED BY <1>1, <1>2, <1>3, <1>4 DEF DeskInv

\* A step of one part is a stutter of every other.
LEMMA DeskStep ==
    ASSUME [DeskNext]_allVars
    PROVE  /\ part' = part
           /\ [Next]_vars /\ [Codex!Next]_(Codex!vars)
           /\ [Video!Next]_(Video!vars) /\ [Resume!Next]_(Resume!vars)
<1>1. part' = part
  BY DEF DeskNext, allVars
<1>2. [Next]_vars
  BY DEF DeskNext, allVars
<1>3. [Codex!Next]_(Codex!vars)
  BY DEF DeskNext, allVars, codexVars, Codex!vars
<1>4. [Video!Next]_(Video!vars)
  BY DEF DeskNext, allVars, videoVars, Video!vars
<1>5. [Resume!Next]_(Resume!vars)
  BY DEF DeskNext, allVars, resumeVars, Resume!vars
<1> QED BY <1>1, <1>2, <1>3, <1>4, <1>5

\* Every step of the desk keeps all of it.
LEMMA NextDesk == DeskInv /\ [DeskNext]_allVars => DeskInv'
<1> SUFFICES ASSUME DeskInv, [DeskNext]_allVars PROVE DeskInv'
    OBVIOUS
<1>1. HubInv'
  BY DeskStep, NextHub DEF DeskInv
<1>2. VideoInv'
  BY PartsAssumption, DeskStep, NextVideo DEF DeskInv
<1>3. ResumeInv'
  BY PartsAssumption, DeskStep, NextResume DEF DeskInv
<1>4. CodexProofs!ImportInv'
  BY CodexAssumed, DeskStep, CodexSameSpec, CodexProofs!NextImport DEF DeskInv
<1> QED BY <1>1, <1>2, <1>3, <1>4 DEF DeskInv

\* The invariant of every behaviour, whichever part it is of.
THEOREM DeskInvariance == DeskSpec => []DeskInv
<1> QED BY InitDesk, NextDesk, PTL DEF DeskSpec

\* The types of the four parts.
THEOREM DeskTypes == DeskSpec => []DeskTypeOK
<1>1. DeskInv => DeskTypeOK
  <2> SUFFICES ASSUME DeskInv PROVE DeskTypeOK
      OBVIOUS
  <2>1. TypeOK
    BY DEF DeskInv, HubInv
  <2>2. Video!TypeOK /\ Resume!TypeOK
    BY DEF DeskInv, VideoInv, ResumeInv
  <2>3. Codex!TypeOK
    BY CodexSameTypes DEF DeskInv, CodexProofs!ImportInv, CodexProofs!Accounts
  <2> QED BY <2>1, <2>2, <2>3 DEF DeskTypeOK
<1> QED BY <1>1, DeskInvariance, PTL

\* A rendering or a resume job that the page shows as under way is in the hands
\* of a thread, of a request or of the queue, after any failed writes and any
\* restarts.  The renderings stranded are excepted, and no others: those in hand
\* when the process stopped, those whose own end could not be written, and those
\* whose submission failed after its write.
THEOREM ShownIsWorkedOnTheorem == DeskSpec => []ShownIsUnderWay
<1>1. DeskInv => ShownIsUnderWay
  BY PartsAssumption, VideoIsTrue, ResumeIsTrue DEF DeskInv, ShownIsUnderWay
<1> QED BY <1>1, DeskInvariance, PTL

\* What is offered is there: a rendering is COMPLETE only with its receipt; a run
\* that is listed is whole, a job that offers its DOCX has one run of every locale
\* asked for, a preview called ready exists in every one of them, and the expert's
\* text is offered only where its patch was validated.
THEOREM OfferedTheorem == DeskSpec => []OfferedIsTrue
<1>1. DeskInv => OfferedIsTrue
  BY PartsAssumption, VideoIsTrue, ResumeIsTrue DEF DeskInv, OfferedIsTrue
<1> QED BY <1>1, DeskInvariance, PTL

\* What a bundle, an asset or an outcome cites resolves for ever.
THEOREM DeskCitesTheorem == DeskSpec => []CitedStaysResolvable
<1>1. DeskInv => CitedStaysResolvable
  BY DEF DeskInv, HubInv, CitedInv, CitedStaysResolvable, Resolvable
<1> QED BY <1>1, DeskInvariance, PTL

\* The receipts of the catalog are the history of its snapshot.
THEOREM DeskHistoryTheorem == DeskSpec => ReceiptsAreTheHistory
<1>1. ASSUME DeskInv, [DeskNext]_allVars PROVE [ReceiptStep]_vars
  BY <1>1, DeskStep, NextHub DEF DeskInv
<1> QED BY <1>1, DeskInvariance, PTL DEF DeskSpec, ReceiptsAreTheHistory

\* While its files can be written the outcome in the file of an import is final:
\* neither the executor nor a reader that takes the job for an interrupted one
\* changes it, whatever else the desk does.
THEOREM DeskReceiptsStand == DeskSpec => ReceiptIsFinal
<1>1. ASSUME DeskInv, [DeskNext]_allVars
      PROVE  [\A j \in 1 .. MaxJobs :
                 disk[j] # Codex!NoRecord
                          /\ disk[j].phase \in Codex!Terminal => disk'[j] = disk[j]]_(Codex!vars)
  <2>1. CASE UNCHANGED Codex!vars
    BY <2>1
  <2>2. CASE ~ UNCHANGED Codex!vars
    <3>1. CodexProofs!Next
      BY <1>1, <2>2, DeskStep, CodexSameSpec DEF Codex!vars, CodexProofs!vars
    <3>2. CodexProofs!OutcomesStand
      BY <1>1, <3>1, CodexAssumed, CodexProofs!NextFiles DEF DeskInv, CodexProofs!ImportInv
    <3> QED BY <3>2 DEF CodexProofs!OutcomesStand, Codex!NoRecord, CodexProofs!NoRecord,
        Codex!Terminal,
                        CodexProofs!Terminal
  <2> QED BY <2>1, <2>2
<1> QED BY <1>1, DeskInvariance, PTL DEF DeskSpec, ReceiptIsFinal, Codex!ReceiptIsFinal

==============================================================================
