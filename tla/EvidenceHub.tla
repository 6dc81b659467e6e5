---- MODULE EvidenceHub ----
(***************************************************************************)
(* The evidence catalog, one SQLite file that the requests of the page and *)
(* the command line share (evidence_hub.py, evidence_capture.py).  Every   *)
(* statement outside BEGIN IMMEDIATE commits on its own, so a request      *)
(* reads the sources, then the items, then the next receipt number and the *)
(* counts, and other requests commit between any two of these reads.       *)
(*                                                                         *)
(* A source has a content version, its evidence item is <<source, version>>*)
(* (the identifier of an item hashes its content).  The sources in         *)
(* Collected are found again by a refresh; the others (the saved runs) only *)
(* enter by a capture.  A bundle cites one item and is named by it, an     *)
(* asset by its bundle, an outcome by its asset.                           *)
(***************************************************************************)
EXTENDS Naturals, Sequences, FiniteSets

CONSTANTS Source, Collected, Proc, MaxVersion,
          MaxRequests,     \* requests begun, over all processes
          MaxFaults        \* statements that SQLite refuses (busy, disk)

ASSUME HubAssumption == /\ Collected \subseteq Source /\ IsFiniteSet(Source)
                        /\ MaxVersion \in Nat \ {0}
                        /\ MaxRequests \in Nat /\ MaxFaults \in Nat

VARIABLES hub,             \* the database file
          req,             \* what each process is doing
          begun, faults

vars == <<hub, req, begun, faults>>

------------------------------------------------------------------------------
(* Types *)

Item     == Source \X (1 .. MaxVersion)
Snapshot == [Source -> 0 .. MaxVersion]              \* 0: the source is not there
Digest   == [sources : SUBSET Item, items : SUBSET Item]
Count    == 0 .. Cardinality(Source)
Counts   == [created : Count, updated : Count, unchanged : Count]
Receipt  == [succeeded : BOOLEAN, counts : Counts]
Hub      == [snap : Snapshot, digest : Digest, receipts : Seq(Receipt),
             lineage : SUBSET Item, bundles : SUBSET Item, frozen : SUBSET Item,
             assets : SUBSET Item, outcomes : SUBSET Item]
Phase    == {"idle", "sources", "items", "number", "counts", "commit", "failing",
             "failed", "build", "bundle", "asset", "outcome"}
Request  == [pc : Phase, kind : {"sync", "capture", "refresh"}, given : Snapshot,
             sources : SUBSET Item, items : SUBSET Item,
             number : Nat, counts : Counts]

Nothing  == [s \in Source |-> 0]
NoCounts == [created |-> 0, updated |-> 0, unchanged |-> 0]

------------------------------------------------------------------------------
(* Operators *)

Records(snap) == {<<s, snap[s]>> : s \in {t \in Source : snap[t] > 0}}
Given(p)      == {s \in Source : req[p].given[s] > 0}
TheItem(p)    == CHOOSE i \in Records(req[p].given) : TRUE
Others(p)     == {i \in Records(hub.snap) : i[1] \notin Given(p)}
NextNumber    == Len(hub.receipts) + 1

\* What the given sources would create, update and leave unchanged in snap.
Compare(given, snap) ==
    LET some == {s \in Source : given[s] > 0}
    IN  [created   |-> Cardinality({s \in some : snap[s] = 0}),
         updated   |-> Cardinality({s \in some : snap[s] \notin {0, given[s]}}),
         unchanged |-> Cardinality({s \in some : snap[s] = given[s]})]

\* A sync replaces its one source, a refresh the whole snapshot.
Replaced(p) ==
    [s \in Source |-> IF req[p].kind = "refresh" \/ s \in Given(p)
                      THEN req[p].given[s] ELSE hub.snap[s]]

\* The digest is of the records read before, never of the stored ones.
Computed(p) == [sources |-> req[p].sources \cup Records(req[p].given),
                items   |-> req[p].items \cup Records(req[p].given)]

Resolvable == Records(hub.snap) \cup hub.lineage

Goto(p, pc)  == req' = [req EXCEPT ![p].pc = pc]
Same         == UNCHANGED <<begun, faults>>

------------------------------------------------------------------------------
(* A request begins.  What is outside may have any content by then. *)

Fresh(kind, given) ==
    [pc |-> IF kind = "refresh" THEN "number" ELSE "sources", kind |-> kind,
     given |-> given, sources |-> {}, items |-> {}, number |-> 0, counts |-> NoCounts]

Begin(p, kind, given) ==
    /\ req[p].pc = "idle" /\ begun < MaxRequests
    /\ req' = [req EXCEPT ![p] = Fresh(kind, given)]
    /\ begun' = begun + 1 /\ UNCHANGED <<hub, faults>>

Sync(p, s, v)    == Begin(p, "sync", [Nothing EXCEPT ![s] = v])
Capture(p, s, v) == s \notin Collected /\ Begin(p, "capture", [Nothing EXCEPT ![s] = v])
Refresh(p, found) == /\ \A s \in Source \ Collected : found[s] = 0
                     /\ Begin(p, "refresh", found)

------------------------------------------------------------------------------
(* The reads of sync_source; a refresh reads nothing of the snapshot here. *)

ReadSources(p) ==
    /\ req[p].pc = "sources"
    /\ req' = [req EXCEPT ![p].pc = "items", ![p].sources = Others(p)]
    /\ UNCHANGED hub /\ Same

\* An item whose source the earlier read did not see fails the validation.
ReadItems(p) ==
    /\ req[p].pc = "items"
    /\ LET known == \A i \in Others(p) : \E j \in req[p].sources : i[1] = j[1]
       IN  req' = [req EXCEPT ![p].pc = IF known THEN "number" ELSE "failing",
                              ![p].items = Others(p)]
    /\ UNCHANGED hub /\ Same

ReadNumber(p) ==
    /\ req[p].pc = "number"
    /\ req' = [req EXCEPT ![p].pc = "counts", ![p].number = NextNumber]
    /\ UNCHANGED hub /\ Same

ReadCounts(p) ==
    /\ req[p].pc = "counts"
    /\ req' = [req EXCEPT ![p].pc = "commit",
                          ![p].counts = Compare(req[p].given, hub.snap)]
    /\ UNCHANGED hub /\ Same

------------------------------------------------------------------------------
(* BEGIN IMMEDIATE .. COMMIT: the number is the primary key of the receipt, so *)
(* a request that lost the race is rolled back and records its failure.       *)

\* Mutant of Archived: a sync archives nothing.
ArchivedAtRefresh(p) ==
    hub.lineage \cup IF req[p].kind = "refresh" THEN Records(req[p].given) ELSE {}

Archived(p) == hub.lineage \cup Records(req[p].given)

\* Mutant of Collides: the number is no key.
CollidesNever(p) == FALSE

Collides(p) == req[p].number # NextNumber

Commit(p) ==
    /\ req[p].pc = "commit" /\ ~Collides(p)
    /\ hub' = [hub EXCEPT !.snap = Replaced(p), !.lineage = Archived(p),
                          !.digest = Computed(p),
                          !.receipts = Append(@, [succeeded |-> TRUE,
                                                  counts |-> req[p].counts])]
    /\ Goto(p, IF req[p].kind = "capture" THEN "build" ELSE "idle") /\ Same

RollBack(p) ==
    /\ req[p].pc = "commit" /\ Collides(p)
    /\ Goto(p, "failing") /\ UNCHANGED hub /\ Same

ReadFailureNumber(p) ==
    /\ req[p].pc = "failing"
    /\ req' = [req EXCEPT ![p].pc = "failed", ![p].number = NextNumber]
    /\ UNCHANGED hub /\ Same

\* The failure receipt may collide as well; then the call raises without one.
RecordFailure(p) ==
    /\ req[p].pc = "failed"
    /\ hub' = IF Collides(p) THEN hub
              ELSE [hub EXCEPT !.receipts = Append(@, [succeeded |-> FALSE,
                                                       counts |-> NoCounts])]
    /\ Goto(p, "idle") /\ Same

------------------------------------------------------------------------------
(* The capture of a saved run goes on: bundle, asset, outcome.  Whatever is    *)
(* refused ends the capture with a warning file beside the run.                *)

BuildBundle(p) ==
    /\ req[p].pc = "build"
    /\ Goto(p, IF TheItem(p) \in Records(hub.snap) THEN "bundle" ELSE "idle")
    /\ UNCHANGED hub /\ Same

\* One transaction.  A bundle registered before keeps the items frozen then.
RegisterBundle(p) ==
    /\ req[p].pc = "bundle"
    /\ LET i == TheItem(p)
           new == i \notin hub.bundles
           may == IF new THEN i \in Records(hub.snap) ELSE i \in hub.frozen
       IN  /\ hub' = IF new /\ may
                     THEN [hub EXCEPT !.bundles = @ \cup {i}, !.frozen = @ \cup {i}]
                     ELSE hub
           /\ Goto(p, IF may THEN "asset" ELSE "idle")
    /\ Same

\* register_asset: the look-ups and the insert, taken as one step.
RegisterAsset(p) ==
    /\ req[p].pc = "asset"
    /\ LET i == TheItem(p)
           may == i \in Resolvable /\ i \in hub.bundles
       IN  /\ hub' = IF may THEN [hub EXCEPT !.assets = @ \cup {i}] ELSE hub
           /\ \E pc \in {"outcome", "idle"} : Goto(p, IF may THEN pc ELSE "idle")
    /\ Same

RegisterOutcome(p) ==
    /\ req[p].pc = "outcome"
    /\ LET i == TheItem(p)
       IN  hub' = IF i \in Resolvable /\ i \in hub.assets
                  THEN [hub EXCEPT !.outcomes = @ \cup {i}] ELSE hub
    /\ Goto(p, "idle") /\ Same

\* SQLite refuses a statement: inside the try of sync_source and refresh the
\* failure is recorded, elsewhere it ends the request.
Refused(p) ==
    /\ req[p].pc # "idle" /\ faults < MaxFaults /\ faults' = faults + 1
    /\ Goto(p, IF req[p].pc \in {"sources", "items", "number", "counts", "commit"}
               THEN "failing" ELSE "idle")
    /\ UNCHANGED <<hub, begun>>

------------------------------------------------------------------------------
Init ==
    /\ hub = [snap |-> Nothing, digest |-> [sources |-> {}, items |-> {}],
              receipts |-> <<>>, lineage |-> {}, bundles |-> {}, frozen |-> {},
              assets |-> {}, outcomes |-> {}]
    /\ req = [p \in Proc |-> [Fresh("sync", Nothing) EXCEPT !.pc = "idle"]]
    /\ begun = 0 /\ faults = 0

Step(p) ==
    \/ ReadSources(p) \/ ReadItems(p) \/ ReadNumber(p) \/ ReadCounts(p)
    \/ Commit(p) \/ RollBack(p) \/ ReadFailureNumber(p) \/ RecordFailure(p)
    \/ BuildBundle(p) \/ RegisterBundle(p) \/ RegisterAsset(p) \/ RegisterOutcome(p)
    \/ Refused(p)

Next ==
    \E p \in Proc :
       \/ \E s \in Source, v \in 1 .. MaxVersion : Sync(p, s, v) \/ Capture(p, s, v)
       \/ \E found \in Snapshot : Refresh(p, found)
       \/ Step(p)

Spec == Init /\ [][Next]_vars

------------------------------------------------------------------------------
(* Properties *)

\* The type of every variable; the catalog never holds an item of no version.
TypeOK == /\ hub \in Hub /\ req \in [Proc -> Request]
          /\ begun \in 0 .. MaxRequests /\ faults \in 0 .. MaxFaults

\* What was once cited resolves for ever, whatever refreshes drop its source and
\* whatever captures replace it: a registered bundle has its frozen items (what
\* resolve_bundle reads), the item of every asset and outcome is in the snapshot
\* or in the lineage, and an outcome has its asset, an asset its bundle.
CitedStaysResolvable ==
    /\ hub.bundles \subseteq hub.frozen
    /\ hub.bundles \subseteq Resolvable
    /\ hub.outcomes \subseteq hub.assets /\ hub.assets \subseteq hub.bundles

\* The receipts are the history of the snapshot: it changes only together with
\* one new SUCCEEDED receipt, whose counts, read before the transaction, are the
\* changes that transaction made; a FAILED receipt changes nothing, and no
\* receipt is ever replaced.
LastReceipt == hub'.receipts[Len(hub'.receipts)]
CountsTell(counts) ==
    /\ counts.created = Cardinality({s \in Source : hub.snap[s] = 0 /\ hub'.snap[s] > 0})
    /\ counts.updated = Cardinality({s \in Source : /\ hub.snap[s] # 0
                                                     /\ hub'.snap[s] \notin {0, hub.snap[s]}})
ReceiptStep ==
    /\ Len(hub'.receipts) \in {Len(hub.receipts), Len(hub.receipts) + 1}
    /\ SubSeq(hub'.receipts, 1, Len(hub.receipts)) = hub.receipts
    /\ hub'.snap # hub.snap => hub'.receipts # hub.receipts
    /\ hub'.receipts # hub.receipts =>
          IF LastReceipt.succeeded THEN CountsTell(LastReceipt.counts)
          ELSE hub'.snap = hub.snap
ReceiptsAreTheHistory == [][ReceiptStep]_vars

\* The stored digest is that of the stored snapshot (status() returns both).
DigestIsTrue == hub.digest = [sources |-> Records(hub.snap), items |-> Records(hub.snap)]
====
