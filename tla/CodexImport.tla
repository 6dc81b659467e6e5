----------------------------- MODULE CodexImport -----------------------------
(***************************************************************************)
(* The background import of Codex history: CodexImportJobManager           *)
(* (work_ui.py) with its job files and source inventory, the parse threads *)
(* of a job, and what KnowledgeStore.sync keeps of a session.              *)
(*                                                                         *)
(* One executor thread runs the jobs.  It hands changed sessions to a pool *)
(* of parse threads, writes each parsed one to the store, counts it, and   *)
(* at the end replaces the inventory, by which the next job skips what did *)
(* not change.  Session files grow meanwhile, the process may be killed,   *)
(* and a second importer (work_ui.py import_codex_history, the command     *)
(* line) writes the same store without reading the inventory.              *)
(***************************************************************************)
EXTENDS Integers, FiniteSets

CONSTANTS Session,        \* Codex sessions, one selected file each
          Job,            \* job ids
          NoJob,
          ParseWorkers,   \* parse threads of a job (1 to 4 in the code)
          MaxVersion,     \* bound: how often a session file changes
          WritesMayFail,  \* whether writing a job file or the inventory may raise
          OtherImporter   \* whether a second importer runs

CodexImportAssumption ==
  /\ NoJob \notin Job /\ IsFiniteSet(Session)
  /\ ParseWorkers \in Nat \ {0} /\ MaxVersion \in Nat \ {0}
  /\ WritesMayFail \in BOOLEAN /\ OtherImporter \in BOOLEAN

VARIABLES file,       \* file[s]: version of the session file, 0 before it exists
          store,      \* store[s]: the version whose messages the store holds
          inventory,  \* inventory[s]: the version fingerprinted in the inventory
          mem,        \* mem[j]: the record of job j in _jobs
          disk,       \* disk[j]: the record in its file
          queued,     \* jobs handed to the executor and not taken up
          main,       \* the executor thread
          parse,      \* parse[s]: what became of the session in this job's pool
          other       \* what the second importer has parsed and not yet synced

vars == <<file, store, inventory, mem, disk, queued, main, parse, other>>

-----------------------------------------------------------------------------
Version  == 0..MaxVersion
Terminal == {"READY", "FAILED"}
Phase    == {"QUEUED", "DISCOVERING", "PROCESSING"} \cup Terminal
Count    == 0..Cardinality(Session)

Record == [phase : Phase, total : Count, processed : Count, running : Count,
           imported : Count, updated : Count, skipped : Count, failed : Count]
NoRecord == [phase |-> "NONE"]

\* Mutant of NewRecord: a count is missing.
NewRecordShort == [phase |-> "QUEUED", total |-> 0, processed |-> 0, running |-> 0,
                   imported |-> 0, updated |-> 0, skipped |-> 0]

NewRecord == [phase |-> "QUEUED", total |-> 0, processed |-> 0, running |-> 0,
              imported |-> 0, updated |-> 0, skipped |-> 0, failed |-> 0]

\* What one session adds to the counts; "none" adds nothing.
Verdict == {"none", "imported", "updated", "skipped", "failed"}

\* todo: paths not fingerprinted yet; next: the inventory being built; seen:
\* the fingerprints of the pending paths; session, verdict: what was synced
\* last and has to be counted.
Place == {"idle", "begin", "discover", "total", "scan", "collect", "count",
          "drain", "inventory", "ready", "fail", "failed"}
Main  == [pc : Place, job : Job \cup {NoJob}, todo : SUBSET Session,
          next : [Session -> Version], seen : [Session -> Version],
          verdict : Verdict]

Nothing == [s \in Session |-> 0]
Idle    == [pc |-> "idle", job |-> NoJob, todo |-> {}, next |-> Nothing,
            seen |-> Nothing, verdict |-> "none"]

\* version is 0 for a session that could not be parsed.
Parse == [state : {"none", "queued", "parsing", "over"}, version : Version]
NoParse == [state |-> "none", version |-> 0]

-----------------------------------------------------------------------------
Counted(record, verdict) ==
  CASE verdict = "none"     -> record
    [] verdict = "imported" -> [record EXCEPT !.processed = @ + 1, !.imported = @ + 1]
    [] verdict = "updated"  -> [record EXCEPT !.processed = @ + 1, !.updated = @ + 1]
    [] verdict = "skipped"  -> [record EXCEPT !.processed = @ + 1, !.skipped = @ + 1]
    [] verdict = "failed"   -> [record EXCEPT !.processed = @ + 1, !.failed = @ + 1]

Left(record, version) == [record EXCEPT !.running = IF @ > 0 THEN @ - 1 ELSE 0]

\* The record is changed in memory, then its file is replaced; if that raises,
\* memory stays changed.
Persist(j, record, ok) ==
  /\ ok \/ WritesMayFail
  /\ mem' = [mem EXCEPT ![j] = record]
  /\ disk' = IF ok THEN [disk EXCEPT ![j] = record] ELSE disk

Goto(pc) == main' = [main EXCEPT !.pc = pc]
At(pc)   == main.pc = pc
Mine     == mem[main.job]

Pooled == {s \in Session : parse[s].state # "none"}

\* Mutant of NextSeen: the fingerprint is taken after the session was parsed.
NextSeenLate(s) == file[s]

\* The fingerprint that goes into the inventory is the one of the scan.
NextSeen(s) == main.seen[s]

Disposition(s, version) ==
  IF store[s] = 0 THEN "imported"
  ELSE IF store[s] = version THEN "skipped" ELSE "updated"

\* Mutant of Interrupted: jobs of this process are looked up in their files too.
InterruptedByFile(j) ==
  disk[j] # NoRecord /\ disk[j].phase \notin Terminal

\* A job only its file knows was left behind by an earlier process.
Interrupted(j) ==
  mem[j] = NoRecord /\ disk[j] # NoRecord /\ disk[j].phase \notin Terminal

-----------------------------------------------------------------------------
Init ==
  /\ file \in [Session -> {0, 1}]
  /\ store = Nothing /\ inventory = Nothing
  /\ mem = [j \in Job |-> NoRecord] /\ disk = [j \in Job |-> NoRecord]
  /\ queued = {}
  /\ main = Idle
  /\ parse = [s \in Session |-> NoParse]
  /\ other = Nothing

\* submit() with no other job under way; otherwise it returns that job's id.
\* A job whose first write raises stays in _jobs without ever being submitted.
Submit(j, ok) ==
  /\ \A k \in Job : mem[k] # NoRecord => mem[k].phase \in Terminal
  /\ mem[j] = NoRecord /\ disk[j] = NoRecord
  /\ Persist(j, NewRecord, ok)
  /\ queued' = IF ok THEN queued \cup {j} ELSE queued
  /\ UNCHANGED <<file, store, inventory, main, parse, other>>

\* get() of a job this process does not know (latest() asks for all of them).
Get(j, ok) ==
  /\ Interrupted(j)
  /\ ok /\ disk' = [disk EXCEPT ![j].phase = "FAILED", ![j].running = 0]
  /\ UNCHANGED <<file, store, inventory, mem, queued, main, parse, other>>

Take(j) ==
  /\ At("idle") /\ j \in queued
  /\ queued' = queued \ {j}
  /\ main' = [Idle EXCEPT !.pc = "begin", !.job = j]
  /\ UNCHANGED <<file, store, inventory, mem, disk, parse, other>>

BeginDiscovery(ok) ==
  /\ At("begin")
  /\ Persist(main.job, [Mine EXCEPT !.phase = "DISCOVERING"], ok)
  /\ Goto(IF ok THEN "discover" ELSE "fail")
  /\ UNCHANGED <<file, store, inventory, queued, parse, other>>

\* Without any supported file the job fails.
Discover ==
  LET paths == {s \in Session : file[s] # 0} IN
  /\ At("discover")
  /\ main' = [main EXCEPT !.pc = IF paths = {} THEN "fail" ELSE "total", !.todo = paths]
  /\ UNCHANGED <<file, store, inventory, mem, disk, queued, parse, other>>

\* The inventory is read next; only this thread writes it.
AnnounceTotal(ok) ==
  /\ At("total")
  /\ Persist(main.job, [Mine EXCEPT !.phase = "PROCESSING",
                                    !.total = Cardinality(main.todo)], ok)
  /\ Goto(IF ok THEN "scan" ELSE "fail")
  /\ UNCHANGED <<file, store, inventory, queued, parse, other>>

\* One path of the scan: changed since the inventory, and left for the pool.
ScanChanged(s) ==
  /\ At("scan") /\ s \in main.todo /\ file[s] # inventory[s]
  /\ main' = [main EXCEPT !.todo = @ \ {s}, !.next[s] = inventory[s], !.seen[s] = file[s]]
  /\ UNCHANGED <<file, store, inventory, mem, disk, queued, parse, other>>

\* Unchanged, or its metadata cannot be read: counted at once.
ScanDone(s, verdict, ok) ==
  /\ At("scan") /\ s \in main.todo
  /\ \/ verdict = "skipped" /\ file[s] = inventory[s]
     \/ verdict = "failed"
  /\ Persist(main.job, Counted(Mine, verdict), ok)
  /\ main' = [main EXCEPT !.pc = IF ok THEN @ ELSE "fail",
                          !.todo = @ \ {s},
                          !.next[s] = IF verdict = "skipped" THEN file[s] ELSE 0]
  /\ UNCHANGED <<file, store, inventory, queued, parse, other>>

StartPool ==
  /\ At("scan") /\ main.todo = {}
  /\ parse' = [s \in Session |-> IF main.seen[s] = 0 THEN NoParse
                                 ELSE [state |-> "queued", version |-> 0]]
  /\ Goto("collect")
  /\ UNCHANGED <<file, store, inventory, mem, disk, queued, other>>

-----------------------------------------------------------------------------
\* parse_one in a thread of the pool.  A count that cannot be written fails
\* the session, before it is parsed or after.
StartParsing(s, ok) ==
  /\ parse[s].state = "queued"
  /\ Cardinality({x \in Session : parse[x].state = "parsing"}) < ParseWorkers
  /\ Persist(main.job, [Mine EXCEPT !.running = @ + 1], ok)
  /\ parse' = [parse EXCEPT ![s].state = IF ok THEN "parsing" ELSE "over"]
  /\ UNCHANGED <<file, store, inventory, queued, main, other>>

\* parse_codex_session reads one version or raises, SourceChangedError included.
FinishParsing(s, version, ok) ==
  /\ parse[s].state = "parsing"
  /\ version \in {0, file[s]}
  /\ Persist(main.job, Left(Mine, version), ok)
  /\ parse' = [parse EXCEPT ![s] = [state |-> "over", version |-> IF ok THEN version ELSE 0]]
  /\ UNCHANGED <<file, store, inventory, queued, main, other>>

-----------------------------------------------------------------------------
\* One completed future: it failed, the store refused it, or it was synced
\* (and may still count as failed, when closing the database raises).
Collect(s, verdict) ==
  LET version == parse[s].version IN
  /\ At("collect") /\ parse[s].state = "over"
  /\ \/ verdict = "failed" /\ UNCHANGED store
     \/ /\ version # 0 /\ verdict \in {"failed", Disposition(s, version)}
        /\ store' = [store EXCEPT ![s] = version]
  /\ parse' = [parse EXCEPT ![s] = NoParse]
  /\ main' = [main EXCEPT !.pc = "count", !.verdict = verdict,
                          !.next[s] = IF verdict = "failed" THEN main.next[s]
                                       ELSE NextSeen(s)]
  /\ UNCHANGED <<file, inventory, mem, disk, queued, other>>

CountOne(ok) ==
  /\ At("count")
  /\ Persist(main.job, Counted(Mine, main.verdict), ok)
  /\ main' = [main EXCEPT !.pc = IF ok THEN "collect" ELSE "drain", !.verdict = "none"]
  /\ UNCHANGED <<file, store, inventory, queued, parse, other>>

\* Leaving the pool's block by an exception waits for the parse threads.
Drain ==
  /\ At("drain")
  /\ \A s \in Session : parse[s].state \in {"none", "over"}
  /\ parse' = [s \in Session |-> NoParse]
  /\ Goto("fail")
  /\ UNCHANGED <<file, store, inventory, mem, disk, queued, other>>

Finished == Pooled = {}

WriteInventory(ok) ==
  /\ At("collect") /\ Finished
  /\ ok \/ WritesMayFail
  /\ inventory' = IF ok THEN main.next ELSE inventory
  /\ Goto(IF ok /\ Mine.imported + Mine.updated + Mine.skipped > 0 THEN "ready" ELSE "fail")
  /\ UNCHANGED <<file, store, mem, disk, queued, parse, other>>

\* A READY that cannot be written turns into a failure.
FinishReady(ok) ==
  /\ At("ready")
  /\ Persist(main.job, [Mine EXCEPT !.phase = "READY", !.running = 0], ok)
  /\ main' = IF ok THEN Idle ELSE [main EXCEPT !.pc = "fail"]
  /\ UNCHANGED <<file, store, inventory, queued, parse, other>>

\* _finish_failed writes the failure code, then the phase; what it raises
\* itself is lost with the thread's future.
RecordFailure(ok) ==
  /\ At("fail")
  /\ Persist(main.job, Mine, ok)
  /\ main' = IF ok THEN [main EXCEPT !.pc = "failed"] ELSE Idle
  /\ UNCHANGED <<file, store, inventory, queued, parse, other>>

FinishFailed(ok) ==
  /\ At("failed")
  /\ Persist(main.job, [Mine EXCEPT !.phase = "FAILED", !.running = 0], ok)
  /\ main' = Idle
  /\ UNCHANGED <<file, store, inventory, queued, parse, other>>

-----------------------------------------------------------------------------
\* A session goes on: its file is appended to or replaced.
Grow(s) ==
  /\ file[s] < MaxVersion
  /\ file' = [file EXCEPT ![s] = @ + 1]
  /\ UNCHANGED <<store, inventory, mem, disk, queued, main, parse, other>>

\* The process is killed; the next one starts with empty _jobs.
Restart ==
  /\ mem' = [j \in Job |-> NoRecord] /\ queued' = {} /\ main' = Idle
  /\ parse' = [s \in Session |-> NoParse]
  /\ UNCHANGED <<file, store, inventory, disk, other>>

\* import_codex_history parses every session, then syncs them in one
\* transaction; it neither reads nor writes the inventory.
OtherParses ==
  /\ OtherImporter /\ other = Nothing /\ \E s \in Session : file[s] # 0
  /\ other' = file
  /\ UNCHANGED <<file, store, inventory, mem, disk, queued, main, parse>>

OtherSyncs ==
  /\ other # Nothing
  /\ store' = [s \in Session |-> IF other[s] # 0 THEN other[s] ELSE store[s]]
  /\ other' = Nothing
  /\ UNCHANGED <<file, inventory, mem, disk, queued, main, parse>>

-----------------------------------------------------------------------------
Execute(ok) ==
  \/ \E j \in Job : Take(j)
  \/ BeginDiscovery(ok) \/ Discover \/ AnnounceTotal(ok)
  \/ \E s \in Session :
       \/ ScanChanged(s)
       \/ \E verdict \in Verdict : ScanDone(s, verdict, ok) \/ Collect(s, verdict)
  \/ StartPool \/ CountOne(ok) \/ Drain \/ WriteInventory(ok)
  \/ FinishReady(ok) \/ RecordFailure(ok) \/ FinishFailed(ok)

ParseOne(s, ok) ==
  StartParsing(s, ok) \/ \E version \in Version : FinishParsing(s, version, ok)

Next ==
  \/ \E ok \in BOOLEAN :
       \/ \E j \in Job : Submit(j, ok) \/ Get(j, ok)
       \/ Execute(ok)
       \/ \E s \in Session : ParseOne(s, ok)
  \/ \E s \in Session : Grow(s)
  \/ Restart \/ OtherParses \/ OtherSyncs

Spec == Init /\ [][Next]_vars

\* Threads that can run do: the executor and each thread of the pool.
Fairness ==
  /\ WF_vars(\E ok \in BOOLEAN : Execute(ok))
  /\ \A s \in Session : WF_vars(\E ok \in BOOLEAN : ParseOne(s, ok))

FairSpec == Spec /\ Fairness

-----------------------------------------------------------------------------
\* Records, threads and stores keep their shapes.
TypeOK ==
  /\ file \in [Session -> Version] /\ store \in [Session -> Version]
  /\ inventory \in [Session -> Version] /\ other \in [Session -> Version]
  /\ mem \in [Job -> Record \cup {NoRecord}] /\ disk \in [Job -> Record \cup {NoRecord}]
  /\ queued \subseteq Job /\ main \in Main /\ parse \in [Session -> Parse]

\* The inventory never claims what the store does not have: a session it calls
\* unchanged since version v is in the store at v or later, so skipping it
\* loses nothing, whatever grew, failed or was killed since.
InventoryBacked == \A s \in Session : inventory[s] <= store[s]

\* What a job shows adds up at every moment, in memory and in its file: each
\* processed session has one outcome, and a READY job processed all it found.
CountsAddUp ==
  \A j \in Job : \A r \in {mem[j], disk[j]} :
    r # NoRecord =>
      /\ r.processed = r.imported + r.updated + r.skipped + r.failed
      /\ r.phase \in {"PROCESSING", "READY"} => r.processed <= r.total
      /\ r.phase = "READY" => r.processed = r.total /\ r.running = 0

\* While files can be written the outcome in a job file is final: neither the
\* executor nor a reader that takes the job for an interrupted one changes it.
\* (A READY that could not be written is written by RecordFailure, then FAILED.)
ReceiptIsFinal ==
  [][\A j \in Job : disk[j] # NoRecord /\ disk[j].phase \in Terminal =>
       disk'[j] = disk[j]]_vars

\* Every job ends while the process lives, whatever its sessions contain.
UnderWay(j) == mem[j] # NoRecord /\ mem[j].phase \notin Terminal

EveryJobEnds == \A j \in Job : UnderWay(j) ~> ~UnderWay(j)

=============================================================================
