-------------------------- MODULE CodexImportProofs --------------------------
(***************************************************************************)
(* Proofs, for any sessions, jobs, parse threads and versions, of what the *)
(* import of Codex history promises: types, the counts of a job, what the  *)
(* inventory claims, and the finality of a job's file.                     *)
(*                                                                         *)
(* Two inductive invariants.  Accounts says where the sessions of the job  *)
(* in hand are: processed, to be scanned, in the pool or about to be       *)
(* counted, which add up to its total.  Versions orders, per session, the  *)
(* versions of the inventory, the store, the scan, the parse and the file. *)
(***************************************************************************)
EXTENDS CodexImport, FiniteSetTheorems, TLAPS

\* What every record in memory or in a file satisfies, whatever failed.
Sound(r) ==
  r # NoRecord =>
    /\ r \in Record
    /\ r.processed = r.imported + r.updated + r.skipped + r.failed
    /\ r.processed <= r.total
    /\ r.phase = "READY" => r.processed = r.total /\ r.running = 0

RecordsSound == \A j \in Job : Sound(mem[j]) /\ Sound(disk[j])

Before    == {"begin", "discover", "total"}
WithPool  == {"collect", "count", "drain"}
Waiting   == {s \in Session : parse[s].state = "queued"}
Scanned   == {s \in Session : main.seen[s] # 0}

\* Sessions of the job in hand that are not in its count of processed ones.
Outstanding ==
  CASE main.pc = "scan"    -> Cardinality(main.todo) + Cardinality(Scanned)
    [] main.pc = "collect" -> Cardinality(Pooled)
    [] main.pc = "count"   -> Cardinality(Pooled) + 1

\* The job in hand, by what the executor does next.
InHand ==
  /\ main.pc # "idle" => main.job \in Job /\ mem[main.job] \in Record
  /\ main.pc \in Before =>
       /\ mem[main.job].phase \in {"QUEUED", "DISCOVERING"}
       /\ mem[main.job].processed = 0 /\ mem[main.job].running = 0
       /\ main.seen = Nothing
  /\ main.pc \in {"total", "scan"} => \A s \in main.todo : file[s] # 0
  /\ main.pc \in {"scan"} \cup WithPool => mem[main.job].phase = "PROCESSING"
  /\ main.pc \in {"scan", "collect", "count"} =>
       mem[main.job].processed + Outstanding = mem[main.job].total
  /\ main.pc = "scan" => mem[main.job].running = 0 /\ main.todo \cap Scanned = {}
  /\ main.pc = "count" => main.verdict # "none"
  /\ main.pc = "ready" => mem[main.job].processed = mem[main.job].total

\* Only submitted jobs wait for the executor, as they were submitted.
QueueFresh ==
  \A j \in queued : mem[j] = NewRecord /\ (main.pc # "idle" => j # main.job)

\* The pool is busy only while its job collects, and each of its threads counts
\* itself as running at most once, whatever writes fail.
PoolInHand ==
  /\ \A s \in Session : parse[s].state # "none" => main.pc \in WithPool
  /\ main.pc \in WithPool =>
       mem[main.job].running + Cardinality(Waiting) <= Cardinality(Session)

Accounts == TypeOK /\ RecordsSound /\ InHand /\ QueueFresh /\ PoolInHand

-----------------------------------------------------------------------------
\* Sets of sessions are finite.
LEMMA Sessions ==
  ASSUME CodexImportAssumption, NEW S \in SUBSET Session
  PROVE  /\ IsFiniteSet(S) /\ Cardinality(S) \in Nat /\ Cardinality(Session) \in Nat
         /\ Cardinality(S) <= Cardinality(Session)
<1>1. IsFiniteSet(Session)
  BY DEF CodexImportAssumption
<1>2. IsFiniteSet(S) /\ Cardinality(S) <= Cardinality(Session)
  BY <1>1, FS_Subset
<1> QED
  BY <1>1, <1>2, FS_CardinalityType

\* A session more, or one less.
LEMMA OneMore ==
  ASSUME CodexImportAssumption, NEW S \in SUBSET Session, NEW s \in Session
  PROVE  /\ s \notin S => Cardinality(S \cup {s}) = Cardinality(S) + 1
         /\ s \in S => Cardinality(S \ {s}) = Cardinality(S) - 1
<1>1. IsFiniteSet(S)
  BY Sessions
<1> QED
  BY <1>1, FS_AddElement, FS_RemoveElement

\* Counting one session keeps a record sound while there is one to count.
LEMMA CountedIsSound ==
  ASSUME CodexImportAssumption, NEW r \in Record, Sound(r), NEW verdict \in Verdict \ {"none"},
         r.processed < r.total, r.phase # "READY"
  PROVE  /\ Counted(r, verdict) \in Record /\ Sound(Counted(r, verdict))
         /\ Counted(r, verdict).processed = r.processed + 1
         /\ Counted(r, verdict).total = r.total /\ Counted(r, verdict).phase = r.phase
         /\ Counted(r, verdict).running = r.running
<1> DEFINE q == Counted(r, verdict)
<1>0. Cardinality(Session) \in Nat
  BY Sessions
<1>1. r # NoRecord
  BY DEF Record, NoRecord
<1>2. /\ r.processed \in Nat /\ r.total \in Nat /\ r.imported \in Nat
      /\ r.updated \in Nat /\ r.skipped \in Nat /\ r.failed \in Nat
      /\ r.total <= Cardinality(Session)
      /\ r.processed = r.imported + r.updated + r.skipped + r.failed
  BY <1>0, <1>1 DEF Record, Count, Sound
<1>a. /\ r.processed + 1 \in Count /\ r.imported + 1 \in Count /\ r.updated + 1 \in Count
      /\ r.skipped + 1 \in Count /\ r.failed + 1 \in Count
  BY <1>0, <1>2 DEF Count
<1>3. CASE verdict = "imported"
  <2>1. q = [r EXCEPT !.processed = r.processed + 1, !.imported = r.imported + 1]
    BY <1>3 DEF Counted
  <2> HIDE DEF q
  <2>2. q \in Record /\ q.phase = r.phase /\ q.total = r.total /\ q.running = r.running
    BY <1>a, <2>1 DEF Record
  <2>3. q.processed = r.processed + 1 /\ q.imported = r.imported + 1 /\ q.updated = r.updated /\ q.skipped = r.skipped /\ q.failed = r.failed
    BY <2>1 DEF Record
  <2>4. Sound(q)
    BY <1>2, <2>2, <2>3 DEF Sound
  <2> QED
    BY <1>2, <2>2, <2>3, <2>4 DEF q
<1>4. CASE verdict = "updated"
  <2>1. q = [r EXCEPT !.processed = r.processed + 1, !.updated = r.updated + 1]
    BY <1>4 DEF Counted
  <2> HIDE DEF q
  <2>2. q \in Record /\ q.phase = r.phase /\ q.total = r.total /\ q.running = r.running
    BY <1>a, <2>1 DEF Record
  <2>3. q.processed = r.processed + 1 /\ q.imported = r.imported /\ q.updated = r.updated + 1 /\ q.skipped = r.skipped /\ q.failed = r.failed
    BY <2>1 DEF Record
  <2>4. Sound(q)
    BY <1>2, <2>2, <2>3 DEF Sound
  <2> QED
    BY <1>2, <2>2, <2>3, <2>4 DEF q
<1>5. CASE verdict = "skipped"
  <2>1. q = [r EXCEPT !.processed = r.processed + 1, !.skipped = r.skipped + 1]
    BY <1>5 DEF Counted
  <2> HIDE DEF q
  <2>2. q \in Record /\ q.phase = r.phase /\ q.total = r.total /\ q.running = r.running
    BY <1>a, <2>1 DEF Record
  <2>3. q.processed = r.processed + 1 /\ q.imported = r.imported /\ q.updated = r.updated /\ q.skipped = r.skipped + 1 /\ q.failed = r.failed
    BY <2>1 DEF Record
  <2>4. Sound(q)
    BY <1>2, <2>2, <2>3 DEF Sound
  <2> QED
    BY <1>2, <2>2, <2>3, <2>4 DEF q
<1>6. CASE verdict = "failed"
  <2>1. q = [r EXCEPT !.processed = r.processed + 1, !.failed = r.failed + 1]
    BY <1>6 DEF Counted
  <2> HIDE DEF q
  <2>2. q \in Record /\ q.phase = r.phase /\ q.total = r.total /\ q.running = r.running
    BY <1>a, <2>1 DEF Record
  <2>3. q.processed = r.processed + 1 /\ q.imported = r.imported /\ q.updated = r.updated /\ q.skipped = r.skipped /\ q.failed = r.failed + 1
    BY <2>1 DEF Record
  <2>4. Sound(q)
    BY <1>2, <2>2, <2>3 DEF Sound
  <2> QED
    BY <1>2, <2>2, <2>3, <2>4 DEF q
<1> QED
  BY <1>3, <1>4, <1>5, <1>6 DEF Verdict

\* Another phase, total or number of threads.
LEMMA PhasedIsSound ==
  ASSUME CodexImportAssumption, NEW r \in Record, Sound(r), NEW phase \in Phase \ {"READY"},
         NEW q, q \in {[r EXCEPT !.phase = phase], [r EXCEPT !.phase = phase, !.running = 0]}
  PROVE  /\ q \in Record /\ Sound(q) /\ q.phase = phase
         /\ q.processed = r.processed /\ q.total = r.total /\ q.running \in {r.running, 0}
<1>1. 0 \in Count
  BY Sessions DEF Count
<1>2. /\ q \in Record /\ q.phase = phase /\ q.running \in {r.running, 0}
      /\ q.processed = r.processed /\ q.total = r.total /\ q.imported = r.imported
      /\ q.updated = r.updated /\ q.skipped = r.skipped /\ q.failed = r.failed
  BY <1>1 DEF Record
<1>3. r # NoRecord
  BY DEF Record, NoRecord
<1> QED
  BY <1>2, <1>3 DEF Sound

\* A sound record of which all is processed stays sound when it becomes READY.
LEMMA ReadyIsSound ==
  ASSUME CodexImportAssumption, NEW r \in Record, Sound(r), r.processed = r.total,
         NEW q, q = [r EXCEPT !.phase = "READY", !.running = 0]
  PROVE  q \in Record /\ Sound(q)
<1>1. 0 \in Count
  BY Sessions DEF Count
<1>2. /\ q \in Record /\ q.running = 0
      /\ q.processed = r.processed /\ q.total = r.total /\ q.imported = r.imported
      /\ q.updated = r.updated /\ q.skipped = r.skipped /\ q.failed = r.failed
  BY <1>1 DEF Record, Phase, Terminal
<1>3. r # NoRecord
  BY DEF Record, NoRecord
<1> QED
  BY <1>2, <1>3 DEF Sound

\* A sound record stays sound when only its count of running threads changes.
LEMMA RunningIsSound ==
  ASSUME CodexImportAssumption, NEW r \in Record, Sound(r), r.phase # "READY", NEW n \in Count,
         NEW q, q = [r EXCEPT !.running = n]
  PROVE  /\ q \in Record /\ Sound(q) /\ q.phase = r.phase
         /\ q.processed = r.processed /\ q.total = r.total /\ q.running = n
<1>1. /\ q \in Record /\ q.phase = r.phase /\ q.running = n
      /\ q.processed = r.processed /\ q.total = r.total /\ q.imported = r.imported
      /\ q.updated = r.updated /\ q.skipped = r.skipped /\ q.failed = r.failed
  BY DEF Record
<1>2. r # NoRecord
  BY DEF Record, NoRecord
<1> QED
  BY <1>1, <1>2 DEF Sound

\* Writing a sound record keeps every record sound, whether it succeeds or not.
LEMMA PersistKeeps ==
  ASSUME TypeOK, RecordsSound, NEW j \in Job, NEW r \in Record, Sound(r),
         NEW ok \in BOOLEAN, Persist(j, r, ok)
  PROVE  /\ mem' \in [Job -> Record \cup {NoRecord}]
         /\ disk' \in [Job -> Record \cup {NoRecord}]
         /\ RecordsSound' /\ mem'[j] = r
         /\ \A k \in Job : k # j => mem'[k] = mem[k]
<1>1. /\ mem \in [Job -> Record \cup {NoRecord}] /\ disk \in [Job -> Record \cup {NoRecord}]
      /\ mem' = [mem EXCEPT ![j] = r]
      /\ disk' = disk \/ disk' = [disk EXCEPT ![j] = r]
  BY DEF TypeOK, Persist
<1>2. \A k \in Job : /\ mem'[k] = IF k = j THEN r ELSE mem[k]
                     /\ disk'[k] \in {r, disk[k]} /\ (disk'[k] = r => k = j \/ r = disk[k])
  BY <1>1
<1>3. mem' \in [Job -> Record \cup {NoRecord}] /\ disk' \in [Job -> Record \cup {NoRecord}]
  BY <1>1
<1>4. RecordsSound'
  <2> SUFFICES ASSUME NEW k \in Job PROVE Sound(mem'[k]) /\ Sound(disk'[k])
    BY DEF RecordsSound, Sound
  <2>1. Sound(mem[k]) /\ Sound(disk[k])
    BY DEF RecordsSound
  <2>2. mem'[k] \in {r, mem[k]} /\ disk'[k] \in {r, disk[k]}
    BY <1>2
  <2> QED
    BY <2>1, <2>2
<1> QED
  BY <1>2, <1>3, <1>4

-----------------------------------------------------------------------------
\* Nothing to do yet.
LEMMA InitAccounts == ASSUME CodexImportAssumption, Init PROVE Accounts
<1>1. /\ file \in [Session -> Version] /\ store \in [Session -> Version]
      /\ inventory \in [Session -> Version] /\ other \in [Session -> Version]
      /\ main \in Main /\ parse \in [Session -> Parse]
  <2>1. 0 \in Version /\ 1 \in Version
    BY DEF CodexImportAssumption, Version
  <2>2. file \in [Session -> Version]
    BY <2>1 DEF Init
  <2>3. main \in Main
    BY <2>1 DEF Init, Nothing, Main, Idle, Place, Verdict
  <2> QED
    BY <2>1, <2>2, <2>3 DEF Init, Nothing, Parse, NoParse
<1>2. TypeOK
  BY <1>1 DEF TypeOK, Init
<1>3. RecordsSound
  BY DEF RecordsSound, Sound, Init
<1>4. main.pc = "idle" /\ queued = {} /\ \A s \in Session : parse[s].state = "none"
  BY DEF Init, Idle, NoParse
<1>5. InHand /\ QueueFresh /\ PoolInHand
  BY <1>4 DEF InHand, QueueFresh, PoolInHand, Before, WithPool
<1> QED
  BY <1>2, <1>3, <1>5 DEF Accounts

\* The record of the job in hand.
LEMMA JobInHand ==
  ASSUME CodexImportAssumption, Accounts, main.pc # "idle"
  PROVE  /\ main.job \in Job /\ Mine \in Record /\ Sound(Mine) /\ Mine # NoRecord
         /\ Mine.processed = Mine.imported + Mine.updated + Mine.skipped + Mine.failed
         /\ Mine.processed <= Mine.total /\ Mine.total <= Cardinality(Session)
         /\ Mine.processed \in Nat /\ Mine.total \in Nat /\ Mine.running \in Nat
         /\ Cardinality(Session) \in Nat
<1>1. main.job \in Job /\ Mine \in Record
  BY DEF Accounts, InHand, Mine
<1>2. Sound(Mine)
  BY <1>1 DEF Accounts, RecordsSound, Mine
<1>3. Mine # NoRecord
  BY <1>1 DEF Record, NoRecord
<1>4. Cardinality(Session) \in Nat
  BY Sessions
<1>5. /\ Mine.processed \in Count /\ Mine.total \in Count /\ Mine.running \in Count
  BY <1>1 DEF Record
<1> QED
  BY <1>1, <1>2, <1>3, <1>4, <1>5 DEF Sound, Count

\* What a step of the executor or of its pool, that writes a sound record of the
\* job in hand, leaves as it was.
LEMMA HandPersists ==
  ASSUME CodexImportAssumption, Accounts, main.pc # "idle", NEW r \in Record, Sound(r),
         NEW ok \in BOOLEAN, Persist(main.job, r, ok), queued' = queued,
         main'.pc = "idle" \/ main'.job = main.job
  PROVE  /\ mem' \in [Job -> Record \cup {NoRecord}]
         /\ disk' \in [Job -> Record \cup {NoRecord}]
         /\ RecordsSound' /\ QueueFresh' /\ mem'[main.job] = r
<1>1. main.job \in Job
  BY JobInHand
<1>2. TypeOK /\ RecordsSound /\ QueueFresh /\ queued \subseteq Job
  BY DEF Accounts, TypeOK
<1>3. /\ mem' \in [Job -> Record \cup {NoRecord}]
      /\ disk' \in [Job -> Record \cup {NoRecord}]
      /\ RecordsSound' /\ mem'[main.job] = r
      /\ \A k \in Job : k # main.job => mem'[k] = mem[k]
  BY <1>1, <1>2, PersistKeeps
<1>4. QueueFresh'
  BY <1>2, <1>3 DEF QueueFresh
<1> QED
  BY <1>3, <1>4

\* A new job is written; the one in hand is another.
LEMMA SubmitStep ==
  ASSUME CodexImportAssumption, Accounts, NEW j \in Job, NEW ok \in BOOLEAN, Submit(j, ok)
  PROVE  Accounts'
<1> USE DEF Accounts
<1>1. NewRecord \in Record /\ Sound(NewRecord) /\ NewRecord # NoRecord
  <2>1. 0 \in Count
    BY Sessions DEF Count
  <2> QED
    BY <2>1 DEF NewRecord, NoRecord, Record, Sound, Phase
<1>2. /\ mem' \in [Job -> Record \cup {NoRecord}] /\ disk' \in [Job -> Record \cup {NoRecord}]
      /\ RecordsSound' /\ mem'[j] = NewRecord
      /\ \A k \in Job : k # j => mem'[k] = mem[k]
  BY <1>1, PersistKeeps DEF Submit
<1>3. TypeOK'
  BY <1>2 DEF Submit, TypeOK
<1>4. main.pc # "idle" => main.job \in Job /\ main.job # j /\ mem'[main.job] = mem[main.job]
  BY <1>2, JobInHand DEF Submit, Mine
<1>5. InHand'
  BY <1>4 DEF Submit, InHand, Before, WithPool, Outstanding, Scanned, Pooled
<1>6. QueueFresh'
  BY <1>2, <1>4 DEF Submit, QueueFresh, TypeOK
<1>7. PoolInHand'
  BY <1>4 DEF Submit, PoolInHand, WithPool, Waiting
<1> QED
  BY <1>2, <1>3, <1>5, <1>6, <1>7

\* A reader writes the file of a job of an earlier process.
LEMMA GetStep ==
  ASSUME CodexImportAssumption, Accounts, NEW j \in Job, NEW ok \in BOOLEAN, Get(j, ok)
  PROVE  Accounts'
<1> USE DEF Accounts
<1>1. disk[j] \in Record /\ Sound(disk[j])
  BY DEF Get, Interrupted, TypeOK, RecordsSound
<1> DEFINE q == [disk[j] EXCEPT !.phase = "FAILED", !.running = 0]
<1>2. q \in Record /\ Sound(q)
  BY <1>1, PhasedIsSound DEF Phase, Terminal
<1>3. disk' = [disk EXCEPT ![j] = q]
  BY <1>1 DEF Get, TypeOK, Record
<1> HIDE DEF q
<1>4. disk' \in [Job -> Record \cup {NoRecord}] /\ \A k \in Job : disk'[k] \in {q, disk[k]}
  BY <1>2, <1>3 DEF TypeOK
<1>5. TypeOK'
  BY <1>4 DEF Get, TypeOK
<1>6. RecordsSound'
  BY <1>2, <1>4 DEF Get, RecordsSound, Sound
<1>7. InHand'
  BY DEF Get, InHand, Before, WithPool, Outstanding, Scanned, Pooled
<1>8. QueueFresh' /\ PoolInHand'
  BY DEF Get, QueueFresh, PoolInHand, WithPool, Waiting
<1> QED
  BY <1>5, <1>6, <1>7, <1>8

\* The executor takes up a job as it was submitted.
LEMMA TakeStep ==
  ASSUME CodexImportAssumption, Accounts, NEW j \in Job, Take(j)
  PROVE  Accounts'
<1> USE DEF Accounts
<1>1. /\ main'.pc = "begin" /\ main'.job = j /\ main'.seen = Nothing /\ main' \in Main
  <2>1. 0 \in Version
    BY DEF CodexImportAssumption, Version
  <2> QED
    BY <2>1 DEF Take, Idle, Nothing, Main, Place, Verdict
<1>2. mem[j] = NewRecord /\ main.pc = "idle"
  BY DEF Take, At, QueueFresh
<1>3. mem[j] \in Record
  BY <1>2 DEF TypeOK, NewRecord, NoRecord
<1>4. TypeOK'
  BY <1>1 DEF Take, TypeOK
<1>5. RecordsSound'
  BY DEF Take, RecordsSound, Sound
<1>6. InHand'
  BY <1>1, <1>2, <1>3 DEF Take, InHand, Before, WithPool, NewRecord
<1>7. QueueFresh'
  BY <1>1 DEF Take, QueueFresh
<1>8. PoolInHand'
  BY <1>1, <1>2 DEF Take, PoolInHand, WithPool
<1> QED
  BY <1>4, <1>5, <1>6, <1>7, <1>8

\* The executor begins.
LEMMA BeginDiscoveryStep ==
  ASSUME CodexImportAssumption, Accounts, NEW ok \in BOOLEAN, BeginDiscovery(ok)
  PROVE  Accounts'
<1> USE DEF Accounts
<1> DEFINE q == [Mine EXCEPT !.phase = "DISCOVERING"]
<1>1. main.pc = "begin"
  BY DEF BeginDiscovery, At
<1>2. Mine \in Record /\ Sound(Mine)
  BY <1>1, JobInHand
<1>3. q \in Record /\ Sound(q) /\ q.phase = "DISCOVERING" /\ q.processed = Mine.processed
      /\ q.running = Mine.running
  BY <1>2, PhasedIsSound DEF Phase, Terminal, Record
<1>4. Persist(main.job, q, ok)
  BY DEF BeginDiscovery
<1> HIDE DEF q
<1>5. /\ main'.pc \in {"discover", "fail"} /\ main'.job = main.job
      /\ main'.seen = main.seen /\ main' \in Main
  BY DEF BeginDiscovery, Goto, Main, Place, TypeOK
<1>6. /\ mem' \in [Job -> Record \cup {NoRecord}] /\ disk' \in [Job -> Record \cup {NoRecord}]
      /\ RecordsSound' /\ QueueFresh' /\ mem'[main.job] = q
  BY <1>1, <1>3, <1>4, <1>5, HandPersists DEF BeginDiscovery
<1>7. TypeOK'
  BY <1>5, <1>6 DEF BeginDiscovery, TypeOK
<1>8. InHand'
  BY <1>1, <1>3, <1>5, <1>6, JobInHand DEF InHand, Before, WithPool, Mine
<1>9. PoolInHand'
  BY <1>1, <1>5 DEF BeginDiscovery, PoolInHand, WithPool
<1> QED
  BY <1>6, <1>7, <1>8, <1>9

\* The selected files are found.
LEMMA DiscoverStep ==
  ASSUME CodexImportAssumption, Accounts, Discover
  PROVE  Accounts'
<1> USE DEF Accounts
<1>1. main.pc = "discover"
  BY DEF Discover, At
<1>2. /\ main'.pc \in {"total", "fail"} /\ main'.job = main.job
      /\ main'.seen = main.seen /\ main' \in Main
  BY DEF Discover, Main, Place, TypeOK
<1>2a. main'.todo = {s \in Session : file[s] # 0}
  BY DEF Discover, Main, TypeOK
<1>3. TypeOK' /\ RecordsSound'
  BY <1>2 DEF Discover, TypeOK, RecordsSound, Sound
<1>4. InHand'
  BY <1>1, <1>2, <1>2a DEF Discover, InHand, Before, WithPool
<1>5. QueueFresh' /\ PoolInHand'
  BY <1>1, <1>2 DEF Discover, QueueFresh, PoolInHand, WithPool
<1> QED
  BY <1>3, <1>4, <1>5

\* Everything found has to be scanned.
LEMMA AnnounceTotalStep ==
  ASSUME CodexImportAssumption, Accounts, NEW ok \in BOOLEAN, AnnounceTotal(ok)
  PROVE  Accounts'
<1> USE DEF Accounts
<1> DEFINE n == Cardinality(main.todo)
           q == [Mine EXCEPT !.phase = "PROCESSING", !.total = n]
<1>1. main.pc = "total"
  BY DEF AnnounceTotal, At
<1>2. Mine \in Record /\ Sound(Mine) /\ Mine.processed = 0 /\ Mine.running = 0
      /\ main.seen = Nothing
  BY <1>1, JobInHand DEF InHand, Before, Mine
<1>3. n \in Count /\ n \in Nat
  BY Sessions DEF Count, TypeOK, Main
<1>5. Persist(main.job, q, ok)
  BY DEF AnnounceTotal
<1>q. q = [Mine EXCEPT !.phase = "PROCESSING", !.total = n]
  OBVIOUS
<1> HIDE DEF n, q
<1>4. q \in Record /\ Sound(q) /\ q.phase = "PROCESSING" /\ q.processed = 0 /\ q.total = n
      /\ q.running = 0
  <2>1. Mine \in Record /\ Sound(Mine) /\ Mine.processed = 0 /\ n \in Count
    BY <1>2, <1>3
  <2>2. /\ q \in Record /\ q.phase = "PROCESSING" /\ q.running = Mine.running
        /\ q.processed = Mine.processed /\ q.total = n /\ q.imported = Mine.imported
        /\ q.updated = Mine.updated /\ q.skipped = Mine.skipped /\ q.failed = Mine.failed
    BY <1>q, <2>1 DEF Record, Phase
  <2>3. Sound(q)
    BY <1>1, <1>3, <2>1, <2>2, JobInHand DEF Sound
  <2> QED
    BY <1>2, <2>2, <2>3
<1>6. /\ main'.pc \in {"scan", "fail"} /\ main'.job = main.job
      /\ main'.seen = main.seen /\ main'.todo = main.todo /\ main' \in Main
  BY DEF AnnounceTotal, Goto, Main, Place, TypeOK
<1>7. /\ mem' \in [Job -> Record \cup {NoRecord}] /\ disk' \in [Job -> Record \cup {NoRecord}]
      /\ RecordsSound' /\ QueueFresh' /\ mem'[main.job] = q
  BY <1>1, <1>4, <1>5, <1>6, HandPersists DEF AnnounceTotal
<1>8. TypeOK'
  BY <1>6, <1>7 DEF AnnounceTotal, TypeOK
<1>9. Scanned' = {} /\ Cardinality({}) = 0
  BY <1>2, <1>6, FS_EmptySet DEF Scanned, Nothing
<1>10. main'.pc = "scan" => Outstanding' = n
  BY <1>3, <1>6, <1>9 DEF Outstanding, n
<1>11. InHand'
  BY <1>1, <1>3, <1>4, <1>6, <1>7, <1>9, <1>10, JobInHand
     DEF AnnounceTotal, InHand, Before, WithPool
<1>12. PoolInHand'
  BY <1>1, <1>6 DEF AnnounceTotal, PoolInHand, WithPool
<1> QED
  BY <1>7, <1>8, <1>11, <1>12

\* A changed file goes from those to be scanned to those scanned.
LEMMA ScanChangedStep ==
  ASSUME CodexImportAssumption, Accounts, NEW s \in Session, ScanChanged(s)
  PROVE  Accounts'
<1> USE DEF Accounts
<1>1. main.pc = "scan" /\ s \in main.todo /\ file[s] # inventory[s]
  BY DEF ScanChanged, At
<1>2. /\ main'.pc = main.pc /\ main'.job = main.job /\ main'.todo = main.todo \ {s}
      /\ main'.seen = [main.seen EXCEPT ![s] = file[s]] /\ main' \in Main
  BY DEF ScanChanged, Main, TypeOK
<1>3. TypeOK' /\ RecordsSound'
  BY <1>2 DEF ScanChanged, TypeOK, RecordsSound, Sound
<1>4. main.todo \in SUBSET Session /\ main.todo \cap Scanned = {} /\ main.seen \in [Session -> Version]
      /\ main'.todo \in SUBSET Session
  BY <1>1, <1>2 DEF InHand, TypeOK, Main
<1>5. file[s] # 0
  BY <1>1 DEF InHand
<1>6. Scanned' = Scanned \cup {s} /\ s \notin Scanned /\ Scanned \in SUBSET Session
  BY <1>1, <1>2, <1>4, <1>5 DEF Scanned
<1>7. Cardinality(Scanned') = Cardinality(Scanned) + 1
      /\ Cardinality(main'.todo) = Cardinality(main.todo) - 1
      /\ Cardinality(Scanned) \in Nat /\ Cardinality(main.todo) \in Nat
  BY <1>1, <1>2, <1>4, <1>6, OneMore, Sessions
<1>8. Outstanding' = Outstanding
  BY <1>1, <1>2, <1>7 DEF Outstanding
<1>9. main'.todo \cap Scanned' = {}
  BY <1>2, <1>4, <1>6
<1>10. InHand'
  BY <1>1, <1>2, <1>8, <1>9 DEF ScanChanged, InHand, Before, WithPool
<1>11. QueueFresh' /\ PoolInHand'
  BY <1>1, <1>2 DEF ScanChanged, QueueFresh, PoolInHand, WithPool
<1> QED
  BY <1>3, <1>10, <1>11

\* The executor at rest, and the version 0, are of their types.
LEMMA Resting == ASSUME CodexImportAssumption PROVE Idle \in Main /\ 0 \in Version
<1>1. 0 \in Version
  BY DEF CodexImportAssumption, Version
<1> QED
  BY <1>1 DEF Idle, Nothing, Main, Place, Verdict

\* A path that needs no parsing is counted at once.
LEMMA ScanDoneStep ==
  ASSUME CodexImportAssumption, Accounts, NEW s \in Session, NEW verdict \in Verdict,
         NEW ok \in BOOLEAN, ScanDone(s, verdict, ok)
  PROVE  Accounts'
<1> USE DEF Accounts
<1>1. main.pc = "scan" /\ s \in main.todo /\ verdict \in Verdict \ {"none"}
  BY DEF ScanDone, At
<1>2. main.todo \in SUBSET Session /\ Scanned \in SUBSET Session
  BY DEF TypeOK, Main, Scanned
<1>3. /\ Cardinality(main.todo \ {s}) = Cardinality(main.todo) - 1
      /\ Cardinality(main.todo) \in Nat /\ Cardinality(main.todo \ {s}) \in Nat
      /\ Cardinality(Scanned) \in Nat
  BY <1>1, <1>2, OneMore, Sessions
<1>4. Mine.processed + Cardinality(main.todo) + Cardinality(Scanned) = Mine.total
  BY <1>1, <1>3, JobInHand DEF InHand, Outstanding, Mine
<1>5. Mine.processed < Mine.total /\ Mine.phase = "PROCESSING" /\ Mine.running = 0
  BY <1>1, <1>3, <1>4, JobInHand DEF InHand, Mine
<1> DEFINE q == Counted(Mine, verdict)
<1>6. /\ q \in Record /\ Sound(q) /\ q.processed = Mine.processed + 1 /\ q.total = Mine.total
      /\ q.phase = "PROCESSING" /\ q.running = 0
  BY <1>1, <1>5, JobInHand, CountedIsSound
<1>7. Persist(main.job, q, ok) /\ queued' = queued
  BY DEF ScanDone
<1> HIDE DEF q
<1>8. /\ main'.pc \in {"scan", "fail"} /\ main'.job = main.job /\ main'.todo = main.todo \ {s}
      /\ main'.seen = main.seen /\ main' \in Main
  <2>1. (IF verdict = "skipped" THEN file[s] ELSE 0) \in Version
    BY Resting DEF TypeOK
  <2> QED
    BY <1>1, <2>1 DEF ScanDone, Main, Place, TypeOK
<1>9. /\ mem' \in [Job -> Record \cup {NoRecord}] /\ disk' \in [Job -> Record \cup {NoRecord}]
      /\ RecordsSound' /\ QueueFresh' /\ mem'[main.job] = q
  BY <1>1, <1>6, <1>7, <1>8, HandPersists
<1>10. TypeOK'
  BY <1>8, <1>9 DEF ScanDone, TypeOK
<1>11. Scanned' = Scanned /\ (main.todo \ {s}) \cap Scanned = {}
       /\ \A x \in main.todo \ {s} : file'[x] # 0
  BY <1>1, <1>8 DEF ScanDone, InHand, Scanned
<1>12. main'.pc = "scan" => q.processed + Outstanding' = q.total
  <2>1. main'.pc = "scan" => Outstanding' = Cardinality(main.todo \ {s}) + Cardinality(Scanned)
    BY <1>8, <1>11 DEF Outstanding
  <2> QED
    BY <1>1, <1>3, <1>4, <1>6, <2>1, JobInHand
<1>13. InHand'
  BY <1>6, <1>8, <1>9, <1>11, <1>12, <1>1, JobInHand DEF InHand, Before, WithPool
<1>14. PoolInHand'
  BY <1>1, <1>8 DEF ScanDone, PoolInHand, WithPool
<1> QED
  BY <1>9, <1>10, <1>13, <1>14

\* The sessions scanned are handed to the pool.
LEMMA StartPoolStep ==
  ASSUME CodexImportAssumption, Accounts, StartPool
  PROVE  Accounts'
<1> USE DEF Accounts
<1>1. main.pc = "scan" /\ main.todo = {}
  BY DEF StartPool, At
<1>2. /\ main'.pc = "collect" /\ main'.job = main.job /\ main'.seen = main.seen /\ main' \in Main
  BY DEF StartPool, Goto, Main, Place, TypeOK
<1>3. \A s \in Session : parse'[s].state = IF main.seen[s] = 0 THEN "none" ELSE "queued"
  BY DEF StartPool, NoParse
<1>4. parse' \in [Session -> Parse]
  BY Resting DEF StartPool, Parse, NoParse
<1>5. TypeOK' /\ RecordsSound' /\ QueueFresh'
  BY <1>1, <1>2, <1>4 DEF StartPool, TypeOK, RecordsSound, Sound, QueueFresh
<1>6. Pooled' = Scanned /\ Waiting' = Scanned
  BY <1>3 DEF Pooled, Waiting, Scanned
<1>7. Cardinality(Scanned) \in Nat /\ Cardinality(Scanned) <= Cardinality(Session)
      /\ Cardinality(main.todo) = 0 /\ Cardinality(Session) \in Nat
  BY <1>1, Sessions, FS_EmptySet DEF Scanned
<1>8. Outstanding = Outstanding'
  BY <1>1, <1>2, <1>6, <1>7 DEF Outstanding
<1>9. InHand'
  BY <1>1, <1>2, <1>8 DEF StartPool, InHand, Before, WithPool
<1>10. PoolInHand'
  BY <1>1, <1>2, <1>6, <1>7 DEF StartPool, PoolInHand, WithPool, InHand
<1> QED
  BY <1>5, <1>9, <1>10

\* A thread of the pool counts itself as running.
LEMMA StartParsingStep ==
  ASSUME CodexImportAssumption, Accounts, NEW s \in Session, NEW ok \in BOOLEAN,
         StartParsing(s, ok)
  PROVE  Accounts'
<1> USE DEF Accounts
<1>1. parse[s].state = "queued" /\ main.pc \in WithPool /\ main.pc # "idle"
  BY DEF StartParsing, PoolInHand, WithPool
<1>2. s \in Waiting /\ Waiting \in SUBSET Session
  BY <1>1 DEF Waiting
<1>3. /\ Cardinality(Waiting \ {s}) = Cardinality(Waiting) - 1
      /\ Cardinality(Waiting) \in Nat /\ Cardinality(Waiting \ {s}) \in Nat
  BY <1>2, OneMore, Sessions
<1>4. Mine.running + Cardinality(Waiting) <= Cardinality(Session)
  BY <1>1 DEF PoolInHand, Mine
<1>5. Mine.running + 1 \in Count
  BY <1>3, <1>4, JobInHand, <1>1 DEF Count
<1>6. Mine.phase = "PROCESSING"
  BY <1>1 DEF InHand, Mine
<1> DEFINE n == Mine.running + 1
           q == [Mine EXCEPT !.running = n]
<1>7. Persist(main.job, q, ok) /\ queued' = queued /\ main' = main
  BY DEF StartParsing
<1> HIDE DEF n
<1>8. /\ q \in Record /\ Sound(q) /\ q.processed = Mine.processed /\ q.total = Mine.total
      /\ q.phase = "PROCESSING" /\ q.running = n
  BY <1>1, <1>5, <1>6, JobInHand, RunningIsSound DEF n
<1> HIDE DEF q
<1>9. /\ mem' \in [Job -> Record \cup {NoRecord}] /\ disk' \in [Job -> Record \cup {NoRecord}]
      /\ RecordsSound' /\ QueueFresh' /\ mem'[main.job] = q
  BY <1>1, <1>7, <1>8, HandPersists
<1>10. /\ parse' \in [Session -> Parse] /\ parse'[s].state \in {"parsing", "over"}
       /\ \A x \in Session : x # s => parse'[x] = parse[x]
  BY DEF StartParsing, TypeOK, Parse
<1>11. Pooled' = Pooled
  BY <1>1, <1>10 DEF Pooled
<1>12. Waiting' = Waiting \ {s}
  BY <1>1, <1>10 DEF Waiting
<1>13. TypeOK'
  BY <1>7, <1>9, <1>10 DEF StartParsing, TypeOK
<1>14. main.pc \in {"collect", "count"} => Outstanding' = Outstanding
  BY <1>7, <1>11 DEF Outstanding
<1>15. InHand'
  BY <1>1, <1>7, <1>8, <1>9, <1>14, JobInHand DEF StartParsing, InHand, Before, WithPool, Mine
<1>16. mem'[main'.job].running + Cardinality(Waiting') <= Cardinality(Session)
  BY <1>3, <1>4, <1>7, <1>8, <1>9, <1>12, <1>1, JobInHand DEF n
<1>17. PoolInHand'
  BY <1>1, <1>7, <1>16 DEF PoolInHand
<1> QED
  BY <1>9, <1>13, <1>15, <1>17

\* A thread of the pool is done with its session.
LEMMA FinishParsingStep ==
  ASSUME CodexImportAssumption, Accounts, NEW s \in Session, NEW version \in Version,
         NEW ok \in BOOLEAN, FinishParsing(s, version, ok)
  PROVE  Accounts'
<1> USE DEF Accounts
<1>1. parse[s].state = "parsing" /\ main.pc \in WithPool /\ main.pc # "idle"
  BY DEF FinishParsing, PoolInHand, WithPool
<1>2. Cardinality(Waiting) \in Nat
  BY Sessions DEF Waiting
<1>3. Mine.running + Cardinality(Waiting) <= Cardinality(Session)
  BY <1>1 DEF PoolInHand, Mine
<1> DEFINE n == IF Mine.running > 0 THEN Mine.running - 1 ELSE 0
           q == [Mine EXCEPT !.running = n]
<1>4. n \in Nat /\ n <= Mine.running
  BY <1>1, JobInHand
<1>5. n \in Count
  BY <1>2, <1>3, <1>4, <1>1, JobInHand DEF Count
<1>6. Mine.phase = "PROCESSING"
  BY <1>1 DEF InHand, Mine
<1>7. Persist(main.job, q, ok) /\ queued' = queued /\ main' = main
  BY DEF FinishParsing, Left
<1> HIDE DEF n
<1>8. /\ q \in Record /\ Sound(q) /\ q.processed = Mine.processed /\ q.total = Mine.total
      /\ q.phase = "PROCESSING" /\ q.running = n
  BY <1>1, <1>5, <1>6, JobInHand, RunningIsSound
<1> HIDE DEF q
<1>9. /\ mem' \in [Job -> Record \cup {NoRecord}] /\ disk' \in [Job -> Record \cup {NoRecord}]
      /\ RecordsSound' /\ QueueFresh' /\ mem'[main.job] = q
  BY <1>1, <1>7, <1>8, HandPersists
<1>10. /\ parse' \in [Session -> Parse] /\ parse'[s].state = "over"
       /\ \A x \in Session : x # s => parse'[x] = parse[x]
  BY Resting DEF FinishParsing, TypeOK, Parse
<1>11. Pooled' = Pooled /\ Waiting' = Waiting
  BY <1>1, <1>10 DEF Pooled, Waiting
<1>13. TypeOK'
  BY <1>7, <1>9, <1>10 DEF FinishParsing, TypeOK
<1>14. main.pc \in {"collect", "count"} => Outstanding' = Outstanding
  BY <1>7, <1>11 DEF Outstanding
<1>15. InHand'
  BY <1>1, <1>7, <1>8, <1>9, <1>14, JobInHand DEF FinishParsing, InHand, Before, WithPool, Mine
<1>16. mem'[main'.job].running + Cardinality(Waiting') <= Cardinality(Session)
  BY <1>2, <1>3, <1>4, <1>7, <1>8, <1>9, <1>11, <1>1, JobInHand
<1>17. PoolInHand'
  BY <1>1, <1>7, <1>16 DEF PoolInHand
<1> QED
  BY <1>9, <1>13, <1>15, <1>17

\* A parsed session leaves the pool and has to be counted.
LEMMA CollectStep ==
  ASSUME CodexImportAssumption, Accounts, NEW s \in Session, NEW verdict \in Verdict,
         Collect(s, verdict)
  PROVE  Accounts'
<1> USE DEF Accounts
<1>1. main.pc = "collect" /\ parse[s].state = "over" /\ verdict # "none"
  BY DEF Collect, At, Disposition
<1>2. parse[s] \in Parse /\ parse[s].version \in Version
  BY DEF TypeOK, Parse
<1>3. store' \in [Session -> Version]
  BY <1>2 DEF Collect, TypeOK
<1>4. /\ main'.pc = "count" /\ main'.job = main.job /\ main'.verdict = verdict
      /\ main'.seen = main.seen /\ main'.todo = main.todo /\ main' \in Main
  <2>1. (IF verdict = "failed" THEN main.next[s] ELSE NextSeen(s)) \in Version
    BY DEF TypeOK, Main, NextSeen
  <2> QED
    BY <2>1 DEF Collect, Main, Place, TypeOK
<1>5. /\ parse' \in [Session -> Parse] /\ parse'[s].state = "none"
      /\ \A x \in Session : x # s => parse'[x] = parse[x]
  BY Resting DEF Collect, TypeOK, Parse, NoParse
<1>6. Pooled' = Pooled \ {s} /\ s \in Pooled /\ Waiting' = Waiting /\ Pooled \in SUBSET Session
  BY <1>1, <1>5 DEF Pooled, Waiting
<1>7. Cardinality(Pooled \ {s}) = Cardinality(Pooled) - 1 /\ Cardinality(Pooled) \in Nat
  BY <1>6, OneMore, Sessions
<1>8. Outstanding' = Outstanding
  BY <1>1, <1>4, <1>6, <1>7 DEF Outstanding
<1>9. TypeOK' /\ RecordsSound' /\ QueueFresh'
  BY <1>1, <1>3, <1>4, <1>5 DEF Collect, TypeOK, RecordsSound, Sound, QueueFresh
<1>10. InHand'
  BY <1>1, <1>4, <1>8 DEF Collect, InHand, Before, WithPool
<1>11. PoolInHand'
  BY <1>1, <1>4, <1>6 DEF Collect, PoolInHand, WithPool
<1> QED
  BY <1>9, <1>10, <1>11

\* It is counted.
LEMMA CountOneStep ==
  ASSUME CodexImportAssumption, Accounts, NEW ok \in BOOLEAN, CountOne(ok)
  PROVE  Accounts'
<1> USE DEF Accounts
<1>1. main.pc = "count" /\ main.verdict \in Verdict \ {"none"} /\ main.pc # "idle"
  BY DEF CountOne, At, TypeOK, Main, InHand
<1>2. Cardinality(Pooled) \in Nat
  BY Sessions DEF Pooled
<1>3. Mine.processed + Cardinality(Pooled) + 1 = Mine.total
  BY <1>1, <1>2, JobInHand DEF InHand, Outstanding, Mine
<1>4. Mine.processed < Mine.total /\ Mine.phase = "PROCESSING"
  BY <1>1, <1>2, <1>3, JobInHand DEF InHand, WithPool, Mine
<1> DEFINE q == Counted(Mine, main.verdict)
<1>5. /\ q \in Record /\ Sound(q) /\ q.processed = Mine.processed + 1 /\ q.total = Mine.total
      /\ q.phase = "PROCESSING" /\ q.running = Mine.running
  BY <1>1, <1>4, JobInHand, CountedIsSound
<1>6. Persist(main.job, q, ok) /\ queued' = queued
  BY DEF CountOne
<1> HIDE DEF q
<1>7. /\ main'.pc \in {"collect", "drain"} /\ main'.job = main.job
      /\ main'.seen = main.seen /\ main'.todo = main.todo /\ main' \in Main
  BY DEF CountOne, Main, Place, Verdict, TypeOK
<1>8. /\ mem' \in [Job -> Record \cup {NoRecord}] /\ disk' \in [Job -> Record \cup {NoRecord}]
      /\ RecordsSound' /\ QueueFresh' /\ mem'[main.job] = q
  BY <1>1, <1>5, <1>6, <1>7, HandPersists
<1>9. TypeOK'
  BY <1>7, <1>8 DEF CountOne, TypeOK
<1>10. Pooled' = Pooled /\ Waiting' = Waiting
  BY DEF CountOne, Pooled, Waiting
<1>11. main'.pc = "collect" => q.processed + Outstanding' = q.total
  <2>1. main'.pc = "collect" => Outstanding' = Cardinality(Pooled)
    BY <1>7, <1>10 DEF Outstanding
  <2> QED
    BY <1>1, <1>2, <1>3, <1>5, <2>1, JobInHand
<1>12. InHand'
  BY <1>1, <1>5, <1>7, <1>8, <1>11, JobInHand DEF InHand, Before, WithPool
<1>13. PoolInHand'
  BY <1>1, <1>5, <1>7, <1>8, <1>10 DEF CountOne, PoolInHand, WithPool, Mine
<1> QED
  BY <1>8, <1>9, <1>12, <1>13

\* An exception waits for the pool.
LEMMA DrainStep ==
  ASSUME CodexImportAssumption, Accounts, Drain
  PROVE  Accounts'
<1> USE DEF Accounts
<1>1. main.pc = "drain"
  BY DEF Drain, At
<1>2. main'.pc = "fail" /\ main'.job = main.job /\ main' \in Main
  BY DEF Drain, Goto, Main, Place, TypeOK
<1>3. parse' \in [Session -> Parse] /\ \A s \in Session : parse'[s].state = "none"
  BY Resting DEF Drain, Parse, NoParse
<1>4. TypeOK' /\ RecordsSound' /\ QueueFresh'
  BY <1>1, <1>2, <1>3 DEF Drain, TypeOK, RecordsSound, Sound, QueueFresh
<1>5. InHand' /\ PoolInHand'
  BY <1>1, <1>2, <1>3 DEF Drain, InHand, PoolInHand, Before, WithPool
<1> QED
  BY <1>4, <1>5

\* When the pool is empty every session of the job was processed.
LEMMA WriteInventoryStep ==
  ASSUME CodexImportAssumption, Accounts, NEW ok \in BOOLEAN, WriteInventory(ok)
  PROVE  Accounts'
<1> USE DEF Accounts
<1>1. main.pc = "collect" /\ Pooled = {} /\ main.pc # "idle"
  BY DEF WriteInventory, At, Finished
<1>2. main'.pc \in {"ready", "fail"} /\ main'.job = main.job /\ main' \in Main
  BY DEF WriteInventory, Goto, Main, Place, TypeOK
<1>3. inventory' \in [Session -> Version]
  BY DEF WriteInventory, TypeOK, Main
<1>4. TypeOK' /\ RecordsSound' /\ QueueFresh'
  BY <1>1, <1>2, <1>3 DEF WriteInventory, TypeOK, RecordsSound, Sound, QueueFresh
<1>5. Cardinality(Pooled) = 0
  BY <1>1, FS_EmptySet
<1>6. mem[main.job].processed = mem[main.job].total
  BY <1>1, <1>5, JobInHand DEF InHand, Outstanding, Mine
<1>7. InHand'
  BY <1>1, <1>2, <1>6 DEF WriteInventory, InHand, Before, WithPool
<1>8. PoolInHand'
  BY <1>1, <1>2 DEF WriteInventory, PoolInHand, WithPool, Pooled
<1> QED
  BY <1>4, <1>7, <1>8

\* READY is written of a job that processed all it found.
LEMMA FinishReadyStep ==
  ASSUME CodexImportAssumption, Accounts, NEW ok \in BOOLEAN, FinishReady(ok)
  PROVE  Accounts'
<1> USE DEF Accounts
<1>1. main.pc = "ready" /\ main.pc # "idle"
  BY DEF FinishReady, At
<1>2. Mine.processed = Mine.total
  BY <1>1 DEF InHand, Mine
<1> DEFINE q == [Mine EXCEPT !.phase = "READY", !.running = 0]
<1>3. q \in Record /\ Sound(q)
  BY <1>1, <1>2, JobInHand, ReadyIsSound
<1>4. Persist(main.job, q, ok) /\ queued' = queued
  BY DEF FinishReady
<1> HIDE DEF q
<1>5. (main' = Idle \/ (main'.pc = "fail" /\ main'.job = main.job)) /\ main' \in Main
  BY Resting DEF FinishReady, Main, Place, TypeOK
<1>6. /\ mem' \in [Job -> Record \cup {NoRecord}] /\ disk' \in [Job -> Record \cup {NoRecord}]
      /\ RecordsSound' /\ QueueFresh' /\ mem'[main.job] = q
  BY <1>1, <1>3, <1>4, <1>5, HandPersists DEF Idle
<1>7. TypeOK'
  BY <1>5, <1>6 DEF FinishReady, TypeOK
<1>8. InHand'
  BY <1>1, <1>3, <1>5, <1>6, JobInHand DEF InHand, Before, WithPool, Idle
<1>9. PoolInHand'
  BY <1>1, <1>5 DEF FinishReady, PoolInHand, WithPool, Idle
<1> QED
  BY <1>6, <1>7, <1>8, <1>9

\* The failure code is written; the record keeps its phase.
LEMMA RecordFailureStep ==
  ASSUME CodexImportAssumption, Accounts, NEW ok \in BOOLEAN, RecordFailure(ok)
  PROVE  Accounts'
<1> USE DEF Accounts
<1>1. main.pc = "fail" /\ main.pc # "idle"
  BY DEF RecordFailure, At
<1>2. Mine \in Record /\ Sound(Mine)
  BY <1>1, JobInHand
<1>3. Persist(main.job, Mine, ok) /\ queued' = queued
  BY DEF RecordFailure
<1>4. (main' = Idle \/ (main'.pc = "failed" /\ main'.job = main.job)) /\ main' \in Main
  BY Resting DEF RecordFailure, Main, Place, TypeOK
<1>5. /\ mem' \in [Job -> Record \cup {NoRecord}] /\ disk' \in [Job -> Record \cup {NoRecord}]
      /\ RecordsSound' /\ QueueFresh' /\ mem'[main.job] = Mine
  BY <1>1, <1>2, <1>3, <1>4, HandPersists DEF Idle
<1>6. TypeOK'
  BY <1>4, <1>5 DEF RecordFailure, TypeOK
<1>7. InHand'
  BY <1>1, <1>2, <1>4, <1>5, JobInHand DEF InHand, Before, WithPool, Idle
<1>8. PoolInHand'
  BY <1>1, <1>4 DEF RecordFailure, PoolInHand, WithPool, Idle
<1> QED
  BY <1>5, <1>6, <1>7, <1>8

\* Then the phase.
LEMMA FinishFailedStep ==
  ASSUME CodexImportAssumption, Accounts, NEW ok \in BOOLEAN, FinishFailed(ok)
  PROVE  Accounts'
<1> USE DEF Accounts
<1>1. main.pc = "failed" /\ main.pc # "idle"
  BY DEF FinishFailed, At
<1> DEFINE q == [Mine EXCEPT !.phase = "FAILED", !.running = 0]
<1>2. q \in Record /\ Sound(q)
  BY <1>1, JobInHand, PhasedIsSound DEF Phase, Terminal
<1>3. Persist(main.job, q, ok) /\ queued' = queued
  BY DEF FinishFailed
<1> HIDE DEF q
<1>4. main' = Idle /\ main' \in Main
  BY Resting DEF FinishFailed
<1>5. /\ mem' \in [Job -> Record \cup {NoRecord}] /\ disk' \in [Job -> Record \cup {NoRecord}]
      /\ RecordsSound' /\ QueueFresh' /\ mem'[main.job] = q
  BY <1>1, <1>2, <1>3, <1>4, HandPersists DEF Idle
<1>6. TypeOK'
  BY <1>4, <1>5 DEF FinishFailed, TypeOK
<1>7. InHand' /\ PoolInHand'
  BY <1>1, <1>4 DEF FinishFailed, InHand, PoolInHand, Before, WithPool, Idle
<1> QED
  BY <1>5, <1>6, <1>7

\* Sessions grow, the process is killed, another importer runs.
LEMMA OutsideStep ==
  ASSUME CodexImportAssumption, Accounts,
         (\E s \in Session : Grow(s)) \/ Restart \/ OtherParses \/ OtherSyncs
  PROVE  Accounts'
<1> USE DEF Accounts
<1>1. ASSUME NEW s \in Session, Grow(s) PROVE Accounts'
  <2>1. file[s] \in Version /\ file[s] < MaxVersion /\ file' = [file EXCEPT ![s] = file[s] + 1]
    BY <1>1 DEF Grow, TypeOK
  <2>2. file[s] + 1 \in Version /\ file[s] + 1 # 0
    BY <2>1 DEF Version, CodexImportAssumption
  <2>3. file' \in [Session -> Version] /\ \A x \in Session : file[x] # 0 => file'[x] # 0
    BY <2>1, <2>2 DEF TypeOK
  <2>4. TypeOK' /\ RecordsSound' /\ QueueFresh' /\ PoolInHand'
    BY <1>1, <2>3 DEF Grow, TypeOK, RecordsSound, Sound, QueueFresh, PoolInHand, Waiting
  <2>5. Outstanding' = Outstanding /\ Scanned' = Scanned /\ main.todo \subseteq Session
    BY <1>1 DEF Grow, Outstanding, Scanned, Pooled, TypeOK, Main
  <2>6. InHand'
    BY <1>1, <2>3, <2>5 DEF Grow, InHand
  <2> QED
    BY <2>4, <2>6
<1>2. CASE Restart
  <2>1. main' = Idle /\ main' \in Main /\ queued' = {} /\ main'.pc = "idle"
        /\ parse' \in [Session -> Parse] /\ \A s \in Session : parse'[s].state = "none"
    BY <1>2, Resting DEF Restart, Parse, NoParse, Idle
  <2>2. TypeOK' /\ RecordsSound' /\ QueueFresh'
    BY <1>2, <2>1 DEF Restart, TypeOK, RecordsSound, Sound, QueueFresh
  <2>3. InHand' /\ PoolInHand'
    BY <2>1 DEF InHand, PoolInHand, Before, WithPool
  <2> QED
    BY <2>2, <2>3
<1>3. CASE OtherParses \/ OtherSyncs
  <2>1. /\ main' = main /\ parse' = parse /\ mem' = mem /\ disk' = disk /\ queued' = queued
        /\ file' = file /\ inventory' = inventory
    BY <1>3 DEF OtherParses, OtherSyncs
  <2>2. store' \in [Session -> Version] /\ other' \in [Session -> Version]
    BY <1>3, Resting DEF OtherParses, OtherSyncs, TypeOK, Nothing
  <2>3. TypeOK' /\ RecordsSound' /\ QueueFresh' /\ PoolInHand'
    BY <2>1, <2>2 DEF TypeOK, RecordsSound, Sound, QueueFresh, PoolInHand, Waiting
  <2>4. Outstanding' = Outstanding /\ Scanned' = Scanned
    BY <2>1 DEF Outstanding, Scanned, Pooled
  <2>5. InHand'
    BY <2>1, <2>4 DEF InHand
  <2> QED
    BY <2>3, <2>5
<1> QED
  BY <1>1, <1>2, <1>3

\* Every step keeps the accounts.
LEMMA NextAccounts ==
  ASSUME CodexImportAssumption, Accounts, [Next]_vars
  PROVE  Accounts'
<1>1. CASE UNCHANGED vars
  <2>1. Outstanding' = Outstanding /\ Scanned' = Scanned /\ Waiting' = Waiting
    BY <1>1 DEF vars, Outstanding, Scanned, Waiting, Pooled
  <2> QED
    BY <1>1, <2>1 DEF vars, Accounts, TypeOK, RecordsSound, Sound, InHand, QueueFresh, PoolInHand
<1>2. ASSUME NEW ok \in BOOLEAN, Execute(ok) PROVE Accounts'
  BY <1>2, TakeStep, BeginDiscoveryStep, DiscoverStep, AnnounceTotalStep, ScanChangedStep,
     ScanDoneStep, CollectStep, StartPoolStep, CountOneStep, DrainStep, WriteInventoryStep,
     FinishReadyStep, RecordFailureStep, FinishFailedStep DEF Execute
<1>3. ASSUME NEW s \in Session, NEW ok \in BOOLEAN, ParseOne(s, ok) PROVE Accounts'
  BY <1>3, StartParsingStep, FinishParsingStep DEF ParseOne
<1>4. ASSUME NEW ok \in BOOLEAN, NEW j \in Job, Submit(j, ok) \/ Get(j, ok) PROVE Accounts'
  BY <1>4, SubmitStep, GetStep
<1> QED
  BY <1>1, <1>2, <1>3, <1>4, OutsideStep DEF Next

\* In every state the sessions of the job in hand are accounted for.
THEOREM AccountsInvariance == ASSUME CodexImportAssumption PROVE Spec => []Accounts
  BY InitAccounts, NextAccounts, PTL DEF Spec

\* What a job shows adds up, whatever could not be parsed or written.
LEMMA AccountsAddUp == ASSUME CodexImportAssumption, Accounts PROVE CountsAddUp
  BY DEF Accounts, RecordsSound, Sound, CountsAddUp

-----------------------------------------------------------------------------
\* The versions of a session, while nobody else writes the store: none of the
\* inventory, old or new, is above the store, and what the store gets next is
\* neither below it nor below what the scan saw.
Versions ==
  ~OtherImporter =>
    /\ other = Nothing
    /\ \A s \in Session :
         /\ inventory[s] <= store[s] /\ store[s] <= file[s]
         /\ main.next[s] <= store[s] /\ main.seen[s] <= file[s]
         /\ parse[s].state # "none" /\ parse[s].version # 0 =>
              /\ main.seen[s] <= parse[s].version /\ store[s] <= parse[s].version
              /\ parse[s].version <= file[s]

\* Versions are numbers.
LEMMA VersionTypes ==
  ASSUME CodexImportAssumption, TypeOK, NEW s \in Session
  PROVE  /\ file[s] \in Nat /\ store[s] \in Nat /\ inventory[s] \in Nat /\ other[s] \in Nat
         /\ main.next[s] \in Nat /\ main.seen[s] \in Nat
         /\ parse[s] \in Parse /\ parse[s].version \in Nat
<1>1. Version \subseteq Nat
  BY DEF Version, CodexImportAssumption
<1> QED
  BY <1>1 DEF TypeOK, Main, Parse

\* At the start nothing is in the store and the inventory claims nothing.
LEMMA InitVersions == ASSUME CodexImportAssumption, Init PROVE Versions
<1>1. \A s \in Session : file[s] \in {0, 1}
  BY DEF Init
<1> QED
  BY <1>1 DEF Init, Versions, Idle, Nothing, NoParse

\* A step that leaves the files, the stores and the pool as they are.
LEMMA VersionsKeep ==
  ASSUME CodexImportAssumption, TypeOK, Versions,
         UNCHANGED <<file, store, inventory, other, parse>>,
         \/ main'.next = main.next /\ main'.seen = main.seen
         \/ main'.next = Nothing /\ main'.seen = Nothing
  PROVE  Versions'
<1> SUFFICES ASSUME ~OtherImporter PROVE Versions'
  BY DEF Versions
<1>1. ASSUME NEW s \in Session
      PROVE  /\ inventory[s] <= store[s] /\ store[s] <= file[s]
             /\ main'.next[s] <= store[s] /\ main'.seen[s] <= file[s]
             /\ parse[s].state # "none" /\ parse[s].version # 0 =>
                  /\ main'.seen[s] <= parse[s].version /\ store[s] <= parse[s].version
                  /\ parse[s].version <= file[s]
  BY VersionTypes DEF Versions, Nothing
<1> QED
  BY <1>1 DEF Versions

\* Every step keeps the versions in order.
LEMMA NextVersions ==
  ASSUME CodexImportAssumption, Accounts, Versions, [Next]_vars
  PROVE  Versions'
<1> TypeOK
  BY DEF Accounts
<1> SUFFICES ASSUME ~OtherImporter PROVE Versions'
  BY DEF Versions
<1>0. CASE UNCHANGED vars
  BY <1>0, VersionsKeep DEF vars
<1>1. ASSUME NEW ok \in BOOLEAN, NEW j \in Job, Submit(j, ok) \/ Get(j, ok) PROVE Versions'
  BY <1>1, VersionsKeep DEF Submit, Get
<1>2. ASSUME NEW j \in Job, Take(j) PROVE Versions'
  BY <1>2, VersionsKeep DEF Take, Idle
<1>3. ASSUME NEW ok \in BOOLEAN,
             \/ BeginDiscovery(ok) \/ Discover \/ AnnounceTotal(ok) \/ CountOne(ok)
             \/ FinishReady(ok) \/ RecordFailure(ok) \/ FinishFailed(ok)
      PROVE  Versions'
  <2>1. UNCHANGED <<file, store, inventory, other, parse>>
    BY <1>3 DEF BeginDiscovery, Discover, AnnounceTotal, CountOne, FinishReady, RecordFailure,
                FinishFailed
  <2>2. main' = Idle \/ (main'.next = main.next /\ main'.seen = main.seen)
    BY <1>3 DEF BeginDiscovery, Discover, AnnounceTotal, CountOne, FinishReady, RecordFailure,
                FinishFailed, Goto, Main, TypeOK
  <2> QED
    BY <2>1, <2>2, VersionsKeep DEF Idle
<1>4. ASSUME NEW s \in Session, ScanChanged(s) PROVE Versions'
  <2>1. /\ main'.next = [main.next EXCEPT ![s] = inventory[s]]
        /\ main'.seen = [main.seen EXCEPT ![s] = file[s]]
        /\ UNCHANGED <<file, store, inventory, other, parse>>
    BY <1>4 DEF ScanChanged, Main, TypeOK
  <2>2. parse[s].state = "none"
    BY <1>4 DEF ScanChanged, At, Accounts, PoolInHand, WithPool
  <2>3. ASSUME NEW x \in Session
        PROVE  main'.next[x] <= store[x] /\ main'.seen[x] <= file[x]
               /\ (x # s => main'.seen[x] = main.seen[x])
    BY <2>1, VersionTypes DEF Versions, TypeOK, Main
  <2> QED
    BY <2>1, <2>2, <2>3 DEF Versions
<1>5. ASSUME NEW s \in Session, NEW verdict \in Verdict, NEW ok \in BOOLEAN,
             ScanDone(s, verdict, ok)
      PROVE  Versions'
  <2>1. PICK v : /\ v = (IF verdict = "skipped" THEN file[s] ELSE 0)
                 /\ main'.next = [main.next EXCEPT ![s] = v] /\ main'.seen = main.seen
    BY <1>5 DEF ScanDone, Main, TypeOK
  <2>2. v <= store[s]
    BY <1>5, <2>1, VersionTypes DEF ScanDone, Versions
  <2>3. \A x \in Session : main'.next[x] <= store[x]
    BY <2>1, <2>2 DEF Versions, TypeOK, Main
  <2> QED
    BY <1>5, <2>1, <2>3 DEF ScanDone, Versions
<1>6. CASE StartPool \/ Drain
  <2>1. /\ main'.next = main.next /\ main'.seen = main.seen
        /\ UNCHANGED <<file, store, inventory, other>>
        /\ \A s \in Session : parse'[s].version = 0
    BY <1>6 DEF StartPool, Drain, NoParse, Goto, Main, TypeOK
  <2> QED
    BY <2>1 DEF Versions
<1>7. ASSUME NEW s \in Session, NEW verdict \in Verdict, Collect(s, verdict) PROVE Versions'
  <2>1. /\ parse[s].state = "over" /\ UNCHANGED <<file, inventory, other>>
        /\ main'.seen = main.seen
        /\ parse'[s].state = "none" /\ \A x \in Session : x # s => parse'[x] = parse[x]
    BY <1>7 DEF Collect, Main, TypeOK, NoParse
  <2>2. PICK v : /\ v = (IF verdict = "failed" THEN main.next[s] ELSE main.seen[s])
                 /\ main'.next = [main.next EXCEPT ![s] = v]
    BY <1>7 DEF Collect, NextSeen, Main, TypeOK
  <2>3. CASE verdict = "failed" /\ store' = store
    <3>1. v = main.next[s] /\ \A x \in Session : main'.next[x] = main.next[x]
      BY <2>2, <2>3 DEF Main, TypeOK
    <3> QED
      BY <2>1, <2>3, <3>1 DEF Versions
  <2>4. CASE parse[s].version # 0 /\ store' = [store EXCEPT ![s] = parse[s].version]
    <3>1. /\ main.seen[s] <= parse[s].version /\ store[s] <= parse[s].version
          /\ parse[s].version <= file[s] /\ main.next[s] <= store[s] /\ inventory[s] <= store[s]
      BY <2>1, <2>4 DEF Versions
    <3>2. /\ store'[s] = parse[s].version /\ \A x \in Session : x # s => store'[x] = store[x]
          /\ main'.next[s] = v /\ \A x \in Session : x # s => main'.next[x] = main.next[x]
      BY <2>2, <2>4 DEF Main, TypeOK
    <3>3. v <= store'[s] /\ inventory[s] <= store'[s] /\ store'[s] <= file[s]
      BY <2>2, <3>1, <3>2, VersionTypes
    <3>4. ASSUME NEW x \in Session
          PROVE  /\ inventory'[x] <= store'[x] /\ store'[x] <= file'[x]
                 /\ main'.next[x] <= store'[x] /\ main'.seen[x] <= file'[x]
                 /\ (parse'[x].state # "none" /\ parse'[x].version # 0) =>
                      /\ main'.seen[x] <= parse'[x].version /\ store'[x] <= parse'[x].version
                      /\ parse'[x].version <= file'[x]
      <4>1. CASE x = s
        BY <2>1, <3>2, <3>3, <4>1 DEF Versions
      <4>2. CASE x # s
        BY <2>1, <3>2, <4>2 DEF Versions
      <4> QED
        BY <4>1, <4>2
    <3> QED
      BY <2>1, <3>4 DEF Versions
  <2> QED
    BY <1>7, <2>3, <2>4 DEF Collect
<1>8. ASSUME NEW ok \in BOOLEAN, WriteInventory(ok) PROVE Versions'
  <2>1. /\ main'.next = main.next /\ main'.seen = main.seen
        /\ UNCHANGED <<file, store, other, parse>> /\ inventory' \in {inventory, main.next}
    BY <1>8 DEF WriteInventory, Goto, Main, TypeOK
  <2> QED
    BY <2>1 DEF Versions
<1>9. ASSUME NEW s \in Session, NEW ok \in BOOLEAN, StartParsing(s, ok) PROVE Versions'
  <2>1. /\ main' = main /\ UNCHANGED <<file, store, inventory, other>>
        /\ parse[s].state = "queued"
        /\ \A x \in Session : parse'[x].version = parse[x].version
                              /\ (x # s => parse'[x].state = parse[x].state)
    BY <1>9 DEF StartParsing, TypeOK, Parse
  <2> QED
    BY <2>1 DEF Versions
<1>10. ASSUME NEW s \in Session, NEW version \in Version, NEW ok \in BOOLEAN,
              FinishParsing(s, version, ok)
       PROVE  Versions'
  <2>1. /\ main' = main /\ UNCHANGED <<file, store, inventory, other>>
        /\ parse'[s].version \in {0, file[s]}
        /\ \A x \in Session : x # s => parse'[x] = parse[x]
    BY <1>10 DEF FinishParsing, TypeOK
  <2>2. ASSUME NEW x \in Session, parse'[x].state # "none", parse'[x].version # 0
        PROVE  /\ main.seen[x] <= parse'[x].version /\ store[x] <= parse'[x].version
               /\ parse'[x].version <= file[x]
    BY <2>1, <2>2, VersionTypes DEF Versions
  <2> QED
    BY <2>1, <2>2 DEF Versions
<1>11. ASSUME NEW s \in Session, Grow(s) PROVE Versions'
  <2>1. UNCHANGED <<store, inventory, main, parse, other>>
        /\ \A x \in Session : file[x] <= file'[x] /\ file'[x] \in Nat
    BY <1>11, VersionTypes DEF Grow, TypeOK
  <2>2. ASSUME NEW x \in Session
        PROVE  /\ store[x] <= file'[x] /\ main.seen[x] <= file'[x]
               /\ (parse[x].state # "none" /\ parse[x].version # 0) => parse[x].version <= file'[x]
    BY <2>1, VersionTypes DEF Versions
  <2> QED
    BY <2>1, <2>2 DEF Versions
<1>12. CASE Restart
  <2>1. /\ main' = Idle /\ UNCHANGED <<file, store, inventory, other>>
        /\ \A s \in Session : parse'[s].state = "none"
    BY <1>12 DEF Restart, NoParse
  <2>2. \A s \in Session : main'.next[s] <= store[s] /\ main'.seen[s] <= file[s]
    BY <2>1, VersionTypes DEF Idle, Nothing
  <2> QED
    BY <2>1, <2>2 DEF Versions
<1>13. ~ OtherParses /\ ~ OtherSyncs
  BY DEF OtherParses, OtherSyncs, Versions
<1>14. ASSUME NEW ok \in BOOLEAN, Execute(ok) PROVE Versions'
  BY <1>14, <1>2, <1>3, <1>4, <1>5, <1>6, <1>7, <1>8 DEF Execute
<1>15. ASSUME NEW s \in Session, NEW ok \in BOOLEAN, ParseOne(s, ok) PROVE Versions'
  BY <1>15, <1>9, <1>10 DEF ParseOne
<1> QED
  BY <1>0, <1>1, <1>11, <1>12, <1>13, <1>14, <1>15 DEF Next

-----------------------------------------------------------------------------
\* While files can be written, a job this process knows is in its file as it is
\* in memory, and the one in hand has not ended.
FilesAgree ==
  ~WritesMayFail =>
    /\ \A j \in Job : mem[j] # NoRecord => disk[j] = mem[j]
    /\ main.pc # "idle" => mem[main.job].phase \notin Terminal

\* No outcome in a job file is replaced by this step.
OutcomesStand ==
  \A j \in Job : disk[j] # NoRecord /\ disk[j].phase \in Terminal => disk'[j] = disk[j]

\* At the start there is no job.
LEMMA InitFiles == ASSUME Init PROVE FilesAgree
  BY DEF Init, FilesAgree, Idle

\* A write that succeeds: memory and file get the same record.
LEMMA WriteAgrees ==
  ASSUME CodexImportAssumption, Accounts, FilesAgree, ~WritesMayFail, main.pc # "idle",
         NEW r, NEW ok \in BOOLEAN, Persist(main.job, r, ok),
         \/ main'.pc = "idle"
         \/ main'.job = main.job /\ r.phase \notin Terminal
  PROVE  FilesAgree' /\ OutcomesStand
<1>1. /\ main.job \in Job /\ mem \in [Job -> Record \cup {NoRecord}]
      /\ disk \in [Job -> Record \cup {NoRecord}]
  BY JobInHand DEF Accounts, TypeOK
<1>2. mem' = [mem EXCEPT ![main.job] = r] /\ disk' = [disk EXCEPT ![main.job] = r]
  BY DEF Persist
<1>3. mem[main.job] # NoRecord /\ disk[main.job] = mem[main.job]
      /\ mem[main.job].phase \notin Terminal
  BY JobInHand DEF FilesAgree, Mine
<1>4. \A j \in Job : mem'[j] # NoRecord => disk'[j] = mem'[j]
  BY <1>1, <1>2 DEF FilesAgree
<1>5. OutcomesStand
  BY <1>1, <1>2, <1>3 DEF OutcomesStand
<1>6. main'.pc # "idle" => mem'[main'.job].phase \notin Terminal
  BY <1>1, <1>2
<1> QED
  BY <1>4, <1>5, <1>6 DEF FilesAgree

\* A step that touches neither the records nor the executor.
LEMMA QuietAgrees ==
  ASSUME FilesAgree, UNCHANGED <<mem, disk>>,
         main'.pc = "idle" \/ (main.pc # "idle" /\ main'.job = main.job)
  PROVE  FilesAgree' /\ OutcomesStand
  BY DEF FilesAgree, OutcomesStand

\* Every step keeps memory and files in agreement, and the outcomes as they are.
LEMMA NextFiles ==
  ASSUME CodexImportAssumption, Accounts, FilesAgree, ~WritesMayFail, Next
  PROVE  FilesAgree' /\ OutcomesStand
<1> DEFINE Good == FilesAgree' /\ OutcomesStand
<1> TypeOK /\ InHand /\ QueueFresh /\ PoolInHand
  BY DEF Accounts
<1>1. ASSUME NEW ok \in BOOLEAN, NEW j \in Job, Submit(j, ok) PROVE Good
  <2>1. /\ mem' = [mem EXCEPT ![j] = NewRecord] /\ disk' = [disk EXCEPT ![j] = NewRecord]
        /\ mem[j] = NoRecord /\ disk[j] = NoRecord /\ main' = main
    BY <1>1 DEF Submit, Persist
  <2>2. \A k \in Job : mem'[k] # NoRecord => disk'[k] = mem'[k]
    BY <2>1 DEF FilesAgree, TypeOK
  <2>3. OutcomesStand
    BY <2>1 DEF OutcomesStand, TypeOK
  <2>4. main.pc # "idle" => main.job \in Job /\ main.job # j
    BY <2>1, JobInHand DEF Mine
  <2>5. main'.pc # "idle" => mem'[main'.job].phase \notin Terminal
    BY <2>1, <2>4 DEF FilesAgree, TypeOK
  <2> QED
    BY <2>2, <2>3, <2>5 DEF FilesAgree
<1>2. ASSUME NEW ok \in BOOLEAN, NEW j \in Job, Get(j, ok) PROVE Good
  <2>1. /\ mem' = mem /\ main' = main /\ mem[j] = NoRecord /\ disk[j].phase \notin Terminal
        /\ \A k \in Job : k # j => disk'[k] = disk[k]
    BY <1>2 DEF Get, Interrupted, TypeOK
  <2> QED
    BY <2>1 DEF FilesAgree, OutcomesStand
<1>3. ASSUME NEW j \in Job, Take(j) PROVE Good
  <2>1. /\ main'.job = j /\ UNCHANGED <<mem, disk>> /\ mem[j] = NewRecord
    BY <1>3 DEF Take, QueueFresh, Idle
  <2> QED
    BY <2>1 DEF FilesAgree, OutcomesStand, NewRecord, Terminal
<1>4. ASSUME NEW ok \in BOOLEAN, BeginDiscovery(ok) \/ AnnounceTotal(ok) PROVE Good
  <2>1. main.pc # "idle" /\ Mine \in Record /\ main'.job = main.job
    BY <1>4, JobInHand DEF BeginDiscovery, AnnounceTotal, At, Goto, Main, TypeOK
  <2>2. PICK r : r.phase \notin Terminal /\ Persist(main.job, r, ok)
    BY <1>4, <2>1 DEF BeginDiscovery, AnnounceTotal, Record, Terminal
  <2> QED
    BY <2>1, <2>2, WriteAgrees
<1>5. ASSUME NEW s \in Session, NEW verdict \in Verdict, NEW ok \in BOOLEAN,
             ScanDone(s, verdict, ok)
      PROVE  Good
  <2>1. main.pc = "scan" /\ main.pc # "idle" /\ main'.job = main.job
        /\ Mine.phase = "PROCESSING"
    BY <1>5 DEF ScanDone, At, Main, InHand, Mine
  <2>2. Counted(Mine, verdict).phase \notin Terminal
    BY <1>5, <2>1, JobInHand DEF ScanDone, Counted, Record, Terminal
  <2> QED
    BY <1>5, <2>1, <2>2, WriteAgrees DEF ScanDone
<1>6. ASSUME NEW ok \in BOOLEAN, CountOne(ok) PROVE Good
  <2>1. main.pc = "count" /\ main.pc # "idle" /\ main'.job = main.job
        /\ Mine.phase = "PROCESSING"
    BY <1>6 DEF CountOne, At, Main, InHand, WithPool, Mine
  <2>2. main.verdict \in Verdict
    BY DEF Main, TypeOK
  <2>3. Counted(Mine, main.verdict).phase \notin Terminal
    BY <2>1, <2>2, JobInHand DEF Counted, Record, Terminal, Verdict
  <2> QED
    BY <1>6, <2>1, <2>3, WriteAgrees DEF CountOne
<1>7. ASSUME NEW ok \in BOOLEAN, FinishReady(ok) \/ FinishFailed(ok) PROVE Good
  <2>1. main.pc # "idle" /\ main' = Idle
    BY <1>7 DEF FinishReady, FinishFailed, At, Persist
  <2>2. PICK r : Persist(main.job, r, ok)
    BY <1>7 DEF FinishReady, FinishFailed
  <2> QED
    BY <2>1, <2>2, WriteAgrees DEF Idle
<1>8. ASSUME NEW ok \in BOOLEAN, RecordFailure(ok) PROVE Good
  <2>1. main.pc # "idle" /\ main'.job = main.job /\ Mine.phase \notin Terminal
    BY <1>8 DEF RecordFailure, At, Persist, FilesAgree, Mine, Main
  <2> QED
    BY <1>8, <2>1, WriteAgrees DEF RecordFailure
<1>9. ASSUME NEW s \in Session, NEW ok \in BOOLEAN, ParseOne(s, ok) PROVE Good
  <2>1. main' = main /\ main.pc # "idle" /\ Mine.phase = "PROCESSING" /\ Mine \in Record
    <3>1. main' = main /\ parse[s].state # "none"
      BY <1>9 DEF ParseOne, StartParsing, FinishParsing
    <3>2. main.pc \in WithPool /\ main.pc # "idle"
      BY <3>1 DEF PoolInHand, WithPool
    <3> QED
      BY <3>1, <3>2, JobInHand DEF InHand, Mine
  <2>2. PICK r : r.phase \notin Terminal /\ Persist(main.job, r, ok)
    <3>1. CASE StartParsing(s, ok)
      BY <2>1, <3>1 DEF StartParsing, Record, Terminal
    <3>2. ASSUME NEW version \in Version, FinishParsing(s, version, ok)
          PROVE  \E r : r.phase \notin Terminal /\ Persist(main.job, r, ok)
      BY <2>1, <3>2 DEF FinishParsing, Left, Record, Terminal
    <3> QED
      BY <1>9, <3>1, <3>2 DEF ParseOne
  <2> QED
    BY <2>1, <2>2, WriteAgrees
<1>10. ASSUME NEW s \in Session, ScanChanged(s) PROVE Good
  BY <1>10, QuietAgrees DEF ScanChanged, At, Main
<1>11. ASSUME NEW s \in Session, NEW verdict \in Verdict, Collect(s, verdict) PROVE Good
  BY <1>11, QuietAgrees DEF Collect, At, Main
<1>12. CASE Discover \/ StartPool \/ Drain
  BY <1>12, QuietAgrees DEF Discover, StartPool, Drain, Goto, At, Main, TypeOK
<1>13. ASSUME NEW ok \in BOOLEAN, WriteInventory(ok) PROVE Good
  BY <1>13, QuietAgrees DEF WriteInventory, Goto, At, Main
<1>14. ASSUME (\E s \in Session : Grow(s)) \/ OtherParses \/ OtherSyncs PROVE Good
  BY <1>14 DEF Grow, OtherParses, OtherSyncs, FilesAgree, OutcomesStand
<1>15. CASE Restart
  BY <1>15 DEF Restart, Idle, FilesAgree, OutcomesStand
<1>16. ASSUME NEW ok \in BOOLEAN, Execute(ok) PROVE Good
  BY <1>16, <1>3, <1>4, <1>5, <1>6, <1>7, <1>8, <1>10, <1>11, <1>12, <1>13 DEF Execute
<1> QED
  BY <1>1, <1>2, <1>9, <1>14, <1>15, <1>16 DEF Next

\* Files agree with memory after every step, whether writes may fail or not.
LEMMA FilesKeep ==
  ASSUME CodexImportAssumption, Accounts, FilesAgree, [Next]_vars
  PROVE  FilesAgree'
<1>1. CASE UNCHANGED vars
  BY <1>1 DEF vars, FilesAgree
<1>2. CASE WritesMayFail
  BY <1>2 DEF FilesAgree
<1> QED
  BY <1>1, <1>2, NextFiles

-----------------------------------------------------------------------------
\* All that is proved of a state of the import.
ImportInv == Accounts /\ Versions /\ FilesAgree

\* The invariant holds at the start.
LEMMA InitImport == ASSUME CodexImportAssumption, Init PROVE ImportInv
  BY InitAccounts, InitVersions, InitFiles DEF ImportInv

\* Every step of an import keeps the invariant.
LEMMA NextImport ==
  ASSUME CodexImportAssumption, ImportInv, [Next]_vars
  PROVE  ImportInv'
  BY NextAccounts, NextVersions, FilesKeep DEF ImportInv

\* Sessions are accounted for, versions ordered and files true in every state.
THEOREM ImportInvariance == ASSUME CodexImportAssumption PROVE Spec => []ImportInv
  BY InitImport, NextImport, PTL DEF Spec

\* Records, threads and stores keep their shapes: the counts of a job and of its
\* running threads stay within the number of sessions, whatever fails.
THEOREM ImportTypes == ASSUME CodexImportAssumption PROVE Spec => []TypeOK
<1>1. ImportInv => TypeOK
  BY DEF ImportInv, Accounts
<1> QED
  BY <1>1, ImportInvariance, PTL

\* What a job shows adds up in memory and in its file (the progress callbacks of
\* CodexImportJobManager, and what a failing write of the job file leaves).
THEOREM ImportAddsUp == ASSUME CodexImportAssumption PROVE Spec => []CountsAddUp
<1>1. ImportInv => CountsAddUp
  BY AccountsAddUp DEF ImportInv
<1> QED
  BY <1>1, ImportInvariance, PTL

\* A session skipped as unchanged is in the store, while there is one importer:
\* the fingerprint that goes into the inventory is taken before the parse.
LEMMA VersionsBack == ASSUME Versions, ~OtherImporter PROVE InventoryBacked
  BY DEF Versions, InventoryBacked

\* The inventory never claims what the store does not have, while there is one
\* importer: a session it calls unchanged since a version is in the store at that
\* version or a later one, so skipping it loses nothing (CodexImportJobManager).
THEOREM ImportLosesNothing ==
  ASSUME CodexImportAssumption, ~OtherImporter PROVE Spec => []InventoryBacked
<1>1. ImportInv => InventoryBacked
  BY VersionsBack DEF ImportInv
<1> QED
  BY <1>1, ImportInvariance, PTL

\* While files can be written, the outcome in a job file is final.
THEOREM ImportOutcomesStand ==
  ASSUME CodexImportAssumption, ~WritesMayFail PROVE Spec => ReceiptIsFinal
<1>1. ASSUME ImportInv, [Next]_vars PROVE [OutcomesStand]_vars
  BY <1>1, NextFiles DEF ImportInv
<1> QED
  BY <1>1, ImportInvariance, PTL DEF Spec, ReceiptIsFinal, OutcomesStand
=============================================================================
