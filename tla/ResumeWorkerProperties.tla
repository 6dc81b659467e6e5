----------------------- MODULE ResumeWorkerProperties -----------------------
(* What Resume Cloud must never do, and what it must eventually do.        *)
EXTENDS ResumeWorker

\* However workers crash, stall past their lease or are overtaken by recovery,
\* no task makes the provider call of process_one more than once.
AtMostOneCall == \A t \in Task : calls[t] <= 1

\* Every call that was begun is on record in the row (model_calls of the API
\* is read from it), even if its worker died, and was one its client approved.
CallsAccountedFor ==
  \A t \in Task : calls[t] > 0 =>
    tasks[t].marked /\ tasks[t].request.mode = "ai" /\ tasks[t].request.approved

\* Two threads, of whatever processes, never work on the same task, not even
\* one that was overtaken by recovery and one that came after it.
ExclusiveAttempt ==
  \A p, q \in Process, i, j \in Thread :
    /\ slot[p][i].pc \in Working /\ slot[q][j].pc \in Working
    /\ slot[p][i].task = slot[q][j].task
    => p = q /\ i = j

\* While its lease is alive, nobody settles a task under the thread working
\* on it: recovery, expiry and other workers wait for the lease to lapse.
LiveLeaseProtects ==
  \A p \in Process, i \in Thread :
    slot[p][i].pc \in Working /\ Claimed(p, i).lease > clock
      => Owns(slot[p][i].task, slot[p][i].token)

\* Every cached result is what its key says it is, comes from a committed
\* success, and expires with it: within the inputs' and the output's own life.
CacheSound ==
  \A k \in CacheKey : cache[k] # NoEntry =>
    LET source == tasks[cache[k].output.by] IN
      /\ cache[k].output.from = k
      /\ source.state = "SUCCEEDED"
      /\ cache[k].expires = source.outputExpires
      /\ cache[k].expires <= source.inputExpires

\* A result held for a task, reused or not, was generated for the same client
\* from the same content in the same mode, and is kept no longer than by the
\* task that produced it.
ResultsBelong ==
  \A t \in Task : tasks[t].output # NoOutput =>
    LET output == tasks[t].output IN
      /\ output.from.client  = tasks[t].request.client
      /\ output.from.content = tasks[t].request.content
      /\ output.from.mode    = tasks[t].request.mode
      /\ tasks[t].outputExpires = tasks[output.by].outputExpires
      /\ tasks[t].outputExpires <= tasks[output.by].inputExpires

\* A settled task is final: a stale worker, a late heartbeat or a second
\* cleanup changes nothing but dropping a result whose time is over.
Final(old, new) ==
  new = old \/ (OutputLapsed(old) /\ new = [old EXCEPT !.output = NoOutput])

SettledIsFinal ==
  [][\A t \in Task : tasks[t].state \in Terminal => Final(tasks[t], tasks'[t])]_vars

-----------------------------------------------------------------------------
(* Refinement of TaskLedger                                                *)

StageOf(row) ==
  CASE row.state = "ABSENT"       -> "none"
    [] row.state \in Waiting      -> "open"
    [] row.state = "RUNNING"      -> "running"
    [] row.state = "SUCCEEDED"    -> "succeeded"
    [] row.state = "FAILED"       -> "failed"
    [] row.state = "NEEDS_REVIEW" -> "review"

ChargeOf(t) ==
  CASE calls[t] = 0 /\ ~tasks[t].marked -> "free"
    [] calls[t] = 0 /\ tasks[t].marked  -> "recorded"
    [] calls[t] = 1                     -> "spent"
    [] OTHER                            -> "overspent"

Ledger == INSTANCE TaskLedger WITH
  Result <- Output,
  NoResult <- NoOutput,
  ledger <- [t \in Task |-> [stage  |-> StageOf(tasks[t]),
                             charge |-> ChargeOf(t),
                             result |-> tasks[t].output]]

\* The database, the workers and their faults together implement the ledger:
\* seen from outside, each task moves only as TaskLedger allows.
ImplementsLedger == Ledger!LedgerSpec

-----------------------------------------------------------------------------
(* Liveness, under FairSpec                                                *)

\* Every accepted task is settled in the end, whatever crashed meanwhile.
EveryTaskSettles ==
  \A t \in Task : tasks[t].state # "ABSENT" ~> tasks[t].state \in Terminal

\* Every result is erased from the database in the end.
EveryResultErased ==
  \A t \in Task : tasks[t].output # NoOutput ~> tasks[t].output = NoOutput

\* So is every cached copy of one.
EveryCopyErased ==
  \A k \in CacheKey : cache[k] # NoEntry ~> cache[k] = NoEntry

\* Every template and request body that a client entrusted is erased in the end.
EveryInputErased ==
  \A t \in Task : tasks[t].inputs ~> ~tasks[t].inputs

\* What a client entrusted to the service and what was made of it are gone in
\* the end, from the rows and from the cache, whoever crashed meanwhile.  For
\* the results this assumes a cleanup batch no smaller than the number of rows:
\* a smaller one may take the same erased rows for ever (EveryResultErased is
\* then violated, in a run of its own).  Inputs and copies do not need it: what
\* was cleaned is not selected again.
EverythingErased == EveryInputErased /\ EveryResultErased /\ EveryCopyErased
=============================================================================
