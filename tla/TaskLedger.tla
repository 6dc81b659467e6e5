----------------------------- MODULE TaskLedger -----------------------------
(***************************************************************************)
(* What Resume Cloud promises whoever submits a task: the task is taken up *)
(* at most once, at most one provider call is ever made for it, and only   *)
(* after the possible charge has been recorded, it is settled once, and    *)
(* the only thing that happens to a settled task is that its result is     *)
(* forgotten.  A call already recorded may still go out after the task was *)
(* settled: its worker cannot be stopped from outside.                     *)
(***************************************************************************)
CONSTANTS
  Task,     \* the tasks clients may submit
  Result,   \* the documents a task may end with
  NoResult

VARIABLE ledger

Stage  == {"none", "open", "running", "succeeded", "failed", "review"}
Charge == {"free", "recorded", "spent"}
Account == [stage : Stage, charge : Charge, result : Result \cup {NoResult}]

LedgerInit == ledger \in [Task -> {[stage |-> s, charge |-> "free", result |-> NoResult] :
                                     s \in {"none", "open"}}]

Submit(old, new)  == old.stage = "none" /\ new = [old EXCEPT !.stage = "open"]
Lapse(old, new)   == old.stage = "open" /\ new = [old EXCEPT !.stage = "failed"]
TakeUp(old, new)  == old.stage = "open" /\ new = [old EXCEPT !.stage = "running"]

RecordCharge(old, new) ==
  old.stage = "running" /\ old.charge = "free" /\ new = [old EXCEPT !.charge = "recorded"]

SpendCharge(old, new) == old.charge = "recorded" /\ new = [old EXCEPT !.charge = "spent"]

Deliver(old, new) ==
  /\ old.stage = "running"
  /\ new.result \in Result
  /\ new = [stage |-> "succeeded", charge |-> old.charge, result |-> new.result]

GiveUp(old, new) ==
  old.stage = "running" /\ \E s \in {"failed", "review"} : new = [old EXCEPT !.stage = s]

Forget(old, new) == old.stage = "succeeded" /\ new = [old EXCEPT !.result = NoResult]

Move(old, new) ==
  \/ Submit(old, new) \/ Lapse(old, new) \/ TakeUp(old, new)
  \/ RecordCharge(old, new) \/ SpendCharge(old, new)
  \/ Deliver(old, new) \/ GiveUp(old, new) \/ Forget(old, new)

\* One cleanup pass settles several tasks in one step.
LedgerNext ==
  /\ DOMAIN ledger' = Task
  /\ \A t \in Task : ledger'[t] = ledger[t] \/ Move(ledger[t], ledger'[t])

LedgerSpec == LedgerInit /\ [][LedgerNext]_ledger
=============================================================================
