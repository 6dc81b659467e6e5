---------------------------- MODULE Orchestration ----------------------------
(***************************************************************************)
(* The governed task workflow: the transition graph (state_machine.py),    *)
(* the service that records a transition (orchestration.py) and the        *)
(* append-only JSONL file it records it in (event_store.py).               *)
(*                                                                         *)
(* A call of OrchestrationService.transition is one action: the code is    *)
(* synchronous and takes no lock, and the file has one writer.  What makes *)
(* it hard is its inputs - task.status is a field anyone may assign, and a *)
(* caller may hold a stale or forged envelope - and the file: an append    *)
(* may be cut anywhere by a full disk or a crash.                          *)
(***************************************************************************)
EXTENDS Integers, Sequences

CONSTANTS Run,        \* run_id
          Task,       \* the id of a TaskEnvelope
          MaxEvents   \* bound: events of one task in each run

ASSUME MaxEventsAssumption == MaxEvents \in [Run -> Nat]

VARIABLES history,    \* history[r][t]: the state_transition events of task t in
                      \* run r, in file order (the order across is never read)
          tail,       \* how the file ends: see FileEnd
          status      \* status[t]: task.status of the envelope callers hold

vars == <<history, tail, status>>

-----------------------------------------------------------------------------
TaskStatus == {"NEW", "TRIAGED", "PLANNED", "APPROVED", "EXECUTING", "VERIFYING",
               "REVIEWING", "FIXING", "ACCEPTED", "BLOCKED", "FAILED", "CLOSED"}

\* approved: the event carries an approval receipt; recorded for EXECUTING
\* only, the receipt of any other event is read by nobody.
Event == [from : TaskStatus, to : TaskStatus, approved : BOOLEAN]

\* "whole": the last line is complete; "open": its newline is missing, the
\* next append will join it; "torn": some line is no event, read_all raises.
FileEnd == {"whole", "open", "torn"}

StopStates == {"BLOCKED", "FAILED"}

ALLOWED_TRANSITIONS ==
  [s \in TaskStatus |->
     CASE s = "NEW"       -> {"TRIAGED"} \cup StopStates
       [] s = "TRIAGED"   -> {"PLANNED"} \cup StopStates
       [] s = "PLANNED"   -> {"APPROVED"} \cup StopStates
       [] s = "APPROVED"  -> {"EXECUTING"} \cup StopStates
       [] s = "EXECUTING" -> {"VERIFYING"} \cup StopStates
       [] s = "VERIFYING" -> {"REVIEWING", "FIXING"} \cup StopStates
       [] s = "REVIEWING" -> {"ACCEPTED", "FIXING"} \cup StopStates
       [] s = "FIXING"    -> {"VERIFYING"} \cup StopStates
       [] s = "ACCEPTED"  -> {"CLOSED"}
       [] s = "BLOCKED"   -> {"TRIAGED", "FAILED"}
       [] OTHER           -> {}]

\* Mutant of validate_transition: a repair may go straight back to review.
FixingSkipsVerification(current, target) ==
  \/ current = "FIXING" /\ target = "REVIEWING"
  \/ target \in ALLOWED_TRANSITIONS[current]

validate_transition(current, target) == target \in ALLOWED_TRANSITIONS[current]

\* The status a run's history stands at: NEW when it has none.
Position(h) == IF h = <<>> THEN "NEW" ELSE h[Len(h)].to

Continues(r, t) == status[t] = Position(history[r][t])

\* Mutant of ApprovalGiven: a plan that was approved once needs no receipt.
ApprovalAssumed(target, approval) == target \in TaskStatus

ApprovalGiven(target, approval) == target = "EXECUTING" => approval

\* read_all parses every line of the file, those of other runs too.
Readable == tail # "torn"

\* Every check of transition(), in any order: all of them raise.
Accepts(r, t, target, evidence, approval) ==
  /\ Readable
  /\ Continues(r, t)
  /\ validate_transition(status[t], target)
  /\ evidence
  /\ ApprovalGiven(target, approval)
  /\ Len(history[r][t]) < MaxEvents[r]

\* Mutant of Recorded: from_status is left at its default.
RecordedWithoutFrom(t, target, approval) ==
  [to |-> target, approved |-> target = "EXECUTING" /\ approval]

Recorded(t, target, approval) ==
  [from |-> status[t], to |-> target,
   approved |-> target = "EXECUTING" /\ approval]

Extended(r, t, target, approval) ==
  [history EXCEPT ![r][t] = Append(history[r][t], Recorded(t, target, approval))]

-----------------------------------------------------------------------------
Init ==
  /\ history = [r \in Run |-> [t \in Task |-> <<>>]]
  /\ tail = "whole"
  /\ status \in [Task -> TaskStatus]

\* transition() returns: the line is written, then the envelope is moved.  A
\* line that joins an unfinished one cannot be read again, nor can the other.
Transition(r, t, target, evidence, approval) ==
  /\ Accepts(r, t, target, evidence, approval)
  /\ \/ tail # "open" /\ history' = Extended(r, t, target, approval) /\ UNCHANGED tail
     \/ tail = "open" /\ tail' = "torn" /\ UNCHANGED history
  /\ status' = [status EXCEPT ![t] = target]

\* append() raises, or the process dies in it: only the newline is lost, or a
\* part of the record too.  The envelope is not moved.
AppendCut(r, t, target, evidence, approval) ==
  /\ Accepts(r, t, target, evidence, approval)
  /\ \/ tail # "open" /\ history' = Extended(r, t, target, approval) /\ tail' = "open"
     \/ tail' = "torn" /\ UNCHANGED history
  /\ UNCHANGED status

\* A caller assigns task.status, or comes back with another copy of the task.
Alter(t, s) ==
  /\ status' = [status EXCEPT ![t] = s]
  /\ UNCHANGED <<history, tail>>

Next ==
  \/ \E r \in Run, t \in Task, target \in TaskStatus, evidence, approval \in BOOLEAN :
       \/ Transition(r, t, target, evidence, approval)
       \/ AppendCut(r, t, target, evidence, approval)
  \/ \E t \in Task, s \in TaskStatus : Alter(t, s)

Spec == Init /\ [][Next]_vars

-----------------------------------------------------------------------------
TypeOK ==
  /\ history \in [Run -> [Task -> Seq(Event)]]
  /\ tail \in FileEnd
  /\ status \in [Task -> TaskStatus]

\* h[i] continues the event before it, along the graph.
Linked(h, i) ==
  /\ h[i].from = IF i = 1 THEN "NEW" ELSE h[i - 1].to
  /\ validate_transition(h[i].from, h[i].to)

\* Whatever status the callers claim, the events of a task in a run form one
\* walk from NEW along the allowed transitions (orchestration.py 40-49).
HistoryChains ==
  \A r \in Run, t \in Task : \A i \in 1 .. Len(history[r][t]) :
    Linked(history[r][t], i)

\* Work starts only on a plan: EXECUTING directly follows triage, planning and
\* approval, and its event carries a receipt - also when a blocked task is
\* taken up again, so no approval serves two executions.
ExecutionIsApproved ==
  \A r \in Run, t \in Task : \A i \in 1 .. Len(history[r][t]) :
    LET h == history[r][t] IN
    h[i].to = "EXECUTING" =>
      /\ i > 3 /\ h[i].approved
      /\ h[i - 3].to = "TRIAGED" /\ h[i - 2].to = "PLANNED" /\ h[i - 1].to = "APPROVED"

\* Work is accepted only as it was verified and reviewed: after the last
\* EXECUTING or FIXING before an ACCEPTED there is a VERIFYING and then a
\* REVIEWING, however often the task was fixed or blocked.
AcceptedAsReviewed ==
  \A r \in Run, t \in Task : \A i, j \in 1 .. Len(history[r][t]) :
    LET h == history[r][t] IN
    j < i /\ h[i].to = "ACCEPTED" /\ h[j].to \in {"EXECUTING", "FIXING"} =>
      \E k \in j + 1 .. i - 1 : \E l \in k + 1 .. i - 1 :
        h[k].to = "VERIFYING" /\ h[l].to = "REVIEWING"

\* Two executions of a task in one run are separated by a BLOCKED: a task that
\* was accepted, closed or is being fixed is never executed again.
ReexecutionNeedsBlock ==
  \A r \in Run, t \in Task : \A i, j \in 1 .. Len(history[r][t]) :
    LET h == history[r][t] IN
    j < i /\ h[i].to = "EXECUTING" /\ h[j].to = "EXECUTING" =>
      \E k \in j + 1 .. i - 1 : h[k].to = "BLOCKED"

=============================================================================
