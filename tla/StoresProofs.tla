----------------------------- MODULE StoresProofs -----------------------------
(***************************************************************************)
(* Proofs about the stores of MCStores, for every value of its constants:  *)
(* any runs, tasks and lengths of the orchestration history; a casebook of *)
(* one process with any faults and one of any number of processes whose    *)
(* appends do not fail, any ladders, contents and numbers of attempts; any *)
(* sessions, versions, jobs and parse threads of the Codex inventory.      *)
(*                                                                         *)
(* Each store has an inductive invariant of its own: HistoryInv, SoloInv,  *)
(* PairInv, and ImportInv of CodexImportProofs.  StoresInv is all of them. *)
(***************************************************************************)
EXTENDS MCStores, FiniteSetTheorems, TLAPS

------------------------------------------------------------------------------
(* The orchestration history *)

Chained(h) == \A i \in 1 .. Len(h) : Linked(h, i)

\* An EXECUTING event carries its receipt: true of every event recorded.
Approved(h) == \A i \in 1 .. Len(h) : h[i].to = "EXECUTING" => h[i].approved

ReceiptsRecorded == \A r \in Run, t \in Task : Approved(history[r][t])

HistoryInv == TypeOK /\ HistoryChains /\ ReceiptsRecorded

-----------------------------------------------------------------------------
\* The graph, read backwards: what a status can have been reached from.
LEMMA Predecessors ==
  ASSUME NEW s \in TaskStatus, NEW u \in TaskStatus, validate_transition(s, u)
  PROVE  /\ u # "NEW"
         /\ u = "EXECUTING" => s = "APPROVED"
         /\ u = "APPROVED" => s = "PLANNED"
         /\ u = "PLANNED" => s = "TRIAGED"
         /\ u = "TRIAGED" => s \in {"NEW", "BLOCKED"}
         /\ u = "ACCEPTED" => s = "REVIEWING"
         /\ u = "REVIEWING" => s = "VERIFYING"
  BY DEF validate_transition, ALLOWED_TRANSITIONS, TaskStatus, StopStates

\* An event that is not at a run's start follows one to its from status; the
\* first starts at NEW.
LEMMA Before ==
  ASSUME NEW h \in Seq(Event), Chained(h), NEW i \in 1 .. Len(h),
         h[i].from # "NEW"
  PROVE  /\ i - 1 \in 1 .. Len(h)
         /\ h[i - 1].to = h[i].from
  BY DEF Chained, Linked

\* The event before an event to a given status.
LEMMA Step ==
  ASSUME NEW h \in Seq(Event), Chained(h), NEW i \in 1 .. Len(h)
  PROVE  /\ h[i].from \in TaskStatus /\ h[i].to \in TaskStatus
         /\ h[i].to = "EXECUTING" => i - 1 \in 1 .. Len(h) /\ h[i - 1].to = "APPROVED"
         /\ h[i].to = "APPROVED" => i - 1 \in 1 .. Len(h) /\ h[i - 1].to = "PLANNED"
         /\ h[i].to = "PLANNED" => i - 1 \in 1 .. Len(h) /\ h[i - 1].to = "TRIAGED"
         /\ h[i].to = "TRIAGED" =>
              i = 1 \/ (i - 1 \in 1 .. Len(h) /\ h[i - 1].to = "BLOCKED")
         /\ h[i].to = "ACCEPTED" => i - 1 \in 1 .. Len(h) /\ h[i - 1].to = "REVIEWING"
         /\ h[i].to = "REVIEWING" => i - 1 \in 1 .. Len(h) /\ h[i - 1].to = "VERIFYING"
<1>1. h[i] \in Event
  OBVIOUS
<1>2. h[i].from \in TaskStatus /\ h[i].to \in TaskStatus
  BY <1>1 DEF Event
<1>3. validate_transition(h[i].from, h[i].to)
  BY DEF Chained, Linked
<1>4. CASE h[i].from # "NEW"
  <2>1. i - 1 \in 1 .. Len(h) /\ h[i - 1].to = h[i].from
    BY <1>4, Before
  <2> QED
    BY <1>2, <1>3, <1>4, <2>1, Predecessors
<1>5. CASE h[i].from = "NEW"
  <2>1. h[i].to \notin {"EXECUTING", "APPROVED", "PLANNED", "ACCEPTED", "REVIEWING"}
    BY <1>2, <1>3, <1>5, Predecessors
  <2>2. ASSUME i # 1 PROVE FALSE
    <3>1. i - 1 \in 1 .. Len(h) /\ h[i - 1].to = "NEW"
      BY <1>5, <2>2 DEF Chained, Linked
    <3>2. h[i - 1] \in Event
      BY <3>1
    <3>3. validate_transition(h[i - 1].from, h[i - 1].to)
      BY <3>1 DEF Chained, Linked
    <3> QED
      BY <3>1, <3>2, <3>3, Predecessors DEF Event
  <2> QED
    BY <1>2, <2>1, <2>2
<1> QED
  BY <1>4, <1>5

-----------------------------------------------------------------------------
\* An execution comes straight after triage, plan and approval.
LEMMA ChainedExecution ==
  ASSUME NEW h \in Seq(Event), Chained(h), Approved(h), NEW i \in 1 .. Len(h),
         h[i].to = "EXECUTING"
  PROVE  /\ i > 3 /\ h[i].approved
         /\ h[i - 3].to = "TRIAGED" /\ h[i - 2].to = "PLANNED" /\ h[i - 1].to = "APPROVED"
<1>1. i - 1 \in 1 .. Len(h) /\ h[i - 1].to = "APPROVED"
  BY Step
<1>2. (i - 1) - 1 \in 1 .. Len(h) /\ h[(i - 1) - 1].to = "PLANNED"
  BY <1>1, Step
<1>3. ((i - 1) - 1) - 1 \in 1 .. Len(h) /\ h[((i - 1) - 1) - 1].to = "TRIAGED"
  BY <1>2, Step
<1>4. (i - 1) - 1 = i - 2 /\ ((i - 1) - 1) - 1 = i - 3 /\ i > 3
  BY <1>3
<1> QED
  BY <1>1, <1>2, <1>3, <1>4 DEF Approved

\* An acceptance comes straight after verification and review.
LEMMA ChainedAcceptance ==
  ASSUME NEW h \in Seq(Event), Chained(h), NEW i \in 1 .. Len(h),
         NEW j \in 1 .. Len(h), j < i, h[i].to = "ACCEPTED",
         h[j].to \in {"EXECUTING", "FIXING"}
  PROVE  \E k \in j + 1 .. i - 1 : \E l \in k + 1 .. i - 1 :
           h[k].to = "VERIFYING" /\ h[l].to = "REVIEWING"
<1>1. i - 1 \in 1 .. Len(h) /\ h[i - 1].to = "REVIEWING"
  BY Step
<1>2. (i - 1) - 1 \in 1 .. Len(h) /\ h[(i - 1) - 1].to = "VERIFYING"
  BY <1>1, Step
<1>3. (i - 1) - 1 = i - 2
  OBVIOUS
<1>4. j # i - 1 /\ j # i - 2
  BY <1>1, <1>2, <1>3
<1>5. i - 2 \in j + 1 .. i - 1 /\ i - 1 \in (i - 2) + 1 .. i - 1
  BY <1>4
<1> QED
  BY <1>1, <1>2, <1>3, <1>5

\* A second execution starts over from a block.
LEMMA ChainedReexecution ==
  ASSUME NEW h \in Seq(Event), Chained(h), Approved(h), NEW i \in 1 .. Len(h),
         NEW j \in 1 .. Len(h), j < i, h[i].to = "EXECUTING", h[j].to = "EXECUTING"
  PROVE  \E k \in j + 1 .. i - 1 : h[k].to = "BLOCKED"
<1>1. i > 3 /\ h[i - 3].to = "TRIAGED" /\ h[i - 2].to = "PLANNED" /\ h[i - 1].to = "APPROVED"
  BY ChainedExecution
<1>2. j # i - 1 /\ j # i - 2 /\ j # i - 3
  BY <1>1
<1>3. i - 3 \in 1 .. Len(h) /\ i - 3 # 1
  BY <1>1, <1>2
<1>4. (i - 3) - 1 \in 1 .. Len(h) /\ h[(i - 3) - 1].to = "BLOCKED"
  BY <1>1, <1>3, Step
<1>5. j # (i - 3) - 1
  BY <1>4
<1>6. (i - 3) - 1 \in j + 1 .. i - 1
  BY <1>2, <1>3, <1>5
<1> QED
  BY <1>4, <1>6

-----------------------------------------------------------------------------
\* Appending the recorded event to the history it continues keeps the chain.
LEMMA ExtensionChains ==
  ASSUME NEW h \in Seq(Event), Chained(h), Approved(h), NEW s \in TaskStatus,
         NEW target \in TaskStatus, NEW approval \in BOOLEAN, s = Position(h),
         validate_transition(s, target), ApprovalGiven(target, approval),
         NEW e, e = [from |-> s, to |-> target,
                     approved |-> target = "EXECUTING" /\ approval]
  PROVE  Append(h, e) \in Seq(Event) /\ Chained(Append(h, e)) /\ Approved(Append(h, e))
<1> DEFINE g == Append(h, e)
<1>1. e \in Event /\ e.from = s /\ e.to = target
  BY DEF Event
<1>2. g \in Seq(Event) /\ Len(g) = Len(h) + 1 /\ Len(h) \in Nat
  BY <1>1
<1>3. g[Len(h) + 1] = e /\ \A i \in 1 .. Len(h) : g[i] = h[i]
  BY <1>1
<1>4. Linked(g, Len(h) + 1)
  <2>1. CASE h = <<>>
    BY <1>1, <1>3, <2>1 DEF Linked, Position
  <2>2. CASE h # <<>>
    <3>1. Len(h) \in 1 .. Len(h) /\ Len(h) + 1 # 1 /\ (Len(h) + 1) - 1 = Len(h)
      BY <1>2, <2>2
    <3> QED
      BY <1>1, <1>3, <2>2, <3>1 DEF Linked, Position
  <2> QED
    BY <2>1, <2>2
<1>5. ASSUME NEW i \in 1 .. Len(h) PROVE Linked(g, i)
  <2>1. Linked(h, i)
    BY DEF Chained
  <2>2. i # 1 => i - 1 \in 1 .. Len(h)
    BY <1>2
  <2> QED
    BY <1>3, <2>1, <2>2 DEF Linked
<1>6. 1 .. Len(g) = (1 .. Len(h)) \cup {Len(h) + 1}
  BY <1>2
<1>7. Approved(g)
  BY <1>3, <1>6 DEF Approved, ApprovalGiven
<1> QED
  BY <1>2, <1>4, <1>5, <1>6, <1>7 DEF Chained

\* The chains of all runs and tasks, as one statement per history.
LEMMA ChainsAreChained ==
  HistoryChains <=> \A r \in Run, t \in Task : Chained(history[r][t])
  BY DEF HistoryChains, Chained

\* The recorded event keeps every history a chain.
LEMMA ExtendedKeepsInv ==
  ASSUME HistoryInv, NEW r \in Run, NEW t \in Task, NEW target \in TaskStatus,
         NEW evidence \in BOOLEAN, NEW approval \in BOOLEAN,
         Accepts(r, t, target, evidence, approval),
         history' = Extended(r, t, target, approval)
  PROVE  /\ history' \in [Run -> [Task -> Seq(Event)]]
         /\ HistoryChains' /\ ReceiptsRecorded'
<1> DEFINE h == history[r][t]
           e == Recorded(t, target, approval)
<1>1. h \in Seq(Event) /\ status[t] \in TaskStatus /\ Chained(h) /\ Approved(h)
  BY ChainsAreChained DEF HistoryInv, TypeOK, ReceiptsRecorded
<1>2. Append(h, e) \in Seq(Event) /\ Chained(Append(h, e)) /\ Approved(Append(h, e))
  BY <1>1, ExtensionChains DEF Accepts, Continues, Recorded
<1>3. history' = [history EXCEPT ![r][t] = Append(h, e)]
  BY DEF Extended
<1>4. history \in [Run -> [Task -> Seq(Event)]]
  BY DEF HistoryInv, TypeOK
<1> HIDE DEF h, e
<1>5. history' \in [Run -> [Task -> Seq(Event)]]
  BY <1>2, <1>3, <1>4
<1>6. ASSUME NEW r2 \in Run, NEW t2 \in Task
      PROVE  Chained(history'[r2][t2]) /\ Approved(history'[r2][t2])
  <2>1. CASE r2 = r /\ t2 = t
    <3>1. history'[r2][t2] = Append(h, e)
      BY <1>3, <1>4, <2>1
    <3> QED
      BY <1>2, <3>1
  <2>2. CASE ~ (r2 = r /\ t2 = t)
    <3>1. history'[r2][t2] = history[r2][t2]
      BY <1>3, <1>4, <2>2
    <3> QED
      BY <3>1, ChainsAreChained DEF HistoryInv, ReceiptsRecorded
  <2> QED
    BY <2>1, <2>2
<1>7. HistoryChains'
  BY <1>6 DEF HistoryChains, Chained
<1> QED
  BY <1>5, <1>6, <1>7 DEF ReceiptsRecorded

-----------------------------------------------------------------------------
\* No history yet.
LEMMA InitHistory == Init => HistoryInv
  BY DEF Init, HistoryInv, TypeOK, HistoryChains, ReceiptsRecorded, Approved, FileEnd

\* A step that leaves the histories alone keeps what is said of them.
LEMMA UnchangedHistory ==
  ASSUME HistoryInv, UNCHANGED history
  PROVE  HistoryChains' /\ ReceiptsRecorded' /\ history' \in [Run -> [Task -> Seq(Event)]]
  BY DEF HistoryInv, TypeOK, HistoryChains, ReceiptsRecorded

\* Every step keeps the invariant.
LEMMA NextHistory ==
  ASSUME HistoryInv, [Next]_vars
  PROVE  HistoryInv'
<1>1. ASSUME NEW r \in Run, NEW t \in Task, NEW target \in TaskStatus,
             NEW evidence \in BOOLEAN, NEW approval \in BOOLEAN,
             Transition(r, t, target, evidence, approval)
      PROVE  HistoryInv'
  <2>1. Accepts(r, t, target, evidence, approval)
    BY <1>1 DEF Transition
  <2>2. tail' \in FileEnd /\ status' \in [Task -> TaskStatus]
    BY <1>1 DEF Transition, HistoryInv, TypeOK, FileEnd
  <2>3. CASE history' = Extended(r, t, target, approval)
    BY <2>1, <2>2, <2>3, ExtendedKeepsInv DEF HistoryInv, TypeOK
  <2>4. CASE UNCHANGED history
    BY <2>2, <2>4, UnchangedHistory DEF HistoryInv, TypeOK
  <2> QED
    BY <1>1, <2>3, <2>4 DEF Transition
<1>2. ASSUME NEW r \in Run, NEW t \in Task, NEW target \in TaskStatus,
             NEW evidence \in BOOLEAN, NEW approval \in BOOLEAN,
             AppendCut(r, t, target, evidence, approval)
      PROVE  HistoryInv'
  <2>1. Accepts(r, t, target, evidence, approval)
    BY <1>2 DEF AppendCut
  <2>2. tail' \in FileEnd /\ status' \in [Task -> TaskStatus]
    BY <1>2 DEF AppendCut, HistoryInv, TypeOK, FileEnd
  <2>3. CASE history' = Extended(r, t, target, approval)
    BY <2>1, <2>2, <2>3, ExtendedKeepsInv DEF HistoryInv, TypeOK
  <2>4. CASE UNCHANGED history
    BY <2>2, <2>4, UnchangedHistory DEF HistoryInv, TypeOK
  <2> QED
    BY <1>2, <2>3, <2>4 DEF AppendCut
<1>3. ASSUME NEW t \in Task, NEW s \in TaskStatus, Alter(t, s)
      PROVE  HistoryInv'
  <2>1. tail' \in FileEnd /\ status' \in [Task -> TaskStatus]
    BY <1>3 DEF Alter, HistoryInv, TypeOK
  <2> QED
    BY <1>3, <2>1, UnchangedHistory DEF Alter, HistoryInv, TypeOK
<1>4. CASE UNCHANGED vars
  <2>1. tail' \in FileEnd /\ status' \in [Task -> TaskStatus]
    BY <1>4 DEF vars, HistoryInv, TypeOK
  <2> QED
    BY <1>4, <2>1, UnchangedHistory DEF vars, HistoryInv, TypeOK
<1> QED
  BY <1>1, <1>2, <1>3, <1>4 DEF Next

\* Histories are chains and their executions carry receipts in every state.
THEOREM WorkflowInvariance == Spec => []HistoryInv
  BY InitHistory, NextHistory, PTL DEF Spec

\* The variables keep their types whatever callers assign.
THEOREM TypeCorrect == Spec => []TypeOK
<1>1. HistoryInv => TypeOK
  BY DEF HistoryInv
<1> QED
  BY <1>1, WorkflowInvariance, PTL

\* Whatever status callers claim, and wherever an append is cut, the events of
\* a task in a run are one walk from NEW along ALLOWED_TRANSITIONS.
THEOREM AlwaysAWalk == Spec => []HistoryChains
<1>1. HistoryInv => HistoryChains
  BY DEF HistoryInv
<1> QED
  BY <1>1, WorkflowInvariance, PTL

\* What the invariant says of executions.
LEMMA Approves == HistoryInv => ExecutionIsApproved
<1> SUFFICES ASSUME HistoryInv PROVE ExecutionIsApproved
  OBVIOUS
<1>1. ASSUME NEW r \in Run, NEW t \in Task, NEW i \in 1 .. Len(history[r][t]),
             history[r][t][i].to = "EXECUTING"
      PROVE  LET h == history[r][t] IN
             /\ i > 3 /\ h[i].approved
             /\ h[i - 3].to = "TRIAGED" /\ h[i - 2].to = "PLANNED" /\ h[i - 1].to = "APPROVED"
  <2>1. history[r][t] \in Seq(Event) /\ Chained(history[r][t]) /\ Approved(history[r][t])
    BY ChainsAreChained DEF HistoryInv, TypeOK, ReceiptsRecorded
  <2> QED
    BY <1>1, <2>1, ChainedExecution
<1> QED
  BY <1>1 DEF ExecutionIsApproved

\* No execution without triage, plan and approval directly before it.
THEOREM NoUnapprovedExecution == Spec => []ExecutionIsApproved
  BY Approves, WorkflowInvariance, PTL

\* What the invariant says of acceptances.
LEMMA Reviews == HistoryInv => AcceptedAsReviewed
<1> SUFFICES ASSUME HistoryInv PROVE AcceptedAsReviewed
  OBVIOUS
<1>1. ASSUME NEW r \in Run, NEW t \in Task,
             NEW i \in 1 .. Len(history[r][t]), NEW j \in 1 .. Len(history[r][t]),
             j < i, history[r][t][i].to = "ACCEPTED",
             history[r][t][j].to \in {"EXECUTING", "FIXING"}
      PROVE  \E k \in j + 1 .. i - 1 : \E l \in k + 1 .. i - 1 :
               history[r][t][k].to = "VERIFYING" /\ history[r][t][l].to = "REVIEWING"
  <2>1. history[r][t] \in Seq(Event) /\ Chained(history[r][t])
    BY ChainsAreChained DEF HistoryInv, TypeOK
  <2> QED
    BY <1>1, <2>1, ChainedAcceptance
<1> QED
  BY <1>1 DEF AcceptedAsReviewed

\* No acceptance of work that was not verified and reviewed since it changed.
THEOREM NoUnreviewedAcceptance == Spec => []AcceptedAsReviewed
  BY Reviews, WorkflowInvariance, PTL

\* No second execution in a run without a block in between.
THEOREM NoSecondExecution == Spec => []ReexecutionNeedsBlock
<1>1. ASSUME HistoryInv, NEW r \in Run, NEW t \in Task,
             NEW i \in 1 .. Len(history[r][t]), NEW j \in 1 .. Len(history[r][t]),
             j < i, history[r][t][i].to = "EXECUTING",
             history[r][t][j].to = "EXECUTING"
      PROVE  \E k \in j + 1 .. i - 1 : history[r][t][k].to = "BLOCKED"
  <2>1. history[r][t] \in Seq(Event) /\ Chained(history[r][t]) /\ Approved(history[r][t])
    BY <1>1, ChainsAreChained DEF HistoryInv, TypeOK, ReceiptsRecorded
  <2> QED
    BY <1>1, <2>1, ChainedReexecution
<1>2. HistoryInv => ReexecutionNeedsBlock
  BY <1>1 DEF ReexecutionNeedsBlock
<1> QED
  BY <1>2, WorkflowInvariance, PTL

------------------------------------------------------------------------------
(* The records of a log, the same in both casebooks *)

\* The casebooks count as the library does.
LEMMA SameCounts ==
  /\ \A S : Solo!IsFiniteSet(S) <=> IsFiniteSet(S)
  /\ \A S : Solo!Cardinality(S) = Cardinality(S)
<1>1. \A S : Solo!IsFiniteSet(S) <=> IsFiniteSet(S)
  BY DEF Solo!IsFiniteSet, IsFiniteSet
<1>2. ASSUME NEW S PROVE Solo!Cardinality(S) = Cardinality(S)
  BY DEF Solo!Cardinality, Cardinality
<1> QED
  BY <1>1, <1>2

\* The records of a log are finitely many.
LEMMA EndsCount ==
  ASSUME NEW f, Len(f) \in Nat
  PROVE  /\ Solo!IsFiniteSet(Solo!Ends(f)) /\ Solo!Cardinality(Solo!Ends(f)) \in Nat
         /\ Solo!Ends(f) \subseteq 1..Len(f)
<1>1. Solo!IsFiniteSet(1..Len(f))
  BY SameCounts, FS_Interval
<1>2. Solo!Ends(f) \subseteq 1..Len(f)
  BY DEF Solo!Ends
<1> QED
  BY <1>1, <1>2, SameCounts, FS_Subset, FS_CardinalityType

\* A chunk that ends no record adds none; one that does adds the last.
LEMMA RecordedGrows ==
  ASSUME NEW T, NEW U, NEW f \in Seq(T), NEW c \in T, Solo!Recorded(f) \in Seq(U)
  PROVE  /\ c.part \notin {"rest", "bare"} => Solo!Recorded(Append(f, c)) = Solo!Recorded(f)
         /\ c.part \in {"rest", "bare"} => Solo!Recorded(Append(f, c)) = Append(Solo!Recorded(f), c.id)
<1> DEFINE g == Append(f, c)
           e == Len(f) + 1
           C == Solo!Cardinality(Solo!Ends(f))
           Ids(h, n) == {h[k].id : k \in Solo!Place(h, n)}
<1>1. /\ Len(f) \in Nat /\ Len(g) = e /\ g[e] = c
      /\ \A k \in 1..Len(f) : g[k] = f[k]
  OBVIOUS
<1>2. 1..e = (1..Len(f)) \cup {e} /\ e \notin 1..Len(f)
  BY <1>1
<1>c. Solo!IsFiniteSet(Solo!Ends(f)) /\ C \in Nat /\ Solo!Ends(f) \subseteq 1..Len(f)
  BY <1>1, EndsCount
<1>w. \A k \in Solo!Ends(f) : k \in Nat /\ k < e
  BY <1>1, <1>c
<1>h. g = Append(f, c)
  OBVIOUS
<1> HIDE DEF g, e
<1>3. Solo!Ends(g) = IF c.part \in {"rest", "bare"} THEN Solo!Ends(f) \cup {e} ELSE Solo!Ends(f)
  BY <1>1, <1>2 DEF Solo!Ends
<1>4. ASSUME NEW k \in Solo!Ends(f)
      PROVE  {m \in Solo!Ends(g) : m <= k} = {m \in Solo!Ends(f) : m <= k}
  <2>1. ~(e <= k)
    BY <1>1, <1>w DEF e
  <2> QED
    BY <1>3, <2>1
<1>5. CASE c.part \notin {"rest", "bare"}
  <2>1. Solo!Ends(g) = Solo!Ends(f)
    BY <1>3, <1>5
  <2>2. \A n : Solo!Place(g, n) = Solo!Place(f, n)
    BY <2>1 DEF Solo!Place
  <2>3. ASSUME NEW n PROVE Ids(g, n) = Ids(f, n)
    <3>1. Solo!Place(f, n) \subseteq 1..Len(f)
      BY <1>c DEF Solo!Place
    <3> QED
      BY <1>1, <2>2, <3>1
  <2> HIDE DEF Ids
  <2> QED
    BY <1>5, <1>h, <2>1, <2>3 DEF Solo!Recorded, Ids
<1>6. CASE c.part \in {"rest", "bare"}
  <2>1. Solo!Ends(g) = Solo!Ends(f) \cup {e} /\ e \notin Solo!Ends(f)
    BY <1>2, <1>3, <1>6, <1>c
  <2>2. Solo!Cardinality(Solo!Ends(g)) = C + 1
    BY <1>c, <2>1, SameCounts, FS_AddElement
  <2>3. {m \in Solo!Ends(g) : m <= e} = Solo!Ends(g)
    BY <1>1, <1>w, <2>1 DEF e
  <2>4. ASSUME NEW k \in Solo!Ends(f) PROVE Solo!Cardinality({m \in Solo!Ends(f) : m <= k}) <= C
    BY <1>c, SameCounts, FS_Subset
  <2>5. Solo!Place(g, C + 1) = {e}
    <3>1. \A k \in Solo!Ends(f) : Solo!Cardinality({m \in Solo!Ends(g) : m <= k}) # C + 1
      <4>1. SUFFICES ASSUME NEW k \in Solo!Ends(f)
                     PROVE  Solo!Cardinality({m \in Solo!Ends(g) : m <= k}) # C + 1
        OBVIOUS
      <4>2. Solo!Cardinality({m \in Solo!Ends(g) : m <= k}) = Solo!Cardinality({m \in Solo!Ends(f) : m <= k})
        BY <1>4
      <4>3. Solo!Cardinality({m \in Solo!Ends(f) : m <= k}) \in Nat
        BY <1>c, SameCounts, FS_Subset, FS_CardinalityType
      <4> QED
        BY <1>c, <2>4, <4>2, <4>3
    <3> QED
      BY <2>1, <2>2, <2>3, <3>1 DEF Solo!Place
  <2>6. ASSUME NEW n \in 1..C PROVE Solo!Place(g, n) = Solo!Place(f, n)
    <3>1. \A k \in Solo!Ends(f) : Solo!Cardinality({m \in Solo!Ends(g) : m <= k})
                             = Solo!Cardinality({m \in Solo!Ends(f) : m <= k})
      BY <1>4
    <3>2. Solo!Cardinality({m \in Solo!Ends(g) : m <= e}) # n
      <4>1. Solo!Cardinality({m \in Solo!Ends(g) : m <= e}) = C + 1
        BY <2>2, <2>3
      <4> HIDE DEF C
      <4> QED
        BY <1>c, <4>1
    <3> QED
      BY <2>1, <3>1, <3>2 DEF Solo!Place
  <2>7. ASSUME NEW n \in 1..C PROVE Ids(g, n) = Ids(f, n)
    <3>1. Solo!Place(f, n) \subseteq 1..Len(f)
      BY <1>c DEF Solo!Place
    <3> QED
      BY <1>1, <2>6, <3>1
  <2>8. Solo!TheOne(Ids(g, C + 1)) = c.id
    <3>1. Ids(g, C + 1) = {c.id}
      BY <1>1, <2>5
    <3> QED
      BY <3>1 DEF Solo!TheOne
  <2> HIDE DEF Ids, C
  <2>9. Solo!Recorded(f) = [n \in 1..C |-> Solo!TheOne(Ids(f, n))]
    BY DEF Solo!Recorded, Ids, C
  <2>10. Solo!Recorded(g) = [n \in 1..(C + 1) |-> Solo!TheOne(Ids(g, n))]
    BY <2>2 DEF Solo!Recorded, Ids
  <2>11. Len(Solo!Recorded(f)) = C
    BY <1>c, <2>9
  <2> QED
    BY <1>6, <1>c, <1>h, <2>7, <2>8, <2>9, <2>10, <2>11
<1> QED
  BY <1>5, <1>6

\* An empty log has no records.
LEMMA NothingRecorded == Solo!Recorded(<<>>) = <<>>
<1>1. Solo!Ends(<<>>) = {}
  BY DEF Solo!Ends
<1>2. Solo!Cardinality(Solo!Ends(<<>>)) = 0
  BY <1>1, SameCounts, FS_EmptySet
<1>3. 1..0 = {}
  OBVIOUS
<1> QED
  BY <1>2, <1>3 DEF Solo!Recorded

\* Both casebooks read a log alike.
LEMMA SameRecorded ==
  /\ \A f : Pair!Recorded(f) = Solo!Recorded(f)
  /\ \A i, h : Pair!Half(i, h) = Solo!Half(i, h)
<1>1. ASSUME NEW f PROVE Pair!Recorded(f) = Solo!Recorded(f)
  BY DEF Pair!Recorded, Solo!Recorded, Pair!Ends, Solo!Ends, Pair!Place, Solo!Place,
         Pair!TheOne, Solo!TheOne, Pair!Cardinality, Solo!Cardinality
<1>2. ASSUME NEW i, NEW h PROVE Pair!Half(i, h) = Solo!Half(i, h)
  BY DEF Pair!Half, Solo!Half
<1> QED
  BY <1>1, <1>2

\* So a chunk adds to either what it adds to the other.
LEMMA PairRecordedGrows ==
  ASSUME NEW T, NEW U, NEW f \in Seq(T), NEW c \in T, Pair!Recorded(f) \in Seq(U)
  PROVE  /\ c.part \notin {"rest", "bare"} => Pair!Recorded(Append(f, c)) = Pair!Recorded(f)
         /\ c.part \in {"rest", "bare"} =>
              Pair!Recorded(Append(f, c)) = Append(Pair!Recorded(f), c.id)
<1>1. Pair!Recorded(f) = Solo!Recorded(f) /\ Pair!Recorded(Append(f, c)) = Solo!Recorded(Append(f, c))
  BY SameRecorded
<1>2. Solo!Recorded(f) \in Seq(U)
  BY <1>1
<1>3. /\ c.part \notin {"rest", "bare"} => Solo!Recorded(Append(f, c)) = Solo!Recorded(f)
      /\ c.part \in {"rest", "bare"} => Solo!Recorded(Append(f, c)) = Append(Solo!Recorded(f), c.id)
  BY <1>2, RecordedGrows
<1> QED
  BY <1>1, <1>3

\* And an empty log has no records in either.
LEMMA PairNothingRecorded == Pair!Recorded(<<>>) = <<>>
  BY NothingRecorded, SameRecorded

\* Two chunks appended at once are one after the other.
LEMMA TwoAppends ==
  ASSUME NEW T, NEW f \in Seq(T), NEW a \in T, NEW b \in T
  PROVE  f \o <<a, b>> = Append(Append(f, a), b)
  OBVIOUS

------------------------------------------------------------------------------
(* Types of a casebook with one process *)

\* What is recorded are attempts: no part of the types, as a log could be
\* anything, but true of the logs the calls write.
SoloRecordedTyped == Solo!Recorded(log) \in Seq(Solo!AttemptId)

\* The bounds are numbers.
LEMMA SoloBounds ==
  ASSUME Solo!CasebookAssumption
  PROVE  MaxAttempts \in Nat /\ 0 \in Nat /\ SoloStages \in Nat /\ NoContent \notin Content
  BY DEF Solo!CasebookAssumption

\* A call in hand.
LEMMA SoloCallTyped ==
  ASSUME Solo!TypeOK, NEW p \in OneProc
  PROVE  /\ call[p] \in Solo!Call
         /\ call[p].pc \in Solo!Pc /\ call[p].id \in Solo!AttemptId \cup {0} /\ call[p].read \in Seq(Solo!AttemptId)
         /\ call[p].fresh \in BOOLEAN /\ call[p].length \in Nat
  BY DEF Solo!TypeOK, Solo!Call

\* Every step of a casebook keeps the types.
LEMMA SoloTypeStep ==
  ASSUME Solo!CasebookAssumption, Solo!TypeOK, SoloRecordedTyped, [Solo!Next]_Solo!vars,
         \A p \in OneProc : call[p].pc # "idle" => call[p].id \in 1..Len(book)
  PROVE  Solo!TypeOK'
<1>a. MaxAttempts \in Nat /\ 0 \in Nat /\ Solo!AttemptId = 1..MaxAttempts
      /\ Solo!FileNo = 1..(MaxAttempts + 1)
  BY SoloBounds DEF Solo!AttemptId, Solo!FileNo
<1>b. Len(book) \in Nat /\ Len(book) <= MaxAttempts /\ 1..Len(book) \subseteq Solo!AttemptId
  BY <1>a DEF Solo!TypeOK
<1>c. ASSUME NEW p \in OneProc, NEW pc \in Solo!Pc
      PROVE  [call EXCEPT ![p].pc = pc] \in [OneProc -> Solo!Call] /\ [call EXCEPT ![p] = Solo!NoCall] \in [OneProc -> Solo!Call]
  <2>1. Solo!NoCall \in Solo!Call
    <3>1. <<>> \in Seq(Solo!AttemptId)
      OBVIOUS
    <3> QED
      BY <3>1 DEF Solo!Call, Solo!NoCall, Solo!Pc
  <2>2. [call[p] EXCEPT !.pc = pc] \in Solo!Call
    BY SoloCallTyped DEF Solo!Call
  <2>3. call \in [OneProc -> Solo!Call]
    BY DEF Solo!TypeOK
  <2> QED
    BY <2>1, <2>2, <2>3
<1>f. ASSUME NEW i \in 1..Len(book), NEW n \in Solo!FileNo
      PROVE  [book EXCEPT ![i].file = n] \in Seq(Solo!Attempt) /\ Len([book EXCEPT ![i].file = n]) = Len(book)
  <2>1. book \in Seq(Solo!Attempt) /\ book[i] \in Solo!Attempt
    BY DEF Solo!TypeOK
  <2>2. [book[i] EXCEPT !.file = n] \in Solo!Attempt
    BY <2>1 DEF Solo!Attempt
  <2> QED
    BY <2>1, <2>2
<1>1. ASSUME NEW p \in OneProc, NEW s \in Solo!Stage, NEW o \in Solo!Outcome, NEW c \in Content \cup {NoContent},
             Solo!Begin(p, s, o, c)
      PROVE  Solo!TypeOK'
  <2>1. [stage |-> s, outcome |-> o, content |-> c, file |-> 0] \in Solo!Attempt
    BY DEF Solo!Attempt
  <2>2. book' \in Seq(Solo!Attempt) /\ Len(book') = Len(book) + 1 /\ Len(book) + 1 \in Solo!AttemptId
    BY <1>1, <2>1 DEF Solo!Begin, Solo!TypeOK
  <2>3. [Solo!NoCall EXCEPT !.pc = IF c = NoContent THEN "open" ELSE "look",
                       !.id = Len(book) + 1, !.read = Solo!Recorded(log)] \in Solo!Call
    BY <2>2 DEF Solo!Call, Solo!NoCall, SoloRecordedTyped, Solo!Pc
  <2>4. call' \in [OneProc -> Solo!Call]
    BY <1>1, <2>3 DEF Solo!Begin, Solo!TypeOK
  <2> QED
    BY <1>1, <1>a, <2>2, <2>4 DEF Solo!Begin, Solo!TypeOK
<1>2. ASSUME NEW p \in OneProc, Solo!Look(p) PROVE Solo!TypeOK'
  <2>1. book' \in Seq(Solo!Attempt) /\ Len(book') = Len(book)
    <3>1. 1 \in Solo!FileNo /\ call[p].id \in 1..Len(book)
      BY <1>2, <1>a DEF Solo!Look
    <3>2. book \in Seq(Solo!Attempt)
      BY DEF Solo!TypeOK
    <3>3. book' = [book EXCEPT ![call[p].id].file = 1] \/ book' = book
      BY <1>2 DEF Solo!Look
    <3> QED
      BY <1>f, <3>1, <3>2, <3>3
  <2>2. call' \in [OneProc -> Solo!Call]
    <3>1. call' = [call EXCEPT ![p].pc = "open"] \/ call' = [call EXCEPT ![p].pc = "name"]
      BY <1>2 DEF Solo!Look, Solo!Goto
    <3>2. "open" \in Solo!Pc /\ "name" \in Solo!Pc
      BY DEF Solo!Pc
    <3>3. [call EXCEPT ![p].pc = "open"] \in [OneProc -> Solo!Call]
      BY <1>c, <3>2
    <3>4. [call EXCEPT ![p].pc = "name"] \in [OneProc -> Solo!Call]
      BY <1>c, <3>2
    <3> QED
      BY <3>1, <3>3, <3>4
  <2> QED
    BY <1>2, <2>1, <2>2 DEF Solo!Look, Solo!TypeOK
<1>3. ASSUME NEW p \in OneProc, Solo!ChooseName(p) PROVE Solo!TypeOK'
  <2>1. book' \in Seq(Solo!Attempt) /\ Len(book') = Len(book)
    BY <1>3, <1>a, <1>f DEF Solo!ChooseName, Solo!TypeOK
  <2>2. call' \in [OneProc -> Solo!Call]
    BY <1>3, <1>c DEF Solo!ChooseName, Solo!Goto, Solo!Pc
  <2> QED
    BY <1>3, <2>1, <2>2 DEF Solo!ChooseName, Solo!TypeOK
<1>4. ASSUME NEW p \in OneProc, Solo!Rename(p) PROVE Solo!TypeOK'
  <2>1. archive' \in [Content -> [Solo!FileNo -> {"absent", "good", "bad"}]]
    BY <1>4 DEF Solo!Rename, Solo!TypeOK
  <2>2. call' \in [OneProc -> Solo!Call]
    <3>1. [call[p] EXCEPT !.pc = "open", !.fresh = TRUE] \in Solo!Call
      BY SoloCallTyped DEF Solo!Call, Solo!Pc
    <3> QED
      BY <1>4, <3>1 DEF Solo!Rename, Solo!TypeOK
  <2> QED
    BY <1>4, <2>1, <2>2 DEF Solo!Rename, Solo!TypeOK
<1>5. ASSUME NEW p \in OneProc, Solo!OpenLog(p) PROVE Solo!TypeOK'
  <2>1. call' \in [OneProc -> Solo!Call]
    <3>1. [call[p] EXCEPT !.pc = "write", !.length = Len(log)] \in Solo!Call
      <4>1. Len(log) \in Nat
        BY DEF Solo!TypeOK
      <4> QED
        BY SoloCallTyped, <4>1 DEF Solo!Call, Solo!Pc
    <3> QED
      BY <1>5, <3>1 DEF Solo!OpenLog, Solo!TypeOK
  <2> QED
    BY <1>5, <2>1 DEF Solo!OpenLog, Solo!TypeOK
<1>h. ASSUME NEW p \in OneProc, call[p].pc # "idle", NEW piece \in {"head", "rest", "bare", "newline"}
      PROVE  Solo!Half(call[p].id, piece) \in Solo!Chunk
  BY <1>b, <1>h DEF Solo!Half, Solo!Chunk
<1>6. ASSUME NEW p \in OneProc, Solo!WriteLine(p) PROVE Solo!TypeOK'
  <2>1. Solo!Half(call[p].id, "head") \in Solo!Chunk /\ Solo!Half(call[p].id, "rest") \in Solo!Chunk
    BY <1>6, <1>h DEF Solo!WriteLine
  <2>2. log' \in Seq(Solo!Chunk)
    BY <1>6, <2>1 DEF Solo!WriteLine, Solo!TypeOK
  <2>3. call' \in [OneProc -> Solo!Call]
    BY <1>6, <1>c DEF Solo!WriteLine, Solo!Goto, Solo!Pc
  <2> QED
    BY <1>6, <2>2, <2>3 DEF Solo!WriteLine, Solo!TypeOK
<1>7. ASSUME NEW p \in OneProc, Solo!WriteShort(p) PROVE Solo!TypeOK'
  <2>2. log' \in Seq(Solo!Chunk)
    BY <1>7, <1>h DEF Solo!WriteShort, Solo!TypeOK
  <2>3. call' \in [OneProc -> Solo!Call]
    BY <1>7, <1>c DEF Solo!WriteShort, Solo!Goto, Solo!Pc
  <2> QED
    BY <1>7, <2>2, <2>3 DEF Solo!WriteShort, Solo!TypeOK
<1>8. ASSUME NEW p \in OneProc, Solo!WriteMore(p) PROVE Solo!TypeOK'
  <2>2. log' \in Seq(Solo!Chunk)
    BY <1>8, <1>h DEF Solo!WriteMore, Solo!TypeOK, Solo!Second
  <2>3. call' \in [OneProc -> Solo!Call]
    BY <1>8, <1>c DEF Solo!WriteMore, Solo!Goto, Solo!Pc
  <2> QED
    BY <1>8, <2>2, <2>3 DEF Solo!WriteMore, Solo!TypeOK
<1>9. ASSUME NEW p \in OneProc, Solo!AppendFails(p) PROVE Solo!TypeOK'
  <2>1. call' \in [OneProc -> Solo!Call]
    BY <1>9, <1>c DEF Solo!AppendFails, Solo!Goto, Solo!Pc
  <2>2. undone' \subseteq Solo!AttemptId
    BY <1>9, <1>b DEF Solo!AppendFails, Solo!TypeOK
  <2> QED
    BY <1>9, <2>1, <2>2 DEF Solo!AppendFails, Solo!TypeOK
<1>10. ASSUME NEW p \in OneProc, Solo!Truncate(p) PROVE Solo!TypeOK'
  <2>1. call' \in [OneProc -> Solo!Call]
    BY <1>10, <1>c DEF Solo!Truncate, Solo!Goto, Solo!Pc
  <2>2. undone' \subseteq Solo!AttemptId
    BY <1>10, <1>b DEF Solo!Truncate, Solo!TypeOK
  <2>3. Solo!Hole \in Solo!Chunk /\ call[p].length \in Nat
    BY SoloCallTyped DEF Solo!Hole, Solo!Chunk
  <2>4. log' \in Seq(Solo!Chunk)
    <3>1. \A k \in 1..call[p].length : (IF k <= Len(log) THEN log[k] ELSE Solo!Hole) \in Solo!Chunk
      BY <2>3 DEF Solo!TypeOK
    <3> QED
      BY <1>10, <2>3, <3>1 DEF Solo!Truncate, Solo!Truncated
  <2> QED
    BY <1>10, <2>1, <2>2, <2>4 DEF Solo!Truncate, Solo!TypeOK
<1>11. ASSUME NEW p \in OneProc, Solo!TruncateFails(p) PROVE Solo!TypeOK'
  BY <1>11, <1>c DEF Solo!TruncateFails, Solo!Goto, Solo!Pc, Solo!TypeOK
<1>12. ASSUME NEW p \in OneProc, Solo!DropReceipt(p) PROVE Solo!TypeOK'
  <2>1. archive' \in [Content -> [Solo!FileNo -> {"absent", "good", "bad"}]]
    BY <1>12 DEF Solo!DropReceipt, Solo!TypeOK
  <2>2. call' \in [OneProc -> Solo!Call]
    BY <1>12, <1>c DEF Solo!DropReceipt, Solo!Leave, Solo!Pc
  <2> QED
    BY <1>12, <2>1, <2>2 DEF Solo!DropReceipt, Solo!TypeOK
<1>13. ASSUME NEW p \in OneProc, Solo!Commit(p) PROVE Solo!TypeOK'
  <2>1. call' \in [OneProc -> Solo!Call]
    BY <1>13, <1>c DEF Solo!Commit, Solo!Goto, Solo!Pc
  <2>2. committed' \subseteq Solo!AttemptId
    BY <1>13, <1>b DEF Solo!Commit, Solo!TypeOK
  <2> QED
    BY <1>13, <2>1, <2>2 DEF Solo!Commit, Solo!TypeOK
<1>14. ASSUME NEW p \in OneProc, Solo!WritePacket(p) PROVE Solo!TypeOK'
  <2>1. call' \in [OneProc -> Solo!Call]
    BY <1>14, <1>c DEF Solo!WritePacket, Solo!Leave, Solo!Pc
  <2>2. call[p].id \in Solo!AttemptId /\ call[p].read \in Seq(Solo!AttemptId)
    BY <1>14, <1>b, SoloCallTyped DEF Solo!WritePacket
  <2>3. packet' \in Seq(Solo!AttemptId)
    <3>1. Append(call[p].read, call[p].id) \in Seq(Solo!AttemptId)
      BY <2>2
    <3> QED
      BY <1>14, <3>1 DEF Solo!WritePacket, Solo!Rendered, Solo!TypeOK
  <2> QED
    BY <1>14, <2>1, <2>3 DEF Solo!WritePacket, Solo!TypeOK
<1>15. ASSUME NEW p \in OneProc, Solo!Crash(p) PROVE Solo!TypeOK'
  BY <1>15, <1>c DEF Solo!Crash, Solo!Leave, Solo!Pc, Solo!TypeOK
<1>16. ASSUME NEW c \in Content, NEW n \in Solo!FileNo, NEW how \in {"bad", "absent"}, Solo!Tamper(c, n, how)
       PROVE  Solo!TypeOK'
  <2>1. archive' \in [Content -> [Solo!FileNo -> {"absent", "good", "bad"}]]
    BY <1>16 DEF Solo!Tamper, Solo!TypeOK
  <2>2. tampered' \in [ids : SUBSET Solo!AttemptId, times : 0..0]
    BY <1>16, <1>a, <1>b DEF Solo!Tamper, Solo!TypeOK
  <2> QED
    BY <1>16, <2>1, <2>2 DEF Solo!Tamper, Solo!TypeOK
<1>17. CASE UNCHANGED Solo!vars
  BY <1>17 DEF Solo!vars, Solo!TypeOK
<1> QED
  BY <1>1, <1>2, <1>3, <1>4, <1>5, <1>6, <1>7, <1>8, <1>9, <1>10, <1>11, <1>12, <1>13, <1>14,
     <1>15, <1>16, <1>17 DEF Solo!Next

\* No call yet.
LEMMA SoloInitTyped == ASSUME Solo!CasebookAssumption, Solo!Init PROVE Solo!TypeOK
<1>1. Solo!NoCall \in Solo!Call
  <2>1. <<>> \in Seq(Solo!AttemptId)
    OBVIOUS
  <2> QED
    BY <2>1 DEF Solo!Call, Solo!NoCall, Solo!Pc
<1> QED
  BY <1>1, SoloBounds DEF Solo!Init, Solo!TypeOK

------------------------------------------------------------------------------
(* One process *)

\* What the calls of one process write: no holes.
Written == [id : Solo!AttemptId, part : {"head", "rest", "bare", "newline"}]

\* The ladder, for a serialised attempt b[i] of each i: a pass of every stage
\* below s is the latest outcome of that stage.
Climbed(b, seq, s) ==
  \A q \in 1..(s - 1) :
    \E k \in 1..Len(seq) : /\ b[seq[k]].stage = q /\ b[seq[k]].outcome = "PASS"
                           /\ \A j \in (k + 1)..Len(seq) : b[seq[j]].stage # q

\* Every pass of a sequence had the ladder below it when it was recorded.
InOrder(b, seq) ==
  \A k \in 1..Len(seq) :
    b[seq[k]].outcome = "PASS" =>
      \A q \in 1..(b[seq[k]].stage - 1) :
        \E j \in 1..(k - 1) : /\ b[seq[j]].stage = q /\ b[seq[j]].outcome = "PASS"
                              /\ \A m \in (j + 1)..(k - 1) : b[seq[m]].stage # q

\* The attempts of a sequence, and that one sequence begins another.
Members(seq) == {seq[k] : k \in 1..Len(seq)}

Begins(a, seq) == Len(a) <= Len(seq) /\ \A k \in 1..Len(a) : a[k] = seq[k]

\* The files: whatever is in the log was begun and not undone, its records are
\* in order, what was committed is among them and the packet begins them.
FilesSound ==
  /\ log \in Seq(Written)
  /\ \A k \in 1..Len(log) : log[k].id \in 1..Len(book) /\ log[k].id \notin undone
  /\ Solo!Recorded(log) \in Seq(1..Len(book))
  /\ InOrder(book, Solo!Recorded(log))
  /\ committed \subseteq Members(Solo!Recorded(log))
  /\ committed \subseteq 1..Len(book) /\ undone \subseteq 1..Len(book)
  /\ Begins(packet, Solo!Recorded(log))

\* The call in hand is the latest attempt.  Until it is committed or given up,
\* what it read holds all that was promised, and is what a cut would restore.
Unwritten == {"look", "name", "rename", "open", "write"}

Undecided == Unwritten \cup {"more", "sync", "cut"}

CallSound(p) ==
  LET c == call[p] IN
  c.pc # "idle" =>
    /\ c.id = Len(book) /\ c.id \in 1..Len(book)
    /\ c.read \in Seq(1..(Len(book) - 1))
    /\ c.pc \in Undecided =>
         /\ c.id \notin committed /\ c.id \notin undone
         /\ InOrder(book, c.read)
         /\ book[c.id].outcome = "PASS" => Climbed(book, c.read, book[c.id].stage)
         /\ committed \subseteq Members(c.read)
         /\ Begins(packet, c.read)
    /\ c.pc \in Unwritten =>
         Solo!Recorded(log) = c.read /\ \A k \in 1..Len(log) : log[k].id # c.id
    /\ c.pc = "write" => c.length = Len(log)
    /\ c.pc \in {"more", "sync", "cut"} =>
         /\ c.length < Len(log) /\ Solo!Recorded(Solo!Truncated(log, c.length)) = c.read
         /\ \A k \in 1..c.length : log[k].id # c.id
    /\ c.pc = "more" =>
         /\ Len(log) = c.length + 1 /\ log[Len(log)].part \in {"head", "bare"}
         /\ Solo!Recorded(log) = IF log[Len(log)].part = "bare" THEN Append(c.read, c.id) ELSE c.read
    /\ c.pc = "cut" => Solo!Recorded(log) = c.read \/ Solo!Recorded(log) = Append(c.read, c.id)
    /\ c.pc \in {"sync", "packet"} => Solo!Recorded(log) = Append(c.read, c.id)

\* The invariant of one process.
SoloInv == Solo!TypeOK /\ FilesSound /\ \A p \in OneProc : CallSound(p)

\* The casebook of one process.
Alone == \A p, q \in OneProc : p = q

\* The gate of record_attempt, and what it is of a serialised attempt.
LEMMA GateIsClimbed == \A seq, s : Solo!GateOpen(seq, s) <=> Climbed(book, seq, s)
  BY DEF Solo!GateOpen, Solo!Passed, Climbed

\* Files given to attempts, and new attempts, change nothing of the ladder.
LEMMA LadderStays ==
  ASSUME NEW b, NEW d, NEW n \in Nat, NEW seq \in Seq(1..n),
         \A i \in 1..n : d[i].stage = b[i].stage /\ d[i].outcome = b[i].outcome
  PROVE  /\ InOrder(b, seq) => InOrder(d, seq)
         /\ \A s : Climbed(b, seq, s) => Climbed(d, seq, s)
<1>1. \A k \in 1..Len(seq) : d[seq[k]].stage = b[seq[k]].stage /\ d[seq[k]].outcome = b[seq[k]].outcome
  OBVIOUS
<1>2. Len(seq) \in Nat
  OBVIOUS
<1>3. ASSUME InOrder(b, seq) PROVE InOrder(d, seq)
  <2>1. SUFFICES ASSUME NEW k \in 1..Len(seq), d[seq[k]].outcome = "PASS",
                        NEW q \in 1..(d[seq[k]].stage - 1)
                 PROVE  \E j \in 1..(k - 1) : /\ d[seq[j]].stage = q /\ d[seq[j]].outcome = "PASS"
                              /\ \A m \in (j + 1)..(k - 1) : d[seq[m]].stage # q
    BY DEF InOrder
  <2>2. PICK j \in 1..(k - 1) : /\ b[seq[j]].stage = q /\ b[seq[j]].outcome = "PASS"
                              /\ \A m \in (j + 1)..(k - 1) : b[seq[m]].stage # q
    BY <1>1, <1>3, <2>1 DEF InOrder
  <2>3. j \in 1..Len(seq) /\ \A m \in (j + 1)..(k - 1) : m \in 1..Len(seq)
    BY <1>2
  <2> QED
    BY <1>1, <2>2, <2>3
<1>4. ASSUME NEW s, Climbed(b, seq, s) PROVE Climbed(d, seq, s)
  <2>1. SUFFICES ASSUME NEW q \in 1..(s - 1)
                 PROVE  \E k \in 1..Len(seq) : /\ d[seq[k]].stage = q /\ d[seq[k]].outcome = "PASS"
                           /\ \A j \in (k + 1)..Len(seq) : d[seq[j]].stage # q
    BY DEF Climbed
  <2>2. PICK k \in 1..Len(seq) : /\ b[seq[k]].stage = q /\ b[seq[k]].outcome = "PASS"
                           /\ \A j \in (k + 1)..Len(seq) : b[seq[j]].stage # q
    BY <1>4 DEF Climbed
  <2>3. \A j \in (k + 1)..Len(seq) : j \in 1..Len(seq)
    BY <1>2
  <2> QED
    BY <1>1, <2>2, <2>3
<1> QED
  BY <1>3, <1>4

\* One more attempt whose gate is open keeps the ladder in order.
LEMMA LadderGrows ==
  ASSUME NEW b, NEW n \in Nat, NEW seq \in Seq(1..n), NEW i \in 1..n,
         InOrder(b, seq), b[i].outcome = "PASS" => Climbed(b, seq, b[i].stage)
  PROVE  InOrder(b, Append(seq, i))
<1> DEFINE t == Append(seq, i)
<1>1. /\ Len(seq) \in Nat /\ Len(t) = Len(seq) + 1 /\ t[Len(seq) + 1] = i
      /\ \A k \in 1..Len(seq) : t[k] = seq[k]
  OBVIOUS
<1> HIDE DEF t
<1>2. ASSUME NEW k \in 1..Len(t), b[t[k]].outcome = "PASS", NEW q \in 1..(b[t[k]].stage - 1)
      PROVE  \E j \in 1..(k - 1) : /\ b[t[j]].stage = q /\ b[t[j]].outcome = "PASS"
                              /\ \A m \in (j + 1)..(k - 1) : b[t[m]].stage # q
  <2>1. CASE k \in 1..Len(seq)
    <3>1. PICK j \in 1..(k - 1) : /\ b[seq[j]].stage = q /\ b[seq[j]].outcome = "PASS"
                              /\ \A m \in (j + 1)..(k - 1) : b[seq[m]].stage # q
      BY <1>1, <1>2, <2>1 DEF InOrder
    <3>2. j \in 1..Len(seq) /\ \A m \in (j + 1)..(k - 1) : m \in 1..Len(seq)
      BY <1>1, <2>1
    <3> QED
      BY <1>1, <3>1, <3>2
  <2>2. CASE k = Len(seq) + 1
    <3>1. PICK j \in 1..Len(seq) : /\ b[seq[j]].stage = q /\ b[seq[j]].outcome = "PASS"
                           /\ \A m \in (j + 1)..Len(seq) : b[seq[m]].stage # q
      BY <1>1, <1>2, <2>2 DEF Climbed
    <3>2. k - 1 = Len(seq) /\ \A m \in (j + 1)..Len(seq) : m \in 1..Len(seq)
      BY <1>1, <2>2
    <3>3. b[t[j]].stage = q /\ b[t[j]].outcome = "PASS"
      BY <1>1, <3>1
    <3>4. \A m \in (j + 1)..Len(seq) : b[t[m]].stage # q
      <4>1. SUFFICES ASSUME NEW m \in (j + 1)..Len(seq) PROVE b[t[m]].stage # q
        OBVIOUS
      <4>2. t[m] = seq[m]
        BY <1>1, <3>2
      <4> QED
        BY <3>1, <4>2
    <3> QED
      BY <3>2, <3>3, <3>4
  <2> QED
    BY <1>1, <1>2, <2>1, <2>2
<1> QED
  BY <1>2 DEF InOrder, t

\* Nothing is forgotten by one more.
LEMMA MembersGrow ==
  ASSUME NEW T, NEW seq \in Seq(T), NEW i \in T
  PROVE  /\ Members(Append(seq, i)) = Members(seq) \cup {i}
         /\ \A a : Begins(a, seq) => Begins(a, Append(seq, i))
<1>1. /\ Len(seq) \in Nat /\ Len(Append(seq, i)) = Len(seq) + 1 /\ Append(seq, i)[Len(seq) + 1] = i
      /\ \A k \in 1..Len(seq) : Append(seq, i)[k] = seq[k]
  OBVIOUS
<1>2. 1..(Len(seq) + 1) = (1..Len(seq)) \cup {Len(seq) + 1}
  BY <1>1
<1>3. Members(Append(seq, i)) = Members(seq) \cup {i}
  BY <1>1, <1>2 DEF Members
<1> QED
  BY <1>1, <1>3 DEF Begins

\* A sequence over a set is one over a larger set.
LEMMA SeqWidens == ASSUME NEW S, NEW T, S \subseteq T, NEW seq \in Seq(S) PROVE seq \in Seq(T)
<1>1. /\ Len(seq) \in Nat /\ \A k \in 1..Len(seq) : seq[k] \in T
      /\ seq = [k \in 1..Len(seq) |-> seq[k]]
  OBVIOUS
<1> QED
  BY <1>1

\* The call in hand and the bounds of what it holds.
LEMMA CallHeld ==
  ASSUME Solo!CasebookAssumption, SoloInv, NEW p \in OneProc, call[p].pc # "idle"
  PROVE  /\ call[p].id = Len(book) /\ call[p].id \in 1..Len(book) /\ Len(book) \in Nat
         /\ call[p].id \in Solo!AttemptId /\ 1..Len(book) \subseteq Solo!AttemptId
         /\ call[p].read \in Seq(1..(Len(book) - 1)) /\ call[p].read \in Seq(1..Len(book))
         /\ call[p].length \in Nat
<1>1. Len(book) \in Nat /\ Len(book) <= MaxAttempts
  BY DEF SoloInv, Solo!TypeOK
<1>2. 1..Len(book) \subseteq Solo!AttemptId
  BY <1>1, SoloBounds DEF Solo!AttemptId
<1>3. /\ call[p].id = Len(book) /\ call[p].id \in 1..Len(book)
      /\ call[p].read \in Seq(1..(Len(book) - 1))
  BY DEF SoloInv, CallSound
<1>4. call[p].read \in Seq(1..Len(book))
  <2>1. 1..(Len(book) - 1) \subseteq 1..Len(book)
    BY <1>1
  <2> QED
    BY <1>3, <2>1
<1>5. call[p].length \in Nat
  BY SoloCallTyped DEF SoloInv
<1> QED
  BY <1>1, <1>2, <1>3, <1>4, <1>5

\* What an undecided call would add to what it read.
LEMMA CallGrows ==
  ASSUME Solo!CasebookAssumption, SoloInv, NEW p \in OneProc, call[p].pc \in Undecided
  PROVE  LET grown == Append(call[p].read, call[p].id) IN
         /\ grown \in Seq(1..Len(book)) /\ InOrder(book, grown) /\ Begins(packet, grown)
         /\ committed \subseteq Members(grown) /\ call[p].id \in Members(grown)
<1>1. call[p].pc # "idle"
  BY DEF Undecided, Unwritten
<1>2. /\ InOrder(book, call[p].read) /\ committed \subseteq Members(call[p].read)
      /\ book[call[p].id].outcome = "PASS" => Climbed(book, call[p].read, book[call[p].id].stage)
      /\ Begins(packet, call[p].read)
  BY <1>1 DEF SoloInv, CallSound
<1>3. PICK i \in 1..Len(book) : i = call[p].id
  BY <1>1, CallHeld
<1>4. PICK seq \in Seq(1..Len(book)) : seq = call[p].read
  BY <1>1, CallHeld
<1>5. Len(book) \in Nat
  BY <1>1, CallHeld
<1>6. InOrder(book, Append(seq, i))
  BY <1>2, <1>3, <1>4, <1>5, LadderGrows
<1>7. Members(Append(seq, i)) = Members(seq) \cup {i} /\ Begins(packet, Append(seq, i))
  BY <1>2, <1>4, MembersGrow
<1> QED
  BY <1>2, <1>3, <1>4, <1>6, <1>7

\* The records of the book are only given files, and new ones are added.
BookStays ==
  /\ Len(book') \in Nat /\ Len(book) <= Len(book')
  /\ \A i \in 1..Len(book) : book'[i].stage = book[i].stage /\ book'[i].outcome = book[i].outcome

\* A step that leaves the log and the promises about it.
LEMMA FilesStay ==
  ASSUME Solo!CasebookAssumption, SoloInv, BookStays, UNCHANGED <<log, packet, committed>>,
         NEW i \in 1..Len(book), undone' \subseteq undone \cup {i},
         \A k \in 1..Len(log) : log[k].id \notin undone'
  PROVE  FilesSound'
<1>1. Len(book) \in Nat /\ 1..Len(book) \subseteq 1..Len(book')
  BY DEF SoloInv, Solo!TypeOK, BookStays
<1>2. PICK seq \in Seq(1..Len(book)) : seq = Solo!Recorded(log)
  BY DEF SoloInv, FilesSound
<1>3. InOrder(book', seq)
  BY <1>1, <1>2, LadderStays DEF SoloInv, FilesSound, BookStays
<1>4. seq \in Seq(1..Len(book'))
  BY <1>1, <1>2, SeqWidens
<1>5. Solo!Recorded(log') = seq
  BY <1>2
<1>6. log' \in Seq(Written) /\ committed' \subseteq 1..Len(book') /\ undone' \subseteq 1..Len(book')
      /\ \A k \in 1..Len(log') : log'[k].id \in 1..Len(book') /\ log'[k].id \notin undone'
  BY <1>1 DEF SoloInv, FilesSound
<1>7. committed' \subseteq Members(seq) /\ Begins(packet', seq)
  BY <1>2 DEF SoloInv, FilesSound
<1> QED
  BY <1>3, <1>4, <1>5, <1>6, <1>7 DEF FilesSound

\* A call that has not written yet goes on.
LEMMA CallMoves ==
  ASSUME Solo!CasebookAssumption, SoloInv, NEW p \in OneProc, NEW c \in Solo!Call, BookStays,
         UNCHANGED <<log, packet, committed, undone>>, Len(book') = Len(book),
         call' = [call EXCEPT ![p] = c], c.id = call[p].id, c.read = call[p].read,
         call[p].pc \in Unwritten, c.pc \in Unwritten, c.pc = "write" => c.length = Len(log)
  PROVE  FilesSound' /\ CallSound(p)'
<1>1. call[p].pc # "idle" /\ call[p].pc \in Undecided
  BY DEF Undecided, Unwritten
<1>2. PICK i \in 1..Len(book) : i = call[p].id
  BY <1>1, CallHeld
<1>3. PICK seq \in Seq(1..Len(book)) : seq = call[p].read
  BY <1>1, CallHeld
<1>4. FilesSound'
  BY <1>2, FilesStay DEF SoloInv, FilesSound
<1>5. call'[p] = c
  BY DEF SoloInv, Solo!TypeOK
<1>6. InOrder(book, seq) /\ (book[i].outcome = "PASS" => Climbed(book, seq, book[i].stage))
  BY <1>1, <1>2, <1>3 DEF SoloInv, CallSound
<1>7. Len(book) \in Nat
  BY <1>1, CallHeld
<1>8. InOrder(book', seq) /\ (book'[i].outcome = "PASS" => Climbed(book', seq, book'[i].stage))
  BY <1>6, <1>7, <1>2, LadderStays DEF BookStays
<1> QED
  BY <1>1, <1>2, <1>3, <1>4, <1>5, <1>8 DEF SoloInv, CallSound, Undecided, Unwritten

\* Steps before the log is opened.
LEMMA SoloNames ==
  ASSUME Solo!CasebookAssumption, SoloInv, NEW p \in OneProc,
         Solo!Look(p) \/ Solo!ChooseName(p) \/ Solo!Rename(p) \/ Solo!OpenLog(p)
  PROVE  FilesSound' /\ CallSound(p)'
<1>1. /\ call \in [OneProc -> Solo!Call] /\ call[p] \in Solo!Call /\ Len(log) \in Nat
      /\ book \in Seq(Solo!Attempt) /\ Len(book) \in Nat
  BY DEF SoloInv, Solo!TypeOK
<1>2. call[p].pc \in Unwritten /\ call[p].pc # "idle"
  BY DEF Solo!Look, Solo!ChooseName, Solo!Rename, Solo!OpenLog, Unwritten
<1>3. PICK i \in 1..Len(book) : i = call[p].id
  BY <1>2, CallHeld
<1>4. UNCHANGED <<log, packet, committed, undone>>
  BY DEF Solo!Look, Solo!ChooseName, Solo!Rename, Solo!OpenLog
<1>5. BookStays /\ Len(book') = Len(book)
  <2>1. book' = book \/ \E n \in Solo!FileNo \cup {1} : book' = [book EXCEPT ![i].file = n]
    BY <1>3 DEF Solo!Look, Solo!ChooseName, Solo!Rename, Solo!OpenLog
  <2>2. CASE book' = book
    BY <1>1, <2>2 DEF BookStays
  <2>3. CASE \E n \in Solo!FileNo \cup {1} : book' = [book EXCEPT ![i].file = n]
    <3>1. PICK n \in Solo!FileNo \cup {1} : book' = [book EXCEPT ![i].file = n]
      BY <2>3
    <3>2. Len(book') = Len(book) /\ \A k \in 1..Len(book) : k # i => book'[k] = book[k]
      BY <1>1, <3>1
    <3>3. book[i] \in Solo!Attempt /\ book'[i] = [book[i] EXCEPT !.file = n]
      BY <1>1, <3>1
    <3>4. book'[i].stage = book[i].stage /\ book'[i].outcome = book[i].outcome
      BY <3>3 DEF Solo!Attempt
    <3> QED
      BY <1>1, <3>2, <3>4 DEF BookStays
  <2> QED
    BY <2>1, <2>2, <2>3
<1>6. \/ call' = [call EXCEPT ![p].pc = "open"] \/ call' = [call EXCEPT ![p].pc = "name"]
      \/ call' = [call EXCEPT ![p].pc = "rename"]
      \/ call' = [call EXCEPT ![p].pc = "open", ![p].fresh = TRUE]
      \/ call' = [call EXCEPT ![p].pc = "write", ![p].length = Len(log)]
  BY DEF Solo!Look, Solo!ChooseName, Solo!Rename, Solo!OpenLog, Solo!Goto
<1>7. ASSUME NEW pc \in {"open", "name", "rename"}, call' = [call EXCEPT ![p].pc = pc]
      PROVE  FilesSound' /\ CallSound(p)'
  <2>1. PICK c \in Solo!Call : c = [call[p] EXCEPT !.pc = pc]
    BY <1>1 DEF Solo!Call, Solo!Pc
  <2>2. /\ c.pc = pc /\ c.id = call[p].id /\ c.read = call[p].read
        /\ call' = [call EXCEPT ![p] = c]
    BY <1>1, <1>7, <2>1 DEF Solo!Call
  <2> QED
    BY <1>2, <1>4, <1>5, <2>2, CallMoves DEF Unwritten
<1>8. CASE call' = [call EXCEPT ![p].pc = "open", ![p].fresh = TRUE]
  <2>1. PICK c \in Solo!Call : c = [call[p] EXCEPT !.pc = "open", !.fresh = TRUE]
    BY <1>1 DEF Solo!Call, Solo!Pc
  <2>2. /\ c.pc = "open" /\ c.id = call[p].id /\ c.read = call[p].read
        /\ call' = [call EXCEPT ![p] = c]
    BY <1>1, <1>8, <2>1 DEF Solo!Call
  <2> QED
    BY <1>2, <1>4, <1>5, <2>2, CallMoves DEF Unwritten
<1>9. CASE call' = [call EXCEPT ![p].pc = "write", ![p].length = Len(log)]
  <2>1. PICK c \in Solo!Call : c = [call[p] EXCEPT !.pc = "write", !.length = Len(log)]
    BY <1>1 DEF Solo!Call, Solo!Pc
  <2>2. /\ c.pc = "write" /\ c.id = call[p].id /\ c.read = call[p].read /\ c.length = Len(log)
        /\ call' = [call EXCEPT ![p] = c]
    BY <1>1, <1>9, <2>1 DEF Solo!Call
  <2> QED
    BY <1>2, <1>4, <1>5, <2>2, CallMoves DEF Unwritten
<1> QED
  BY <1>6, <1>7, <1>8, <1>9

\* A call begins: its gate is open in what it read.
LEMMA SoloBegins ==
  ASSUME Solo!CasebookAssumption, SoloInv, NEW p \in OneProc, NEW s \in Solo!Stage, NEW o \in Solo!Outcome,
         NEW c \in Content \cup {NoContent}, Solo!Begin(p, s, o, c)
  PROVE  FilesSound' /\ CallSound(p)'
<1>1. call \in [OneProc -> Solo!Call] /\ book \in Seq(Solo!Attempt) /\ Len(book) \in Nat
  BY DEF SoloInv, Solo!TypeOK
<1>2. /\ Len(book') = Len(book) + 1 /\ \A i \in 1..Len(book) : book'[i] = book[i]
      /\ book'[Len(book) + 1].stage = s /\ book'[Len(book) + 1].outcome = o
  BY <1>1 DEF Solo!Begin
<1>3. /\ call'[p].pc \in {"open", "look"} /\ call'[p].id = Len(book) + 1
      /\ call'[p].read = Solo!Recorded(log)
  BY <1>1 DEF Solo!Begin, Solo!NoCall
<1>4. UNCHANGED <<log, packet, committed, undone>>
  BY DEF Solo!Begin
<1>5. BookStays
  BY <1>1, <1>2 DEF BookStays
<1>6. PICK seq \in Seq(1..Len(book)) : seq = Solo!Recorded(log)
  BY DEF SoloInv, FilesSound
<1>7. InOrder(book', seq)
  BY <1>1, <1>5, <1>6, LadderStays DEF SoloInv, FilesSound, BookStays
<1>8. o = "PASS" => Climbed(book', seq, s)
  <2>1. o = "PASS" => Climbed(book, seq, s)
    BY <1>6, GateIsClimbed DEF Solo!Begin
  <2> QED
    BY <1>1, <1>5, <1>6, <2>1, LadderStays DEF BookStays
<1>9. FilesSound'
  <2>1. 1..Len(book) \subseteq 1..Len(book')
    BY <1>1, <1>2
  <2>2. seq \in Seq(1..Len(book'))
    BY <1>6, <2>1, SeqWidens
  <2> QED
    BY <1>4, <1>6, <1>7, <2>1, <2>2 DEF SoloInv, FilesSound
<1>10. Len(book') - 1 = Len(book) /\ Len(book) + 1 \in 1..Len(book')
       /\ Len(book) + 1 \notin 1..Len(book)
  BY <1>1, <1>2
<1>11. /\ Len(book) + 1 \notin committed /\ Len(book) + 1 \notin undone
       /\ \A k \in 1..Len(log) : log[k].id # Len(book) + 1
       /\ committed \subseteq Members(seq) /\ Begins(packet, seq)
  BY <1>6, <1>10 DEF SoloInv, FilesSound
<1> QED
  BY <1>2, <1>3, <1>4, <1>6, <1>7, <1>8, <1>9, <1>10, <1>11 DEF CallSound, Undecided, Unwritten

\* What a cut leaves: all of a log, or what was there before the last chunk.
LEMMA CutLeaves ==
  ASSUME NEW T, NEW f \in Seq(T), NEW c \in T
  PROVE  /\ Solo!Truncated(f, Len(f)) = f
         /\ \A n \in 0..Len(f) : Solo!Truncated(Append(f, c), n) = Solo!Truncated(f, n)
<1>1. /\ Len(f) \in Nat /\ Len(Append(f, c)) = Len(f) + 1
      /\ \A k \in 1..Len(f) : Append(f, c)[k] = f[k] /\ k \in Nat /\ k <= Len(f) + 1
  OBVIOUS
<1>2. Solo!Truncated(f, Len(f)) = f
  <2>1. f = [k \in 1..Len(f) |-> f[k]]
    OBVIOUS
  <2> QED
    BY <2>1 DEF Solo!Truncated
<1>3. ASSUME NEW n \in 0..Len(f) PROVE Solo!Truncated(Append(f, c), n) = Solo!Truncated(f, n)
  <2>1. \A k \in 1..n : k \in 1..Len(f) /\ k <= Len(f) /\ k <= Len(f) + 1
    BY <1>1
  <2> QED
    BY <1>1, <2>1 DEF Solo!Truncated
<1> QED
  BY <1>2, <1>3

\* The log with one more chunk of the call's attempt is as sound as what it
\* records.
LEMMA LogSound ==
  ASSUME Solo!CasebookAssumption, SoloInv, NEW g \in Seq(Written), UNCHANGED <<book, packet, committed, undone>>,
         NEW i \in 1..Len(book), i \notin undone, log' = g,
         \A k \in 1..Len(g) : g[k].id = i \/ (k \in 1..Len(log) /\ g[k] = log[k]),
         Solo!Recorded(g) \in Seq(1..Len(book)), InOrder(book, Solo!Recorded(g)), Begins(packet, Solo!Recorded(g)),
         committed \subseteq Members(Solo!Recorded(g))
  PROVE  FilesSound'
  BY DEF SoloInv, FilesSound

\* One more chunk of an attempt.
Longer(f, i, piece) == Append(f, Solo!Half(i, piece))

\* The log g is f with one more half of an attempt, and finds f's records seq,
\* or those and the attempt.
Adds(g, f, i, piece, seq) ==
  /\ g \in Seq(Written) /\ Len(g) = Len(f) + 1 /\ Len(f) \in Nat
  /\ g[Len(f) + 1].id = i /\ g[Len(f) + 1].part = piece
  /\ \A k \in 1..Len(f) : g[k] = f[k]
  /\ \A m \in 0..Len(f) : Solo!Truncated(g, m) = Solo!Truncated(f, m)
  /\ piece \in {"head", "newline"} => Solo!Recorded(g) = seq
  /\ piece \in {"rest", "bare"} => Solo!Recorded(g) = Append(seq, i)

\* What one more half does to the log and its records.
LEMMA HalfWritten ==
  ASSUME NEW f \in Seq(Written), NEW i \in Solo!AttemptId, NEW piece \in {"head", "rest", "bare", "newline"},
         NEW g, g = Longer(f, i, piece), NEW seq, seq = Solo!Recorded(f),
         NEW n \in Nat, seq \in Seq(1..n)
  PROVE  Adds(g, f, i, piece, seq)
<1>1. PICK h \in Written : h = Solo!Half(i, piece)
  BY DEF Solo!Half, Written
<1>2. h.id = i /\ h.part = piece
  BY <1>1 DEF Solo!Half
<1>3. g = Append(f, h)
  BY <1>1 DEF Longer
<1>4. /\ g \in Seq(Written) /\ Len(g) = Len(f) + 1 /\ Len(f) \in Nat
      /\ g[Len(f) + 1] = h /\ \A k \in 1..Len(f) : g[k] = f[k]
  BY <1>3
<1>5. \A m \in 0..Len(f) : Solo!Truncated(g, m) = Solo!Truncated(f, m)
  BY <1>3, CutLeaves
<1>6. /\ h.part \notin {"rest", "bare"} => Solo!Recorded(g) = Solo!Recorded(f)
      /\ h.part \in {"rest", "bare"} => Solo!Recorded(g) = Append(Solo!Recorded(f), h.id)
  BY <1>3, RecordedGrows
<1>7. /\ piece \in {"head", "newline"} => Solo!Recorded(g) = seq
      /\ piece \in {"rest", "bare"} => Solo!Recorded(g) = Append(seq, i)
  BY <1>2, <1>6
<1>8. g[Len(f) + 1].id = i /\ g[Len(f) + 1].part = piece
  BY <1>2, <1>4
<1> QED
  BY <1>4, <1>5, <1>7, <1>8 DEF Adds

\* The first write of a line: all of it, or its first half.
LEMMA SoloWrites ==
  ASSUME Solo!CasebookAssumption, SoloInv, NEW p \in OneProc, Solo!WriteLine(p) \/ Solo!WriteShort(p)
  PROVE  FilesSound' /\ CallSound(p)'
<1>1. call[p].pc = "write" /\ call[p].pc \in Unwritten /\ call[p].pc \in Undecided /\ call[p].pc # "idle"
  BY DEF Solo!WriteLine, Solo!WriteShort, Undecided, Unwritten
<1>2. PICK i \in 1..Len(book) : i = call[p].id
  BY <1>1, CallHeld
<1>3. PICK seq \in Seq(1..Len(book)) : seq = call[p].read
  BY <1>1, CallHeld
<1>4. /\ i \notin committed /\ i \notin undone /\ Solo!Recorded(log) = seq
      /\ \A k \in 1..Len(log) : log[k].id # i
      /\ InOrder(book, seq) /\ committed \subseteq Members(seq) /\ Begins(packet, seq)
      /\ book[i].outcome = "PASS" => Climbed(book, seq, book[i].stage)
      /\ call[p].length = Len(log) /\ i = Len(book) /\ seq \in Seq(1..(Len(book) - 1))
  BY <1>1, <1>2, <1>3 DEF SoloInv, CallSound
<1>5. /\ Append(seq, i) \in Seq(1..Len(book)) /\ InOrder(book, Append(seq, i)) /\ Begins(packet, Append(seq, i))
      /\ committed \subseteq Members(Append(seq, i))
  BY <1>1, <1>2, <1>3, CallGrows
<1>6. log \in Seq(Written) /\ Len(log) \in Nat /\ i \in Solo!AttemptId
  <2>1. log \in Seq(Written) /\ Len(log) \in Nat
    BY DEF SoloInv, FilesSound
  <2> QED
    BY <1>1, <1>2, <2>1, CallHeld
<1>n. PICK n \in Nat : n = Len(book)
  BY <1>1, CallHeld
<1>s. seq \in Seq(1..n) /\ Len(log) \in 0..Len(log)
  BY <1>3, <1>6, <1>n
<1>7. \A piece \in {"head", "rest", "bare", "newline"} :
         Solo!Half(i, piece) \in Written /\ Solo!Half(i, piece).id = i /\ Solo!Half(i, piece).part = piece
  BY <1>6 DEF Solo!Half, Written
<1>8. UNCHANGED <<book, packet, committed, undone>>
  BY DEF Solo!WriteLine, Solo!WriteShort
<1>9. call \in [OneProc -> Solo!Call] /\ call[p] \in Solo!Call
  BY DEF SoloInv, Solo!TypeOK
<1>10. CASE Solo!WriteLine(p)
  <2>1. PICK f : f = Longer(log, i, "head")
    OBVIOUS
  <2>2. /\ f \in Seq(Written) /\ Len(f) = Len(log) + 1 /\ f[Len(log) + 1].id = i
        /\ \A k \in 1..Len(log) : f[k] = log[k]
        /\ Solo!Truncated(f, Len(log)) = Solo!Truncated(log, Len(log)) /\ Solo!Recorded(f) = seq
    <3>1. seq = Solo!Recorded(log)
      BY <1>4
    <3>2. Adds(f, log, i, "head", seq)
      BY <1>6, <1>s, <2>1, <3>1, HalfWritten
    <3> QED
      BY <3>2, <1>s DEF Adds
  <2>3. PICK g : g = Longer(f, i, "rest")
    OBVIOUS
  <2>4. /\ g \in Seq(Written) /\ Len(g) = Len(f) + 1 /\ g[Len(f) + 1].id = i
        /\ \A k \in 1..Len(f) : g[k] = f[k]
        /\ \A m \in 0..Len(f) : Solo!Truncated(g, m) = Solo!Truncated(f, m)
        /\ Solo!Recorded(g) = Append(seq, i)
    <3>1. Adds(g, f, i, "rest", seq)
      BY <1>6, <1>s, <2>2, <2>3, HalfWritten
    <3> QED
      BY <3>1 DEF Adds
  <2>5. log' = g
    <3>1. Solo!Half(i, "head") \in Written /\ Solo!Half(i, "rest") \in Written
      BY <1>7
    <3>2. log \o <<Solo!Half(i, "head"), Solo!Half(i, "rest")>> = g
      BY <1>6, <2>1, <2>3, <3>1, TwoAppends DEF Longer
    <3> QED
      BY <1>2, <1>10, <3>2 DEF Solo!WriteLine
  <2>6. Len(f) = Len(log) + 1 /\ Len(g) = Len(log) + 2
    BY <1>6, <2>2, <2>4
  <2>7. \A k \in 1..Len(log) : g[k] = log[k]
    BY <1>6, <2>2, <2>4, <2>6
  <2>8. g[Len(log) + 1].id = i /\ g[Len(log) + 2].id = i
    <3>1. Len(log) + 1 \in 1..Len(f) /\ Len(f) + 1 = Len(log) + 2
      BY <1>6, <2>6
    <3>2. g[Len(log) + 1] = f[Len(log) + 1]
      BY <2>4, <3>1
    <3>3. f[Len(log) + 1].id = i
      BY <2>2
    <3>4. g[Len(log) + 2].id = i
      BY <2>4, <3>1
    <3> QED
      BY <3>2, <3>3, <3>4
  <2>9. \A k \in 1..Len(g) : g[k].id = i \/ (k \in 1..Len(log) /\ g[k] = log[k])
    BY <1>6, <2>6, <2>7, <2>8
  <2>10. FilesSound'
    BY <1>4, <1>5, <1>8, <2>4, <2>5, <2>9, LogSound
  <2>11. Solo!Truncated(g, Len(log)) = log
    BY <1>6, <2>2, <2>4, <2>6, CutLeaves
  <2>12. call'[p] = [call[p] EXCEPT !.pc = "sync"]
    BY <1>9, <1>10 DEF Solo!WriteLine, Solo!Goto
  <2>13. /\ call'[p].pc = "sync" /\ call'[p].id = i /\ call'[p].read = seq
         /\ call'[p].length = Len(log)
    BY <1>2, <1>3, <1>4, <1>9, <2>12 DEF Solo!Call
  <2>14. Len(log') = Len(log) + 2 /\ Solo!Truncated(log', Len(log)) = log /\ Solo!Recorded(log') = Append(seq, i)
         /\ \A k \in 1..Len(log) : log'[k].id # i
    BY <1>4, <2>4, <2>5, <2>6, <2>7, <2>11
  <2>15. CallSound(p)'
    BY <1>2, <1>4, <1>6, <1>8, <2>13, <2>14 DEF CallSound, Undecided, Unwritten
  <2> QED
    BY <2>10, <2>15
<1>11. CASE Solo!WriteShort(p)
  <2>1. PICK piece \in {"head", "bare"} : log' = Longer(log, i, piece)
    BY <1>2, <1>11 DEF Solo!WriteShort, Longer
  <2>2. PICK g : g = Longer(log, i, piece)
    OBVIOUS
  <2>3. /\ g \in Seq(Written) /\ Len(g) = Len(log) + 1 /\ g[Len(log) + 1].id = i
        /\ g[Len(log) + 1].part = piece
        /\ \A k \in 1..Len(log) : g[k] = log[k]
        /\ Solo!Truncated(g, Len(log)) = Solo!Truncated(log, Len(log))
        /\ Solo!Recorded(g) = IF piece = "bare" THEN Append(seq, i) ELSE seq
    <3>1. seq = Solo!Recorded(log)
      BY <1>4
    <3>2. Adds(g, log, i, piece, seq)
      BY <1>6, <1>s, <2>2, <3>1, HalfWritten
    <3> QED
      BY <1>s, <3>2 DEF Adds
  <2>6. \A k \in 1..Len(g) : g[k].id = i \/ (k \in 1..Len(log) /\ g[k] = log[k])
    BY <1>6, <2>3
  <2>7. FilesSound'
    BY <1>3, <1>4, <1>5, <1>8, <2>1, <2>2, <2>3, <2>6, LogSound
  <2>8. Solo!Truncated(g, Len(log)) = log
    BY <1>6, <2>3, CutLeaves
  <2>9. call'[p] = [call[p] EXCEPT !.pc = "more"]
    BY <1>9, <1>11 DEF Solo!WriteShort, Solo!Goto
  <2>10. /\ call'[p].pc = "more" /\ call'[p].id = i /\ call'[p].read = seq
         /\ call'[p].length = Len(log)
    BY <1>2, <1>3, <1>4, <1>9, <2>9 DEF Solo!Call
  <2>11. g[Len(g)].part = piece
    BY <2>3
  <2>12. /\ Len(log') = Len(log) + 1 /\ Solo!Truncated(log', Len(log)) = log
         /\ log'[Len(log')].part = piece
         /\ Solo!Recorded(log') = IF piece = "bare" THEN Append(seq, i) ELSE seq
         /\ \A k \in 1..Len(log) : log'[k].id # i
    BY <1>4, <2>1, <2>2, <2>3, <2>8, <2>11
  <2>13. CallSound(p)'
    BY <1>2, <1>4, <1>6, <1>8, <2>10, <2>12 DEF CallSound, Undecided, Unwritten
  <2> QED
    BY <2>7, <2>13
<1> QED
  BY <1>10, <1>11

\* The rest of a line that was cut short.
LEMMA SoloWritesMore ==
  ASSUME Solo!CasebookAssumption, SoloInv, NEW p \in OneProc, Solo!WriteMore(p)
  PROVE  FilesSound' /\ CallSound(p)'
<1>1. call[p].pc = "more" /\ call[p].pc \in Undecided /\ call[p].pc # "idle"
  BY DEF Solo!WriteMore, Undecided
<1>2. PICK i \in 1..Len(book) : i = call[p].id
  BY <1>1, CallHeld
<1>3. PICK seq \in Seq(1..Len(book)) : seq = call[p].read
  BY <1>1, CallHeld
<1>4. PICK length \in Nat : length = call[p].length
  BY <1>1, CallHeld
<1>5. /\ i \notin committed /\ i \notin undone
      /\ InOrder(book, seq) /\ committed \subseteq Members(seq) /\ Begins(packet, seq)
      /\ book[i].outcome = "PASS" => Climbed(book, seq, book[i].stage)
      /\ i = Len(book) /\ seq \in Seq(1..(Len(book) - 1))
  BY <1>1, <1>2, <1>3 DEF SoloInv, CallSound
<1>6. /\ Len(log) = length + 1 /\ log[Len(log)].part \in {"head", "bare"}
      /\ Solo!Recorded(log) = IF log[Len(log)].part = "bare" THEN Append(seq, i) ELSE seq
      /\ Solo!Recorded(Solo!Truncated(log, length)) = seq
      /\ \A k \in 1..length : log[k].id # i
  BY <1>1, <1>2, <1>3, <1>4 DEF SoloInv, CallSound
<1>7. /\ Append(seq, i) \in Seq(1..Len(book)) /\ InOrder(book, Append(seq, i)) /\ Begins(packet, Append(seq, i))
      /\ committed \subseteq Members(Append(seq, i))
  BY <1>1, <1>2, <1>3, CallGrows
<1>8. log \in Seq(Written) /\ i \in Solo!AttemptId
  BY <1>1, <1>2, CallHeld DEF SoloInv, FilesSound
<1>9. PICK n \in Nat : n = Len(book)
  BY <1>1, CallHeld
<1>10. UNCHANGED <<book, packet, committed, undone>>
  BY DEF Solo!WriteMore
<1>11. PICK piece \in {"head", "bare"} :
         /\ \E k \in 1..Len(log) : log[k] = Solo!Half(i, piece)
         /\ log' = Longer(log, i, Solo!Second(piece))
  BY <1>2 DEF Solo!WriteMore, Longer
<1>12. piece = log[Len(log)].part
  <2>1. PICK k \in 1..Len(log) : log[k] = Solo!Half(i, piece)
    BY <1>11
  <2>2. log[k].id = i /\ log[k].part = piece
    BY <2>1 DEF Solo!Half
  <2>3. k = Len(log)
    BY <1>4, <1>6, <2>2
  <2> QED
    BY <2>2, <2>3
<1>13. PICK g : g = log'
  OBVIOUS
<1>14. /\ g \in Seq(Written) /\ Len(g) = Len(log) + 1 /\ g[Len(log) + 1].id = i
       /\ \A k \in 1..Len(log) : g[k] = log[k]
       /\ \A m \in 0..Len(log) : Solo!Truncated(g, m) = Solo!Truncated(log, m)
       /\ Solo!Recorded(g) = Append(seq, i)
  <2>1. CASE piece = "head"
    <3>1. g = Longer(log, i, "rest")
      BY <1>11, <1>13, <2>1 DEF Solo!Second
    <3>2. seq = Solo!Recorded(log) /\ seq \in Seq(1..n)
      BY <1>3, <1>6, <1>9, <1>12, <2>1
    <3>3. Adds(g, log, i, "rest", seq)
      BY <1>8, <3>1, <3>2, HalfWritten
    <3> QED
      BY <3>3 DEF Adds
  <2>2. CASE piece = "bare"
    <3>1. g = Longer(log, i, "newline")
      BY <1>11, <1>13, <2>2 DEF Solo!Second
    <3>2. PICK before : before = Solo!Recorded(log)
      OBVIOUS
    <3>3. before = Append(seq, i)
      BY <1>6, <1>12, <2>2, <3>2
    <3>4. before \in Seq(1..n)
      BY <1>7, <1>9, <3>3
    <3>5. Adds(g, log, i, "newline", before)
      BY <1>8, <3>1, <3>2, <3>4, HalfWritten
    <3> QED
      BY <3>3, <3>5 DEF Adds
  <2> QED
    BY <2>1, <2>2
<1>15. Len(log) \in Nat
  BY <1>8
<1>16. \A k \in 1..Len(g) : g[k].id = i \/ (k \in 1..Len(log) /\ g[k] = log[k])
  BY <1>14, <1>15
<1>17. FilesSound'
  BY <1>5, <1>7, <1>10, <1>13, <1>14, <1>16, LogSound
<1>18. call'[p] = [call[p] EXCEPT !.pc = "sync"]
  BY DEF Solo!WriteMore, Solo!Goto, SoloInv, Solo!TypeOK
<1>19. call[p] \in Solo!Call
  BY DEF SoloInv, Solo!TypeOK
<1>20. /\ call'[p].pc = "sync" /\ call'[p].id = i /\ call'[p].read = seq
       /\ call'[p].length = length
  BY <1>2, <1>3, <1>4, <1>18, <1>19 DEF Solo!Call
<1>21. length \in 0..Len(log) /\ \A k \in 1..length : k \in 1..Len(log)
  BY <1>4, <1>6
<1>22. /\ length < Len(log') /\ Solo!Recorded(Solo!Truncated(log', length)) = seq
       /\ Solo!Recorded(log') = Append(seq, i) /\ \A k \in 1..length : log'[k].id # i
  <2>1. length < Len(g)
    <3>1. Len(g) = Len(log) + 1 /\ Len(log) = length + 1
      BY <1>6, <1>14
    <3> QED
      BY <3>1
  <2>2. Solo!Truncated(g, length) = Solo!Truncated(log, length)
    BY <1>14, <1>21
  <2>3. \A k \in 1..length : g[k] = log[k]
    BY <1>14, <1>21
  <2>4. \A k \in 1..length : g[k].id # i
    BY <1>6, <2>3
  <2> QED
    BY <1>6, <1>13, <1>14, <2>1, <2>2, <2>4
<1>23. CallSound(p)'
  BY <1>2, <1>5, <1>10, <1>20, <1>22 DEF CallSound, Undecided, Unwritten
<1> QED
  BY <1>17, <1>23

\* The append fails, and the file is cut if the call had written.
LEMMA SoloFails ==
  ASSUME Solo!CasebookAssumption, SoloInv, NEW p \in OneProc, Solo!AppendFails(p)
  PROVE  FilesSound' /\ CallSound(p)'
<1>1. call[p].pc \in {"write", "more", "sync"} /\ call[p].pc # "idle" /\ call[p].pc \in Undecided
  BY DEF Solo!AppendFails, Undecided, Unwritten
<1>2. PICK i \in 1..Len(book) : i = call[p].id
  BY <1>1, CallHeld
<1>3. UNCHANGED <<log, archive, packet, book, committed, tampered>>
  BY DEF Solo!AppendFails
<1>4. BookStays
  BY <1>1, <1>3, CallHeld DEF BookStays
<1>5. call[p] \in Solo!Call /\ call \in [OneProc -> Solo!Call]
  BY DEF SoloInv, Solo!TypeOK
<1>6. CASE call[p].pc = "write"
  <2>1. call'[p] = [call[p] EXCEPT !.pc = "drop"] /\ undone' = undone \cup {i}
    BY <1>2, <1>5, <1>6 DEF Solo!AppendFails, Solo!RolledBackFrom, Solo!Goto
  <2>2. \A k \in 1..Len(log) : log[k].id \notin undone'
    BY <1>2, <1>6, <2>1 DEF SoloInv, FilesSound, CallSound, Unwritten
  <2>3. FilesSound'
    BY <1>3, <1>4, <2>1, <2>2, FilesStay
  <2>4. call'[p].pc = "drop" /\ call'[p].id = call[p].id /\ call'[p].read = call[p].read
    BY <1>5, <2>1 DEF Solo!Call
  <2>5. CallSound(p)'
    BY <1>1, <1>3, <2>4 DEF SoloInv, CallSound, Undecided, Unwritten
  <2> QED
    BY <2>3, <2>5
<1>7. CASE call[p].pc # "write"
  <2>1. call'[p] = [call[p] EXCEPT !.pc = "cut"] /\ undone' = undone
    BY <1>1, <1>5, <1>7 DEF Solo!AppendFails, Solo!RolledBackFrom, Solo!Goto
  <2>2. FilesSound'
    BY <1>2, <1>3, <1>4, <2>1, FilesStay DEF SoloInv, FilesSound
  <2>3. /\ call'[p].pc = "cut" /\ call'[p].id = call[p].id /\ call'[p].read = call[p].read
        /\ call'[p].length = call[p].length
    BY <1>5, <2>1 DEF Solo!Call
  <2>4. CallSound(p)'
    BY <1>1, <1>3, <1>7, <2>1, <2>3 DEF SoloInv, CallSound, Undecided, Unwritten
  <2> QED
    BY <2>2, <2>4
<1> QED
  BY <1>6, <1>7

\* The cut restores what the call read.
LEMMA SoloCuts ==
  ASSUME Solo!CasebookAssumption, SoloInv, NEW p \in OneProc, Solo!Truncate(p)
  PROVE  FilesSound' /\ CallSound(p)'
<1>1. call[p].pc = "cut" /\ call[p].pc # "idle" /\ call[p].pc \in Undecided
  BY DEF Solo!Truncate, Undecided
<1>2. PICK i \in 1..Len(book) : i = call[p].id
  BY <1>1, CallHeld
<1>3. PICK seq \in Seq(1..Len(book)) : seq = call[p].read
  BY <1>1, CallHeld
<1>4. PICK length \in Nat : length = call[p].length
  BY <1>1, CallHeld
<1>5. /\ InOrder(book, seq) /\ committed \subseteq Members(seq) /\ Begins(packet, seq)
      /\ length < Len(log) /\ Solo!Recorded(Solo!Truncated(log, length)) = seq
      /\ \A k \in 1..length : log[k].id # i
  BY <1>1, <1>2, <1>3, <1>4 DEF SoloInv, CallSound
<1>6. log \in Seq(Written) /\ Len(log) \in Nat
  BY DEF SoloInv, FilesSound
<1>7. PICK g : g = Solo!Truncated(log, length)
  OBVIOUS
<1>8. \A k \in 1..length : k \in 1..Len(log) /\ k <= Len(log)
  BY <1>5, <1>6
<1>9. g = [k \in 1..length |-> log[k]]
  BY <1>7, <1>8 DEF Solo!Truncated
<1>10. g \in Seq(Written) /\ Len(g) = length /\ \A k \in 1..length : g[k] = log[k]
  <2>1. \A k \in 1..length : log[k] \in Written
    BY <1>6, <1>8
  <2> QED
    BY <1>9, <2>1
<1>11. log' = g /\ undone' = undone \cup {i} /\ UNCHANGED <<book, packet, committed>>
  BY <1>2, <1>4, <1>7 DEF Solo!Truncate
<1>12. \A k \in 1..Len(g) : g[k].id \in 1..Len(book) /\ g[k].id \notin undone'
  BY <1>5, <1>8, <1>10, <1>11 DEF SoloInv, FilesSound
<1>13. Solo!Recorded(g) = seq
  BY <1>5, <1>7
<1>14. FilesSound'
  BY <1>3, <1>5, <1>10, <1>11, <1>12, <1>13 DEF SoloInv, FilesSound
<1>15. call'[p] = [call[p] EXCEPT !.pc = "drop"] /\ call[p] \in Solo!Call
  BY DEF Solo!Truncate, Solo!Goto, SoloInv, Solo!TypeOK
<1>16. call'[p].pc = "drop" /\ call'[p].id = call[p].id /\ call'[p].read = call[p].read
  BY <1>15 DEF Solo!Call
<1>17. CallSound(p)'
  BY <1>1, <1>11, <1>16 DEF SoloInv, CallSound, Undecided, Unwritten
<1> QED
  BY <1>14, <1>17

\* The ends of a call.
LEMMA SoloEnds ==
  ASSUME Solo!CasebookAssumption, SoloInv, NEW p \in OneProc,
         Solo!TruncateFails(p) \/ Solo!DropReceipt(p) \/ Solo!Commit(p) \/ Solo!WritePacket(p) \/ Solo!Crash(p)
  PROVE  FilesSound' /\ CallSound(p)'
<1>1. call[p].pc # "idle"
  BY DEF Solo!TruncateFails, Solo!DropReceipt, Solo!Commit, Solo!WritePacket, Solo!Crash
<1>2. PICK i \in 1..Len(book) : i = call[p].id
  BY <1>1, CallHeld
<1>3. UNCHANGED <<log, book, undone>>
  BY DEF Solo!TruncateFails, Solo!DropReceipt, Solo!Commit, Solo!WritePacket, Solo!Crash
<1>4. BookStays
  BY <1>1, <1>3, CallHeld DEF BookStays
<1>5. call[p] \in Solo!Call /\ call \in [OneProc -> Solo!Call]
  BY DEF SoloInv, Solo!TypeOK
<1>6. UNCHANGED <<packet, committed>> => FilesSound'
  BY <1>2, <1>3, <1>4, FilesStay DEF SoloInv, FilesSound
<1>7. call' = [call EXCEPT ![p] = Solo!NoCall] => CallSound(p)'
  BY <1>5 DEF CallSound, Solo!NoCall
<1>8. CASE Solo!TruncateFails(p)
  <2>1. call'[p] = [call[p] EXCEPT !.pc = "drop"]
    BY <1>5, <1>8 DEF Solo!TruncateFails, Solo!Goto
  <2>2. call'[p].pc = "drop" /\ call'[p].id = call[p].id /\ call'[p].read = call[p].read
    BY <1>5, <2>1 DEF Solo!Call
  <2>3. CallSound(p)'
    BY <1>1, <1>3, <2>2 DEF SoloInv, CallSound, Undecided, Unwritten
  <2> QED
    BY <1>6, <1>8, <2>3 DEF Solo!TruncateFails
<1>9. CASE Solo!DropReceipt(p)
  BY <1>6, <1>7, <1>9 DEF Solo!DropReceipt, Solo!Leave
<1>10. CASE Solo!Crash(p)
  BY <1>6, <1>7, <1>10 DEF Solo!Crash, Solo!Leave
<1>11. CASE Solo!Commit(p)
  <2>1. call[p].pc = "sync" /\ call[p].pc \in Undecided /\ Solo!Recorded(log) = Append(call[p].read, call[p].id)
    BY <1>11 DEF Solo!Commit, SoloInv, CallSound, Undecided
  <2>2. call[p].id \in Members(Solo!Recorded(log))
    BY <2>1, CallGrows
  <2>3. committed' = committed \cup {i} /\ packet' = packet
    BY <1>2, <1>11 DEF Solo!Commit
  <2>4. FilesSound'
    BY <1>2, <1>3, <2>2, <2>3 DEF SoloInv, FilesSound
  <2>5. call'[p] = [call[p] EXCEPT !.pc = "packet"]
    BY <1>5, <1>11 DEF Solo!Commit, Solo!Goto
  <2>6. call'[p].pc = "packet" /\ call'[p].id = call[p].id /\ call'[p].read = call[p].read
    BY <1>5, <2>5 DEF Solo!Call
  <2>7. CallSound(p)'
    BY <1>1, <1>3, <2>1, <2>6 DEF SoloInv, CallSound, Undecided, Unwritten
  <2> QED
    BY <2>4, <2>7
<1>12. CASE Solo!WritePacket(p)
  <2>1. Solo!Recorded(log) = Append(call[p].read, call[p].id)
    BY <1>12 DEF Solo!WritePacket, SoloInv, CallSound
  <2>2. packet' = Solo!Recorded(log) \/ packet' = packet
    BY <1>12, <2>1 DEF Solo!WritePacket, Solo!Rendered
  <2>3. Solo!Recorded(log) \in Seq(1..Len(book))
    BY DEF SoloInv, FilesSound
  <2>4. Begins(Solo!Recorded(log), Solo!Recorded(log))
    BY <2>3 DEF Begins
  <2>5. Begins(packet', Solo!Recorded(log))
    BY <2>2, <2>4 DEF SoloInv, FilesSound
  <2>6. FilesSound'
    BY <1>3, <1>12, <2>5 DEF SoloInv, FilesSound, Solo!WritePacket
  <2> QED
    BY <1>7, <1>12, <2>6 DEF Solo!WritePacket, Solo!Leave
<1> QED
  BY <1>8, <1>9, <1>10, <1>11, <1>12

\* Every step of one process keeps the invariant.
LEMMA NextSolo ==
  ASSUME Solo!CasebookAssumption, Alone, SoloInv, [Solo!Next]_Solo!vars
  PROVE  SoloInv'
<1>1. Solo!TypeOK'
  <2>1. \A p \in OneProc : call[p].pc # "idle" => call[p].id \in 1..Len(book)
    BY DEF SoloInv, CallSound
  <2>2. SoloRecordedTyped
    <3>1. 1..Len(book) \subseteq Solo!AttemptId
      BY SoloBounds DEF SoloInv, Solo!TypeOK, Solo!AttemptId
    <3> QED
      BY <3>1, SeqWidens DEF SoloInv, FilesSound, SoloRecordedTyped
  <2> QED
    BY <2>1, <2>2, SoloTypeStep DEF SoloInv
<1>2. ASSUME NEW p \in OneProc, FilesSound' /\ CallSound(p)' PROVE SoloInv'
  BY <1>1, <1>2 DEF SoloInv, Alone
<1>3. ASSUME NEW p \in OneProc, NEW s \in Solo!Stage, NEW o \in Solo!Outcome, NEW c \in Content \cup {NoContent},
             Solo!Begin(p, s, o, c)
      PROVE  SoloInv'
  BY <1>2, <1>3, SoloBegins
<1>4. ASSUME NEW p \in OneProc, Solo!Look(p) \/ Solo!ChooseName(p) \/ Solo!Rename(p) \/ Solo!OpenLog(p) PROVE SoloInv'
  BY <1>2, <1>4, SoloNames
<1>5. ASSUME NEW p \in OneProc, Solo!WriteLine(p) \/ Solo!WriteShort(p) PROVE SoloInv'
  BY <1>2, <1>5, SoloWrites
<1>6. ASSUME NEW p \in OneProc, Solo!WriteMore(p) PROVE SoloInv'
  BY <1>2, <1>6, SoloWritesMore
<1>7. ASSUME NEW p \in OneProc, Solo!AppendFails(p) PROVE SoloInv'
  BY <1>2, <1>7, SoloFails
<1>8. ASSUME NEW p \in OneProc, Solo!Truncate(p) PROVE SoloInv'
  BY <1>2, <1>8, SoloCuts
<1>9. ASSUME NEW p \in OneProc,
             Solo!TruncateFails(p) \/ Solo!DropReceipt(p) \/ Solo!Commit(p) \/ Solo!WritePacket(p) \/ Solo!Crash(p)
      PROVE  SoloInv'
  BY <1>2, <1>9, SoloEnds
<1>10. ASSUME UNCHANGED <<log, packet, book, call, committed, undone>> PROVE SoloInv'
  <2>1. FilesSound'
    BY <1>10 DEF SoloInv, FilesSound
  <2>2. \A p \in OneProc : CallSound(p)'
    BY <1>10 DEF SoloInv, CallSound
  <2> QED
    BY <1>1, <2>1, <2>2 DEF SoloInv
<1>11. ASSUME NEW c \in Content, NEW n \in Solo!FileNo, NEW how \in {"bad", "absent"}, Solo!Tamper(c, n, how)
       PROVE  SoloInv'
  BY <1>10, <1>11 DEF Solo!Tamper
<1>12. CASE UNCHANGED Solo!vars
  BY <1>10, <1>12 DEF Solo!vars
<1> QED
  BY <1>3, <1>4, <1>5, <1>6, <1>7, <1>8, <1>9, <1>11, <1>12 DEF Solo!Next

\* Nothing is recorded at the start.
LEMMA InitSolo == ASSUME Solo!CasebookAssumption, Solo!Init PROVE SoloInv
<1>1. log = <<>> /\ packet = <<>> /\ book = <<>> /\ committed = {} /\ undone = {}
  BY DEF Solo!Init
<1>2. Solo!Recorded(log) = <<>>
  BY <1>1, NothingRecorded
<1>3. /\ <<>> \in Seq(Written) /\ <<>> \in Seq(1..Len(book)) /\ Len(<<>>) = 0
      /\ \A k \in 1..Len(<<>>) : FALSE
  OBVIOUS
<1>4. InOrder(book, <<>>) /\ Begins(packet, <<>>)
  BY <1>1, <1>3 DEF InOrder, Begins
<1>5. FilesSound
  BY <1>1, <1>2, <1>3, <1>4 DEF FilesSound
<1>6. \A p \in OneProc : CallSound(p)
  BY DEF Solo!Init, Solo!NoCall, CallSound
<1> QED
  BY <1>5, <1>6, SoloInitTyped DEF SoloInv

\* What the log of attempts is of a casebook with one process.
Log == INSTANCE AttemptLog WITH
          Entry <- Solo!AttemptId, records <- Solo!Recorded(log), promised <- committed

\* No attempt to read and none promised.
LEMMA LogStarts == ASSUME Solo!CasebookAssumption, Solo!Init PROVE Log!LogInit
<1>1. log = <<>> /\ committed = {}
  BY DEF Solo!Init
<1> QED
  BY <1>1, NothingRecorded DEF Log!LogInit

\* What a call that is in hand may do to the log: one more record at its end, or
\* the last one cut off.
LEMMA LogMoves ==
  ASSUME Solo!CasebookAssumption, SoloInv, NEW p \in OneProc, call[p].pc \in Undecided,
         NEW old, old = Solo!Recorded(log), NEW new, new = Solo!Recorded(log'),
         UNCHANGED committed,
         \/ old = call[p].read /\ new = Append(call[p].read, call[p].id)
         \/ old = Append(call[p].read, call[p].id) /\ new = call[p].read
         \/ new = old
  PROVE  [Log!LogNext]_<<Solo!Recorded(log), committed>>
<1>1. call[p].pc # "idle"
  BY DEF Undecided, Unwritten
<1>2. PICK n \in Nat : n = Len(book)
  BY <1>1, CallHeld
<1>3. PICK seq \in Seq(1..(n - 1)) : seq = call[p].read
  BY <1>1, <1>2, CallHeld
<1>4. n = call[p].id /\ n \in Solo!AttemptId /\ n \notin committed
  BY <1>1, <1>2, CallHeld DEF SoloInv, CallSound
<1>5. \A k \in 1..Len(seq) : seq[k] # n
  BY <1>2, <1>3
<1>6. Solo!Recorded(log)' = new
  OBVIOUS
<1>7. CASE old = seq /\ new = Append(seq, n)
  <2>1. Log!Record
    BY <1>4, <1>5, <1>6, <1>7 DEF Log!Record
  <2> QED
    BY <2>1 DEF Log!LogNext
<1>8. CASE old = Append(seq, n) /\ new = seq
  <2>1. Log!Withdraw
    BY <1>4, <1>6, <1>8 DEF Log!Withdraw
  <2> QED
    BY <2>1 DEF Log!LogNext
<1>9. CASE new = old
  BY <1>6, <1>9
<1> QED
  BY <1>3, <1>4, <1>7, <1>8, <1>9

\* Every step of a casebook with one process is a step of its log of attempts,
\* or leaves that alone.
LEMMA LogStep ==
  ASSUME Solo!CasebookAssumption, Alone, SoloInv, [Solo!Next]_Solo!vars
  PROVE  [Log!LogNext]_<<Solo!Recorded(log), committed>>
<1>1. ASSUME UNCHANGED <<log, committed>>
      PROVE  [Log!LogNext]_<<Solo!Recorded(log), committed>>
  BY <1>1
<1>2. ASSUME NEW p \in OneProc, Solo!Commit(p)
      PROVE  [Log!LogNext]_<<Solo!Recorded(log), committed>>
  <2>1. call[p].pc = "sync" /\ call[p].pc # "idle"
    BY <1>2 DEF Solo!Commit
  <2>2. PICK i \in Solo!AttemptId : i = call[p].id
    BY <2>1, CallHeld
  <2>3. PICK seq \in Seq(1..Len(book)) : seq = call[p].read
    BY <2>1, CallHeld
  <2>4. Solo!Recorded(log) = Append(seq, i) /\ committed' = committed \cup {i} /\ log' = log
    BY <1>2, <2>1, <2>2, <2>3 DEF Solo!Commit, SoloInv, CallSound
  <2>5. Solo!Recorded(log)[Len(Solo!Recorded(log))] = i /\ Solo!Recorded(log) # <<>>
    BY <2>2, <2>3, <2>4, CallGrows
  <2>6. Log!Promise
    BY <2>4, <2>5 DEF Log!Promise
  <2> QED
    BY <2>6 DEF Log!LogNext
<1>3. ASSUME NEW p \in OneProc, Solo!WriteLine(p) \/ Solo!WriteShort(p)
      PROVE  [Log!LogNext]_<<Solo!Recorded(log), committed>>
  <2>1. call[p].pc = "write" /\ call[p].pc \in Undecided /\ UNCHANGED committed
    BY <1>3 DEF Solo!WriteLine, Solo!WriteShort, Undecided, Unwritten
  <2>2. Solo!Recorded(log) = call[p].read
    BY <2>1 DEF SoloInv, CallSound, Unwritten
  <2>3. CallSound(p)' /\ call \in [OneProc -> Solo!Call]
    BY <1>3, SoloWrites DEF SoloInv, Solo!TypeOK
  <2>4. /\ call'[p].pc \in {"sync", "more"} /\ call'[p].id = call[p].id
        /\ call'[p].read = call[p].read
    BY <1>3, <2>3 DEF Solo!WriteLine, Solo!WriteShort, Solo!Goto, Solo!Call
  <2>5. \/ Solo!Recorded(log') = call[p].read
        \/ Solo!Recorded(log') = Append(call[p].read, call[p].id)
    BY <2>3, <2>4 DEF CallSound
  <2> QED
    BY <2>1, <2>2, <2>5, LogMoves
<1>4. ASSUME NEW p \in OneProc, Solo!WriteMore(p)
      PROVE  [Log!LogNext]_<<Solo!Recorded(log), committed>>
  <2>1. call[p].pc = "more" /\ call[p].pc \in Undecided /\ UNCHANGED committed
    BY <1>4 DEF Solo!WriteMore, Undecided
  <2>2. Solo!Recorded(log) = call[p].read \/ Solo!Recorded(log) = Append(call[p].read, call[p].id)
    BY <2>1 DEF SoloInv, CallSound
  <2>3. CallSound(p)' /\ call \in [OneProc -> Solo!Call]
    BY <1>4, SoloWritesMore DEF SoloInv, Solo!TypeOK
  <2>4. /\ call'[p].pc = "sync" /\ call'[p].id = call[p].id /\ call'[p].read = call[p].read
    BY <1>4, <2>3 DEF Solo!WriteMore, Solo!Goto, Solo!Call
  <2>5. Solo!Recorded(log') = Append(call[p].read, call[p].id)
    BY <2>3, <2>4 DEF CallSound
  <2> QED
    BY <2>1, <2>2, <2>5, LogMoves
<1>5. ASSUME NEW p \in OneProc, Solo!Truncate(p)
      PROVE  [Log!LogNext]_<<Solo!Recorded(log), committed>>
  <2>1. call[p].pc = "cut" /\ call[p].pc \in Undecided /\ UNCHANGED committed
    BY <1>5 DEF Solo!Truncate, Undecided
  <2>2. Solo!Recorded(log) = call[p].read \/ Solo!Recorded(log) = Append(call[p].read, call[p].id)
    BY <2>1 DEF SoloInv, CallSound
  <2>3. Solo!Recorded(Solo!Truncated(log, call[p].length)) = call[p].read
    BY <2>1 DEF SoloInv, CallSound
  <2>4. Solo!Recorded(log') = call[p].read
    BY <1>5, <2>3 DEF Solo!Truncate
  <2> QED
    BY <2>1, <2>2, <2>4, LogMoves
<1> QED
  BY <1>1, <1>2, <1>3, <1>4, <1>5
     DEF Solo!Next, Solo!vars, Solo!Begin, Solo!Look, Solo!ChooseName, Solo!Rename, Solo!OpenLog, Solo!AppendFails, Solo!TruncateFails,
         Solo!DropReceipt, Solo!WritePacket, Solo!Crash, Solo!Tamper

\* What a step of a log of attempts leaves: the place of every promised attempt.
LEMMA PlacesKept ==
  ASSUME SoloInv, SoloInv', [Log!LogNext]_<<Solo!Recorded(log), committed>>,
         NEW k \in 1..Len(Solo!Recorded(log)), Solo!Recorded(log)[k] \in committed
  PROVE  k \in 1..Len(Solo!Recorded(log')) /\ Solo!Recorded(log')[k] = Solo!Recorded(log)[k]
<1>1. PICK n \in Nat : n = Len(book)
  BY DEF SoloInv, Solo!TypeOK
<1>2. PICK old \in Seq(1..n) : old = Solo!Recorded(log)
  BY <1>1 DEF SoloInv, FilesSound
<1>3. PICK new \in Seq(1..Len(book')) : new = Solo!Recorded(log')
  BY DEF SoloInv, FilesSound
<1>4. Solo!Recorded(log)' = new
  BY <1>3
<1>5. CASE new = old
  BY <1>2, <1>3, <1>5
<1>6. CASE Log!Record
  <2>1. PICK i \in Solo!AttemptId : new = Append(old, i)
    BY <1>2, <1>4, <1>6 DEF Log!Record
  <2> QED
    BY <1>2, <1>3, <2>1
<1>7. CASE Log!Withdraw
  <2>1. PICK i \in Solo!AttemptId \ committed : old = Append(new, i)
    BY <1>2, <1>4, <1>7 DEF Log!Withdraw
  <2>2. k \in 1..(Len(new) + 1) /\ old[Len(new) + 1] = i
    BY <1>2, <2>1
  <2>3. k \in 1..Len(new) /\ new[k] = old[k]
    BY <1>2, <2>1, <2>2
  <2> QED
    BY <1>2, <1>3, <2>3
<1>8. CASE Log!Promise
  BY <1>2, <1>3, <1>4, <1>8 DEF Log!Promise
<1> QED
  BY <1>2, <1>4, <1>5, <1>6, <1>7, <1>8 DEF Log!LogNext

\* What the invariant says of a casebook.
LEMMA SoloStands ==
  ASSUME SoloInv
  PROVE  Solo!CommittedStay /\ Solo!GatesSequential /\ Solo!PacketIsAPrefix /\ Solo!UndoneLeaveNoTrace
<1>1. Solo!CommittedStay
  BY DEF SoloInv, FilesSound, Solo!CommittedStay, Members
<1>2. Solo!GatesSequential
  BY DEF SoloInv, FilesSound, Solo!GatesSequential, InOrder
<1>3. Solo!PacketIsAPrefix
  BY DEF SoloInv, FilesSound, Solo!PacketIsAPrefix, Begins
<1>4. Solo!UndoneLeaveNoTrace
  BY DEF SoloInv, FilesSound, Solo!UndoneLeaveNoTrace
<1> QED
  BY <1>1, <1>2, <1>3, <1>4

------------------------------------------------------------------------------
(* Types of a casebook with several processes *)

\* What is recorded are attempts: no part of the types, as a log could be
\* anything, but true of the logs the calls write.
PairRecordedTyped == Pair!Recorded(log) \in Seq(Pair!AttemptId)

\* The bounds are numbers.
LEMMA PairBounds ==
  ASSUME Pair!CasebookAssumption
  PROVE  MaxAttempts \in Nat /\ MaxTampers \in Nat /\ PairStages \in Nat /\ NoContent \notin Content
  BY DEF Pair!CasebookAssumption

\* A call in hand.
LEMMA PairCallTyped ==
  ASSUME Pair!TypeOK, NEW p \in TwoProcs
  PROVE  /\ call[p] \in Pair!Call
         /\ call[p].pc \in Pair!Pc /\ call[p].id \in Pair!AttemptId \cup {0} /\ call[p].read \in Seq(Pair!AttemptId)
         /\ call[p].fresh \in BOOLEAN /\ call[p].length \in Nat
  BY DEF Pair!TypeOK, Pair!Call

\* Every step of a casebook keeps the types.
LEMMA PairTypeStep ==
  ASSUME Pair!CasebookAssumption, Pair!TypeOK, PairRecordedTyped, [Pair!Next]_Pair!vars,
         \A p \in TwoProcs : call[p].pc # "idle" => call[p].id \in 1..Len(book)
  PROVE  Pair!TypeOK'
<1>a. MaxAttempts \in Nat /\ MaxTampers \in Nat /\ Pair!AttemptId = 1..MaxAttempts
      /\ Pair!FileNo = 1..(MaxAttempts + 1)
  BY PairBounds DEF Pair!AttemptId, Pair!FileNo
<1>b. Len(book) \in Nat /\ Len(book) <= MaxAttempts /\ 1..Len(book) \subseteq Pair!AttemptId
  BY <1>a DEF Pair!TypeOK
<1>c. ASSUME NEW p \in TwoProcs, NEW pc \in Pair!Pc
      PROVE  [call EXCEPT ![p].pc = pc] \in [TwoProcs -> Pair!Call] /\ [call EXCEPT ![p] = Pair!NoCall] \in [TwoProcs -> Pair!Call]
  <2>1. Pair!NoCall \in Pair!Call
    <3>1. <<>> \in Seq(Pair!AttemptId)
      OBVIOUS
    <3> QED
      BY <3>1 DEF Pair!Call, Pair!NoCall, Pair!Pc
  <2>2. [call[p] EXCEPT !.pc = pc] \in Pair!Call
    BY PairCallTyped DEF Pair!Call
  <2>3. call \in [TwoProcs -> Pair!Call]
    BY DEF Pair!TypeOK
  <2> QED
    BY <2>1, <2>2, <2>3
<1>f. ASSUME NEW i \in 1..Len(book), NEW n \in Pair!FileNo
      PROVE  [book EXCEPT ![i].file = n] \in Seq(Pair!Attempt) /\ Len([book EXCEPT ![i].file = n]) = Len(book)
  <2>1. book \in Seq(Pair!Attempt) /\ book[i] \in Pair!Attempt
    BY DEF Pair!TypeOK
  <2>2. [book[i] EXCEPT !.file = n] \in Pair!Attempt
    BY <2>1 DEF Pair!Attempt
  <2> QED
    BY <2>1, <2>2
<1>1. ASSUME NEW p \in TwoProcs, NEW s \in Pair!Stage, NEW o \in Pair!Outcome, NEW c \in Content \cup {NoContent},
             Pair!Begin(p, s, o, c)
      PROVE  Pair!TypeOK'
  <2>1. [stage |-> s, outcome |-> o, content |-> c, file |-> 0] \in Pair!Attempt
    BY DEF Pair!Attempt
  <2>2. book' \in Seq(Pair!Attempt) /\ Len(book') = Len(book) + 1 /\ Len(book) + 1 \in Pair!AttemptId
    BY <1>1, <2>1 DEF Pair!Begin, Pair!TypeOK
  <2>3. [Pair!NoCall EXCEPT !.pc = IF c = NoContent THEN "open" ELSE "look",
                       !.id = Len(book) + 1, !.read = Pair!Recorded(log)] \in Pair!Call
    BY <2>2 DEF Pair!Call, Pair!NoCall, PairRecordedTyped, Pair!Pc
  <2>4. call' \in [TwoProcs -> Pair!Call]
    BY <1>1, <2>3 DEF Pair!Begin, Pair!TypeOK
  <2> QED
    BY <1>1, <1>a, <2>2, <2>4 DEF Pair!Begin, Pair!TypeOK
<1>2. ASSUME NEW p \in TwoProcs, Pair!Look(p) PROVE Pair!TypeOK'
  <2>1. book' \in Seq(Pair!Attempt) /\ Len(book') = Len(book)
    <3>1. 1 \in Pair!FileNo /\ call[p].id \in 1..Len(book)
      BY <1>2, <1>a DEF Pair!Look
    <3>2. book \in Seq(Pair!Attempt)
      BY DEF Pair!TypeOK
    <3>3. book' = [book EXCEPT ![call[p].id].file = 1] \/ book' = book
      BY <1>2 DEF Pair!Look
    <3> QED
      BY <1>f, <3>1, <3>2, <3>3
  <2>2. call' \in [TwoProcs -> Pair!Call]
    <3>1. call' = [call EXCEPT ![p].pc = "open"] \/ call' = [call EXCEPT ![p].pc = "name"]
      BY <1>2 DEF Pair!Look, Pair!Goto
    <3>2. "open" \in Pair!Pc /\ "name" \in Pair!Pc
      BY DEF Pair!Pc
    <3>3. [call EXCEPT ![p].pc = "open"] \in [TwoProcs -> Pair!Call]
      BY <1>c, <3>2
    <3>4. [call EXCEPT ![p].pc = "name"] \in [TwoProcs -> Pair!Call]
      BY <1>c, <3>2
    <3> QED
      BY <3>1, <3>3, <3>4
  <2> QED
    BY <1>2, <2>1, <2>2 DEF Pair!Look, Pair!TypeOK
<1>3. ASSUME NEW p \in TwoProcs, Pair!ChooseName(p) PROVE Pair!TypeOK'
  <2>1. book' \in Seq(Pair!Attempt) /\ Len(book') = Len(book)
    BY <1>3, <1>a, <1>f DEF Pair!ChooseName, Pair!TypeOK
  <2>2. call' \in [TwoProcs -> Pair!Call]
    BY <1>3, <1>c DEF Pair!ChooseName, Pair!Goto, Pair!Pc
  <2> QED
    BY <1>3, <2>1, <2>2 DEF Pair!ChooseName, Pair!TypeOK
<1>4. ASSUME NEW p \in TwoProcs, Pair!Rename(p) PROVE Pair!TypeOK'
  <2>1. archive' \in [Content -> [Pair!FileNo -> {"absent", "good", "bad"}]]
    BY <1>4 DEF Pair!Rename, Pair!TypeOK
  <2>2. call' \in [TwoProcs -> Pair!Call]
    <3>1. [call[p] EXCEPT !.pc = "open", !.fresh = TRUE] \in Pair!Call
      BY PairCallTyped DEF Pair!Call, Pair!Pc
    <3> QED
      BY <1>4, <3>1 DEF Pair!Rename, Pair!TypeOK
  <2> QED
    BY <1>4, <2>1, <2>2 DEF Pair!Rename, Pair!TypeOK
<1>5. ASSUME NEW p \in TwoProcs, Pair!OpenLog(p) PROVE Pair!TypeOK'
  <2>1. call' \in [TwoProcs -> Pair!Call]
    <3>1. [call[p] EXCEPT !.pc = "write", !.length = Len(log)] \in Pair!Call
      <4>1. Len(log) \in Nat
        BY DEF Pair!TypeOK
      <4> QED
        BY PairCallTyped, <4>1 DEF Pair!Call, Pair!Pc
    <3> QED
      BY <1>5, <3>1 DEF Pair!OpenLog, Pair!TypeOK
  <2> QED
    BY <1>5, <2>1 DEF Pair!OpenLog, Pair!TypeOK
<1>h. ASSUME NEW p \in TwoProcs, call[p].pc # "idle", NEW piece \in {"head", "rest", "bare", "newline"}
      PROVE  Pair!Half(call[p].id, piece) \in Pair!Chunk
  BY <1>b, <1>h DEF Pair!Half, Pair!Chunk
<1>6. ASSUME NEW p \in TwoProcs, Pair!WriteLine(p) PROVE Pair!TypeOK'
  <2>1. Pair!Half(call[p].id, "head") \in Pair!Chunk /\ Pair!Half(call[p].id, "rest") \in Pair!Chunk
    BY <1>6, <1>h DEF Pair!WriteLine
  <2>2. log' \in Seq(Pair!Chunk)
    BY <1>6, <2>1 DEF Pair!WriteLine, Pair!TypeOK
  <2>3. call' \in [TwoProcs -> Pair!Call]
    BY <1>6, <1>c DEF Pair!WriteLine, Pair!Goto, Pair!Pc
  <2> QED
    BY <1>6, <2>2, <2>3 DEF Pair!WriteLine, Pair!TypeOK
<1>7. ASSUME NEW p \in TwoProcs, Pair!WriteShort(p) PROVE Pair!TypeOK'
  <2>2. log' \in Seq(Pair!Chunk)
    BY <1>7, <1>h DEF Pair!WriteShort, Pair!TypeOK
  <2>3. call' \in [TwoProcs -> Pair!Call]
    BY <1>7, <1>c DEF Pair!WriteShort, Pair!Goto, Pair!Pc
  <2> QED
    BY <1>7, <2>2, <2>3 DEF Pair!WriteShort, Pair!TypeOK
<1>8. ASSUME NEW p \in TwoProcs, Pair!WriteMore(p) PROVE Pair!TypeOK'
  <2>2. log' \in Seq(Pair!Chunk)
    BY <1>8, <1>h DEF Pair!WriteMore, Pair!TypeOK, Pair!Second
  <2>3. call' \in [TwoProcs -> Pair!Call]
    BY <1>8, <1>c DEF Pair!WriteMore, Pair!Goto, Pair!Pc
  <2> QED
    BY <1>8, <2>2, <2>3 DEF Pair!WriteMore, Pair!TypeOK
<1>9. ASSUME NEW p \in TwoProcs, Pair!AppendFails(p) PROVE Pair!TypeOK'
  <2>1. call' \in [TwoProcs -> Pair!Call]
    BY <1>9, <1>c DEF Pair!AppendFails, Pair!Goto, Pair!Pc
  <2>2. undone' \subseteq Pair!AttemptId
    BY <1>9, <1>b DEF Pair!AppendFails, Pair!TypeOK
  <2> QED
    BY <1>9, <2>1, <2>2 DEF Pair!AppendFails, Pair!TypeOK
<1>10. ASSUME NEW p \in TwoProcs, Pair!Truncate(p) PROVE Pair!TypeOK'
  <2>1. call' \in [TwoProcs -> Pair!Call]
    BY <1>10, <1>c DEF Pair!Truncate, Pair!Goto, Pair!Pc
  <2>2. undone' \subseteq Pair!AttemptId
    BY <1>10, <1>b DEF Pair!Truncate, Pair!TypeOK
  <2>3. Pair!Hole \in Pair!Chunk /\ call[p].length \in Nat
    BY PairCallTyped DEF Pair!Hole, Pair!Chunk
  <2>4. log' \in Seq(Pair!Chunk)
    <3>1. \A k \in 1..call[p].length : (IF k <= Len(log) THEN log[k] ELSE Pair!Hole) \in Pair!Chunk
      BY <2>3 DEF Pair!TypeOK
    <3> QED
      BY <1>10, <2>3, <3>1 DEF Pair!Truncate, Pair!Truncated
  <2> QED
    BY <1>10, <2>1, <2>2, <2>4 DEF Pair!Truncate, Pair!TypeOK
<1>11. ASSUME NEW p \in TwoProcs, Pair!TruncateFails(p) PROVE Pair!TypeOK'
  BY <1>11, <1>c DEF Pair!TruncateFails, Pair!Goto, Pair!Pc, Pair!TypeOK
<1>12. ASSUME NEW p \in TwoProcs, Pair!DropReceipt(p) PROVE Pair!TypeOK'
  <2>1. archive' \in [Content -> [Pair!FileNo -> {"absent", "good", "bad"}]]
    BY <1>12 DEF Pair!DropReceipt, Pair!TypeOK
  <2>2. call' \in [TwoProcs -> Pair!Call]
    BY <1>12, <1>c DEF Pair!DropReceipt, Pair!Leave, Pair!Pc
  <2> QED
    BY <1>12, <2>1, <2>2 DEF Pair!DropReceipt, Pair!TypeOK
<1>13. ASSUME NEW p \in TwoProcs, Pair!Commit(p) PROVE Pair!TypeOK'
  <2>1. call' \in [TwoProcs -> Pair!Call]
    BY <1>13, <1>c DEF Pair!Commit, Pair!Goto, Pair!Pc
  <2>2. committed' \subseteq Pair!AttemptId
    BY <1>13, <1>b DEF Pair!Commit, Pair!TypeOK
  <2> QED
    BY <1>13, <2>1, <2>2 DEF Pair!Commit, Pair!TypeOK
<1>14. ASSUME NEW p \in TwoProcs, Pair!WritePacket(p) PROVE Pair!TypeOK'
  <2>1. call' \in [TwoProcs -> Pair!Call]
    BY <1>14, <1>c DEF Pair!WritePacket, Pair!Leave, Pair!Pc
  <2>2. call[p].id \in Pair!AttemptId /\ call[p].read \in Seq(Pair!AttemptId)
    BY <1>14, <1>b, PairCallTyped DEF Pair!WritePacket
  <2>3. packet' \in Seq(Pair!AttemptId)
    <3>1. Append(call[p].read, call[p].id) \in Seq(Pair!AttemptId)
      BY <2>2
    <3> QED
      BY <1>14, <3>1 DEF Pair!WritePacket, Pair!Rendered, Pair!TypeOK
  <2> QED
    BY <1>14, <2>1, <2>3 DEF Pair!WritePacket, Pair!TypeOK
<1>15. ASSUME NEW p \in TwoProcs, Pair!Crash(p) PROVE Pair!TypeOK'
  BY <1>15, <1>c DEF Pair!Crash, Pair!Leave, Pair!Pc, Pair!TypeOK
<1>16. ASSUME NEW c \in Content, NEW n \in Pair!FileNo, NEW how \in {"bad", "absent"}, Pair!Tamper(c, n, how)
       PROVE  Pair!TypeOK'
  <2>1. archive' \in [Content -> [Pair!FileNo -> {"absent", "good", "bad"}]]
    BY <1>16 DEF Pair!Tamper, Pair!TypeOK
  <2>2. tampered' \in [ids : SUBSET Pair!AttemptId, times : 0..MaxTampers]
    BY <1>16, <1>a, <1>b DEF Pair!Tamper, Pair!TypeOK
  <2> QED
    BY <1>16, <2>1, <2>2 DEF Pair!Tamper, Pair!TypeOK
<1>17. CASE UNCHANGED Pair!vars
  BY <1>17 DEF Pair!vars, Pair!TypeOK
<1> QED
  BY <1>1, <1>2, <1>3, <1>4, <1>5, <1>6, <1>7, <1>8, <1>9, <1>10, <1>11, <1>12, <1>13, <1>14,
     <1>15, <1>16, <1>17 DEF Pair!Next

\* No call yet.
LEMMA PairInitTyped == ASSUME Pair!CasebookAssumption, Pair!Init PROVE Pair!TypeOK
<1>1. Pair!NoCall \in Pair!Call
  <2>1. <<>> \in Seq(Pair!AttemptId)
    OBVIOUS
  <2> QED
    BY <2>1 DEF Pair!Call, Pair!NoCall, Pair!Pc
<1> QED
  BY <1>1, PairBounds DEF Pair!Init, Pair!TypeOK

------------------------------------------------------------------------------
(* Several processes whose appends do not fail *)

\* One more chunk of an attempt keeps a log typed.
LEMMA HalfTyped ==
  ASSUME NEW f \in Seq(Pair!Chunk), Pair!Recorded(f) \in Seq(Pair!AttemptId), NEW i \in Pair!AttemptId,
         NEW piece \in {"head", "rest", "bare", "newline"}
  PROVE  Append(f, Pair!Half(i, piece)) \in Seq(Pair!Chunk) /\ Pair!Recorded(Append(f, Pair!Half(i, piece))) \in Seq(Pair!AttemptId)
<1>1. Pair!Half(i, piece) \in Pair!Chunk /\ Pair!Half(i, piece).id = i /\ Pair!Half(i, piece).part = piece
  BY DEF Pair!Half, Pair!Chunk
<1>2. \/ Pair!Recorded(Append(f, Pair!Half(i, piece))) = Pair!Recorded(f)
      \/ Pair!Recorded(Append(f, Pair!Half(i, piece))) = Append(Pair!Recorded(f), i)
  BY <1>1, PairRecordedGrows
<1> QED
  BY <1>1, <1>2

\* Each call has an attempt of its own, which is not committed before it is
\* written; from its name on its receipt is in the archive, unless altered.
Backed(i) ==
  LET r == book[i] IN
  r.content # NoContent /\ i \notin tampered.ids =>
    r.file # 0 /\ archive[r.content][r.file] = "good"

\* The points of a call where its receipt has no name yet, and where it has one.
Named == {"look", "name", "rename"}

Given == {"open", "write", "more", "sync", "packet"}

\* What a call in hand has promised.
CallBacked(p) ==
  LET c == call[p] IN
  c.pc # "idle" =>
    /\ c.id \in 1..Len(book)
    /\ c.pc \in Named \cup Given
    /\ c.pc \in Named => c.id \notin committed /\ book[c.id].content # NoContent
    /\ c.pc = "rename" => book[c.id].file # 0
    /\ c.pc \in Given => Backed(c.id)

\* No two calls have the same attempt.
OwnAttempts ==
  \A p, q \in TwoProcs : p # q /\ call[p].pc # "idle" /\ call[q].pc # "idle" => call[p].id # call[q].id

\* The invariant of several processes.
PairInv ==
  /\ Pair!TypeOK /\ PairRecordedTyped /\ OwnAttempts
  /\ \A p \in TwoProcs : CallBacked(p)
  /\ \A i \in committed : i \in 1..Len(book) /\ Backed(i)

\* Nothing is recorded at the start.
LEMMA InitPair == ASSUME Pair!CasebookAssumption, Pair!Init PROVE PairInv
<1>1. PairRecordedTyped
  <2>1. log = <<>>
    BY DEF Pair!Init
  <2>2. Pair!Recorded(log) = <<>>
    BY <2>1, PairNothingRecorded
  <2> QED
    BY <2>2 DEF PairRecordedTyped
<1>2. \A p \in TwoProcs : call[p].pc = "idle"
  BY DEF Pair!Init, Pair!NoCall
<1> QED
  BY <1>1, <1>2, PairInitTyped DEF Pair!Init, PairInv, OwnAttempts, CallBacked

\* Appends that do not fail keep what was recorded typed.
LEMMA PairRecorded ==
  ASSUME Pair!CasebookAssumption, PairFaults \cap {"write", "sync"} = {}, PairInv, [Pair!Next]_Pair!vars
  PROVE  PairRecordedTyped'
<1>a. Pair!Recorded(log) \in Seq(Pair!AttemptId) /\ log \in Seq(Pair!Chunk)
  BY DEF PairInv, Pair!TypeOK, PairRecordedTyped
<1>b. Len(book) \in Nat /\ 1..Len(book) \subseteq Pair!AttemptId
  BY PairBounds DEF PairInv, Pair!TypeOK, Pair!AttemptId
<1>c. ASSUME NEW p \in TwoProcs, call[p].pc # "idle" PROVE call[p].id \in Pair!AttemptId
  BY <1>b, <1>c DEF PairInv, CallBacked
<1>1. ASSUME NEW p \in TwoProcs, Pair!WriteLine(p) PROVE PairRecordedTyped'
  <2>1. PICK i \in Pair!AttemptId : i = call[p].id
    BY <1>1, <1>c DEF Pair!WriteLine
  <2>2. Append(log, Pair!Half(i, "head")) \in Seq(Pair!Chunk) /\ Pair!Recorded(Append(log, Pair!Half(i, "head"))) \in Seq(Pair!AttemptId)
    BY <1>a, HalfTyped
  <2>3. Pair!Recorded(Append(Append(log, Pair!Half(i, "head")), Pair!Half(i, "rest"))) \in Seq(Pair!AttemptId)
    BY <2>2, HalfTyped
  <2>4. Pair!Half(i, "head") \in Pair!Chunk /\ Pair!Half(i, "rest") \in Pair!Chunk
    BY DEF Pair!Half, Pair!Chunk
  <2>5. log' = Append(Append(log, Pair!Half(i, "head")), Pair!Half(i, "rest"))
    BY <1>1, <1>a, <2>1, <2>4, TwoAppends DEF Pair!WriteLine
  <2> QED
    BY <2>3, <2>5 DEF PairRecordedTyped
<1>2. ASSUME NEW p \in TwoProcs, Pair!WriteShort(p) PROVE PairRecordedTyped'
  <2>1. PICK i \in Pair!AttemptId : i = call[p].id
    BY <1>2, <1>c DEF Pair!WriteShort
  <2>2. PICK piece \in {"head", "bare"} : log' = Append(log, Pair!Half(i, piece))
    BY <1>2, <2>1 DEF Pair!WriteShort
  <2> QED
    BY <1>a, <2>2, HalfTyped DEF PairRecordedTyped
<1>3. ASSUME NEW p \in TwoProcs, Pair!WriteMore(p) PROVE PairRecordedTyped'
  <2>1. PICK i \in Pair!AttemptId : i = call[p].id
    BY <1>3, <1>c DEF Pair!WriteMore
  <2>2. PICK piece \in {"rest", "newline"} : log' = Append(log, Pair!Half(i, piece))
    BY <1>3, <2>1 DEF Pair!WriteMore, Pair!Second
  <2> QED
    BY <1>a, <2>2, HalfTyped DEF PairRecordedTyped
<1>4. ASSUME NEW p \in TwoProcs, Pair!Truncate(p) PROVE FALSE
  BY <1>4 DEF Pair!Truncate, PairInv, CallBacked, Named, Given
<1>5. UNCHANGED log \/ (\E p \in TwoProcs : Pair!WriteLine(p) \/ Pair!WriteShort(p) \/ Pair!WriteMore(p) \/ Pair!Truncate(p))
  BY DEF Pair!Next, Pair!vars, Pair!Begin, Pair!Look, Pair!ChooseName, Pair!Rename, Pair!OpenLog,
      Pair!AppendFails, Pair!TruncateFails,
         Pair!DropReceipt, Pair!Commit, Pair!WritePacket, Pair!Crash, Pair!Tamper
<1>6. CASE UNCHANGED log
  BY <1>6, <1>a DEF PairRecordedTyped
<1> QED
  BY <1>1, <1>2, <1>3, <1>4, <1>5, <1>6

\* A step that leaves book, archive and alterations alone, and moves one call
\* on within what is asked of it.
LEMMA PairMoves ==
  ASSUME PairInv, NEW p \in TwoProcs, NEW c \in Pair!Call, UNCHANGED <<book, archive, tampered>>,
         call' = [call EXCEPT ![p] = c],
         \/ c.pc = "idle" /\ UNCHANGED committed
         \/ /\ call[p].pc \in Given /\ c.pc \in Given /\ c.id = call[p].id
            /\ committed' \subseteq committed \cup {c.id}
  PROVE  /\ OwnAttempts' /\ \A q \in TwoProcs : CallBacked(q)'
         /\ (\A i \in committed : i \in 1..Len(book) /\ Backed(i))'
<1>1. call \in [TwoProcs -> Pair!Call]
  BY DEF PairInv, Pair!TypeOK
<1>2. call'[p] = c /\ \A q \in TwoProcs : q # p => call'[q] = call[q]
  BY <1>1
<1>3. \A i : Backed(i)' <=> Backed(i)
  BY DEF Backed
<1>4. OwnAttempts'
  BY <1>2 DEF OwnAttempts, PairInv, Given
<1>5. ASSUME NEW q \in TwoProcs PROVE CallBacked(q)'
  <2>1. CASE q = p
    BY <1>2, <1>3, <2>1 DEF PairInv, CallBacked, Given, Named, Backed
  <2>2. CASE q # p
    <3>1. call'[q] = call[q] /\ CallBacked(q)
      BY <1>2, <2>2 DEF PairInv
    <3>2. call[q].pc # "idle" /\ call[q].id \notin committed => call[q].id \notin committed'
      BY <2>2 DEF PairInv, OwnAttempts, Given
    <3> QED
      BY <3>1, <3>2 DEF CallBacked, Backed, Named
  <2> QED
    BY <2>1, <2>2
<1>6. ASSUME NEW i \in committed' PROVE i \in 1..Len(book') /\ Backed(i)'
  <2>1. CASE i \in committed
    BY <1>3, <2>1 DEF PairInv
  <2>2. CASE i \notin committed
    <3>1. i = c.id /\ call[p].pc \in Given /\ c.id = call[p].id
      BY <2>2
    <3> QED
      BY <1>3, <3>1 DEF PairInv, CallBacked, Given
  <2> QED
    BY <2>1, <2>2
<1> QED
  BY <1>4, <1>5, <1>6

\* A step of one call on its own attempt leaves what is said of the others.
LEMMA PairOthers ==
  ASSUME PairInv, NEW p \in TwoProcs, call[p].pc \in Named, NEW c \in Pair!Call,
         call' = [call EXCEPT ![p] = c], c.id = call[p].id, c.pc \in Named \cup Given,
         UNCHANGED <<committed, tampered>>, Len(book') = Len(book),
         \A i \in 1..Len(book) : i # call[p].id => book'[i] = book[i],
         \A n \in Content, k \in Pair!FileNo : archive[n][k] = "good" => archive'[n][k] = "good",
         CallBacked(p)'
  PROVE  /\ OwnAttempts' /\ \A q \in TwoProcs : CallBacked(q)'
         /\ (\A i \in committed : i \in 1..Len(book) /\ Backed(i))'
<1>1. call \in [TwoProcs -> Pair!Call] /\ book \in Seq(Pair!Attempt)
  BY DEF PairInv, Pair!TypeOK
<1>2. call'[p] = c /\ \A q \in TwoProcs : q # p => call'[q] = call[q]
  BY <1>1
<1>3. ASSUME NEW i \in 1..Len(book), i # call[p].id, Backed(i) PROVE Backed(i)'
  <2>1. book[i] \in Pair!Attempt /\ book'[i] = book[i]
    BY <1>1, <1>3
  <2> QED
    BY <1>3, <2>1 DEF Backed, Pair!Attempt
<1>4. OwnAttempts'
  BY <1>2 DEF OwnAttempts, PairInv, Named, Given
<1>5. ASSUME NEW q \in TwoProcs PROVE CallBacked(q)'
  <2>2. CASE q # p
    <3>1. call'[q] = call[q] /\ CallBacked(q)
      BY <1>2, <2>2 DEF PairInv
    <3>2. call[q].pc # "idle" => call[q].id # call[p].id /\ book'[call[q].id] = book[call[q].id]
      BY <2>2, <3>1 DEF PairInv, OwnAttempts, Named, CallBacked
    <3>3. PICK i : i = call[q].id
      OBVIOUS
    <3>4. call[q].pc # "idle" /\ Backed(i) => Backed(i)'
      BY <1>3, <3>1, <3>2, <3>3 DEF CallBacked
    <3> QED
      BY <3>1, <3>2, <3>3, <3>4 DEF CallBacked, Named, Backed
  <2> QED
    BY <2>2
<1>6. ASSUME NEW i \in committed' PROVE i \in 1..Len(book') /\ Backed(i)'
  <2>1. i \in 1..Len(book) /\ Backed(i) /\ i # call[p].id
    BY <1>6 DEF PairInv, CallBacked, Named
  <2> QED
    BY <1>3, <2>1
<1> QED
  BY <1>4, <1>5, <1>6

\* The invariant without its types.
PairSaid ==
  /\ OwnAttempts /\ \A q \in TwoProcs : CallBacked(q)
  /\ \A i \in committed : i \in 1..Len(book) /\ Backed(i)

\* A new attempt is nobody else's and has no receipt in the archive to lose.
LEMMA PairBegins ==
  ASSUME Pair!CasebookAssumption, PairInv, NEW p \in TwoProcs, NEW s \in Pair!Stage, NEW o \in Pair!Outcome,
         NEW c \in Content \cup {NoContent}, Pair!Begin(p, s, o, c)
  PROVE  PairSaid'
<1>1. call \in [TwoProcs -> Pair!Call] /\ book \in Seq(Pair!Attempt) /\ Len(book) \in Nat
  BY DEF PairInv, Pair!TypeOK
<1>2. /\ Len(book') = Len(book) + 1 /\ \A i \in 1..Len(book) : book'[i] = book[i]
      /\ book'[Len(book) + 1].content = c /\ book'[Len(book) + 1].file = 0
  BY <1>1 DEF Pair!Begin
<1>3. /\ call'[p].pc = IF c = NoContent THEN "open" ELSE "look"
      /\ call'[p].id = Len(book) + 1
      /\ \A q \in TwoProcs : q # p => call'[q] = call[q]
  BY <1>1 DEF Pair!Begin, Pair!NoCall
<1>4. UNCHANGED <<archive, committed, tampered>>
  BY DEF Pair!Begin
<1>5. ASSUME NEW i \in 1..Len(book), Backed(i) PROVE Backed(i)'
  BY <1>2, <1>4, <1>5 DEF Backed
<1>6. OwnAttempts'
  BY <1>1, <1>3 DEF OwnAttempts, PairInv, CallBacked
<1>7. ASSUME NEW q \in TwoProcs PROVE CallBacked(q)'
  <2>1. CASE q = p
    <3>1. Len(book) + 1 \in 1..Len(book') /\ Len(book) + 1 \notin committed'
      BY <1>1, <1>2, <1>4 DEF PairInv
    <3> QED
      BY <1>2, <1>3, <2>1, <3>1 DEF CallBacked, Named, Given, Backed
  <2>2. CASE q # p
    <3>1. call'[q] = call[q] /\ CallBacked(q)
      BY <1>3, <2>2 DEF PairInv
    <3>2. CASE call[q].pc = "idle"
      BY <3>1, <3>2 DEF CallBacked
    <3>3. CASE call[q].pc # "idle"
      <4>1. PICK i \in 1..Len(book) : i = call[q].id
        BY <3>1, <3>3 DEF CallBacked
      <4>2. Backed(i) => Backed(i)'
        BY <1>5
      <4>3. i \in 1..Len(book') /\ book'[i] = book[i]
        BY <1>1, <1>2
      <4> QED
        BY <1>4, <3>1, <4>1, <4>2, <4>3 DEF CallBacked, Backed
    <3> QED
      BY <3>2, <3>3
  <2> QED
    BY <2>1, <2>2
<1>8. ASSUME NEW i \in committed' PROVE i \in 1..Len(book') /\ Backed(i)'
  <2>1. i \in 1..Len(book) /\ Backed(i)
    BY <1>4 DEF PairInv
  <2>2. i \in 1..Len(book')
    BY <1>1, <1>2, <2>1
  <2> QED
    BY <1>5, <2>1, <2>2
<1> QED
  BY <1>6, <1>7, <1>8 DEF PairSaid

\* Naming the receipt: the name is free or its file hashes to the digest.
LEMMA PairNames ==
  ASSUME Pair!CasebookAssumption, PairInv, NEW p \in TwoProcs, Pair!Look(p) \/ Pair!ChooseName(p) \/ Pair!Rename(p)
  PROVE  PairSaid'
<1>1. /\ call \in [TwoProcs -> Pair!Call] /\ book \in Seq(Pair!Attempt) /\ call[p] \in Pair!Call
      /\ archive \in [Content -> [Pair!FileNo -> {"absent", "good", "bad"}]]
  BY DEF PairInv, Pair!TypeOK
<1>n. call[p].pc \in Named
  BY DEF Pair!Look, Pair!ChooseName, Pair!Rename, Named
<1>2. PICK i \in 1..Len(book) : i = call[p].id
  BY <1>n DEF PairInv, CallBacked, Named
<1>3. /\ book[i] \in Pair!Attempt /\ book[i].content \in Content /\ i \notin committed
      /\ book[i].content # NoContent /\ book[i].file \in Pair!FileNo \cup {0}
  <2>1. book[i] \in Pair!Attempt
    BY <1>1
  <2>2. i \notin committed /\ book[i].content # NoContent
    BY <1>2, <1>n DEF PairInv, CallBacked, Named
  <2> QED
    BY <2>1, <2>2 DEF Pair!Attempt
<1>4. Pair!FileNo \subseteq Nat \ {0}
  BY PairBounds DEF Pair!FileNo
<1>5. UNCHANGED <<committed, tampered>>
  BY DEF Pair!Look, Pair!ChooseName, Pair!Rename
<1>6. CASE Pair!Look(p)
  <2>1. CASE Pair!Reusable(book[i].content)
    <3>1. book' = [book EXCEPT ![i].file = 1] /\ call' = [call EXCEPT ![p].pc = "open"] /\ archive' = archive
      BY <1>2, <1>6, <2>1 DEF Pair!Look, Pair!Goto
    <3>2. /\ Len(book') = Len(book) /\ \A k \in 1..Len(book) : k # i => book'[k] = book[k]
          /\ book'[i].file = 1 /\ book'[i].content = book[i].content
      BY <1>1, <1>2, <1>3, <3>1 DEF Pair!Attempt
    <3>3. PICK c \in Pair!Call : c = [call[p] EXCEPT !.pc = "open"]
      BY <1>1 DEF Pair!Call, Pair!Pc
    <3>4. call' = [call EXCEPT ![p] = c] /\ c.id = i /\ c.pc = "open" /\ call'[p] = c
      BY <1>1, <1>2, <3>1, <3>3 DEF Pair!Call
    <3>5. CallBacked(p)'
      BY <1>2, <2>1, <3>1, <3>2, <3>4 DEF CallBacked, Backed, Pair!Reusable, Named, Given
    <3> QED
      BY <1>2, <1>5, <1>n, <3>1, <3>2, <3>4, <3>5, PairOthers DEF PairSaid, Given
  <2>2. CASE ~Pair!Reusable(book[i].content)
    <3>1. book' = book /\ call' = [call EXCEPT ![p].pc = "name"] /\ archive' = archive
      BY <1>2, <1>6, <2>2 DEF Pair!Look, Pair!Goto
    <3>3. PICK c \in Pair!Call : c = [call[p] EXCEPT !.pc = "name"]
      BY <1>1 DEF Pair!Call, Pair!Pc
    <3>4. call' = [call EXCEPT ![p] = c] /\ c.id = i /\ c.pc = "name" /\ call'[p] = c
      BY <1>1, <1>2, <3>1, <3>3 DEF Pair!Call
    <3>5. CallBacked(p)'
      BY <1>2, <1>3, <1>5, <3>1, <3>4 DEF CallBacked, Named, Given
    <3> QED
      BY <1>2, <1>5, <1>n, <3>1, <3>4, <3>5, PairOthers DEF PairSaid, Named
  <2> QED
    BY <2>1, <2>2
<1>7. CASE Pair!ChooseName(p)
  <2>1. PICK n \in Pair!FileNo : book' = [book EXCEPT ![i].file = n]
    BY <1>2, <1>7 DEF Pair!ChooseName
  <2>2. call' = [call EXCEPT ![p].pc = "rename"] /\ archive' = archive
    BY <1>7 DEF Pair!ChooseName, Pair!Goto
  <2>3. /\ Len(book') = Len(book) /\ \A k \in 1..Len(book) : k # i => book'[k] = book[k]
        /\ book'[i].file = n /\ book'[i].content = book[i].content
    BY <1>1, <1>2, <1>3, <2>1 DEF Pair!Attempt
  <2>4. PICK c \in Pair!Call : c = [call[p] EXCEPT !.pc = "rename"]
    BY <1>1 DEF Pair!Call, Pair!Pc
  <2>5. call' = [call EXCEPT ![p] = c] /\ c.id = i /\ c.pc = "rename" /\ call'[p] = c
    BY <1>1, <1>2, <2>2, <2>4 DEF Pair!Call
  <2>6. CallBacked(p)'
    BY <1>2, <1>3, <1>4, <1>5, <2>3, <2>5 DEF CallBacked, Named, Given
  <2> QED
    BY <1>2, <1>5, <1>n, <2>2, <2>3, <2>5, <2>6, PairOthers DEF PairSaid, Named
<1>8. CASE Pair!Rename(p)
  <2>1. /\ book' = book /\ archive' = [archive EXCEPT ![book[i].content][book[i].file] = "good"]
        /\ call' = [call EXCEPT ![p].pc = "open", ![p].fresh = TRUE]
    BY <1>2, <1>8 DEF Pair!Rename
  <2>2. book[i].file # 0
    BY <1>2, <1>8 DEF Pair!Rename, PairInv, CallBacked
  <2>3. /\ archive'[book[i].content][book[i].file] = "good"
        /\ \A n \in Content, k \in Pair!FileNo : archive[n][k] = "good" => archive'[n][k] = "good"
    BY <1>1, <1>3, <2>1, <2>2
  <2>4. PICK c \in Pair!Call : c = [call[p] EXCEPT !.pc = "open", !.fresh = TRUE]
    BY <1>1 DEF Pair!Call, Pair!Pc
  <2>5. call' = [call EXCEPT ![p] = c] /\ c.id = i /\ c.pc = "open" /\ call'[p] = c
    BY <1>1, <1>2, <2>1, <2>4 DEF Pair!Call
  <2>6. CallBacked(p)'
    BY <1>2, <2>1, <2>2, <2>3, <2>5 DEF CallBacked, Backed, Named, Given
  <2> QED
    BY <1>2, <1>5, <1>n, <2>1, <2>3, <2>5, <2>6, PairOthers DEF PairSaid, Given
<1> QED
  BY <1>6, <1>7, <1>8

\* Writing, committing and ending a call leave the archive alone.
LEMMA PairWrites ==
  ASSUME Pair!CasebookAssumption, PairFaults \cap {"write", "sync"} = {}, PairInv, NEW p \in TwoProcs,
         \/ Pair!OpenLog(p) \/ Pair!WriteLine(p) \/ Pair!WriteShort(p) \/ Pair!WriteMore(p) \/ Pair!AppendFails(p)
         \/ Pair!Truncate(p) \/ Pair!TruncateFails(p) \/ Pair!DropReceipt(p)
         \/ Pair!Commit(p) \/ Pair!WritePacket(p) \/ Pair!Crash(p)
  PROVE  PairSaid'
<1>1. /\ call \in [TwoProcs -> Pair!Call] /\ call[p] \in Pair!Call /\ Pair!NoCall \in Pair!Call /\ Len(log) \in Nat
  <2>1. <<>> \in Seq(Pair!AttemptId)
    OBVIOUS
  <2> QED
    BY <2>1 DEF PairInv, Pair!TypeOK, Pair!Call, Pair!NoCall, Pair!Pc
<1>2. ASSUME NEW pc \in Given, call[p].pc \in Given, UNCHANGED <<book, archive, tampered>>,
             call' = [call EXCEPT ![p].pc = pc], committed' \subseteq committed \cup {call[p].id}
      PROVE  PairSaid'
  <2>1. PICK c \in Pair!Call : c = [call[p] EXCEPT !.pc = pc]
    BY <1>1 DEF Pair!Call, Pair!Pc, Given
  <2>2. c.pc = pc /\ c.id = call[p].id /\ call' = [call EXCEPT ![p] = c]
    BY <1>1, <1>2, <2>1 DEF Pair!Call
  <2> QED
    BY <1>2, <2>2, PairMoves DEF PairSaid
<1>3. ASSUME UNCHANGED <<book, archive, tampered, committed>>, call' = [call EXCEPT ![p] = Pair!NoCall]
      PROVE  PairSaid'
  BY <1>1, <1>3, PairMoves DEF PairSaid, Pair!NoCall
<1>4. CASE Pair!OpenLog(p)
  <2>1. PICK c \in Pair!Call : c = [call[p] EXCEPT !.pc = "write", !.length = Len(log)]
    BY <1>1 DEF Pair!Call, Pair!Pc
  <2>2. c.pc = "write" /\ c.id = call[p].id /\ call' = [call EXCEPT ![p] = c]
    BY <1>1, <1>4, <2>1 DEF Pair!Call, Pair!OpenLog
  <2> QED
    BY <1>4, <2>2, PairMoves DEF PairSaid, Pair!OpenLog, Given
<1>5. CASE Pair!WriteLine(p)
  BY <1>2, <1>5 DEF Pair!WriteLine, Pair!Goto, Given
<1>6. CASE Pair!WriteShort(p)
  BY <1>2, <1>6 DEF Pair!WriteShort, Pair!Goto, Given
<1>7. CASE Pair!WriteMore(p)
  BY <1>2, <1>7 DEF Pair!WriteMore, Pair!Goto, Given
<1>8. ~Pair!AppendFails(p) /\ ~Pair!Truncate(p) /\ ~Pair!TruncateFails(p) /\ ~Pair!DropReceipt(p)
  BY DEF Pair!AppendFails, Pair!Truncate, Pair!TruncateFails, Pair!DropReceipt, PairInv,
      CallBacked, Named, Given
<1>9. CASE Pair!Commit(p)
  BY <1>2, <1>9 DEF Pair!Commit, Pair!Goto, Given
<1>10. CASE Pair!WritePacket(p)
  BY <1>3, <1>10 DEF Pair!WritePacket, Pair!Leave
<1>11. CASE Pair!Crash(p)
  BY <1>3, <1>11 DEF Pair!Crash, Pair!Leave
<1> QED
  BY <1>4, <1>5, <1>6, <1>7, <1>8, <1>9, <1>10, <1>11

\* An altered file exempts the attempts that name it.
LEMMA PairTampers ==
  ASSUME Pair!CasebookAssumption, PairInv, NEW c \in Content, NEW n \in Pair!FileNo,
         NEW how \in {"bad", "absent"}, Pair!Tamper(c, n, how)
  PROVE  PairSaid'
<1>1. /\ book \in Seq(Pair!Attempt) /\ archive \in [Content -> [Pair!FileNo -> {"absent", "good", "bad"}]]
  BY DEF PairInv, Pair!TypeOK
<1>2. ASSUME NEW i \in 1..Len(book), Backed(i) PROVE Backed(i)'
  <2>1. book[i] \in Pair!Attempt
    BY <1>1
  <2>2. tampered'.ids = tampered.ids \cup {k \in 1..Len(book) : book[k].content = c /\ book[k].file = n}
    BY DEF Pair!Tamper
  <2>3. ASSUME i \notin tampered'.ids, book[i].content # NoContent
        PROVE  book[i].file # 0 /\ archive'[book[i].content][book[i].file] = "good"
    <3>1. /\ archive[book[i].content][book[i].file] = "good"
          /\ book[i].content \in Content /\ book[i].file \in Pair!FileNo
      BY <1>2, <2>1, <2>2, <2>3 DEF Backed, Pair!Attempt
    <3>2. ~(book[i].content = c /\ book[i].file = n) /\ book[i].file # 0
      BY <1>2, <2>2, <2>3 DEF Backed
    <3> QED
      BY <1>1, <3>1, <3>2 DEF Pair!Tamper
  <2> QED
    BY <2>3 DEF Backed, Pair!Tamper
<1>3. UNCHANGED <<book, call, committed>>
  BY DEF Pair!Tamper
<1>4. ASSUME NEW q \in TwoProcs PROVE CallBacked(q)'
  <2>1. CASE call[q].pc = "idle"
    BY <1>3, <2>1 DEF CallBacked
  <2>2. CASE call[q].pc # "idle"
    <3>1. PICK i \in 1..Len(book) : i = call[q].id
      BY <2>2 DEF PairInv, CallBacked
    <3>2. Backed(i) => Backed(i)'
      BY <1>2
    <3> QED
      BY <1>3, <3>1, <3>2 DEF PairInv, CallBacked, Backed
  <2> QED
    BY <2>1, <2>2
<1> QED
  BY <1>2, <1>3, <1>4 DEF PairSaid, PairInv, OwnAttempts

\* Every step of several processes keeps the invariant.
LEMMA NextPair ==
  ASSUME Pair!CasebookAssumption, PairFaults \cap {"write", "sync"} = {}, PairInv, [Pair!Next]_Pair!vars
  PROVE  PairInv'
<1>1. PairRecordedTyped'
  BY PairRecorded
<1>2. Pair!TypeOK'
  <2>1. \A p \in TwoProcs : call[p].pc # "idle" => call[p].id \in 1..Len(book)
    BY DEF PairInv, CallBacked
  <2> QED
    BY <2>1, PairTypeStep DEF PairInv
<1>3. PairSaid'
  <2>1. CASE UNCHANGED Pair!vars
    BY <2>1 DEF Pair!vars, PairInv, PairSaid, OwnAttempts, CallBacked, Backed
  <2> QED
    BY <2>1, PairBegins, PairNames, PairWrites, PairTampers DEF Pair!Next
<1> QED
  BY <1>1, <1>2, <1>3 DEF PairInv, PairSaid

\* What the invariant says of the receipts.
LEMMA PairStands == ASSUME PairInv PROVE Pair!CommittedBacked
  BY DEF PairInv, Pair!CommittedBacked, Backed

------------------------------------------------------------------------------
(* The imports of CodexImport *)

CodexProofs == INSTANCE CodexImportProofs WITH WritesMayFail <- TRUE, OtherImporter <- FALSE

\* Both instances count the same.
LEMMA CodexCounts ==
    /\ \A S : Codex!IsFiniteSet(S) <=> IsFiniteSet(S)
    /\ \A S : CodexProofs!IsFiniteSet(S) <=> IsFiniteSet(S)
    /\ \A S : Codex!Cardinality(S) = CodexProofs!Cardinality(S)
<1>1. \A S : Codex!IsFiniteSet(S) <=> IsFiniteSet(S)
  BY DEF Codex!IsFiniteSet, IsFiniteSet
<1>2. \A S : CodexProofs!IsFiniteSet(S) <=> IsFiniteSet(S)
  BY DEF CodexProofs!IsFiniteSet, IsFiniteSet
<1>3. ASSUME NEW S PROVE Codex!Cardinality(S) = CodexProofs!Cardinality(S)
  BY DEF Codex!Cardinality, CodexProofs!Cardinality
<1> QED BY <1>1, <1>2, <1>3

\* What CodexImportProofs proves of its imports holds of these.
LEMMA CodexSameSpec ==
    /\ Codex!Init <=> CodexProofs!Init
    /\ [Codex!Next]_(Codex!vars) <=> [CodexProofs!Next]_(CodexProofs!vars)
BY DEF Codex!Cardinality, CodexProofs!Cardinality, Codex!vars, CodexProofs!vars, Codex!Version,
    CodexProofs!Version,
   Codex!Terminal, CodexProofs!Terminal, Codex!Phase, CodexProofs!Phase, Codex!Count,
   CodexProofs!Count, Codex!Record, CodexProofs!Record, Codex!NoRecord, CodexProofs!NoRecord,
   Codex!NewRecord, CodexProofs!NewRecord, Codex!Verdict, CodexProofs!Verdict, Codex!Place,
   CodexProofs!Place, Codex!Main, CodexProofs!Main, Codex!Nothing, CodexProofs!Nothing,
   Codex!Idle, CodexProofs!Idle, Codex!Parse, CodexProofs!Parse, Codex!NoParse,
   CodexProofs!NoParse, Codex!Counted, CodexProofs!Counted, Codex!Left, CodexProofs!Left,
   Codex!Persist, CodexProofs!Persist, Codex!Goto, CodexProofs!Goto, Codex!At, CodexProofs!At,
   Codex!Mine, CodexProofs!Mine, Codex!Pooled, CodexProofs!Pooled, Codex!NextSeen,
   CodexProofs!NextSeen, Codex!Disposition, CodexProofs!Disposition, Codex!Interrupted,
   CodexProofs!Interrupted, Codex!Init, CodexProofs!Init, Codex!Submit, CodexProofs!Submit,
   Codex!Get, CodexProofs!Get, Codex!Take, CodexProofs!Take, Codex!BeginDiscovery,
   CodexProofs!BeginDiscovery, Codex!Discover, CodexProofs!Discover, Codex!AnnounceTotal,
   CodexProofs!AnnounceTotal, Codex!ScanChanged, CodexProofs!ScanChanged, Codex!ScanDone,
   CodexProofs!ScanDone, Codex!StartPool, CodexProofs!StartPool, Codex!StartParsing,
   CodexProofs!StartParsing, Codex!FinishParsing, CodexProofs!FinishParsing, Codex!Collect,
   CodexProofs!Collect, Codex!CountOne, CodexProofs!CountOne, Codex!Drain, CodexProofs!Drain,
   Codex!Finished, CodexProofs!Finished, Codex!WriteInventory, CodexProofs!WriteInventory,
   Codex!FinishReady, CodexProofs!FinishReady, Codex!RecordFailure, CodexProofs!RecordFailure,
   Codex!FinishFailed, CodexProofs!FinishFailed, Codex!Grow, CodexProofs!Grow, Codex!Restart,
   CodexProofs!Restart, Codex!OtherParses, CodexProofs!OtherParses, Codex!OtherSyncs,
   CodexProofs!OtherSyncs, Codex!Execute, CodexProofs!Execute, Codex!ParseOne,
   CodexProofs!ParseOne, Codex!Next, CodexProofs!Next

\* So do the types.
LEMMA CodexSameTypes == Codex!TypeOK <=> CodexProofs!TypeOK
BY CodexCounts DEF Codex!Version, CodexProofs!Version, Codex!Terminal, CodexProofs!Terminal,
   Codex!Phase, CodexProofs!Phase, Codex!Count, CodexProofs!Count, Codex!Record,
   CodexProofs!Record, Codex!NoRecord, CodexProofs!NoRecord, Codex!Verdict, CodexProofs!Verdict,
   Codex!Place, CodexProofs!Place, Codex!Main, CodexProofs!Main, Codex!Parse, CodexProofs!Parse,
   Codex!NoParse, CodexProofs!NoParse, Codex!Nothing, CodexProofs!Nothing, Codex!Idle,
   CodexProofs!Idle, Codex!TypeOK, CodexProofs!TypeOK

\* The assumptions of the imports.
LEMMA CodexAssumed == CodexProofs!CodexImportAssumption
BY PartsAssumption, CodexCounts DEF Codex!CodexImportAssumption, CodexProofs!CodexImportAssumption

------------------------------------------------------------------------------
(* All stores together *)

\* The invariants of the four stores.
StoresInv ==
  /\ HistoryInv /\ CodexProofs!ImportInv
  /\ part = "solo" => SoloInv
  /\ part = "pair" => PairInv

\* Every store starts in its invariant.
LEMMA InitStores == StoresInit => StoresInv
<1> SUFFICES ASSUME StoresInit PROVE StoresInv
  OBVIOUS
<1>1. HistoryInv
  BY InitHistory DEF StoresInit
<1>2. CodexProofs!ImportInv
  BY CodexAssumed, CodexSameSpec, CodexProofs!InitImport DEF StoresInit
<1>3. part = "solo" => SoloInv
  BY PartsAssumption, InitSolo DEF StoresInit
<1>4. part = "pair" => PairInv
  BY PartsAssumption, InitPair DEF StoresInit
<1> QED
  BY <1>1, <1>2, <1>3, <1>4 DEF StoresInv

\* A step is one of one store and a stutter of the others.
LEMMA StoresStep ==
  ASSUME [StoresNext]_allVars
  PROVE  /\ part' = part /\ [Next]_vars /\ [Codex!Next]_(Codex!vars)
         /\ part = "solo" => [Solo!Next]_(Solo!vars)
         /\ part = "pair" => [Pair!Next]_(Pair!vars)
<1>1. part' = part /\ [Next]_vars
  BY DEF StoresNext, allVars
<1>2. [Codex!Next]_(Codex!vars)
  BY DEF StoresNext, allVars, codexVars, Codex!vars
<1>3. part = "solo" => [Solo!Next]_(Solo!vars)
  BY DEF StoresNext, allVars, bookVars, Solo!vars
<1>4. part = "pair" => [Pair!Next]_(Pair!vars)
  BY DEF StoresNext, allVars, bookVars, Pair!vars
<1> QED
  BY <1>1, <1>2, <1>3, <1>4

\* Every step keeps all of it.
LEMMA NextStores == StoresInv /\ [StoresNext]_allVars => StoresInv'
<1> SUFFICES ASSUME StoresInv, [StoresNext]_allVars PROVE StoresInv'
  OBVIOUS
<1>1. HistoryInv'
  BY StoresStep, NextHistory DEF StoresInv
<1>2. CodexProofs!ImportInv'
  BY CodexAssumed, StoresStep, CodexSameSpec, CodexProofs!NextImport DEF StoresInv
<1>3. part' = "solo" => SoloInv'
  BY PartsAssumption, StoresStep, NextSolo DEF StoresInv, Alone
<1>4. part' = "pair" => PairInv'
  BY PartsAssumption, StoresStep, NextPair DEF StoresInv
<1> QED
  BY <1>1, <1>2, <1>3, <1>4 DEF StoresInv

\* The invariant of every behaviour, whichever store it is of.
THEOREM StoresInvariance == StoresSpec => []StoresInv
<1> QED
  BY InitStores, NextStores, PTL DEF StoresSpec

\* The types of the stores.
THEOREM StoresTypes == StoresSpec => []StoresTypeOK
<1>1. StoresInv => StoresTypeOK
  <2> SUFFICES ASSUME StoresInv PROVE StoresTypeOK
    OBVIOUS
  <2>1. TypeOK
    BY DEF StoresInv, HistoryInv
  <2>2. part = "solo" => Solo!TypeOK
    BY DEF StoresInv, SoloInv
  <2>3. part = "pair" => Pair!TypeOK
    BY DEF StoresInv, PairInv
  <2>4. Codex!TypeOK
    BY CodexSameTypes DEF StoresInv, CodexProofs!ImportInv, CodexProofs!Accounts
  <2> QED
    BY <2>1, <2>2, <2>3, <2>4 DEF StoresTypeOK
<1> QED
  BY <1>1, StoresInvariance, PTL

\* Beside the other stores too, an execution has triage, plan and approval right
\* before it, and what is accepted was verified and reviewed since it changed.
THEOREM HistoryTheorem == StoresSpec => [](ExecutionIsApproved /\ AcceptedAsReviewed)
<1>1. StoresInv => ExecutionIsApproved /\ AcceptedAsReviewed
  BY Approves, Reviews DEF StoresInv
<1> QED
  BY <1>1, StoresInvariance, PTL

\* The casebook of one process, whatever fails: an attempt whose append was
\* fsynced stays in the log, no pass was recorded before the stages below it
\* were passed, the packet is a prefix of the log and what was rolled back left
\* no byte in it.
THEOREM AttemptsStandTheorem == StoresSpec => []AttemptsStand
<1>1. StoresInv => AttemptsStand
  BY SoloStands DEF StoresInv, AttemptsStand
<1> QED
  BY <1>1, StoresInvariance, PTL

\* A casebook with one process implements AttemptLog, whatever fails: every step
\* records an attempt at the end, promises the last one, withdraws the last one
\* that was not promised, or leaves the log of attempts alone.
THEOREM AttemptLogImplemented == StoresSpec => (part = "solo" => Log!LogSpec)
<1>1. StoresInit => (part = "solo" => Log!LogInit)
  BY PartsAssumption, LogStarts DEF StoresInit
<1>2. StoresInv /\ [StoresNext]_allVars =>
         (part = "solo" => [Log!LogNext]_<<Solo!Recorded(log), committed>>)
  BY PartsAssumption, StoresStep, LogStep DEF StoresInv, Alone
<1>3. part = "solo" /\ [StoresNext]_allVars => (part = "solo")'
  BY StoresStep
<1> QED
  BY <1>1, <1>2, <1>3, StoresInvariance, PTL DEF StoresSpec, Log!LogSpec

\* An attempt that was promised keeps its place among the attempts a reader finds,
\* through the failures, rollbacks and kills of every later call.
PromisedKeepTheirPlace ==
  [][part = "solo" =>
       \A k \in 1..Len(Solo!Recorded(log)) :
         Solo!Recorded(log)[k] \in committed =>
           /\ k \in 1..Len(Solo!Recorded(log'))
           /\ Solo!Recorded(log')[k] = Solo!Recorded(log)[k]]_allVars

\* So it does, for any number of attempts and any faults.
THEOREM PlacesTheorem == StoresSpec => PromisedKeepTheirPlace
<1> DEFINE Kept == part = "solo" =>
             \A k \in 1..Len(Solo!Recorded(log)) :
               Solo!Recorded(log)[k] \in committed =>
                 /\ k \in 1..Len(Solo!Recorded(log'))
                 /\ Solo!Recorded(log')[k] = Solo!Recorded(log)[k]
<1>1. ASSUME StoresInv, [StoresNext]_allVars PROVE Kept
  <2> SUFFICES ASSUME part = "solo" PROVE Kept
    OBVIOUS
  <2>1. StoresInv' /\ part' = "solo"
    BY <1>1, NextStores, StoresStep
  <2>2. SoloInv /\ SoloInv'
    BY <1>1, <2>1 DEF StoresInv
  <2>3. [Log!LogNext]_<<Solo!Recorded(log), committed>>
    BY <1>1, <2>2, PartsAssumption, StoresStep, LogStep DEF Alone
  <2> QED
    BY <2>2, <2>3, PlacesKept
<1>2. StoresInv /\ [StoresNext]_allVars => [Kept]_allVars
  BY <1>1
<1> QED
  BY <1>2, StoresInvariance, PTL DEF StoresSpec, PromisedKeepTheirPlace

\* The casebook of several processes, killed at any point: a committed attempt
\* has its receipt in the archive unless somebody altered that file.
THEOREM CommittedBackedTheorem == StoresSpec => []CommittedBacked
<1>1. StoresInv => CommittedBacked
  BY PairStands DEF StoresInv, CommittedBacked
<1> QED
  BY <1>1, StoresInvariance, PTL

\* The inventory claims no session version whose messages the store lacks, and
\* the counts of a job add up, in memory and in its file.
THEOREM ImportTellsTheorem == StoresSpec => []ImportTells
<1>1. StoresInv => ImportTells
  <2> SUFFICES ASSUME StoresInv PROVE Codex!InventoryBacked /\ Codex!CountsAddUp
    BY DEF ImportTells
  <2>1. CodexProofs!InventoryBacked
    BY CodexProofs!VersionsBack DEF StoresInv, CodexProofs!ImportInv
  <2>2. CodexProofs!CountsAddUp
    BY CodexAssumed, CodexProofs!AccountsAddUp DEF StoresInv, CodexProofs!ImportInv
  <2> QED
    BY <2>1, <2>2 DEF Codex!InventoryBacked, CodexProofs!InventoryBacked, Codex!CountsAddUp,
       CodexProofs!CountsAddUp, Codex!NoRecord, CodexProofs!NoRecord, Codex!Counted,
       CodexProofs!Counted
<1> QED
  BY <1>1, StoresInvariance, PTL

==============================================================================
