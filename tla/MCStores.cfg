\* One task taken through two runs that share one file (ten events are enough for
\* a block after the first execution and a second one: 4 + BLOCKED + 4).  A
\* casebook of three attempts over two stages with every kind of fault, one of
\* two processes with one content, kills and one altered file.  Two versions of
\* two sessions, two jobs and one parse thread.
CONSTANTS
  long = long
  short = short
  Run = {long, short}
  Task = {t1}
  MaxEvents <- LongAndShort
  OneProc = {q1}
  TwoProcs = {p1, p2}
  Content = {c1}
  NoContent = NoContent
  SoloStages = 2
  PairStages = 1
  SoloFaults = {"short", "write", "sync", "truncate", "packet", "crash"}
  PairFaults = {"crash"}
  MaxAttempts = 3
  MaxTampers = 1
  Session = {s1, s2}
  Job = {j1, j2}
  NoJob = NoJob
  ParseWorkers = 1
  MaxVersion = 2
SYMMETRY Symmetry
SPECIFICATION StoresSpec
INVARIANTS StoresTypeOK ExecutionIsApproved AcceptedAsReviewed AttemptsStand CommittedBacked ImportTells
CHECK_DEADLOCK FALSE
