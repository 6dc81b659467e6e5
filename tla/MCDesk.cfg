\* The catalog with two requests of two processes and one refused statement; two
\* sessions that appear, parsed by two threads; two submissions of every kind of
\* job, of which one is kept in memory; two failed writes, one restart.
CONSTANTS
  Source = {g, r}
  Collected = {g}
  Proc = {p1, p2}
  MaxVersion = 2
  MaxRequests = 2
  MaxFaults = 1
  Session = {s1, s2}
  SessionVersions = 1
  ParseWorkers = 2
  MaxJobs = 2
  Retained = 1
  VideoFaults = 2
  MaxRestarts = 1
SPECIFICATION DeskSpec
INVARIANTS DeskTypeOK CitedStaysResolvable ShownIsUnderWay OfferedIsTrue
PROPERTIES ReceiptsAreTheHistory ReceiptIsFinal EveryDeskJobEnds
CHECK_DEADLOCK FALSE
