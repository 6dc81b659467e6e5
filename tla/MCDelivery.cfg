\* Three runs that want one name, two faults of any kind, one directory of others;
\* a resume of two bullets and a Summary; an index of three chunks, three
\* rounds of two queries, three hits in all, one change of the index; two YouTube
\* connections beside an upload, or the reverse; two accounts, attempts and plans.
CONSTANTS
  Run = {a1, a2, a3}
  Outsider = Outsider
  Plain = Plain
  MaxFaults = 2
  MaxOutside = 1
  Bullet = {b1, b2}
  Summary = SUMMARY
  Chunk = {k1, k2, k3}
  MaxRounds = 3
  MaxQueries = 2
  MaxHits = 3
  MaxChanges = 1
  ConnectJob = {a1, a2}
  UploadJob = {b1, b2}
  Lone = Lone
  Video = {v1}
  Channel = {c1}
  NoJob = NoJob
  NoRequest = NoRequest
  Account = {a1, a2}
  Attempt = {b1, b2}
  NoAccount = NoAccount
  NoAttempt = NoAttempt
  Staged = {n1, n2}
  NoPlan = NoPlan
  Tab = {tab1}
SYMMETRY Symmetry
SPECIFICATION DeliverySpec
INVARIANTS PartsTypeOK DeliveryIsTrue ListedIsDelivered ReceiptIsHonest AgentAnswersFairly ShownIsTrue OneLiveConnect
PROPERTIES NothingReplaced CodesAreSpentOnce PostsGoToTheConnected
CHECK_DEADLOCK FALSE
