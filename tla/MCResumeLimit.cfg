SPECIFICATION FairSpec
CONSTANTS
  t1 = t1  t2 = t2  p1 = p1  p2 = p2  i1 = i1  i2 = i2
  alice = alice  bob = bob  nobody = nobody  cv = cv  v1 = v1
  Task = {t1, t2}
  LegacyTask = {}
  LegacyRequest <- MCLegacy
  Client = {alice}
  NoClient = nobody
  Content = {cv}
  Identity = {v1}
  Submission <- OnlyAi
  InputTTL = 2
  OutputTTL = 1
  LeaseSeconds = 1
  Batch = 1
  MaxClock = 4
  SubmitUntil = 1
  RenewUntil = 2
  Process = {p1}
  Thread = {i1}
  ModelConcurrency = 1
  DeploymentOf <- SameRelease
  Configured = {p1}
  NoTask = NoTask
  MaxFaults = 0
PROPERTIES EveryResultErased
