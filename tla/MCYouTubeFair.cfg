\* Two connections and an upload, job files always written, both threads running.
CONSTANTS
  ConnectJob = {a1, a2}
  UploadJob = {u1}
  Video = {v1}
  Channel = {c1}
  NoJob = NoJob
  NoRequest = NoRequest
  WritesMayFail = FALSE
SPECIFICATION FairSpec
INVARIANTS Settled
PROPERTIES EveryJobEnds CancelHonoured
