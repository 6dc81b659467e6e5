\* One connection and its cancellation.
CONSTANTS
  ConnectJob = {a1}
  UploadJob = {u1}
  Video = {v1}
  Channel = {c1}
  NoJob = NoJob
  NoRequest = NoRequest
  WritesMayFail = FALSE
SPECIFICATION Spec
INVARIANTS CancelledSavesNoAccount
