\* One account, one plan, one tab with its form.
CONSTANTS
  Account = {x1}
  Attempt = {a1}
  NoAccount = NoAccount
  NoAttempt = NoAttempt
  Plan = {n1}
  NoPlan = NoPlan
  Tab = {tab1}
SPECIFICATION Spec
PROPERTY DoNotRetryStands
