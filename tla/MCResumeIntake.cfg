SPECIFICATION Spec
CONSTANTS
  Handler = {h1, h2}
  Key = {k1, k2, k3, k4}
  Payload = {x, y}
  Client = {alice, bob}
  LegacyKey = {k4}
  LegacyPayload = x
  NoClient = NoClient
  Capacity = 2
  Unit = 1
  Refill = 1
  Skew = 0
  MaxClock = 1
INVARIANTS RateBound AnswersStand NobodyStuck
SYMMETRY Symmetry
