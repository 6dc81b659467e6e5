SPECIFICATION Spec
CONSTANTS
    MaxReviews = 2
    MaxPosts = 1
    MaxCrashes = 1
INVARIANTS
    TypeOK
    SealedThingsStand
    ReadyIsSealed
    RequestsDoNotMultiply
CHECK_DEADLOCK FALSE
