SPECIFICATION Spec
CONSTANTS
    MaxReviews = 2
    MaxPosts = 1
    MaxCrashes = 1
INVARIANT ApprovedTextWasApproved
CHECK_DEADLOCK FALSE
