SPECIFICATION ConnectionSpec
CONSTANTS
    c1 = c1
    c2 = c2
    w1 = w1
    none = none
    Requests = {"Challenge", "Submit", "TakeKeyPackage"}
    MAX_CHALLENGES_PER_CONN = 1
    MaxRequests = 2
    MaxPushes = 2
INVARIANT AnswersMatch
PROPERTIES AcceptedReaches ConnectionEnds
CHECK_DEADLOCK FALSE
