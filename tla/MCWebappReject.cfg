SPECIFICATION WebappSpec
CONSTANTS
    a1 = a1
    a2 = a2
    u1 = u1
    u2 = u2
    r1 = r1
    r2 = r2
    Ids = {a1}
    HighRisk = {a1}
    Users = {u1, u2}
    Privileged = {u1, u2}
    RequestedBy <- QueuedFor
    Requests = {r1, r2}
    Decisions = {"approved", "rejected"}
    MaxCalls = 2
    MaxFailures = 0
    MaxCutOffs = 0
    People = {u1, u2}
    CalUsers = {u1, u2}
    Admins = {u1}
    Ticks = {r1}
    Editors = {}
    Starts = {2}
    Asks = {{u2}}
    Lead = 1
    Limit = 1
    LastTime = 1
    MaxEvents = 1
    MaxOps = 1
    Agent = bot
    Outside = {u2}
    PageSize = 1
    ContextTurns = 1
    MaxPosts = 1
    MaxRequests = 1
INVARIANT RejectedNeverRan
CHECK_DEADLOCK FALSE
