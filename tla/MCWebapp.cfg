SPECIFICATION WebappSpec
CONSTANTS
    a1 = a1
    a2 = a2
    u1 = u1
    u2 = u2
    r1 = r1
    r2 = r2
    Ids = {a1, a2}
    HighRisk = {a1}
    Users = {u1, u2}
    Privileged = {u1, u2}
    RequestedBy <- QueuedFor
    Requests = {r1, r2}
    Decisions = {"approved", "rejected"}
    MaxCalls = 4
    MaxFailures = 2
    MaxCutOffs = 1
    People = {u1, u2}
    CalUsers = {u1}
    Admins = {u1}
    Ticks = {r1}
    Editors = {r1, r2}
    Starts = {2, 3}
    Asks = {{u2}}
    Lead = 1
    Limit = 1
    LastTime = 3
    MaxEvents = 1
    MaxOps = 3
    Agent = bot
    Outside = {u2}
    PageSize = 1
    ContextTurns = 1
    MaxPosts = 3
    MaxRequests = 5
INVARIANTS OneExecution RecordsAgree NothingSkipped ReplyFitsAudience RemindedOnce
PROPERTIES ClaimEnds NoticesArrive
CHECK_DEADLOCK FALSE
