SPECIFICATION CopiesSpec
CONSTANTS
    e1 = e1
    f1 = f1
    f2 = f2
    u = u
    v = v
    none = none
    p1 = p1
    p2 = p2
    Actors = {1, 2}
    Entities = {e1}
    Fields = {f1, f2}
    Values = {u, v}
    NoValue = none
    MaxEvents = 3
    Pages = {p1, p2}
    Cards = {"one", "two"}
    Columns = {"Backlog", "Done"}
    Backlog = "Backlog"
    MaxCardReqs = 3
    Days = 0
    Span <- ViewSpan
    MaxLoads = 5
CONSTRAINT Regions
SYMMETRY Symmetry
INVARIANTS Convergent ScreensTrue
PROPERTY TombstoneStays
CHECK_DEADLOCK FALSE
