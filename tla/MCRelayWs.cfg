SPECIFICATION Spec
CONSTANTS
    c1 = c1
    c2 = c2
    c3 = c3
    a = a
    b = b
    none = none
    Conns = {c1, c2, c3}
    Wallets = {a, b}
    None = none
    Holds <- Reconnecting
    MAX_CONNECTIONS = 3
    MaxEnvelopes = 2
    Ops = {"submit", "offboard"}
    Audiences = {{a}}
    Switch = {}
SYMMETRY Interchangeable
INVARIANTS ConnectionsServed TeardownClean
CHECK_DEADLOCK FALSE
