SPECIFICATION Spec
CONSTANTS
    c1 = c1
    c2 = c2
    c3 = c3
    a = a
    b = b
    none = none
    Conns = {c1, c2}
    Wallets = {a, b}
    None = none
    Holds <- OneEach
    MAX_CONNECTIONS = 2
    MaxEnvelopes = 1
    Ops = {"submit", "onboard", "offboard"}
    Audiences = {{a}, {a, b}}
    Switch = {}
INVARIANT NothingLost
CHECK_DEADLOCK FALSE
