SPECIFICATION Spec
CONSTANTS
    o = o
    a = a
    b = b
    g1 = g1
    g2 = g2
    t1 = t1
    Wallets = {o, a, b}
    Owner = o
    Groups = {g1, g2}
    Tokens = {t1}
    INBOX_CAP = 2
    MaxCommits = 4
    MaxSends = 3
    MaxCrashes = 2
CONSTRAINT Regions
SYMMETRY Joiners
INVARIANT ConversationSound
PROPERTY StaysInStep
CHECK_DEADLOCK FALSE
