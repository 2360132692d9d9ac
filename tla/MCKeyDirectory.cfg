SPECIFICATION Spec
CONSTANTS
    a = a
    b = b
    n1 = n1
    n2 = n2
    n3 = n3
    n4 = n4
    n5 = n5
    t1 = t1
    k1 = k1
    k2 = k2
    k3 = k3
    Wallets = {a, b}
    Nonces = {n1, n2, n3, n4, n5}
    Tokens = {t1}
    Claims = {k1, k2, k3}
    NONCE_TTL = 2
    MAX_KEYPACKAGES_PER_WALLET = 2
    MAX_CLAIMS_PER_TOKEN = 2
    MaxTime = 3
    MaxFailures = 2
CONSTRAINT Regions
SYMMETRY Symmetry
INVARIANTS SingleUse AcceptedKept
