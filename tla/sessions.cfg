CONSTANTS
    Sids = {s1, s2, s3}
    ShareIds = {}
    Keys = {a, b}
    None = None
    MaxSessions = 2
    MaxShares = 1
    MaxLocalKeys = 1
    AuthTimeout = 2
    AuthMaxMessages = 2
    RateWindow = 9
    RateMax = 2
    FailureGrace = 9
    LockoutBase = 1
    LockoutMax = 1
    ShareMaxFailures = 2
    ShareTtls = {1}
    LeaseTtls = {1, 2}
    PreLogon = TRUE
    MaxTime = 4
    MaxProvisions = 2
    GenMax = 2
SYMMETRY Symmetry
SPECIFICATION MCSpec
INVARIANTS ShareUsedOnce RevokedIsGone
PROPERTY PassIsComplete
