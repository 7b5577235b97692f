CONSTANTS
    Sids = {s1, s2, s3}
    ShareIds = {a, b}
    Keys = {}
    None = None
    MaxSessions = 3
    MaxShares = 1
    MaxLocalKeys = 0
    AuthTimeout = 9
    AuthMaxMessages = 2
    RateWindow = 9
    RateMax = 3
    FailureGrace = 9
    LockoutBase = 1
    LockoutMax = 1
    ShareMaxFailures = 2
    ShareTtls = {1}
    LeaseTtls = {}
    PreLogon = FALSE
    MaxTime = 3
    MaxProvisions = 2
    GenMax = 2
SYMMETRY Symmetry
SPECIFICATION Spec
INVARIANT SecretUsedOnce
