CONSTANTS
    Sids = {s1, s2, s3}
    ShareIds = {}
    Keys = {k}
    None = None
    MaxSessions = 2
    MaxShares = 1
    MaxLocalKeys = 1
    AuthTimeout = 2
    AuthMaxMessages = 2
    RateWindow = 3
    RateMax = 4
    FailureGrace = 1
    LockoutBase = 2
    LockoutMax = 3
    ShareMaxFailures = 2
    ShareTtls = {1}
    LeaseTtls = {}
    PreLogon = TRUE
    MaxTime = 6
    MaxProvisions = 0
    GenMax = 2
SYMMETRY Symmetry
SPECIFICATION Spec
INVARIANTS GuessingIsThrottled
