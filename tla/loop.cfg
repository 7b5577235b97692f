CONSTANTS
    Keys = {k1}
    Orgs = {o1}
    Policies = {o1, o2}
    Tokens = {t1}
    None = None
    Ttls = {1}
    LeaseMax = 1
    MaxTime = 2
    MaxChanges = 2
    GenMax = 2
    Sids = {s1, s2}
    ShareIds = {a}
    MaxSessions = 2
    MaxShares = 1
    MaxLocalKeys = 0
    AuthTimeout = 2
    AuthMaxMessages = 2
    RateWindow = 9
    RateMax = 2
    FailureGrace = 9
    LockoutBase = 1
    LockoutMax = 1
    ShareMaxFailures = 2
    ShareTtls = {1}
    LeaseTtls = {}
    PreLogon = FALSE
    MaxProvisions = 1
SPECIFICATION MCSpec
CHECK_DEADLOCK FALSE
INVARIANTS LeaseIsCurrent FreedByTheLast
PROPERTIES WorkerAnswersAndEnds SlotsComeBack
