CONSTANTS
    Window = 2
    CounterMax = 3
    MaxEpoch = 2
    MaxSends = 5
    Relays = {r1, r2}
    MaxTokens = 3
    ReprobeAfter = 1
    MaxAttempts = 2
    MaxTroubles = 3
    Wait = 1
    Stall = 2
    Probe = 3
    Timeout = 10
    Interval = 5
    Jitter = {0, 2}
    Delay = 2
    Blocks = {0, 24}
    LateBlocks = {0, 1}
SPECIFICATION MCSpec
CHECK_DEADLOCK FALSE
INVARIANTS NoFalseRejection ReuseHasACause LiveIsKept
PROPERTIES ImplementsOnce LinkIsRestored
