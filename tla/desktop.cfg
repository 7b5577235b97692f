CONSTANTS
    MaxFailures = 2
    Budget = 4
    Codes = {c1, c2}
    Syms = {s1, s2, s3}
    Slots = {x1}
    None = None
    Layouts = {{s1}, {}}
    MaxHeld = 1
    Monitors = 3
    Modes = {0, 1, 2}
    Native = 0
    MaxUnplugs = 2
    RingFrames = 2
    MaxFrames = 5
    MaxStarts = 2
    Captures = {w1, w2}
    Pool = 2
    MaxNegotiations = 1
SPECIFICATION MCSpec
CHECK_DEADLOCK FALSE
INVARIANTS SoundHolds EndsClean HostGetsItsModeBack BuffersGoHome
PROPERTIES PictureHeals NobodyWaitsForGood
