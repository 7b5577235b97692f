CONSTANTS
    Targets = {p, q}
    MaxUploads = 2
    Chunks = 2
    MaxFaults = 1
    MaxForeign = 1
    MaxOpens = 1
    MaxSearches = 2
    Matches = 3
    QueueEvents = 1
    BatchEvents = 2
    MaxBreaks = 1
    MaxOps = 3
    MaxShells = 3
    ReapSlots = 1
    HighWater = 3
    LowWater = 1
    ReadBudget = 2
    MaxOutput = 6
    MaxFd = 5
    MaxOthers = 2
SPECIFICATION MCSpec
CHECK_DEADLOCK FALSE
INVARIANTS NoLitter ToldInOrder SharedSafely TerminalsKeepTheirOwn DescriptorsAreOurs
PROPERTIES CommitsAreAtomic NothingIsStuck
