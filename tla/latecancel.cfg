CONSTANTS
    Targets = {p, q}
    MaxUploads = 2
    Chunks = 1
    MaxFaults = 0
    MaxForeign = 0
    MaxOpens = 2
SPECIFICATION FilesSpec
CHECK_DEADLOCK FALSE
INVARIANT AckedIsWhereAsked
