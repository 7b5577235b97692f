CONSTANTS
    MaxPeers = 2
    Labels = {"data"}
    MaxChannels = 2
    MaxMessages = 2
    MaxNetwork = 2
    Gens = {1, 2}
    Candidates = {}
    Names = {c1}
    IceMax = 1
    QueueMax = 1
    VideoModes = {FALSE}
SPECIFICATION MCSpec
CHECK_DEADLOCK FALSE
INVARIANTS NoGap IceReachesItsPeer NothingLeaks
PROPERTY LossIsNoticed
