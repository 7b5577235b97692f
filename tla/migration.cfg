CONSTANTS
    MaxPeers = 2
    Labels = {"data"}
    MaxChannels = 1
    MaxMessages = 1
    MaxNetwork = 3
    Gens = {1, 2}
    Candidates = {}
    IceMax = 1
    QueueMax = 2
    VideoModes = {TRUE, FALSE}
SPECIFICATION Spec
CHECK_DEADLOCK FALSE
INVARIANTS NothingAfterTheEnd ReadyIsTold
PROPERTY OneRouteAtATime
