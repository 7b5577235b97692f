CONSTANTS
    Sizes = {1, 2}
    MaxResizes = 2
    MaxRuns = 3
    MaxTokens = 4
    Sessions = {1, 2}
    NoSession = 0
    Respawn = 1
    Logoff = 3
    Infant = 2
    Settle = 3
    MaxEvents = 2
    MaxMisreads = 2
    Pipelines = {p1, p2}
    MaxHelpers = 3
    MaxLeaks = 1
    MaxInside = 1
    Candidates = 2
    MaxStalls = 2
    MaxFailures = 1
    MaxReinit = 1
    MaxStarts = 1
SPECIFICATION MCSpec
CHECK_DEADLOCK FALSE
INVARIANTS EndsAsItSays StandInLeaves KeyIsOwed
PROPERTIES KeepsWhatWorks SparesTheLive ComesOnline HelperIsCounted
