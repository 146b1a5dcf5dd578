CONSTANTS
    Roles = {"client", "server"}
    NumStreams = 1
    Interval = 1
    Omit = 2
    Duration = 2
    SendPeriod = 1
    Jitter = 1
    MaxTime = 6
    MaxCells = 6
SPECIFICATION FairSpec
INVARIANT TimersSorted
INVARIANT HandlesLive
INVARIANT RunStaysOnList
INVARIANT IntervalsReported
INVARIANT OmitEndsFirst
PROPERTY TimedTestEnds
PROPERTY DueTimersRun
CHECK_DEADLOCK FALSE
