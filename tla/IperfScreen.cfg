CONSTANTS
    Endless = {"iperf -s"}
    Ending = {"iperf -c host"}
    Invalid = {}
    MaxTasks = 2
    MaxScreens = 2
    MaxLines = 1
SPECIFICATION Spec
INVARIANT ButtonMatchesTask
INVARIANT StopStops
INVARIANT HeldUpByLeftTestOnly
INVARIANT HasListener
PROPERTY NothingOverwritten
CHECK_DEADLOCK FALSE
