\* The SIGALRM loop and reverse mode, where a side may stop reading.
CONSTANTS
    Clients = {c1, c2}
    None = None
    NumStreams = 1
    Modes = {"itimer", "reverse"}
    PipeCap = 1
    Burst = 2
    ErrorLimit = 2
    SigpipeKills = FALSE
    Relisten = FALSE
SPECIFICATION FairSpec
CONSTRAINT OneMode
PROPERTY ClientsEnd
PROPERTY ServerFreed
CHECK_DEADLOCK FALSE
