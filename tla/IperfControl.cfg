\* Two launches, two streams each, in every transfer mode; the listener may be
\* replaced during a test and SIGPIPE may be fatal.
CONSTANTS
    Clients = {c1, c2}
    None = None
    NumStreams = 2
    Modes = {"select", "itimer", "reverse"}
    PipeCap = 1
    Burst = 2
    ErrorLimit = 2
    SigpipeKills = TRUE
    Relisten = TRUE
SPECIFICATION Spec
SYMMETRY Symmetry
INVARIANT TypeOK
INVARIANT StreamsCarryCookie
INVARIANT RunningTogether
INVARIANT OneTest
INVARIANT ResultsExchanged
INVARIANT DeniedNeverAdmitted
INVARIANT OrphansAreNotified
PROPERTY ImplementsSession
CHECK_DEADLOCK FALSE
