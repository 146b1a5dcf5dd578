CONSTANTS
    ServerOptions <- OfServers
    ClientOptions <- OfClients
    MaxOptions = 3
    RepeatR = FALSE
    HasTcpInfo = TRUE
    HasSendfile = TRUE
    None = None
SPECIFICATION Spec
INVARIANT SettingsAgree
INVARIANT OneSender
INVARIANT RetransmitsKnown
INVARIANT OneEnd
CHECK_DEADLOCK FALSE
