CONSTANTS
    n1 = n1
    n2 = n2
    h = h
    Names <- TwoNames
    Hidden = h
    Frequencies <- Channels
    Levels <- Strengths
    MaxResults = 4
SPECIFICATION Spec
INVARIANTS OneEntryPerName BandsMerged StrongestFirst
CHECK_DEADLOCK FALSE
