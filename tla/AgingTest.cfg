CONSTANTS
    l1 = l1
    l2 = l2
    Loops <- OneLoop
    Targets <- OnlyTwo
    Opened <- OffOrLinked
    Apis <- BothApis
    Budget <- Anything
    Past <- NoPast
    MaxQueue = 1
    MaxNews = 2
    MaxSetters = 2
    Prompt = FALSE
SPECIFICATION Spec
INVARIANTS CountsSinceReset OffForgets
CHECK_DEADLOCK FALSE
