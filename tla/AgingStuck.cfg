CONSTANTS
    l1 = l1
    l2 = l2
    Loops <- OneLoop
    Targets <- OnlyThree
    Opened <- OnlyLinked
    Apis <- OnlyNew
    Budget <- OneTestAndNetwork
    Past <- NoPast
    MaxQueue = 2
    MaxNews = 2
    MaxSetters = 2
    Prompt = TRUE
SPECIFICATION FairSpec
PROPERTY TestReachesTarget
CHECK_DEADLOCK FALSE
