CONSTANTS
    l1 = l1
    l2 = l2
    Loops <- TwoLoops
    Targets <- OnlyTwo
    Opened <- OffOrLinked
    Apis <- BothApis
    Budget <- Restart
    Past <- LeftTwo
    MaxQueue = 2
    MaxNews = 2
    MaxSetters = 2
    Prompt = TRUE
SPECIFICATION FairSpec
PROPERTIES TestEnds AutomaticOffEarned StoppedLoopsEnd
CHECK_DEADLOCK FALSE
