CONSTANTS
    Ticks = 2
    MaxChains = 3
    MaxPresses = 9
    MaxRefusals = 2
SPECIFICATION FairSpec
PROPERTY StaysOff
PROPERTY RebootsOnlyIfBootedOn
PROPERTY LoopGoesOn
CHECK_DEADLOCK FALSE
