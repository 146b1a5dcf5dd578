CONSTANTS
    MaxSent = 4
    MaxArrivals = 4
    MaxIntervals = 2
SPECIFICATION Spec
INVARIANT SenderLossWithinTotal
CHECK_DEADLOCK FALSE
