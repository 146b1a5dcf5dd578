CONSTANTS
    MaxSent = 4
    MaxArrivals = 4
    MaxIntervals = 2
SPECIFICATION Spec
INVARIANT LossBounds
INVARIANT ReceiverTotals
INVARIANT IntervalsAddUp
CHECK_DEADLOCK FALSE
