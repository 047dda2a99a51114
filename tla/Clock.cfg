\* The errors are inside the minute an offset is kept for, inside the gateway's
\* window, and outside it on either side.
CONSTANTS
    Errors <- MCErrors
    Window = 5
    MaxDrifts = 2
    MaxCuts = 2
SPECIFICATION FairClockSpec
INVARIANTS StampRight SourceTells
PROPERTIES ClockHeals
