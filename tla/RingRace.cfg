\* Three slots that never fill: nothing is given up for want of room.
CONSTANTS
    Slots = 3
    MaxPunches = 2
    MaxCuts = 0
    Faults = {}
SPECIFICATION RaceSpec
INVARIANTS DroppedOnlyAcked
CHECK_DEADLOCK FALSE
