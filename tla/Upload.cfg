\* Two slots and batches of one, so that a batch never holds the whole ring.
CONSTANTS
    Slots = 2
    MaxPunches = 3
    MaxCuts = 1
    Faults = {"cursor"}
    Batch = 1
    Req = {q1, q2}
SPECIFICATION FairUploadSpec
INVARIANTS Retained EvictsOnlyOldest NumbersOrdered LossExplained AckCoversStored
PROPERTIES ImplementsLedger EventuallyRecorded
CHECK_DEADLOCK FALSE
