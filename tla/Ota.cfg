\* Every fault, and one release that never reaches the gateway.
CONSTANTS
    MaxVersion = 4
    Builds = 1
    MaxBroken = 1
    Faults = {"cut", "outage", "nvs", "mark", "setboot", "timer", "rot"}
SPECIFICATION FairOtaSpec
INVARIANTS PowerCutSafe TrialRecorded FloorProven GoodNeverBlamed NoImmediateRetry
PROPERTIES NoDowngrade Decided Settles
