\* A full ring of two and one power cut; no storage fault, no second request.
CONSTANTS
    Slots = 2
    MaxPunches = 3
    MaxCuts = 1
    Faults = {}
    Batch = 1
    Req = {q1}
SPECIFICATION UploadSpec
INVARIANTS NoPunchLost
CHECK_DEADLOCK FALSE
