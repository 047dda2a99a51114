\* One slot, so that the ring wraps; two errors in a row lose the sensor.
CONSTANTS
    Slots = 1
    MaxPunches = 2
    MaxCuts = 1
    Faults = {"seq", "write", "flush", "cursor", "read", "corrupt"}
    Fingers = {f1}
    LostAfter = 2
    QueueLen = 2
SPECIFICATION FairTerminalSpec
INVARIANTS DepthBound LightsTrue
PROPERTIES SensorFollowed
CHECK_DEADLOCK FALSE
