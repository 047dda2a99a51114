\* Three events, two workers, batches of two, two attempts, one stop.
CONSTANTS
    Workers = {w1, w2}
    Subjects = {s1, s2}
    BatchSize = 2
    MaxAttempts = 2
    MaxEvents = 3
    MaxStops = 1
    Faults = {"db"}
SPECIFICATION FairDelSpec
INVARIANTS RowsAccounted NewestShown
PROPERTIES SettlesOrStranded
CHECK_DEADLOCK FALSE
