\* Two overlapping runs of the same window, on one day.
CONSTANTS
    Ins = {1}
    Outs = {}
    Dates = {1}
    Vals = {1, 2}
    Windows = {{1}}
    Runners = {r1, r2}
    MaxChanges = 1
    MaxAborts = 0
SPECIFICATION RecSpec
INVARIANTS OutboxTellsAll
