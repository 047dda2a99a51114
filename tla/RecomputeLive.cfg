\* Two overlapping runs; a one-day window collides with moved spans.
CONSTANTS
    Ins = {1}
    Outs = {}
    Dates = {1, 2}
    Vals = {1, 2}
    Windows = {{2}, {1, 2}}
    Runners = {r1, r2}
    MaxChanges = 1
    MaxAborts = 1
SPECIFICATION FairRecSpec
INVARIANTS RecTypeOK
PROPERTIES FreshRunTells CatchesUp
