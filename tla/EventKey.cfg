\* One process and one day: an open span is closed by its clock-out.
CONSTANTS
    Ins = {1}
    Outs = {2}
    Dates = {1}
    Vals = {1}
    Windows = {{1}}
    Runners = {r1}
    MaxChanges = 1
    MaxAborts = 0
SPECIFICATION ViewSpec
INVARIANTS SubjectViewConverges
