\* One network, a token the gateway knows and one it does not, one fault.
CONSTANTS
    Networks = {n1}
    Tokens = {t1, t2}
    Issued = {t1}
    None = None
    Window = 2
    BackoffMin = 1
    BackoffMax = 2
    Hold = 1
    MaxTrouble = 1
SPECIFICATION FairSetupSpec
INVARIANTS SavedMeansStored IdentityWhole WithinLimits
PROPERTIES StaysProvisioned NeverParked TokenPursued
CHECK_DEADLOCK FALSE
