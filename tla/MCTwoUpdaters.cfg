\* Two rtr-update processes overlap.
SPECIFICATION Spec
CONSTANTS
    u1 = u1
    u2 = u2
    NULL = NULL
    SerialModulus = 3
    NumVRP = 2
    Retention = 1
    MaxTime = 4
    Updater <- TwoUpdaters
    FirstSerials <- LastSerial
    ForcedSerials <- NoSerials
INVARIANT FullMatchesSnapshot
