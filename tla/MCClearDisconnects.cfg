\* Does rpki-rtr-clear disconnect a router that asks nothing?
SPECIFICATION FairNotifySpec
CONSTANTS
    Cxn = {c1}
    Session = {s1, s2}
    Half = 4
    FirstSerials <- MCFirstSerials
    NotifyInterval = 3
    CheckInterval = 1
    MaxUpdates = 1
    MaxQueued = 0
    Clears = TRUE
    NULL = NULL
PROPERTY ClearDisconnects
