\* Serial Notifies of one connection, whose router may pipeline queries, also
\* while the data is cleared.
SPECIFICATION FairNotifySpec
CONSTANTS
    Cxn = {c1}
    Session = {s1, s2}
    Half = 4
    FirstSerials <- MCFirstSerials
    NotifyInterval = 3
    CheckInterval = 1
    MaxUpdates = 3
    MaxQueued = 1
    Clears = TRUE
    NULL = NULL
INVARIANTS NotifyTypeOK GreaterMeansLater NotifyRate
PROPERTIES NotifyIsNews NewsArrives OldSessionsEnd
