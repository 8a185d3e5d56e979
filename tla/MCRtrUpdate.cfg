\* One rtr-update at a time, crashes, serial numbers that wrap and are reused.
SPECIFICATION Spec
CONSTANTS
    u1 = u1
    u2 = u2
    NULL = NULL
    SerialModulus = 3
    NumVRP = 2
    Retention = 1
    MaxTime = 3
    Updater <- OneUpdater
    FirstSerials <- LastSerial
    ForcedSerials <- Forced
INVARIANTS
    TypeOK
    FullMatchesSnapshot
    IncrementalIsDifference
    HistoryIsChain
    NewestHasFull
PROPERTY MarkedBeforeDeleted
