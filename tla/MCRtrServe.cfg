\* A router's queries against one rtr-update at a time.
SPECIFICATION ServeSpec
CONSTANTS
    u1 = u1
    r1 = r1
    NULL = NULL
    SerialModulus = 3
    NumVRP = 2
    Retention = 0
    MaxTime = 1
    MaxRows = 2
    Updater <- OneUpdater
    Router <- OneRouter
    FirstSerials <- FirstSerial
    ForcedSerials <- NoSerials
INVARIANTS
    ServeTypeOK
    RouterConsistent
    ChangesApplyInOrder
    FullSentInOrder
