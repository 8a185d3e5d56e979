\* A reset query that outlasts two updates.  No two updates in one second, so
\* that get_latest_sernum is not to blame.
SPECIFICATION ServeSpec
CONSTANTS
    u1 = u1
    r1 = r1
    NULL = NULL
    SerialModulus = 3
    NumVRP = 2
    Retention = 0
    MaxTime = 2
    MaxRows = 2
    Updater <- OneUpdater
    Router <- OneRouter
    FirstSerials <- FirstSerial
    ForcedSerials <- NoSerials
CONSTRAINT TimestampsUnique
INVARIANT RouterNeverTruncated
