\* One connection, two database threads, pipelined queries, a shutdown at any
\* moment.
SPECIFICATION DaemonSpec
CONSTANTS
    c1 = c1
    c2 = c2
    t1 = t1
    t2 = t2
    NULL = NULL
    Cxn <- OneCxn
    Db <- TwoDbs
    BufferLength = 2
    MaxBatches = 4
    MaxPDUs = 2
    MaxPosts = 2
    Pipelining = TRUE
    Signals = TRUE
\* A slot serves one connection: in the end all routers have come and gone.
CHECK_DEADLOCK FALSE
INVARIANTS
    DaemonTypeOK
    OneOutstandingRequest
    NothingAfterLastResponse
    ResponsesBuffered
