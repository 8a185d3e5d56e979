\* Two connections share two database threads; any query may fail.
SPECIFICATION DaemonSpec
CONSTANTS
    c1 = c1
    c2 = c2
    t1 = t1
    t2 = t2
    NULL = NULL
    Cxn <- TwoCxns
    Db <- TwoDbs
    BufferLength = 1
    MaxBatches = 2
    MaxPDUs = 1
    MaxPosts = 1
    Pipelining = TRUE
    Signals = FALSE
SYMMETRY DaemonSymmetry
\* A slot serves one connection: in the end all routers have come and gone.
CHECK_DEADLOCK FALSE
INVARIANT TokensCoverRequests
