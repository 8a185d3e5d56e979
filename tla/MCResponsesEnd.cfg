\* A router that waits for each answer, with fair threads.
SPECIFICATION FairDaemonSpec
CONSTANTS
    c1 = c1
    c2 = c2
    t1 = t1
    t2 = t2
    NULL = NULL
    Cxn <- OneCxn
    Db <- TwoDbs
    BufferLength = 2
    MaxBatches = 3
    MaxPDUs = 2
    MaxPosts = 2
    Pipelining = FALSE
    Signals = FALSE
\* A slot serves one connection: in the end all routers have come and gone.
CHECK_DEADLOCK FALSE
PROPERTY ResponsesEnd
