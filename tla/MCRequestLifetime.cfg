\* A router that waits for each answer; cxnctl may post once too often.
SPECIFICATION DaemonSpec
CONSTANTS
    c1 = c1
    c2 = c2
    t1 = t1
    t2 = t2
    NULL = NULL
    Cxn <- OneCxn
    Db <- TwoDbs
    BufferLength = 1
    MaxBatches = 1
    MaxPDUs = 1
    MaxPosts = 2
    Pipelining = FALSE
    Signals = FALSE
\* A slot serves one connection: in the end all routers have come and gone.
CHECK_DEADLOCK FALSE
INVARIANT RequestOutlivesUse
