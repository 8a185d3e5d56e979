\* A router that sends its second PDU before the first response has ended.
SPECIFICATION FairDaemonSpec
CONSTANTS
    c1 = c1
    c2 = c2
    t1 = t1
    t2 = t2
    NULL = NULL
    Cxn <- OneCxn
    Db <- TwoDbs
    BufferLength = 1
    MaxBatches = 1
    MaxPDUs = 2
    MaxPosts = 1
    Pipelining = TRUE
    Signals = FALSE
\* A slot serves one connection: in the end all routers have come and gone.
CHECK_DEADLOCK FALSE
PROPERTY ResponsesEnd
