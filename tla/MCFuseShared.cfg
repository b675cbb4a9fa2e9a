SPECIFICATION FairSpec
CONSTANTS
    Bytes = {0}
    NUL = 0
    t1 = t1
    t2 = t2
    Threads = {t1, t2}
    Files = {1}
    InodeOf <- OneInode
    RealInodes = {2}
    MaxHandles = 2
    Locks = {1, 2, 3}
    Appends = {FALSE}
    MaxLen = 1
    MaxGen = 1
    OverlappingFlushes = TRUE
    KernelPassthrough = TRUE
PROPERTIES RequestsAnswered
