SPECIFICATION Spec
CONSTANTS
    Bytes = {0}
    NUL = 0
    t1 = t1
    t2 = t2
    Threads = {t1, t2}
    Files = {1, 2}
    InodeOf <- OneInode
    RealInodes = {}
    MaxHandles = 2
    Locks = {1, 2, 3}
    Appends = {FALSE}
    MaxLen = 1
    MaxGen = 2
    OverlappingFlushes = FALSE
    KernelPassthrough = FALSE
SYMMETRY Symmetry
INVARIANTS HandleIdentity CleanMeansStored NoResidue
PROPERTIES NoSilentDrop
