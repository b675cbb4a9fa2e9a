CONSTANTS
    t1 = t1  t2 = t2  a = a  b = b
    Threads = {t1, t2}
    NFiles = 2
    Slots = {a}
    MaxEdits = 2
    MaxRequests = 2
    MaxFailures = 1
    MaxStaged = 2
    Outside = TRUE
SPECIFICATION Spec
SYMMETRY ThreadSymmetry
CHECK_DEADLOCK FALSE
INVARIANTS CacheIsCurrent AppliedExactlyOnce
