\* Two workers, two files and a directory: names are looked up, created,
\* removed, forgotten and moved between the directories.
CONSTANTS
    f = f  d = d  e = e  file = file  other = other  dir = dir  dir2 = dir2
    t1 = t1  t2 = t2
    Nothing = Nothing
    Threads = {t1, t2}
    Paths <- FlatPaths
    Objects = {file, other, dir}
    Directories = {dir}
    InitialTree <- FlatTree
    MaxInodes = 4
    OverlappingLookups = FALSE
    DirectoryRenames = FALSE
    NestingRenames = FALSE
SPECIFICATION Spec
SYMMETRY ThreadSymmetry
CHECK_DEADLOCK FALSE
INVARIANTS IndexMatchesEntries KernelAgrees NamesReachTheirFile
