\* Two byte values and contents of up to three bytes: a write can land inside,
\* at the end of and beyond the content, and leave a gap.
SPECIFICATION SingleSpec
CONSTANTS
    Bytes = {0, 1}
    NUL = 0
    Inode = 2
    MaxSize = 3
    MaxGeneration = 3
INVARIANTS CleanIsSaved
PROPERTIES RefinesContract EmptyWaitsForRelease
