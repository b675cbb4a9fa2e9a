\* The two writers of one record: handlers that stamp it, the watcher that
\* consumes it.  Any mix of four external, inline and metadata changes.
\* A file, a directory made during the run and a file in it.  One tick is less
\* than half the debounce window, so a write, its entry and its events fit into
\* a window and not into a tick.
SPECIFICATION WatcherSpec
CONSTANTS
    Writers = {w1}
    SourcePaths = {"src/a", "src/new", "src/new/b"}
    Folder = "src/new"
    InFolder = {"src/new/b"}
    DEBOUNCE_TIMEOUT = 3
    MAX_BATCH_DELAY = 4
    INLINE_WRITE_SUPPRESSION_TTL = 6
    EventLatency = 1
    WriteLatency = 1
    MaxChanged = 4
INVARIANTS
    AnnouncedInTime
    EchoesRecognised
