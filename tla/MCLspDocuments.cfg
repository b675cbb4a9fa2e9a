CONSTANTS
    t1 = t1  t2 = t2
    Threads = {t1, t2}
    MaxText = 2
    MaxFailures = 1
    MaxQueries = 1
    Overlap = FALSE
    ts = ts  tsx = tsx  py = py
    Workers = {t1, t2}
    Sources <- MCSources
    ExtOf <- MCExtOf
    Grammars <- MCGrammars
    LspEnabled = TRUE
    Config <- MCConfig
    RootNames <- MCRootNames
    MaxSpawns = 3
    MaxRefusals = 1
SPECIFICATION ManagerSpec
CHECK_DEADLOCK FALSE
INVARIANTS ClientsAreShared ProtocolKept ServerCatchesUp StaleOnlyIfRaced
PROPERTIES DiagnosticsConverge
