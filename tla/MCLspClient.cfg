CONSTANTS
    t1 = t1  t2 = t2  none = none  fetching = fetching
    Threads = {t1, t2}
    Starter = t1
    NoThread = none
    Tokens = {fetching}
    MaxCalls = 3
    MaxEvents = 2
SPECIFICATION FairSpec
CHECK_DEADLOCK FALSE
INVARIANTS PendingMatchesWaiters OpenGateWakesSleepers
PROPERTIES GateWaitsForCycles EveryCallReturns
