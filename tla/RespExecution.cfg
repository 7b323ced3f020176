\* Two stoppers, two cell values, three clients and three sends: enough for
\* a reconnect after each kind of failure and a stop in every loop state.
CONSTANTS
    t1 = t1
    t2 = t2
    Stoppers <- MCStoppers
    Values = {0, 1}
    InitData = 0
    MaxClients = 3
    MaxSends = 3
SPECIFICATION Spec
INVARIANTS
    StopSucceedsAtMostOnce
    StaleStoreBounded
PROPERTIES
    StopEndsTask
    StopContractRefined
\* The driven future resolves and the stoppers return: the system stops.
CHECK_DEADLOCK FALSE
