\* One stopper, three clients and three sends: a reconnect after a failure.
CONSTANTS
    t1 = t1
    t2 = t2
    Stoppers <- MCOneStopper
    Values = {0, 1}
    InitData = 0
    MaxClients = 3
    MaxSends = 3
SPECIFICATION Spec
PROPERTY
    IntervalPacing
CHECK_DEADLOCK FALSE
