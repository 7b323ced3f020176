\* One stopper, three clients and three sends: a send failure on each of
\* several clients, followed by a reconnect.
CONSTANTS
    t1 = t1
    t2 = t2
    Stoppers <- MCOneStopper
    Values = {0, 1}
    InitData = 0
    MaxClients = 3
    MaxSends = 3
SPECIFICATION Spec
INVARIANT FreshClientAfterFailure
CHECK_DEADLOCK FALSE
