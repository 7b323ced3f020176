CONSTANTS
    p1 = p1
    p2 = p2
    Proxies <- MCProxies
    HostAddresses <- MCHostAddresses
SPECIFICATION Spec
INVARIANTS
    ReportsFollowAllProbesFailing
    DeadProxiesReported
CHECK_DEADLOCK FALSE
PROPERTY
    DetectorRoundRefined
