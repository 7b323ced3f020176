\* Three failed proxies, two free hosts and two faults: a lost request, an
\* answer lost after the broker failed a proxy over, a 2xx body that fails
\* to decode, and a proxy left without a host once both are handed out.
CONSTANTS
    p1 = p1
    p2 = p2
    p3 = p3
    h1 = h1
    h2 = h2
    noHost = noHost
    Failed <- MCFailed
    Hosts <- MCHosts
    NoHost <- noHost
    MaxFaults = 2
SPECIFICATION Spec
INVARIANT ReplaceOkReturnsBrokerHost
PROPERTY FailoverContractRefined
\* Each call of replace_proxy returns once: the run ends.
CHECK_DEADLOCK FALSE
