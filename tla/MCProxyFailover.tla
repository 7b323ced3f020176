------------------------- MODULE MCProxyFailover --------------------------
EXTENDS ProxyFailover

CONSTANTS p1, p2, p3, h1, h2, noHost

\* Three failed proxies competing for two free hosts.
MCFailed == {p1, p2, p3}
MCHosts == {h1, h2}

=============================================================================
