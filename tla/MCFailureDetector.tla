------------------------- MODULE MCFailureDetector -------------------------
EXTENDS FailureDetector

CONSTANTS p1, p2

\* Two proxies, the second listed twice, as a broker may return a proxy in
\* more than one cluster's host list.
MCProxies == {p1, p2}
MCHostAddresses == << p1, p2, p2 >>

=============================================================================
