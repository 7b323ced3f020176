------------------------- MODULE FailoverContract --------------------------
(***************************************************************************)
(* What failing proxies over through the broker promises (spec 4.G, 4.F): *)
(* the broker replaces each failed proxy at most once, with a host of its *)
(* free pool that no other proxy was given; the call made for a proxy     *)
(* returns once, with an error or with the host the broker gave that      *)
(* proxy.  ProxyFailover implements it.                                    *)
(***************************************************************************)
CONSTANTS
    Failed,     \* the proxies reported failed
    Hosts,      \* the broker's free hosts
    NoHost      \* no host: the proxy has not been failed over

VARIABLES
    assigned,   \* the host each proxy was failed over to, or NoHost
    result      \* what each call returned: "None", "InvalidReply" or a host

Init ==
    /\ assigned = [p \in Failed |-> NoHost]
    /\ result = [p \in Failed |-> "None"]

\* The broker fails p over, once, to a host no proxy holds.
Assign(p, h) ==
    /\ assigned[p] = NoHost
    /\ h \notin {assigned[q] : q \in Failed}
    /\ assigned' = [assigned EXCEPT ![p] = h]
    /\ UNCHANGED result

\* The call for p returns, once: an error, or the host p was given.
Return(p, r) ==
    /\ result[p] = "None"
    /\ r \in {"InvalidReply", assigned[p]}
    /\ result' = [result EXCEPT ![p] = r]
    /\ UNCHANGED assigned

Next ==
    \E p \in Failed :
        \/ \E h \in Hosts : Assign(p, h)
        \/ \E r \in Hosts \cup {"InvalidReply"} : Return(p, r)

Spec == Init /\ [][Next]_<< assigned, result >>

=============================================================================
