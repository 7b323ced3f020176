--------------------------- MODULE ProxyFailover ---------------------------
(***************************************************************************)
(* Failover requests through the broker:                                  *)
(* HttpMetaManipulationBroker::replace_proxy_impl                         *)
(* (src/src/coordinator/http_mani_broker.rs) sends                        *)
(* POST /api/proxies/failover/{address}; a 2xx answer is JSON-decoded     *)
(* into the Host that replaces the failed proxy, and everything else -    *)
(* transport errors, other statuses, a body that cannot be read or        *)
(* decoded - becomes InvalidReply.  The coordinator's failover driver,    *)
(* which calls it once for each reported proxy, is not in the repository; *)
(* the calls for different proxies are taken to interleave freely.  The   *)
(* broker is outside the repository too: from the spec (4.G), a failover  *)
(* request replaces the proxy with a host of its free pool and answers    *)
(* 2xx with that host, or answers an error status.                        *)
(*                                                                         *)
(* The network may lose a request or an answer, and a 2xx body may fail   *)
(* to decode; MaxFaults bounds these faults together.                     *)
(***************************************************************************)
EXTENDS Naturals

CONSTANTS
    Failed,     \* the addresses of the proxies reported failed
    Hosts,      \* the broker's free hosts
    NoHost,     \* no host: the proxy has not been failed over
    MaxFaults   \* bound on network and decoding faults in a run

ASSUME ProxyFailoverAssumption ==
    /\ NoHost \notin Hosts
    /\ Hosts \cap {"None", "Err", "InvalidReply"} = {}
    /\ MaxFaults \in Nat

VARIABLES
    assigned,   \* the broker: the host each proxy was failed over to, or NoHost
    clientPc,   \* each call of replace_proxy_impl: "Send", "Waiting", "Finished"
    req,        \* the POST of each call is on its way to the broker
    resp,       \* the answer of each call: "None", "Err", or 2xx with a host
    result,     \* what each call returned: "None", "InvalidReply" or a host
    faults      \* faults so far

vars == << assigned, clientPc, req, resp, result, faults >>

\* The hosts the broker has not handed out yet.
FreeHosts == Hosts \ {assigned[p] : p \in Failed}

-----------------------------------------------------------------------------
Init ==
    /\ assigned = [p \in Failed |-> NoHost]
    /\ clientPc = [p \in Failed |-> "Send"]
    /\ req = [p \in Failed |-> FALSE]
    /\ resp = [p \in Failed |-> "None"]
    /\ result = [p \in Failed |-> "None"]
    /\ faults = 0

\* The POST to /api/proxies/failover/{p} goes out.
SendFailover(p) ==
    /\ clientPc[p] = "Send"
    /\ clientPc' = [clientPc EXCEPT ![p] = "Waiting"]
    /\ req' = [req EXCEPT ![p] = TRUE]
    /\ UNCHANGED << assigned, resp, result, faults >>

\* The broker fails p over to a free host and answers 2xx with it, or
\* answers an error status (no free host, unknown proxy, 5xx).
BrokerFailover(p) ==
    /\ req[p]
    /\ req' = [req EXCEPT ![p] = FALSE]
    /\ \/ \E h \in FreeHosts :
            /\ assigned' = [assigned EXCEPT ![p] = h]
            /\ resp' = [resp EXCEPT ![p] = h]
       \/ /\ resp' = [resp EXCEPT ![p] = "Err"]
          /\ UNCHANGED assigned
    /\ UNCHANGED << clientPc, result, faults >>

\* Mutant: a failed send is retried: the call goes back to sending the POST.
NetFailRetry(p) ==
    /\ clientPc[p] = "Waiting"
    /\ req[p] \/ resp[p] # "None"
    /\ faults < MaxFaults
    /\ faults' = faults + 1
    /\ req' = [req EXCEPT ![p] = FALSE]
    /\ resp' = [resp EXCEPT ![p] = "None"]
    /\ clientPc' = [clientPc EXCEPT ![p] = "Send"]
    /\ UNCHANGED << assigned, result >>

\* send().await fails: the request or the answer is lost; map_err gives
\* InvalidReply.
NetFail(p) ==
    /\ clientPc[p] = "Waiting"
    /\ req[p] \/ resp[p] # "None"
    /\ faults < MaxFaults
    /\ faults' = faults + 1
    /\ req' = [req EXCEPT ![p] = FALSE]
    /\ resp' = [resp EXCEPT ![p] = "None"]
    /\ clientPc' = [clientPc EXCEPT ![p] = "Finished"]
    /\ result' = [result EXCEPT ![p] = "InvalidReply"]
    /\ UNCHANGED assigned

\* Mutant: a 2xx body that fails to decode gives some default Host.
ReceiveDecodeDefault(p) ==
    /\ clientPc[p] = "Waiting"
    /\ resp[p] # "None"
    /\ \/ /\ resp[p] \in Hosts
          /\ \E h \in Hosts : result' = [result EXCEPT ![p] = h]
       \/ /\ resp[p] = "Err"
          /\ result' = [result EXCEPT ![p] = "InvalidReply"]
    /\ resp' = [resp EXCEPT ![p] = "None"]
    /\ clientPc' = [clientPc EXCEPT ![p] = "Finished"]
    /\ UNCHANGED << assigned, req, faults >>

\* The answer arrives.  2xx: response.json() decodes the Host, or fails
\* with InvalidReply.  Any other status: the body is read, or fails to be,
\* and the result is InvalidReply either way.
Receive(p) ==
    /\ clientPc[p] = "Waiting"
    /\ resp[p] # "None"
    /\ \/ /\ resp[p] \in Hosts
          /\ result' = [result EXCEPT ![p] = resp[p]]
          /\ UNCHANGED faults
       \/ /\ resp[p] \in Hosts
          /\ faults < MaxFaults
          /\ faults' = faults + 1
          /\ result' = [result EXCEPT ![p] = "InvalidReply"]
       \/ /\ resp[p] = "Err"
          /\ result' = [result EXCEPT ![p] = "InvalidReply"]
          /\ UNCHANGED faults
    /\ resp' = [resp EXCEPT ![p] = "None"]
    /\ clientPc' = [clientPc EXCEPT ![p] = "Finished"]
    /\ UNCHANGED << assigned, req >>

Next ==
    \E p \in Failed :
        \/ SendFailover(p)
        \/ BrokerFailover(p)
        \/ NetFail(p)
        \/ Receive(p)

Spec == Init /\ [][Next]_vars

-----------------------------------------------------------------------------
(* Properties.                                                             *)

TypeOK ==
    /\ assigned \in [Failed -> Hosts \cup {NoHost}]
    /\ clientPc \in [Failed -> {"Send", "Waiting", "Finished"}]
    /\ req \in [Failed -> BOOLEAN]
    /\ resp \in [Failed -> Hosts \cup {"None", "Err"}]
    /\ result \in [Failed -> Hosts \cup {"None", "InvalidReply"}]
    /\ faults \in 0..MaxFaults

\* The status and decoding discipline of replace_proxy_impl: whatever the
\* network loses and whatever body fails to decode, a call returns
\* Ok(host) only for a failover the broker performed for that proxy, and
\* the host is the one the broker assigned to it, never another proxy's.
ReplaceOkReturnsBrokerHost ==
    \A p \in Failed : result[p] \in Hosts => result[p] = assigned[p]


\* The failover contract, with the broker's record and the calls' results
\* as they are.
Contract == INSTANCE FailoverContract

\* replace_proxy implements FailoverContract: whatever the network loses,
\* each call sends its POST once, so the broker fails each proxy over at
\* most once, and the call returns once, with InvalidReply or the host the
\* broker gave that proxy.
FailoverContractRefined == Contract!Spec

=============================================================================
