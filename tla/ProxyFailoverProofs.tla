----------------------- MODULE ProxyFailoverProofs ------------------------
(***************************************************************************)
(* Proofs about replace_proxy for every set of failed proxies and hosts   *)
(* and every bound on faults.                                              *)
(***************************************************************************)
EXTENDS ProxyFailover, TLAPS

USE ProxyFailoverAssumption

(***************************************************************************)
(* ReplaceOkReturnsBrokerHost alone is not inductive.  A 2xx answer on    *)
(* its way back must already carry the host the broker assigned, and the  *)
(* broker must not have failed over a proxy whose call has not reached it *)
(* yet: each call sends one POST, so the broker acts on it at most once   *)
(* and the host it assigned stays the proxy's.  A call has no result     *)
(* before it finishes, so it returns once.                                *)
(***************************************************************************)
CallsInOrder ==
    \A p \in Failed :
        /\ clientPc[p] = "Send" =>
             ~req[p] /\ resp[p] = "None" /\ assigned[p] = NoHost /\ result[p] = "None"
        /\ req[p] =>
             clientPc[p] = "Waiting" /\ resp[p] = "None"
             /\ assigned[p] = NoHost /\ result[p] = "None"
        /\ resp[p] \in Hosts => resp[p] = assigned[p]
        /\ clientPc[p] # "Finished" => result[p] = "None"

IInv == TypeOK /\ CallsInOrder /\ ReplaceOkReturnsBrokerHost

LEMMA InitIInv == Init => IInv
<1> SUFFICES ASSUME Init PROVE IInv
  OBVIOUS
<1>1. TypeOK
  BY DEF Init, TypeOK
<1>2. CallsInOrder
  BY DEF Init, CallsInOrder, ProxyFailoverAssumption
<1>3. ReplaceOkReturnsBrokerHost
  BY DEF Init, ReplaceOkReturnsBrokerHost
<1> QED
  BY <1>1, <1>2, <1>3 DEF IInv

\* Every step is the step of one call; the records of the others stay.
LEMMA NextIInv == IInv /\ [Next]_vars => IInv'
<1> SUFFICES ASSUME IInv, [Next]_vars PROVE IInv'
  OBVIOUS
<1> USE DEF IInv, TypeOK, CallsInOrder, ReplaceOkReturnsBrokerHost
<1>1. ASSUME NEW p \in Failed, SendFailover(p) PROVE IInv'
  BY <1>1 DEF SendFailover
<1>2. ASSUME NEW p \in Failed, BrokerFailover(p) PROVE IInv'
  <2>1. CASE \E h \in FreeHosts :
               /\ assigned' = [assigned EXCEPT ![p] = h]
               /\ resp' = [resp EXCEPT ![p] = h]
    <3>1. PICK h \in FreeHosts :
               /\ assigned' = [assigned EXCEPT ![p] = h]
               /\ resp' = [resp EXCEPT ![p] = h]
      BY <2>1
    <3>2. h \in Hosts
      BY DEF FreeHosts
    <3> QED
      BY <1>2, <3>1, <3>2 DEF BrokerFailover
  <2>4. CASE resp' = [resp EXCEPT ![p] = "Err"] /\ UNCHANGED assigned
    BY <1>2, <2>4 DEF BrokerFailover
  <2> QED
    BY <1>2, <2>1, <2>4 DEF BrokerFailover
<1>3. ASSUME NEW p \in Failed, NetFail(p) PROVE IInv'
  BY <1>3 DEF NetFail
<1>4. ASSUME NEW p \in Failed, Receive(p) PROVE IInv'
  <2>1. ~req[p]
    BY <1>4 DEF Receive
  <2> QED
    BY <1>4, <2>1 DEF Receive
<1>5. CASE UNCHANGED vars
  BY <1>5 DEF vars
<1> QED
  BY <1>1, <1>2, <1>3, <1>4, <1>5 DEF Next

(***************************************************************************)
(* The status and decoding discipline of replace_proxy_impl, for every    *)
(* number of failed proxies and free hosts: a call returns Ok(host) only  *)
(* for the failover the broker performed for that proxy, with its host.   *)
(***************************************************************************)
THEOREM ReplaceOkReturnsBrokerHostHolds == Spec => []ReplaceOkReturnsBrokerHost
<1>1. IInv => ReplaceOkReturnsBrokerHost
  BY DEF IInv
<1> QED
  BY InitIInv, NextIInv, <1>1, PTL DEF Spec


\* The contract's state is the broker's record and the calls' results.
LEMMA NextRefines ==
    ASSUME IInv, [Next]_vars
    PROVE  [Contract!Next]_<< assigned, result >>
<1> USE DEF IInv, TypeOK, CallsInOrder
<1>1. ASSUME NEW p \in Failed, SendFailover(p)
      PROVE  UNCHANGED << assigned, result >>
  BY <1>1 DEF SendFailover
<1>2. ASSUME NEW p \in Failed, BrokerFailover(p)
      PROVE  [Contract!Next]_<< assigned, result >>
  <2>1. assigned[p] = NoHost /\ UNCHANGED result
    BY <1>2 DEF BrokerFailover
  <2>2. CASE \E h \in FreeHosts :
               /\ assigned' = [assigned EXCEPT ![p] = h]
               /\ resp' = [resp EXCEPT ![p] = h]
    <3>1. PICK h \in FreeHosts : assigned' = [assigned EXCEPT ![p] = h]
      BY <2>2
    <3>2. h \in Hosts /\ h \notin {assigned[q] : q \in Failed}
      BY DEF FreeHosts
    <3>3. Contract!Assign(p, h)
      BY <2>1, <3>1, <3>2 DEF Contract!Assign
    <3> QED
      BY <3>2, <3>3 DEF Contract!Next
  <2>3. CASE UNCHANGED assigned
    BY <2>1, <2>3
  <2> QED
    BY <1>2, <2>2, <2>3 DEF BrokerFailover
<1>3. ASSUME NEW p \in Failed, NetFail(p)
      PROVE  Contract!Next
  <2>1. Contract!Return(p, "InvalidReply")
    BY <1>3 DEF NetFail, Contract!Return
  <2> QED
    BY <2>1 DEF Contract!Next
<1>4. ASSUME NEW p \in Failed, Receive(p)
      PROVE  Contract!Next
  <2>1. result[p] = "None" /\ UNCHANGED assigned
    BY <1>4 DEF Receive
  <2>2. CASE resp[p] \in Hosts /\ result' = [result EXCEPT ![p] = resp[p]]
    <3>1. Contract!Return(p, resp[p])
      BY <2>1, <2>2 DEF Contract!Return
    <3> QED
      BY <2>2, <3>1 DEF Contract!Next
  <2>3. CASE result' = [result EXCEPT ![p] = "InvalidReply"]
    <3>1. Contract!Return(p, "InvalidReply")
      BY <2>1, <2>3 DEF Contract!Return
    <3> QED
      BY <3>1 DEF Contract!Next
  <2> QED
    BY <1>4, <2>2, <2>3 DEF Receive
<1>5. CASE UNCHANGED vars
  BY <1>5 DEF vars
<1> QED
  BY <1>1, <1>2, <1>3, <1>4, <1>5 DEF Next

(***************************************************************************)
(* The failover contract, for every number of failed proxies and free    *)
(* hosts and every bound on faults: replace_proxy_impl sends one POST per *)
(* call and never retries it, so the broker fails each proxy over at most *)
(* once, to a host no other proxy holds, and each call returns once, with *)
(* InvalidReply or the host the broker gave that proxy.                   *)
(***************************************************************************)
THEOREM FailoverContractRefinedHolds == Spec => FailoverContractRefined
<1>1. Init => Contract!Init
  BY DEF Init, Contract!Init
<1> QED
  BY <1>1, InitIInv, NextIInv, NextRefines, PTL
     DEF Spec, FailoverContractRefined, Contract!Spec

=============================================================================
