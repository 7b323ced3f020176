----------------------- MODULE FailureDetectorProofs -----------------------
(***************************************************************************)
(* Proofs about one round of the failure detector, for every list of      *)
(* proxies: check_impl reports a proxy only after RETRY failed pings,     *)
(* every dead listed proxy is handled, and the round implements the       *)
(* spec's sequential detector.                                             *)
(***************************************************************************)
EXTENDS FailureDetector, TLAPS

USE ConstantsAssumption

\* The failed pings of a check so far: one fewer than the loop's i while
\* it probes, and all RETRY once it has returned Some(address).
ProbeCount ==
    /\ pc = "Check" => failedProbes = attempt - 1
    /\ pc = "Report" => failedProbes = RETRY

IInv == TypeOK /\ ProbeCount /\ ReportsFollowAllProbesFailing

LEMMA InitIInv == Init => IInv
<1> SUFFICES ASSUME Init PROVE IInv
    OBVIOUS
<1>1. HostAddresses[1] \in Proxies
    BY DEF Init
<1> QED
    BY <1>1 DEF Init, IInv, TypeOK, ProbeCount,
                ReportsFollowAllProbesFailing, RETRY

LEMMA NextIInv == IInv /\ [Next]_vars => IInv'
<1> SUFFICES ASSUME IInv, [Next]_vars PROVE IInv'
    OBVIOUS
<1>1. CASE Retrieve
    <2>1. idx \in Nat /\ Len(HostAddresses) \in Nat
        BY DEF IInv, TypeOK
    <2>2. idx <= Len(HostAddresses) => HostAddresses[idx] \in Proxies
        BY <2>1 DEF IInv, TypeOK
    <2> QED
        BY <1>1, <2>1, <2>2 DEF Retrieve, IInv, TypeOK, ProbeCount,
                                ReportsFollowAllProbesFailing, RETRY
<1>2. CASE Probe
    <2>1. attempt \in 1..RETRY /\ failedProbes = attempt - 1
        BY <1>2 DEF Probe, IInv, TypeOK, ProbeCount
    <2>2. CASE pc' = "Retrieve" /\ UNCHANGED << attempt, failedProbes >>
        BY <1>2, <2>2 DEF Probe, IInv, TypeOK, ProbeCount,
                          ReportsFollowAllProbesFailing
    <2>3. CASE /\ failedProbes' = failedProbes + 1
               /\ LastProbe(attempt) /\ pc' = "Report" /\ UNCHANGED attempt
        BY <1>2, <2>1, <2>3 DEF Probe, LastProbe, IInv, TypeOK, ProbeCount,
                                ReportsFollowAllProbesFailing, RETRY
    <2>4. CASE failedProbes' = failedProbes + 1 /\ ~LastProbe(attempt) /\ ContinueLoop
        <3>1. attempt + 1 \in ProbeRange
            BY <2>1, <2>4 DEF LastProbe, ProbeRange, RETRY
        <3>2. attempt' = attempt + 1 /\ pc' = "Check"
            BY <2>4, <3>1 DEF ContinueLoop
        <3> QED
            BY <1>2, <2>1, <2>4, <3>1, <3>2 DEF Probe, ProbeRange, IInv, TypeOK,
                                    ProbeCount, ReportsFollowAllProbesFailing, RETRY
    <2> QED
        BY <1>2, <2>2, <2>3, <2>4 DEF Probe
<1>3. CASE Report
    BY <1>3 DEF Report, IInv, TypeOK, ProbeCount,
                ReportsFollowAllProbesFailing, RETRY
<1>4. CASE UNCHANGED vars
    BY <1>4 DEF vars, IInv, TypeOK, ProbeCount,
                ReportsFollowAllProbesFailing
<1> QED
    BY <1>1, <1>2, <1>3, <1>4 DEF Next

\* Probe sufficiency, for every list of proxies: every report the detector
\* sends follows RETRY failed probes of check_impl's loop.
THEOREM ReportsFollowAllProbesFailingHolds == Spec => []ReportsFollowAllProbesFailing
<1>1. Init => IInv
    BY InitIInv
<1>2. IInv /\ [Next]_vars => IInv'
    BY NextIInv
<1>3. IInv => ReportsFollowAllProbesFailing
    BY DEF IInv
<1> QED
    BY <1>1, <1>2, <1>3, PTL DEF Spec


(***************************************************************************)
(* Why every dead proxy is handled.  During the round, each dead proxy    *)
(* the retriever yielded is reported already, or it is the one            *)
(* check_impl is probing or the reporter is about to report: a dead proxy *)
(* never answers a PING, so its check cannot return healthy, and the      *)
(* round moves past it only through Report.                               *)
(***************************************************************************)
DeadHandled ==
    \A a \in yielded :
        status[a] = "Dead" =>
            \/ a \in reported \cup reportErr
            \/ pc \in {"Check", "Report"} /\ a = cur

\* A dead proxy's probe never comes to Ok(None).
LEMMA DeadProbeFails ==
    ASSUME NEW a, status[a] = "Dead", NEW o \in ProbeOutcomes(a)
    PROVE  PingResult(o) # "None"
BY DEF ProbeOutcomes, PingResult

LEMMA DeadHandledStep == DeadHandled /\ [Next]_vars => DeadHandled'
<1> SUFFICES ASSUME DeadHandled, [Next]_vars PROVE DeadHandled'
    OBVIOUS
<1>1. CASE Retrieve
    BY <1>1 DEF Retrieve, DeadHandled
<1>2. CASE Probe
    <2>1. PICK o \in ProbeOutcomes(cur) :
            \/ PingResult(o) = "None" /\ pc' = "Retrieve"
            \/ pc' \in {"Check", "Report"}
        BY <1>2 DEF Probe, ContinueLoop
    <2>2. status[cur] = "Dead" => pc' \in {"Check", "Report"}
        BY <2>1, DeadProbeFails
    <2> QED
        BY <1>2, <2>2 DEF Probe, DeadHandled
<1>3. CASE Report
    BY <1>3 DEF Report, DeadHandled
<1>4. CASE UNCHANGED vars
    BY <1>4 DEF vars, DeadHandled
<1> QED
    BY <1>1, <1>2, <1>3, <1>4 DEF Next

\* Every dead proxy the broker listed is reported, or its report at least
\* attempted, by the end of the round: SeqFailureDetector checks each
\* yielded address and check_impl returns Some for one that never answers.
THEOREM DeadProxiesReportedHolds == Spec => []DeadProxiesReported
<1>1. Init => DeadHandled
    BY DEF Init, DeadHandled
<1>2. DeadHandled /\ [Next]_vars => DeadHandled'
    BY DeadHandledStep
<1>3. DeadHandled => DeadProxiesReported
    BY DEF DeadHandled, DeadProxiesReported
<1> QED
    BY <1>1, <1>2, <1>3, PTL DEF Spec


(***************************************************************************)
(* The round as SeqFailureDetector promises it.  While an address is      *)
(* checked or reported it is the one the retriever yielded last, at       *)
(* position idx - 1; this is what lets the checker's and the reporter's   *)
(* steps be read as steps at the abstract round's position.               *)
(***************************************************************************)
CurListed ==
    pc \in {"Check", "Report"} =>
        /\ idx - 1 \in 1..Len(HostAddresses)
        /\ cur = HostAddresses[idx - 1]

LEMMA CurListedStep ==
    ASSUME IInv, CurListed, [Next]_vars
    PROVE  CurListed'
<1> USE DEF IInv, TypeOK
<1>1. CASE Retrieve
    BY <1>1 DEF Retrieve, CurListed
<1>2. CASE Probe
    BY <1>2 DEF Probe, ContinueLoop, CurListed
<1>3. CASE Report
    BY <1>3 DEF Report, CurListed
<1>4. CASE UNCHANGED vars
    BY <1>4 DEF vars, CurListed
<1> QED
    BY <1>1, <1>2, <1>3, <1>4 DEF Next

LEMMA CurListedInvariant == Spec => [](IInv /\ CurListed)
<1>1. Init => CurListed
    BY DEF Init, CurListed
<1> QED
    BY <1>1, InitIInv, NextIInv, CurListedStep, PTL DEF Spec

LEMMA NextRefinesRound ==
    ASSUME IInv, CurListed, [Next]_vars
    PROVE  [Round!Next]_Round!vars
<1> USE DEF IInv, TypeOK
<1>1. CASE Retrieve
    <2>1. CASE idx <= Len(HostAddresses) /\ pc' = "Check"
        <3>1. Round!Take
            BY <1>1, <2>1 DEF Retrieve, Round!Take, Round!AtListed
        <3> QED
            BY <3>1 DEF Round!Next
    <2>2. CASE idx <= Len(HostAddresses) /\ pc' = "Retrieve"
        <3>1. Round!Skip
            BY <1>1, <2>2 DEF Retrieve, Round!Skip, Round!AtListed
        <3> QED
            BY <3>1 DEF Round!Next
    <2>3. CASE idx > Len(HostAddresses)
        <3>1. Round!Finish
            BY <1>1, <2>3 DEF Retrieve, Round!Finish
        <3> QED
            BY <3>1 DEF Round!Next
    <2> QED
        BY <1>1, <2>1, <2>2, <2>3 DEF Retrieve
<1>2. CASE Probe
    <2>1. CASE pc' = "Retrieve"
        <3>1. PICK o \in ProbeOutcomes(cur) : PingResult(o) = "None"
            BY <1>2, <2>1 DEF Probe, ContinueLoop
        <3>2. status[cur] = "Alive"
            BY <3>1, DeadProbeFails
        <3>3. Round!Pass
            BY <1>2, <2>1, <3>2 DEF Probe, CurListed, Round!Pass
        <3> QED
            BY <3>3 DEF Round!Next
    <2>2. CASE pc' # "Retrieve"
        BY <1>2, <2>2 DEF Probe, ContinueLoop, Round!vars
    <2> QED
        BY <2>1, <2>2
<1>3. CASE Report
    <2>1. Round!Handle
        BY <1>3 DEF Report, CurListed, Round!Handle
    <2> QED
        BY <2>1 DEF Round!Next
<1>4. CASE UNCHANGED vars
    BY <1>4 DEF vars, Round!vars
<1> QED
    BY <1>1, <1>2, <1>3, <1>4 DEF Next

\* The composition implements SeqFailureDetector's round, for every list
\* of proxies: addresses are taken in the broker's order, one at a time;
\* a dead proxy never passes check_impl, since a proxy that refuses the
\* connection or fails the PING is never Ok(None); each failed check ends
\* in one add_failure attempt before the retriever is polled again.
THEOREM DetectorRoundRefinedHolds == Spec => DetectorRoundRefined
<1>1. Init => Round!Init
    BY DEF Init, Round!Init
<1> QED
    BY <1>1, CurListedInvariant, NextRefinesRound, PTL
       DEF Spec, DetectorRoundRefined, Round!Spec

=============================================================================
