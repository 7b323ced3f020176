-------------------------- MODULE FailureDetector --------------------------
(***************************************************************************)
(* One round of the coordinator's sequential failure detector:           *)
(* BrokerProxiesRetriever yields the broker's host addresses, each is     *)
(* checked by PingFailureDetector::check_impl and, when the check returns *)
(* Some(address), reported by BrokerFailureReporter                       *)
(* (src/src/coordinator/detector.rs).  SeqFailureDetector, which composes *)
(* them in retrieval order, is not under src/ and follows the spec: an    *)
(* element error is logged and the round goes on.                         *)
(***************************************************************************)
EXTENDS Naturals, Sequences

CONSTANTS
    Proxies,        \* proxy addresses
    HostAddresses   \* the order get_host_addresses yields them in

ASSUME ConstantsAssumption ==
    /\ HostAddresses \in Seq(Proxies)
    /\ Len(HostAddresses) >= 1

\* const RETRY: usize = 3 in check_impl.
RETRY == 3

VARIABLES
    status,     \* each proxy is "Alive" or "Dead" during the round
    idx,        \* the next position of the address stream
    pc,         \* "Retrieve", "Check", "Report" or "Finished"
    cur,        \* the address being checked or reported
    attempt,    \* i of check_impl's for loop
    failedProbes, \* history: the failed pings of the current check
    yielded,    \* the addresses the retriever yielded
    reportLog,  \* <<address, failed probes>> of each report sent
    reported,   \* the addresses add_failure accepted
    reportErr   \* the addresses whose add_failure failed (MetaData error)

vars == << status, idx, pc, cur, attempt, failedProbes, yielded, reportLog,
           reported, reportErr >>

\* What one ping can come to.  A dead proxy refuses the connection or
\* fails the PING; a live one answers, but a stale pooled connection or a
\* transient connect error may still fail a probe.
ProbeOutcomes(a) ==
    IF status[a] = "Alive" THEN {"PingOk", "PingErr", "ConnectFail"}
    ELSE {"PingErr", "ConnectFail"}

-----------------------------------------------------------------------------
Init ==
    /\ status \in [Proxies -> {"Alive", "Dead"}]
    /\ idx = 1
    /\ pc = "Retrieve"
    /\ cur = HostAddresses[1]
    /\ attempt = 1
    /\ failedProbes = 0
    /\ yielded = {}
    /\ reportLog = {}
    /\ reported = {}
    /\ reportErr = {}

\* The next element of retrieve_proxies: an address, which the detector
\* checks, or a MetaData error, which it logs and skips; the end of the
\* stream ends the round.
Retrieve ==
    /\ pc = "Retrieve"
    /\ \/ /\ idx <= Len(HostAddresses)
          /\ idx' = idx + 1
          /\ \/ /\ cur' = HostAddresses[idx]
                /\ yielded' = yielded \cup {HostAddresses[idx]}
                /\ attempt' = 1
                /\ failedProbes' = 0
                /\ pc' = "Check"
             \/ UNCHANGED << cur, yielded, attempt, failedProbes, pc >>
       \/ /\ idx > Len(HostAddresses)
          /\ pc' = "Finished"
          /\ UNCHANGED << idx, cur, yielded, attempt, failedProbes >>
    /\ UNCHANGED << status, reportLog, reported, reportErr >>

\* Mutant: a failed connect is taken for a healthy proxy.
PingResultConnectHealthy(o) ==
    CASE o = "ConnectFail" -> "None"
      [] o = "PingOk"      -> "None"
      [] o = "PingErr"     -> "Err"

\* ping(): create_client fails -> Ok(Some(address)); PING answered with
\* any reply -> Ok(None); PING fails -> Err(Redis).
PingResult(o) ==
    CASE o = "ConnectFail" -> "Some"
      [] o = "PingOk"      -> "None"
      [] o = "PingErr"     -> "Err"

\* The guard `_ if i == RETRY` of check_impl.
LastProbe(i) == i = RETRY

\* Mutant: the loop runs over 1..RETRY - 1 (1..RETRY written for 1..=RETRY).
ProbeRangeShort == 1..(RETRY - 1)

\* The range of check_impl's loop, `for i in 1..=RETRY`.
ProbeRange == 1..RETRY

\* `continue`: the loop takes the next i of its range or, past the range,
\* ends and check_impl returns the Ok(Some(address)) after it.
ContinueLoop ==
    IF attempt + 1 \in ProbeRange
    THEN attempt' = attempt + 1 /\ pc' = "Check"
    ELSE pc' = "Report" /\ UNCHANGED attempt

\* One iteration of check_impl's loop: Ok(None) returns healthy; any other
\* result returns Some(address) on the last try and continues otherwise.
Probe ==
    /\ pc = "Check"
    /\ \E o \in ProbeOutcomes(cur) :
        \/ /\ PingResult(o) = "None"
           /\ pc' = "Retrieve"
           /\ UNCHANGED << attempt, failedProbes >>
        \/ /\ PingResult(o) # "None"
           /\ failedProbes' = failedProbes + 1
           /\ \/ LastProbe(attempt) /\ pc' = "Report" /\ UNCHANGED attempt
              \/ ~LastProbe(attempt) /\ ContinueLoop
    /\ UNCHANGED << status, idx, cur, yielded, reportLog, reported, reportErr >>

\* BrokerFailureReporter::report: add_failure(address, reporter_id); a
\* broker error becomes a MetaData element error and the round goes on.
Report ==
    /\ pc = "Report"
    /\ reportLog' = reportLog \cup {<< cur, failedProbes >>}
    /\ \/ reported' = reported \cup {cur} /\ UNCHANGED reportErr
       \/ reportErr' = reportErr \cup {cur} /\ UNCHANGED reported
    /\ pc' = "Retrieve"
    /\ UNCHANGED << status, idx, cur, attempt, failedProbes, yielded >>

Next == Retrieve \/ Probe \/ Report

\* The coordinator's task runs the round to its end; each await completes
\* (client and HTTP timeouts).
Spec == Init /\ [][Next]_vars /\ WF_vars(Next)

-----------------------------------------------------------------------------
(* Properties.                                                             *)

TypeOK ==
    /\ status \in [Proxies -> {"Alive", "Dead"}]
    /\ idx \in 1..(Len(HostAddresses) + 1)
    /\ pc \in {"Retrieve", "Check", "Report", "Finished"}
    /\ cur \in Proxies
    /\ attempt \in 1..RETRY
    /\ failedProbes \in 0..RETRY
    /\ yielded \subseteq Proxies
    /\ reportLog \subseteq Proxies \X (0..RETRY)
    /\ reported \subseteq Proxies
    /\ reportErr \subseteq Proxies

\* Probe sufficiency (spec 8.6): a proxy is reported only after exactly
\* RETRY pings of its check failed; one answered PING keeps it from the
\* broker.  It rests on the loop's range, its `i == RETRY` guard and the
\* fall-through after the loop agreeing with each other.
ReportsFollowAllProbesFailing ==
    \A r \in reportLog : r[2] = RETRY

\* Every dead proxy the broker listed in the round is reported, or its
\* report at least attempted, by the time the round ends.
DeadProxiesReported ==
    pc = "Finished" =>
        \A a \in yielded : status[a] = "Dead" => a \in reported \cup reportErr


\* The round as the spec's sequential detector sees it: the position is
\* the one whose address is being checked or reported, or the next one;
\* an address is handled once its report was attempted.
Round == INSTANCE DetectorRound
    WITH pos <- IF pc \in {"Check", "Report"} THEN idx - 1 ELSE idx,
         checking <- pc \in {"Check", "Report"},
         taken <- yielded,
         handled <- reported \cup reportErr,
         finished <- pc = "Finished"

\* The retriever, the checker and the reporter together implement one
\* round of SeqFailureDetector: the listed addresses are taken one at a
\* time in order, a dead proxy never passes its check, and each failed
\* check ends in a report attempt before the next address is taken.
DetectorRoundRefined == Round!Spec

=============================================================================
