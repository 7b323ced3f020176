-------------------------- MODULE MigrationCommit --------------------------
(***************************************************************************)
(* Committing a migration through the broker:                            *)
(* HttpMetaManipulationBroker::commit_migration_impl                      *)
(* (src/src/coordinator/http_mani_broker.rs) sends                        *)
(* PUT /api/clusters/migrations and maps the status to Ok(()) or          *)
(* InvalidReply.  The migration task that calls it is not under src/;     *)
(* from the spec (4.I): a task in Committing retries the commit on error  *)
(* and moves to Done on Ok.  The broker is outside the repository: from   *)
(* the spec (4.G), a PUT commits a pending migration and answers 2xx, and *)
(* answers 404 for one it has already committed.                          *)
(*                                                                         *)
(* The network may fail an attempt: the request is lost, its response is  *)
(* lost, or the client gives up while the request is still on its way and *)
(* reaches the broker later.  MaxFaults bounds these faults and the       *)
(* broker's 5xx answers together.                                          *)
(***************************************************************************)
EXTENDS Naturals

CONSTANT MaxFaults

ASSUME ConstantsAssumption == MaxFaults \in Nat

VARIABLES
    broker,     \* the broker's record of the migration: "Pending" or "Committed"
    task,       \* the migration task: "Committing" or "Done"
    clientPc,   \* commit_migration_impl: "Send", "Waiting" or "Finished"
    curReq,     \* the current attempt's PUT is on its way
    oldReqs,    \* PUTs of abandoned attempts still on their way
    curResp,    \* the status on its way back: "None", "2xx", "404" or "5xx"
    faults      \* network faults and 5xx answers so far

vars == << broker, task, clientPc, curReq, oldReqs, curResp, faults >>

Statuses == {"2xx", "404", "5xx"}

-----------------------------------------------------------------------------
Init ==
    /\ broker = "Pending"
    /\ task = "Committing"
    /\ clientPc = "Send"
    /\ curReq = FALSE
    /\ oldReqs = 0
    /\ curResp = "None"
    /\ faults = 0

\* The task in Committing calls commit_migration: the PUT goes out.
SendCommit ==
    /\ clientPc = "Send"
    /\ task = "Committing"
    /\ clientPc' = "Waiting"
    /\ curReq' = TRUE
    /\ UNCHANGED << broker, task, oldReqs, curResp, faults >>

\* The broker applies a PUT: it commits a pending migration with 2xx and
\* answers 404 for one already committed; or it fails with 5xx.
BrokerAnswer ==
    /\ curReq
    /\ curReq' = FALSE
    /\ \/ /\ broker = "Pending"
          /\ broker' = "Committed"
          /\ curResp' = "2xx"
          /\ UNCHANGED faults
       \/ /\ broker = "Committed"
          /\ curResp' = "404"
          /\ UNCHANGED << broker, faults >>
       \/ /\ faults < MaxFaults
          /\ curResp' = "5xx"
          /\ faults' = faults + 1
          /\ UNCHANGED broker
    /\ UNCHANGED << task, clientPc, oldReqs >>

\* A PUT of an abandoned attempt reaches the broker; nobody reads its answer.
BrokerAnswerLate ==
    /\ oldReqs > 0
    /\ oldReqs' = oldReqs - 1
    /\ broker' = "Committed"
    /\ UNCHANGED << task, clientPc, curReq, curResp, faults >>

\* send().await fails (connection reset, timeout): the request is lost, or
\* still on its way, or its answer is lost.  map_err gives InvalidReply and
\* the task retries.
NetFail ==
    /\ clientPc = "Waiting"
    /\ curReq \/ curResp # "None"
    /\ faults < MaxFaults
    /\ faults' = faults + 1
    /\ \/ oldReqs' = oldReqs
       \/ curReq /\ oldReqs' = oldReqs + 1
    /\ curReq' = FALSE
    /\ curResp' = "None"
    /\ clientPc' = "Send"
    /\ UNCHANGED << broker, task >>

\* Mutant: every status the broker sends back is taken for success.
IsCommitOkAny(st) == st \in Statuses

\* Mutant: only 2xx is success; a 404 is an error like any other.
IsCommitOkNo404(st) == st = "2xx"

\* status.is_success() || status.as_u16() == 404
IsCommitOk(st) == st \in {"2xx", "404"}

\* The response arrives.  Ok(()) moves the task to Done; any other status
\* reads the body and returns InvalidReply, and the task retries.
ClientReceive ==
    /\ clientPc = "Waiting"
    /\ curResp # "None"
    /\ curResp' = "None"
    /\ \/ /\ IsCommitOk(curResp)
          /\ task' = "Done"
          /\ clientPc' = "Finished"
       \/ /\ ~IsCommitOk(curResp)
          /\ clientPc' = "Send"
          /\ UNCHANGED task
    /\ UNCHANGED << broker, curReq, oldReqs, faults >>

Next ==
    \/ SendCommit
    \/ BrokerAnswer
    \/ BrokerAnswerLate
    \/ NetFail
    \/ ClientReceive

\* Faults are not fair: the network may stop failing.  The task, the broker
\* and the delivery of a request that was sent are.
Fairness ==
    /\ WF_vars(SendCommit)
    /\ WF_vars(BrokerAnswer)
    /\ WF_vars(ClientReceive)

Spec == Init /\ [][Next]_vars /\ Fairness

-----------------------------------------------------------------------------
(* Properties.                                                             *)

TypeOK ==
    /\ broker \in {"Pending", "Committed"}
    /\ task \in {"Committing", "Done"}
    /\ clientPc \in {"Send", "Waiting", "Finished"}
    /\ curReq \in BOOLEAN
    /\ oldReqs \in 0..MaxFaults
    /\ curResp \in Statuses \cup {"None"}
    /\ faults \in 0..MaxFaults

\* A migration task reaches Done only when the broker has committed the
\* migration: commit_migration returns Ok(()) only for a status the broker
\* sends after committing it.
DoneMeansCommitted ==
    task = "Done" => broker = "Committed"

\* The 404-as-success rule (spec 4.G, 8.7): however the network fails and
\* late requests arrive, once the faults stop the Committing task retries
\* its way to Done.
CommitEventuallyDone ==
    <>(task = "Done")


=====
