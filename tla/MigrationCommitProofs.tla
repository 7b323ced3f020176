----------------------- MODULE MigrationCommitProofs -----------------------
(***************************************************************************)
(* Proof that a migration task reaches Done only after the broker has     *)
(* committed the migration, for every bound on network faults.            *)
(***************************************************************************)
EXTENDS MigrationCommit, TLAPS

USE ConstantsAssumption

\* A success status on its way back was sent by a broker that had
\* committed the migration.
SuccessAnswerCommitted == IsCommitOk(curResp) => broker = "Committed"

\* Every abandoned PUT still on its way was abandoned by a counted fault.
LateRequestsCounted == oldReqs <= faults

IInv ==
    /\ TypeOK
    /\ LateRequestsCounted
    /\ SuccessAnswerCommitted
    /\ DoneMeansCommitted

LEMMA NextIInv == IInv /\ [Next]_vars => IInv'
<1> SUFFICES ASSUME IInv, [Next]_vars PROVE IInv'
    OBVIOUS
<1> USE DEF IInv, TypeOK, LateRequestsCounted, SuccessAnswerCommitted,
            DoneMeansCommitted, IsCommitOk, Statuses
<1>0. faults \in Nat /\ oldReqs \in Nat /\ MaxFaults \in Nat
    OBVIOUS
<1>1. CASE SendCommit
    BY <1>1 DEF SendCommit
<1>2. CASE BrokerAnswer
    <2>1. CASE broker = "Pending" /\ broker' = "Committed" /\ curResp' = "2xx"
               /\ UNCHANGED faults
        BY <1>2, <2>1 DEF BrokerAnswer
    <2>2. CASE broker = "Committed" /\ curResp' = "404"
               /\ UNCHANGED << broker, faults >>
        BY <1>2, <2>2 DEF BrokerAnswer
    <2>3. CASE faults < MaxFaults /\ curResp' = "5xx" /\ faults' = faults + 1
               /\ UNCHANGED broker
        <3>1. faults' \in 0..MaxFaults /\ oldReqs' <= faults'
            BY <1>0, <1>2, <2>3 DEF BrokerAnswer
        <3>2. ~IsCommitOk(curResp')
            BY <2>3
        <3> QED
            BY <1>2, <2>3, <3>1, <3>2 DEF BrokerAnswer
    <2> QED
        BY <1>2, <2>1, <2>2, <2>3 DEF BrokerAnswer
<1>3. CASE BrokerAnswerLate
    <2>1. oldReqs' \in 0..MaxFaults /\ oldReqs' <= faults'
        BY <1>0, <1>3 DEF BrokerAnswerLate
    <2> QED
        BY <1>3, <2>1 DEF BrokerAnswerLate
<1>4. CASE NetFail
    <2>1. faults' \in 0..MaxFaults /\ oldReqs' \in 0..MaxFaults
          /\ oldReqs' <= faults'
        BY <1>0, <1>4 DEF NetFail
    <2>2. curResp' = "None" /\ ~IsCommitOk(curResp')
        BY <1>4 DEF NetFail
    <2> QED
        BY <1>4, <2>1, <2>2 DEF NetFail
<1>5. CASE ClientReceive
    BY <1>5 DEF ClientReceive
<1>6. CASE UNCHANGED vars
    BY <1>6 DEF vars
<1> QED
    BY <1>1, <1>2, <1>3, <1>4, <1>5, <1>6 DEF Next

LEMMA InitIInv == Init => IInv
  <1> SUFFICES ASSUME Init PROVE IInv
      OBVIOUS
  <1>1. oldReqs \in 0..MaxFaults /\ faults \in 0..MaxFaults
        /\ oldReqs <= faults
      BY DEF Init
  <1>2. curReq \in BOOLEAN
      BY DEF Init
  <1>3. ~IsCommitOk(curResp) /\ curResp \in Statuses \cup {"None"}
      BY DEF Init, IsCommitOk, Statuses
  <1> QED
      BY <1>1, <1>2, <1>3 DEF Init, IInv, TypeOK, LateRequestsCounted,
                              SuccessAnswerCommitted, DoneMeansCommitted

\* Whatever the faults, commit_migration's Ok(()) never moves the task to
\* Done before the broker has committed the migration.
THEOREM DoneMeansCommittedHolds == Spec => []DoneMeansCommitted
<1>1. Init => IInv
    BY InitIInv
<1>2. IInv /\ [Next]_vars => IInv'
    BY NextIInv
<1>3. IInv => DoneMeansCommitted
    BY DEF IInv
<1> QED
    BY <1>1, <1>2, <1>3, PTL DEF Spec


=====
