------------------------ MODULE ForwardHandlerProofs -----------------------
(***************************************************************************)
(* Proofs about ForwardHandler for every number of sessions and slots and *)
(* every MaxEpoch.                                                         *)
(***************************************************************************)
EXTENDS ForwardHandler, TLAPS

(***************************************************************************)
(* The inductive invariant behind MigrationCoversRouting.  The property   *)
(* alone is not inductive: a session between the two steps of SETDB holds *)
(* a map the migration manager has accepted and the routing store has not *)
(* yet seen, and db.set_dbs installs it.  So the invariant also says that *)
(* such a pending map is never newer than the migration manager's, and    *)
(* that when it is as new it is the very map the manager installed.       *)
(***************************************************************************)
PendingMapsInstalled ==
    \A s \in Sessions :
        pc[s] = "SetDbRouting" =>
            /\ pendingMap[s] \in HostDBMaps
            /\ pendingMap[s].epoch <= migEpoch
            /\ pendingMap[s].epoch = migEpoch => pendingMap[s].slots = migMap

IInv ==
    /\ TypeOK
    /\ PendingMapsInstalled
    /\ MigrationCoversRouting

USE ConstantsAssumption

(***************************************************************************)
(* A step that changes only the session's reply keeps the invariant.      *)
(***************************************************************************)
LEMMA RepliedKeepsIInv ==
    ASSUME IInv, NEW s \in Sessions, NEW r \in Replies, Replied(s, r)
    PROVE  IInv'
<1>1. TypeOK'
  BY DEF IInv, TypeOK, Replied, managerVars, sessionVars
<1>2. PendingMapsInstalled'
  BY DEF IInv, PendingMapsInstalled, Replied, managerVars, sessionVars
<1>3. MigrationCoversRouting'
  BY DEF IInv, MigrationCoversRouting, Replied, managerVars, sessionVars
<1>4. QED
  BY <1>1, <1>2, <1>3 DEF IInv

(***************************************************************************)
(* A migration task's step changes only its task state.                   *)
(***************************************************************************)
LEMMA TaskStepKeepsIInv ==
    ASSUME IInv, NEW k \in Slots, TaskStep(k)
    PROVE  IInv'
<1>1. /\ task' \in [Slots -> TaskStates \cup {"NoTask"}]
      /\ UNCHANGED << routing, peers, replEpoch, migEpoch, migMap >>
      /\ UNCHANGED << sessionVars, reply >>
  BY DEF TaskStep, MigrationTaskPreCheck, MigrationTaskFail,
         MigrationTaskSwitch, MigrationTaskCommit, IInv, TypeOK, TaskStates
<1>2. QED
  BY <1>1 DEF IInv, TypeOK, PendingMapsInstalled, MigrationCoversRouting,
              sessionVars

THEOREM IInvInductive == Spec => []IInv
<1>1. Init => IInv
  BY DEF Init, IInv, TypeOK, PendingMapsInstalled, MigrationCoversRouting,
         NoMap, NoneSlots, Tags, Replies, PCs
<1>2. IInv /\ [Next]_vars => IInv'
  <2> SUFFICES ASSUME IInv, [Next]_vars PROVE IInv'
    OBVIOUS
  <2>1. ASSUME NEW s \in Sessions, HandleStatic(s) PROVE IInv'
    BY <2>1, RepliedKeepsIInv DEF HandleStatic, StaticReplies, Replies
  <2>2. ASSUME NEW s \in Sessions, HandleRead(s) PROVE IInv'
    BY <2>2, RepliedKeepsIInv DEF HandleRead, Replies
  <2>3. ASSUME NEW s \in Sessions, HandleClearDb(s) PROVE IInv'
    BY <2>3 DEF HandleClearDb, IInv, TypeOK, PendingMapsInstalled,
                MigrationCoversRouting, NoneSlots, Tags, Replies, sessionVars
  <2>4. ASSUME NEW s \in Sessions, SetDbInvalid(s) PROVE IInv'
    BY <2>4, RepliedKeepsIInv DEF SetDbInvalid, Replies
  <2>5. ASSUME NEW s \in Sessions, SetDbMigration(s) PROVE IInv'
    <3>1. PICK m \in HostDBMaps :
            \/ /\ m.epoch > migEpoch
               /\ migEpoch' = m.epoch
               /\ migMap' = m.slots
               /\ task' = MigrationTasksFor(m)
               /\ pc' = [pc EXCEPT ![s] = "SetDbRouting"]
               /\ pendingMap' = [pendingMap EXCEPT ![s] = m]
               /\ UNCHANGED << routing, peers, replEpoch, pendingSlot, reply >>
            \/ /\ m.epoch <= migEpoch
               /\ Replied(s, "OldEpoch")
      BY <2>5 DEF SetDbMigration
    <3>2. CASE /\ m.epoch > migEpoch
               /\ migEpoch' = m.epoch
               /\ migMap' = m.slots
               /\ task' = MigrationTasksFor(m)
               /\ pc' = [pc EXCEPT ![s] = "SetDbRouting"]
               /\ pendingMap' = [pendingMap EXCEPT ![s] = m]
               /\ UNCHANGED << routing, peers, replEpoch, pendingSlot, reply >>
      <4>1. pc[s] = "Idle"
        BY <2>5 DEF SetDbMigration
      <4>2. TypeOK'
        BY <3>2 DEF IInv, TypeOK, HostDBMaps, Epochs, MigrationTasksFor,
                    TaskStates, PCs
      <4>3. PendingMapsInstalled'
        <5> SUFFICES ASSUME NEW t \in Sessions, pc'[t] = "SetDbRouting"
                     PROVE  /\ pendingMap'[t] \in HostDBMaps
                            /\ pendingMap'[t].epoch <= migEpoch'
                            /\ pendingMap'[t].epoch = migEpoch' =>
                                 pendingMap'[t].slots = migMap'
          BY DEF PendingMapsInstalled
        <5>1. CASE t = s
          <6>1. pendingMap'[t] = m
            BY <3>2, <5>1 DEF IInv, TypeOK
          <6>2. m.epoch \in Nat
            BY DEF HostDBMaps, Epochs
          <6>3. QED
            BY <3>2, <6>1, <6>2
        <5>2. CASE t # s
          <6>1. /\ pc[t] = "SetDbRouting"
                /\ pendingMap'[t] = pendingMap[t]
            BY <3>2, <5>2 DEF IInv, TypeOK
          <6>2. /\ pendingMap[t] \in HostDBMaps
                /\ pendingMap[t].epoch <= migEpoch
            BY <6>1 DEF IInv, PendingMapsInstalled
          <6>3. QED
            BY <3>2, <6>1, <6>2 DEF IInv, TypeOK, HostDBMaps, Epochs
        <5>3. QED
          BY <5>1, <5>2
      <4>4. MigrationCoversRouting'
        <5>1. routing.epoch <= migEpoch /\ migEpoch \in Nat /\ routing.epoch \in Nat
          BY DEF IInv, MigrationCoversRouting, TypeOK
        <5>2. m.epoch \in Nat
          BY DEF HostDBMaps, Epochs
        <5>3. /\ routing'.epoch < migEpoch'
              /\ routing'.epoch \in Nat
              /\ migEpoch' \in Nat
          BY <3>2, <5>1, <5>2
        <5>4. QED
          BY <5>3 DEF MigrationCoversRouting
      <4>5. QED
        BY <4>2, <4>3, <4>4 DEF IInv
    <3>3. CASE /\ m.epoch <= migEpoch
               /\ Replied(s, "OldEpoch")
      BY <3>3, RepliedKeepsIInv DEF Replies
    <3>4. QED
      BY <3>1, <3>2, <3>3
  <2>6. ASSUME NEW s \in Sessions, SetDbRouting(s) PROVE IInv'
    <3> DEFINE m == pendingMap[s]
    <3>1. /\ pc[s] = "SetDbRouting"
          /\ m \in HostDBMaps
          /\ m.epoch <= migEpoch
          /\ m.epoch = migEpoch => m.slots = migMap
      BY <2>6 DEF SetDbRouting, IInv, PendingMapsInstalled
    <3>2. TypeOK'
      <4>1. routing' \in [epoch : 0..MaxEpoch, slots : [Slots -> Tags]]
        <5>1. m \in [epoch : 0..MaxEpoch, slots : [Slots -> Tags]]
          BY <3>1 DEF HostDBMaps, Epochs
        <5> QED
          BY <2>6, <5>1 DEF SetDbRouting, IInv, TypeOK
      <4>2. reply' \in [Sessions -> Replies]
        BY <2>6 DEF SetDbRouting, IInv, TypeOK, Replies
      <4>3. pc' \in [Sessions -> PCs] /\ pendingMap' \in [Sessions -> HostDBMaps \cup {NoMap}]
        BY <2>6 DEF SetDbRouting, IInv, TypeOK, PCs
      <4>4. UNCHANGED << peers, replEpoch, migEpoch, migMap, task, pendingSlot >>
        BY <2>6 DEF SetDbRouting
      <4> QED
        BY <4>1, <4>2, <4>3, <4>4 DEF IInv, TypeOK
    <3>3. PendingMapsInstalled'
      BY <2>6 DEF SetDbRouting, IInv, TypeOK, PendingMapsInstalled
    <3>4. MigrationCoversRouting'
      BY <2>6, <3>1 DEF SetDbRouting, IInv, TypeOK, MigrationCoversRouting,
                        HostDBMaps
    <3>5. QED
      BY <3>2, <3>3, <3>4 DEF IInv
  <2>7. ASSUME NEW s \in Sessions, HandleSetPeer(s) PROVE IInv'
    <3>1. CASE Replied(s, "InvalidArgs")
      BY <3>1, RepliedKeepsIInv DEF Replies
    <3>2. CASE \E e \in Epochs :
                 /\ e > peers.epoch
                 /\ peers' = [epoch |-> e, present |-> TRUE]
                 /\ reply' = [reply EXCEPT ![s] = "OK"]
                 /\ UNCHANGED << routing, replEpoch, migEpoch, migMap, task, sessionVars >>
      BY <3>2 DEF IInv, TypeOK, PendingMapsInstalled, MigrationCoversRouting,
                  Epochs, Replies, sessionVars
    <3>3. CASE \E e \in Epochs : e <= peers.epoch /\ Replied(s, "OldEpoch")
      BY <3>3, RepliedKeepsIInv DEF Replies
    <3>4. QED
      BY <2>7, <3>1, <3>2, <3>3 DEF HandleSetPeer
  <2>8. ASSUME NEW s \in Sessions, HandleSetRepl(s) PROVE IInv'
    <3>1. CASE Replied(s, "InvalidArgs")
      BY <3>1, RepliedKeepsIInv DEF Replies
    <3>2. CASE \E e \in Epochs :
                 /\ e > replEpoch
                 /\ replEpoch' = e
                 /\ reply' = [reply EXCEPT ![s] = "OK"]
                 /\ UNCHANGED << routing, peers, migEpoch, migMap, task, sessionVars >>
      BY <3>2 DEF IInv, TypeOK, PendingMapsInstalled, MigrationCoversRouting,
                  Epochs, Replies, sessionVars
    <3>3. CASE \E e \in Epochs : e <= replEpoch /\ Replied(s, "OldEpoch")
      BY <3>3, RepliedKeepsIInv DEF Replies
    <3>4. QED
      BY <2>8, <3>1, <3>2, <3>3 DEF HandleSetRepl
  <2>9. ASSUME NEW s \in Sessions, HandleTmpSwitch(s) PROVE IInv'
    <3>1. PICK k \in Slots :
            \/ /\ migMap[k] = "Importing"
               /\ task[k] = "Importing"
               /\ task' = [task EXCEPT ![k] = "Committing"]
               /\ reply' = [reply EXCEPT ![s] = "OK"]
               /\ UNCHANGED << routing, peers, replEpoch, migEpoch, migMap, sessionVars >>
            \/ /\ ~(migMap[k] = "Importing" /\ task[k] = "Importing")
               /\ Replied(s, "Err")
      BY <2>9 DEF HandleTmpSwitch
    <3>2. CASE Replied(s, "Err")
      BY <3>2, RepliedKeepsIInv DEF Replies
    <3>3. CASE /\ task' = [task EXCEPT ![k] = "Committing"]
               /\ reply' = [reply EXCEPT ![s] = "OK"]
               /\ UNCHANGED << routing, peers, replEpoch, migEpoch, migMap, sessionVars >>
      BY <3>3 DEF IInv, TypeOK, PendingMapsInstalled, MigrationCoversRouting,
                  TaskStates, Replies, sessionVars
    <3>4. QED
      BY <3>1, <3>2, <3>3
  <2>10. ASSUME NEW s \in Sessions, DataMigrationSend(s) PROVE IInv'
    <3>1. PICK k \in Slots :
            \/ /\ OverlayRoute(k) = "NotFound"
               /\ pc' = [pc EXCEPT ![s] = "DataRouting"]
               /\ pendingSlot' = [pendingSlot EXCEPT ![s] = k]
               /\ UNCHANGED << managerVars, pendingMap, reply >>
            \/ /\ OverlayRoute(k) # "NotFound"
               /\ \E r \in {OverlayRoute(k), "Dropped"} : Replied(s, r)
      BY <2>10 DEF DataMigrationSend
    <3>2. CASE /\ pc' = [pc EXCEPT ![s] = "DataRouting"]
               /\ pendingSlot' = [pendingSlot EXCEPT ![s] = k]
               /\ UNCHANGED << managerVars, pendingMap, reply >>
      <4>1. pc[s] = "Idle"
        BY <2>10 DEF DataMigrationSend
      <4>2. QED
        BY <3>2, <4>1 DEF IInv, TypeOK, PendingMapsInstalled,
                          MigrationCoversRouting, PCs, managerVars
    <3>3. CASE /\ OverlayRoute(k) # "NotFound"
               /\ \E r \in {OverlayRoute(k), "Dropped"} : Replied(s, r)
      <4>1. OverlayRoute(k) \in Replies
        BY <3>3 DEF OverlayRoute, Replies
      <4>2. QED
        BY <3>3, <4>1, RepliedKeepsIInv DEF Replies
    <3>4. QED
      BY <3>1, <3>2, <3>3
  <2>11. ASSUME NEW s \in Sessions, DataRoutingSend(s) PROVE IInv'
    <3>1. RoutingReply(pendingSlot[s]) \in Replies
      BY DEF RoutingReply, Replies
    <3>2. pc[s] = "DataRouting"
      BY <2>11 DEF DataRoutingSend
    <3>3. QED
      BY <2>11, <3>1, <3>2 DEF DataRoutingSend, IInv, TypeOK,
                               PendingMapsInstalled, MigrationCoversRouting,
                               PCs, managerVars
  <2>12. ASSUME NEW k \in Slots, TaskStep(k) PROVE IInv'
    BY <2>12, TaskStepKeepsIInv
  <2>13. CASE UNCHANGED vars
    BY <2>13 DEF vars, IInv, TypeOK, PendingMapsInstalled, MigrationCoversRouting
  <2>14. QED
    BY <2>1, <2>2, <2>3, <2>4, <2>5, <2>6, <2>7, <2>8, <2>9, <2>10, <2>11,
       <2>12, <2>13 DEF Next, SessionStep
<1>3. QED
  BY <1>1, <1>2, PTL DEF Spec

(***************************************************************************)
(* Type correctness of the forwarding engine and its managers.            *)
(***************************************************************************)
THEOREM TypeCorrect == Spec => []TypeOK
BY IInvInductive, PTL DEF IInv

(***************************************************************************)
(* Migration-before-routing (handle_umctl_setdb, migration_manager.update *)
(* before db.set_dbs): the routing store is never ahead of the migration  *)
(* manager, and at equal epochs its migration ranges are the manager's.   *)
(***************************************************************************)
THEOREM MigrationCoversRoutingHolds == Spec => []MigrationCoversRouting
BY IInvInductive, PTL DEF IInv


(***************************************************************************)
(* Why QuiescentRoutingMatchesMigration holds.  The routing store lags    *)
(* the migration manager only while a SETDB is between its two steps:     *)
(* either both hold the same epoch, or some session is about to hand      *)
(* db.set_dbs the very map migration_manager.update installed.  The       *)
(* second disjunct needs IInv: when that session's set_dbs runs, the      *)
(* routing epoch is at most the manager's, so set_dbs installs the map or *)
(* finds the routing store already at the manager's epoch.                *)
(***************************************************************************)
RoutingCatchingUp ==
    \/ routing.epoch = migEpoch
    \/ \E s \in Sessions : pc[s] = "SetDbRouting" /\ pendingMap[s].epoch = migEpoch

\* A step that touches neither store epoch nor pending map, and takes no
\* session out of the middle of a SETDB.
KeepsSetDbs ==
    /\ UNCHANGED << routing, migEpoch, pendingMap >>
    /\ \A t \in Sessions : pc[t] = "SetDbRouting" => pc'[t] = "SetDbRouting"

LEMMA KeepsSetDbsKeepsCatchingUp ==
    ASSUME RoutingCatchingUp, KeepsSetDbs
    PROVE  RoutingCatchingUp'
BY DEF RoutingCatchingUp, KeepsSetDbs

\* A step of session s that leaves every other session where it is and s
\* outside SETDB.
LEMMA OtherSessionsKeepSetDbs ==
    ASSUME TypeOK, NEW s \in Sessions, NEW x, x # "SetDbRouting",
           pc[s] # "SetDbRouting",
           pc' = [pc EXCEPT ![s] = x] \/ pc' = pc,
           UNCHANGED << routing, migEpoch, pendingMap >>
    PROVE  KeepsSetDbs
BY DEF KeepsSetDbs, TypeOK

LEMMA CatchingUpStep ==
    ASSUME IInv, RoutingCatchingUp, [Next]_vars
    PROVE  RoutingCatchingUp'
<1> USE DEF IInv
<1>1. ASSUME NEW s \in Sessions, NEW r, Replied(s, r) PROVE KeepsSetDbs
  BY <1>1 DEF Replied, KeepsSetDbs, managerVars, sessionVars
<1>2. ASSUME NEW s \in Sessions,
             \/ HandleStatic(s) \/ HandleRead(s) \/ SetDbInvalid(s)
             \/ HandleSetPeer(s) \/ HandleSetRepl(s) \/ HandleTmpSwitch(s)
      PROVE  KeepsSetDbs
  <2>1. CASE HandleStatic(s) \/ HandleRead(s) \/ SetDbInvalid(s)
    BY <2>1, <1>1 DEF HandleStatic, HandleRead, SetDbInvalid
  <2>2. CASE HandleSetPeer(s) \/ HandleSetRepl(s)
    BY <2>2, <1>1 DEF HandleSetPeer, HandleSetRepl, KeepsSetDbs, sessionVars
  <2>3. CASE HandleTmpSwitch(s)
    BY <2>3, <1>1 DEF HandleTmpSwitch, KeepsSetDbs, sessionVars
  <2> QED
    BY <1>2, <2>1, <2>2, <2>3
<1>3. ASSUME NEW s \in Sessions, HandleClearDb(s) PROVE RoutingCatchingUp'
  <2>1. routing'.epoch = routing.epoch
    BY <1>3 DEF HandleClearDb, TypeOK
  <2> QED
    BY <1>3, <2>1 DEF HandleClearDb, RoutingCatchingUp, sessionVars
<1>4. ASSUME NEW s \in Sessions, DataMigrationSend(s) \/ DataRoutingSend(s)
      PROVE  KeepsSetDbs
  <2>1. pc[s] \in {"Idle", "DataRouting"}
    BY <1>4 DEF DataMigrationSend, DataRoutingSend
  <2>2. CASE DataRoutingSend(s)
    BY <2>1, <2>2, OtherSessionsKeepSetDbs DEF DataRoutingSend, managerVars
  <2>3. CASE DataMigrationSend(s)
    <3>1. PICK k \in Slots :
            \/ /\ pc' = [pc EXCEPT ![s] = "DataRouting"]
               /\ UNCHANGED << managerVars, pendingMap >>
            \/ /\ \E r \in {OverlayRoute(k), "Dropped"} : Replied(s, r)
      BY <2>3 DEF DataMigrationSend
    <3> QED
      BY <2>1, <3>1, <1>1, OtherSessionsKeepSetDbs DEF managerVars
  <2> QED
    BY <1>4, <2>2, <2>3
<1>5. ASSUME NEW s \in Sessions, SetDbMigration(s) PROVE RoutingCatchingUp'
  <2>1. PICK m \in HostDBMaps :
          \/ /\ migEpoch' = m.epoch
             /\ pc' = [pc EXCEPT ![s] = "SetDbRouting"]
             /\ pendingMap' = [pendingMap EXCEPT ![s] = m]
          \/ Replied(s, "OldEpoch")
    BY <1>5 DEF SetDbMigration
  <2>2. CASE /\ migEpoch' = m.epoch
             /\ pc' = [pc EXCEPT ![s] = "SetDbRouting"]
             /\ pendingMap' = [pendingMap EXCEPT ![s] = m]
    <3>1. pc'[s] = "SetDbRouting" /\ pendingMap'[s].epoch = migEpoch'
      BY <2>2 DEF TypeOK
    <3> QED
      BY <3>1 DEF RoutingCatchingUp
  <2>3. CASE Replied(s, "OldEpoch")
    BY <2>3, <1>1, KeepsSetDbsKeepsCatchingUp
  <2> QED
    BY <2>1, <2>2, <2>3
<1>6. ASSUME NEW s \in Sessions, SetDbRouting(s) PROVE RoutingCatchingUp'
  <2> DEFINE m == pendingMap[s]
  <2>1. /\ m \in HostDBMaps
        /\ m.epoch <= migEpoch
        /\ routing.epoch <= migEpoch
        /\ m.epoch \in Nat /\ routing.epoch \in Nat /\ migEpoch \in Nat
    BY <1>6 DEF SetDbRouting, PendingMapsInstalled, MigrationCoversRouting,
                TypeOK, HostDBMaps, Epochs
  <2>2. UNCHANGED migEpoch
    BY <1>6 DEF SetDbRouting
  <2>3. CASE \E t \in Sessions : t # s /\ pc[t] = "SetDbRouting"
                                 /\ pendingMap[t].epoch = migEpoch
    <3>1. PICK t \in Sessions : t # s /\ pc[t] = "SetDbRouting"
                                /\ pendingMap[t].epoch = migEpoch
      BY <2>3
    <3>2. pc'[t] = "SetDbRouting" /\ pendingMap'[t] = pendingMap[t]
      BY <1>6, <3>1 DEF SetDbRouting, TypeOK
    <3> QED
      BY <2>2, <3>1, <3>2 DEF RoutingCatchingUp
  <2>4. CASE routing.epoch = migEpoch \/ m.epoch = migEpoch
    <3>1. CASE m.epoch > routing.epoch
      <4>1. routing' = m /\ m.epoch = migEpoch
        BY <1>6, <2>1, <2>4, <3>1 DEF SetDbRouting
      <4> QED
        BY <2>2, <4>1 DEF RoutingCatchingUp
    <3>2. CASE m.epoch <= routing.epoch
      <4>1. routing' = routing /\ routing.epoch = migEpoch
        BY <1>6, <2>1, <2>4, <3>2 DEF SetDbRouting
      <4> QED
        BY <2>2, <4>1 DEF RoutingCatchingUp
    <3> QED
      BY <2>1, <3>1, <3>2
  <2> QED
    BY <2>3, <2>4 DEF RoutingCatchingUp
<1>7. ASSUME NEW k \in Slots, TaskStep(k) PROVE KeepsSetDbs
  BY <1>7 DEF TaskStep, MigrationTaskPreCheck, MigrationTaskFail,
              MigrationTaskSwitch, MigrationTaskCommit, KeepsSetDbs, sessionVars
<1>8. CASE UNCHANGED vars
  BY <1>8 DEF vars, RoutingCatchingUp
<1> QED
  BY <1>2, <1>3, <1>4, <1>5, <1>6, <1>7, <1>8, KeepsSetDbsKeepsCatchingUp
     DEF Next, SessionStep

(***************************************************************************)
(* Routing catches up (handle_umctl_setdb): whenever no SETDB is between  *)
(* migration_manager.update and db.set_dbs, the routing store holds the   *)
(* epoch of the last map the migration manager accepted, however the      *)
(* SETDBs of several sessions interleave.                                  *)
(***************************************************************************)
THEOREM QuiescentRoutingMatchesMigrationHolds ==
    Spec => []QuiescentRoutingMatchesMigration
<1>1. Init => RoutingCatchingUp
  BY DEF Init, RoutingCatchingUp, NoMap
<1>2. IInv /\ RoutingCatchingUp /\ [Next]_vars => RoutingCatchingUp'
  BY CatchingUpStep
<1>3. RoutingCatchingUp => QuiescentRoutingMatchesMigration
  BY DEF RoutingCatchingUp, QuiescentRoutingMatchesMigration
<1> QED
  BY <1>1, <1>2, <1>3, IInvInductive, PTL DEF Spec

=============================================================================
