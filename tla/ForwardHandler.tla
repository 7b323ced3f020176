--------------------------- MODULE ForwardHandler ---------------------------
(***************************************************************************)
(* The proxy's command forwarding engine: ForwardHandler::handle_cmd_ctx  *)
(* (src/src/proxy/executor.rs) shared by every client session, together   *)
(* with the three managers it calls: the epoch-guarded routing store      *)
(* (DatabaseMap), the migration manager and the replicator manager.       *)
(*                                                                         *)
(* Each manager method runs under the manager's own lock, so it is one    *)
(* atomic step.  A handler that calls two managers is two steps, and the  *)
(* steps of other sessions and of migration tasks may run between them:   *)
(*   - UMCTL SETDB calls migration_manager.update, then db.set_dbs;        *)
(*   - a data command calls migration_manager.send, then, on              *)
(*     SlotNotFound, db.send.                                              *)
(*                                                                         *)
(* Data is abstracted to what the properties tell apart: one database,    *)
(* a small set of slots, and for each slot the tag this proxy's map gives *)
(* it.  Replies are abstracted to their kind.                              *)
(***************************************************************************)
EXTENDS Naturals

CONSTANTS
    Sessions,   \* the client sessions sharing the handler
    Slots,      \* the slots a key can hash to
    MaxEpoch,   \* the largest epoch the coordinator mints in a run
    NoSlot      \* marks a session with no data command in flight

ASSUME ConstantsAssumption ==
    /\ MaxEpoch \in Nat
    /\ NoSlot \notin Slots

VARIABLES
    routing,      \* DatabaseMap local dbs: [epoch, slots |-> tag per slot]
    peers,        \* DatabaseMap peer map: [epoch, present]
    replEpoch,    \* ReplicatorManager: epoch of the installed ReplicatorMeta
    migEpoch,     \* MigrationManager: epoch of the installed map
    migMap,       \* MigrationManager: the slot tags of the installed map
    task,         \* MigrationManager: state of the task of each slot
    pc,           \* where each session is inside handle_cmd_ctx
    pendingMap,   \* the HostDBMap a session's SETDB is installing
    pendingSlot,  \* the slot of a session's data command in flight
    reply         \* the last reply each session received

vars == << routing, peers, replEpoch, migEpoch, migMap, task,
           pc, pendingMap, pendingSlot, reply >>

-----------------------------------------------------------------------------
(* Data model.                                                             *)

Epochs == 1..MaxEpoch

\* SlotRange tags as this proxy sees them; "None": the slot is not here.
Tags == {"Stable", "Importing", "Migrating", "None"}

\* MigrationTask states, plus "NoTask" for a slot with no task.
TaskStates == {"PreCheck", "Importing", "Committing", "Done", "Failed"}

\* A HostDBMap restricted to this proxy and one database.
HostDBMaps == [epoch : Epochs, slots : [Slots -> Tags]]

NoneSlots == [k \in Slots |-> "None"]

NoMap == [epoch |-> 0, slots |-> NoneSlots]

Replies == {"NoReply", "OK", "Err", "OldEpoch", "InvalidArgs", "Bulk",
            "Local", "ToSource", "ToDest", "Dropped"}

PCs == {"Idle", "SetDbRouting", "DataRouting"}

\* Replies of the commands that touch no manager (handle_cmd_ctx and the
\* early returns of get_sub_command): PING, QUIT, SELECT -> OK; INFO, ECHO
\* -> a bulk or the request; AUTH -> OK or an error; Invalid, CLUSTER
\* <other>, UMCTL <other>, a missing or non-UTF8 sub command -> an error.
StaticReplies == {"OK", "Bulk", "Err"}

-----------------------------------------------------------------------------
(* The managers' operations (their code is not under src/; modelled from  *)
(* the specification of DatabaseMap, MigrationManager, ReplicatorManager). *)

\* MigrationManager::update: new Importing/Migrating ranges get a task in
\* PreCheck, unchanged ranges keep theirs, ranges no longer present retire.
MigrationTasksFor(m) ==
    [k \in Slots |->
        IF m.slots[k] \notin {"Importing", "Migrating"} THEN "NoTask"
        ELSE IF m.slots[k] = migMap[k] THEN task[k]
        ELSE "PreCheck"]

\* MigrationManager::send: where the migration overlay sends a command for
\* slot k, or "NotFound" (DBSendError::SlotNotFound) when it does not.
OverlayRoute(k) ==
    CASE migMap[k] = "Importing" /\ task[k] \in {"Committing", "Done"} -> "Local"
      [] migMap[k] = "Importing" /\ task[k] \in {"PreCheck", "Importing"} -> "ToSource"
      [] migMap[k] = "Migrating" /\ task[k] = "Importing" -> "ToDest"
      [] OTHER -> "NotFound"

\* DatabaseMap::send: the backend owning the slot serves it, or the routing
\* store replies an error when the slot is not in the map.
RoutingReply(k) == IF routing.slots[k] = "None" THEN "Err" ELSE "Local"

-----------------------------------------------------------------------------
Init ==
    /\ routing = NoMap
    /\ peers = [epoch |-> 0, present |-> FALSE]
    /\ replEpoch = 0
    /\ migEpoch = 0
    /\ migMap = NoneSlots
    /\ task = [k \in Slots |-> "NoTask"]
    /\ pc = [s \in Sessions |-> "Idle"]
    /\ pendingMap = [s \in Sessions |-> NoMap]
    /\ pendingSlot = [s \in Sessions |-> NoSlot]
    /\ reply = [s \in Sessions |-> "NoReply"]

managerVars == << routing, peers, replEpoch, migEpoch, migMap, task >>

sessionVars == << pc, pendingMap, pendingSlot >>

\* A command handled in one step that changes only the session's reply.
Replied(s, r) ==
    /\ reply' = [reply EXCEPT ![s] = r]
    /\ UNCHANGED << managerVars, sessionVars >>

\* PING, INFO, QUIT, ECHO, SELECT, AUTH, Invalid, CLUSTER <other>,
\* UMCTL <other> and the sub command errors.
HandleStatic(s) ==
    /\ pc[s] = "Idle"
    /\ \E r \in StaticReplies : Replied(s, r)

\* UMCTL LISTDB, INFOREPL, INFOMGR and CLUSTER NODES read a manager and
\* reply; CLUSTER SLOTS replies an error when the database is absent.
HandleRead(s) ==
    /\ pc[s] = "Idle"
    /\ \/ Replied(s, "Bulk")
       \/ /\ \A k \in Slots : routing.slots[k] = "None"
          /\ Replied(s, "Err")

\* Mutant: clear() also resets the routing store's epoch.
HandleClearDbResetEpoch(s) ==
    /\ pc[s] = "Idle"
    /\ routing' = NoMap
    /\ peers' = [peers EXCEPT !.present = FALSE]
    /\ reply' = [reply EXCEPT ![s] = "OK"]
    /\ UNCHANGED << replEpoch, migEpoch, migMap, task, sessionVars >>

\* UMCTL CLEARDB: db.clear() drops the databases and the peers; the
\* migration and replicator managers are left as they are.
HandleClearDb(s) ==
    /\ pc[s] = "Idle"
    /\ routing' = [routing EXCEPT !.slots = NoneSlots]
    /\ peers' = [peers EXCEPT !.present = FALSE]
    /\ reply' = [reply EXCEPT ![s] = "OK"]
    /\ UNCHANGED << replEpoch, migEpoch, migMap, task, sessionVars >>

\* UMCTL SETDB whose payload does not parse: "Invalid arguments".
SetDbInvalid(s) ==
    /\ pc[s] = "Idle"
    /\ Replied(s, "InvalidArgs")

\* Mutant: the migration manager's epoch gate admits an equal epoch.
SetDbMigrationEqualEpoch(s) ==
    /\ pc[s] = "Idle"
    /\ \E m \in HostDBMaps :
        \/ /\ m.epoch >= migEpoch
           /\ migEpoch' = m.epoch
           /\ migMap' = m.slots
           /\ task' = MigrationTasksFor(m)
           /\ pc' = [pc EXCEPT ![s] = "SetDbRouting"]
           /\ pendingMap' = [pendingMap EXCEPT ![s] = m]
           /\ UNCHANGED << routing, peers, replEpoch, pendingSlot, reply >>
        \/ /\ m.epoch < migEpoch
           /\ Replied(s, "OldEpoch")

\* UMCTL SETDB, first step: migration_manager.update(db_map).  On success
\* the session goes on to db.set_dbs; on OldEpoch it replies at once.
SetDbMigration(s) ==
    /\ pc[s] = "Idle"
    /\ \E m \in HostDBMaps :
        \/ /\ m.epoch > migEpoch
           /\ migEpoch' = m.epoch
           /\ migMap' = m.slots
           /\ task' = MigrationTasksFor(m)
           /\ pc' = [pc EXCEPT ![s] = "SetDbRouting"]
           /\ pendingMap' = [pendingMap EXCEPT ![s] = m]
           /\ UNCHANGED << routing, peers, replEpoch, pendingSlot, reply >>
        \/ /\ m.epoch <= migEpoch
           /\ Replied(s, "OldEpoch")

\* UMCTL SETDB, second step: db.set_dbs(db_map), then the reply.
SetDbRouting(s) ==
    /\ pc[s] = "SetDbRouting"
    /\ LET m == pendingMap[s] IN
        \/ /\ m.epoch > routing.epoch
           /\ routing' = m
           /\ reply' = [reply EXCEPT ![s] = "OK"]
        \/ /\ m.epoch <= routing.epoch
           /\ reply' = [reply EXCEPT ![s] = "OldEpoch"]
           /\ UNCHANGED routing
    /\ pc' = [pc EXCEPT ![s] = "Idle"]
    /\ pendingMap' = [pendingMap EXCEPT ![s] = NoMap]
    /\ UNCHANGED << peers, replEpoch, migEpoch, migMap, task, pendingSlot >>

\* UMCTL SETPEER: db.set_peers(db_map), epoch-gated; or a parse error.
HandleSetPeer(s) ==
    /\ pc[s] = "Idle"
    /\ \/ Replied(s, "InvalidArgs")
       \/ \E e \in Epochs :
           \/ /\ e > peers.epoch
              /\ peers' = [epoch |-> e, present |-> TRUE]
              /\ reply' = [reply EXCEPT ![s] = "OK"]
              /\ UNCHANGED << routing, replEpoch, migEpoch, migMap, task, sessionVars >>
           \/ /\ e <= peers.epoch
              /\ Replied(s, "OldEpoch")

\* UMCTL SETREPL: replicator_manager.update_replicators(meta), epoch-gated;
\* or a parse error.
HandleSetRepl(s) ==
    /\ pc[s] = "Idle"
    /\ \/ Replied(s, "InvalidArgs")
       \/ \E e \in Epochs :
           \/ /\ e > replEpoch
              /\ replEpoch' = e
              /\ reply' = [reply EXCEPT ![s] = "OK"]
              /\ UNCHANGED << routing, peers, migEpoch, migMap, task, sessionVars >>
           \/ /\ e <= replEpoch
              /\ Replied(s, "OldEpoch")

\* UMCTL TMPSWITCH: migration_manager.commit_importing(cmd_ctx) moves the
\* importing task of the slot to Committing, or replies an error.
HandleTmpSwitch(s) ==
    /\ pc[s] = "Idle"
    /\ \E k \in Slots :
        \/ /\ migMap[k] = "Importing"
           /\ task[k] = "Importing"
           /\ task' = [task EXCEPT ![k] = "Committing"]
           /\ reply' = [reply EXCEPT ![s] = "OK"]
           /\ UNCHANGED << routing, peers, replEpoch, migEpoch, migMap, sessionVars >>
        \/ /\ ~(migMap[k] = "Importing" /\ task[k] = "Importing")
           /\ Replied(s, "Err")

\* A data command (CmdType::Others), first step: migration_manager.send.
\* The overlay forwards it (or the send fails and the command is dropped
\* without a reply), or returns SlotNotFound and the session goes on.
DataMigrationSend(s) ==
    /\ pc[s] = "Idle"
    /\ \E k \in Slots :
        \/ /\ OverlayRoute(k) = "NotFound"
           /\ pc' = [pc EXCEPT ![s] = "DataRouting"]
           /\ pendingSlot' = [pendingSlot EXCEPT ![s] = k]
           /\ UNCHANGED << managerVars, pendingMap, reply >>
        \/ /\ OverlayRoute(k) # "NotFound"
           /\ \E r \in {OverlayRoute(k), "Dropped"} : Replied(s, r)

\* A data command, second step: db.send(cmd_ctx).
DataRoutingSend(s) ==
    /\ pc[s] = "DataRouting"
    /\ reply' = [reply EXCEPT ![s] = RoutingReply(pendingSlot[s])]
    /\ pc' = [pc EXCEPT ![s] = "Idle"]
    /\ pendingSlot' = [pendingSlot EXCEPT ![s] = NoSlot]
    /\ UNCHANGED << managerVars, pendingMap >>

-----------------------------------------------------------------------------
(* The migration tasks' own steps, driven by their retry loops.            *)

\* PreCheck -> Importing: source and destination reachable.
MigrationTaskPreCheck(k) ==
    /\ task[k] = "PreCheck"
    /\ task' = [task EXCEPT ![k] = "Importing"]
    /\ UNCHANGED << routing, peers, replEpoch, migEpoch, migMap >>
    /\ UNCHANGED << sessionVars, reply >>

\* PreCheck -> Failed (pre-check timeout); Importing -> Failed (fatal error).
MigrationTaskFail(k) ==
    /\ task[k] \in {"PreCheck", "Importing"}
    /\ task' = [task EXCEPT ![k] = "Failed"]
    /\ UNCHANGED << routing, peers, replEpoch, migEpoch, migMap >>
    /\ UNCHANGED << sessionVars, reply >>

\* The migrating side switches over once the destination has caught up.
MigrationTaskSwitch(k) ==
    /\ migMap[k] = "Migrating"
    /\ task[k] = "Importing"
    /\ task' = [task EXCEPT ![k] = "Committing"]
    /\ UNCHANGED << routing, peers, replEpoch, migEpoch, migMap >>
    /\ UNCHANGED << sessionVars, reply >>

\* Committing -> Done: commit_migration answered 2xx or 404.
MigrationTaskCommit(k) ==
    /\ task[k] = "Committing"
    /\ task' = [task EXCEPT ![k] = "Done"]
    /\ UNCHANGED << routing, peers, replEpoch, migEpoch, migMap >>
    /\ UNCHANGED << sessionVars, reply >>

-----------------------------------------------------------------------------
SessionStep(s) ==
    \/ HandleStatic(s)
    \/ HandleRead(s)
    \/ HandleClearDb(s)
    \/ SetDbInvalid(s)
    \/ SetDbMigration(s)
    \/ SetDbRouting(s)
    \/ HandleSetPeer(s)
    \/ HandleSetRepl(s)
    \/ HandleTmpSwitch(s)
    \/ DataMigrationSend(s)
    \/ DataRoutingSend(s)

TaskStep(k) ==
    \/ MigrationTaskPreCheck(k)
    \/ MigrationTaskFail(k)
    \/ MigrationTaskSwitch(k)
    \/ MigrationTaskCommit(k)

Next ==
    \/ \E s \in Sessions : SessionStep(s)
    \/ \E k \in Slots : TaskStep(k)

Spec == Init /\ [][Next]_vars

-----------------------------------------------------------------------------
(* Properties.                                                             *)

TypeOK ==
    /\ routing \in [epoch : 0..MaxEpoch, slots : [Slots -> Tags]]
    /\ peers \in [epoch : 0..MaxEpoch, present : BOOLEAN]
    /\ replEpoch \in 0..MaxEpoch
    /\ migEpoch \in 0..MaxEpoch
    /\ migMap \in [Slots -> Tags]
    /\ task \in [Slots -> TaskStates \cup {"NoTask"}]
    /\ pc \in [Sessions -> PCs]
    /\ pendingMap \in [Sessions -> HostDBMaps \cup {NoMap}]
    /\ pendingSlot \in [Sessions -> Slots \cup {NoSlot}]
    /\ reply \in [Sessions -> Replies]

\* Migration-before-routing (executor.rs handle_umctl_setdb): the routing
\* store never holds a map newer than the migration manager's, and when
\* both hold the same epoch every Importing or Migrating slot of the
\* routing map is a migration range of the migration manager.
MigrationCoversRouting ==
    /\ routing.epoch <= migEpoch
    /\ routing.epoch = migEpoch =>
         \A k \in Slots :
            routing.slots[k] \in {"Importing", "Migrating"} =>
                migMap[k] = routing.slots[k]

\* When no SETDB is half done, the routing store has caught up with the
\* migration manager: the last map migration_manager.update accepted is
\* the one db.set_dbs installed.
QuiescentRoutingMatchesMigration ==
    (\A s \in Sessions : pc[s] # "SetDbRouting") => routing.epoch = migEpoch

\* CLEARDB resets the proxy's routing (spec 4.K): once the routing store
\* holds no slot and no SETDB is half done, no data command is still
\* forwarded or served by the migration overlay of the maps CLEARDB was
\* meant to drop.
ClearedProxyServesNothing ==
    ( /\ \A s \in Sessions : pc[s] # "SetDbRouting"
      /\ routing.slots = NoneSlots )
    => \A k \in Slots : OverlayRoute(k) = "NotFound"

\* The claim of the comment in handle_umctl_setdb: a data command for a
\* slot the routing map marks Importing is never served directly by the
\* routing store while the import is still in progress (the overlay would
\* have sent it to the source).
ImportingNeverServedDirectly ==
    [][\A s \in Sessions :
         (/\ pc[s] = "DataRouting"
          /\ pc'[s] = "Idle"
          /\ routing.slots[pendingSlot[s]] = "Importing")
         => task[pendingSlot[s]] \notin {"PreCheck", "Importing"}]_vars

=============================================================================
