# TLA+ models of undermoon's proxy core and coordinator loops

This directory holds TLA+ models of undermoon's Rust sources
(`src/src/proxy/executor.rs`, `src/src/common/resp_execution.rs`,
`src/src/coordinator/detector.rs`, `src/src/coordinator/http_mani_broker.rs`).
It also has TLC configurations that model-check the models on small
instances, and TLAPS proofs of every safety invariant of the passing runs
and of three refinements of abstract specifications. `PROJECT.json` records:

- the components;
- the runs;
- the mutants that show each checked property can fail;
- the map from each definition to the source lines it translates;
- the findings;
- the hazards;
- the theorems.

## 1. The system and its parts

The spec (`spec.md`, section 2) names eleven components:

| # | Component | Source | Model |
|---|---|---|---|
| A | Retry-send primitive: `keep_connecting_and_sending`, `keep_sending_cmd` | resp_execution.rs | `RespExecution` |
| B | I64 retriever: `I64Retriever::new`, `try_stop`, `stop`, `Drop` | resp_execution.rs | `RespExecution`; refines `StoppableTask` |
| C | Proxy retriever: `BrokerProxiesRetriever` | detector.rs | `FailureDetector` |
| D | Ping failure checker: `PingFailureDetector::ping`, `check_impl` | detector.rs | `FailureDetector` |
| E | Failure reporter: `BrokerFailureReporter` | detector.rs | `FailureDetector` |
| F | Sequential failure detector (`SeqFailureDetector`) | not under src/ | `FailureDetector`, one round, from the spec; `DetectorRound`, its promise |
| G | HTTP meta-manipulation client: `commit_migration_impl`, `replace_proxy_impl` | http_mani_broker.rs | `MigrationCommit`; `replace_proxy_impl` in `ProxyFailover`, refines `FailoverContract` |
| H | Epoch-guarded routing store (`DatabaseMap`) | not under src/ | `ForwardHandler`, from the spec |
| I | Migration manager | not under src/ | `ForwardHandler`, from the spec |
| J | Replicator manager | not under src/ | `ForwardHandler`, epoch gate only |
| K | Forward handler: `ForwardHandler::handle_cmd_ctx` and the `UMCTL` handlers | executor.rs | `ForwardHandler` |

The components interact along two paths.

**The proxy's command path.** Many client sessions call the handler `K` at the same time.

- A data command first goes to the migration manager `I`. Its overlay serves, forwards or refuses slots under migration. On `SlotNotFound`, the command then goes to the routing store `H`.
- `UMCTL SETDB` first installs the map's migration entries in `I` (`update`), then its routing entries in `H` (`set_dbs`).
- Each manager sits behind its own lock. A SETDB and a data command are therefore two steps each, and other sessions run between them. This is the main concurrency hazard of the proxy.

**The coordinator's loops.**

- `C`, `D` and `E` form one failure-detection round.
- `A` and `B` drive periodic commands against a server and publish an integer observation. A stop handle ends them.

## 2. Modules

### ForwardHandler (K with H, I, J)

State:

- `routing`: the routing store's epoch and slot tags.
- `peers`: the peer map's epoch, and whether a map is installed.
- `replEpoch`: the replicator manager's epoch.
- `migEpoch`, `migMap`: the migration manager's epoch and the map it installed.
- `task`: the state of the migration task, one of PreCheck, Importing, Committing, Done and Failed.
- Per session, the handler's position `pc`:
  - `Idle`;
  - `SetDbRouting`: between `update` and `set_dbs`;
  - `DataRouting`: between the overlay and `db.send`.
- Per session, the map and slot carried across that gap, and the last reply.

A slot's tag is Stable, Importing, Migrating or None. One host's slot map is `[Slots -> Tags]`.

Each handler is one action:

- `HandleStatic` and `HandleRead`: the commands that only reply.
- `HandleClearDb`.
- `SetDbInvalid`, `SetDbMigration` and `SetDbRouting`: the three parts of `handle_umctl_setdb`.
- `HandleSetPeer` and `HandleSetRepl`.
- `HandleTmpSwitch`: `commit_importing`.
- `DataMigrationSend` and `DataRoutingSend`: the two halves of the data path.

The managers are not under src/, so the following are modelled from spec 4.H/4.I and marked spec_modelled in the map:

- the epoch gates;
- `OverlayRoute`: an Importing slot is served locally once the task is Committing or Done, and is otherwise forwarded to the source. A Migrating slot is forwarded to the destination while importing;
- the task steps `MigrationTask*`.

Replies are abstracted to their kind.

The epoch gates of `set_dbs`, `set_peers`, `update_replicators` and `migration_manager.update` are in code that is not under src/. The project therefore states no property of epoch monotonicity on its own. Such a property would only check the gates the model took from the spec. The properties of `ForwardHandler` are about how `executor.rs` orders its calls to the managers.

`ForwardHandlerProofs` holds the proofs.

### RespExecution (A, B)

The driven future is a single task, `loopPc`:

- `Connect`: `create_client`, which may fail.
- `ExecReply`: the execute half of the join completes. It ends in one of four ways:
  - a send error;
  - the predicate's Ok, which stores a value in the cell;
  - the predicate's Done;
  - another predicate error.
- `DelayFire`: the Delay half of the join.
- `NextIteration`: the fold's next round on the same client.
- `ObserveStop`: a poll finds the stop on the receiver, and the select resolves.
- `PollReceiver`, `PollIdle`: a poll of the select looks at the receiver first (line 127). If the receiver is empty, the poll goes on into the sending loop. There it advances the loop by one event, or returns NotReady (`PollIdle`). `polling` marks a poll that is inside the sending loop.

A `try_stop` from another thread may land while a poll is inside the sending loop, after its look at the receiver. So the predicate can store into the cell once after the stop. `lateStores` is a history variable: it counts those stores and is read by no guard.

`failedClient` records the client whose execute failed, so that spec 8.4 can be stated.

Stopper threads run `try_stop` in two steps: `StopTake` (the AtomicOption `take`) and `StopSend` (`sender.send`). That split is where two stoppers, or a stopper and the finishing task, can interleave. `stop()` and `Drop` call `try_stop`, so they are stoppers too. `MaxClients` and `MaxSends` bound the two counters.

### StoppableTask (the promise of B)

The abstract specification of the stop contract (spec 4.A item 3, 4.B, 7, 8.5). It has three variables: `running`, `outcome` and `winners`, the stoppers whose stop returned true.

- `Stop(t)`: a stop returns true. Only the first can, and only while the task runs.
- `End(o)`: the task resolves, once. It resolves with Ok only after a stop returned true, and otherwise with Done.

`RespExecution` instantiates it as `Task` with this mapping:

- `running` is `loopPc # "Finished"`;
- `winners` is the set of stoppers whose `stopResult` is true.

`StopContractRefined` is `Task!Spec`.

### FailureDetector (C, D, E, F)

One round, run by one task, with `pc` ∈ Retrieve, Check, Report, Finished.

- `Retrieve`: the next stream element. It is an address, or a MetaData error that is skipped.
- `Probe`: one iteration of `check_impl`'s loop, `for i in 1..=RETRY` (`ProbeRange`). A failed ping on the last `i` returns `Some(address)`. Any other failed ping `continue`s (`ContinueLoop`). Past the end of the range, that falls through to the `Ok(Some(address))` after the loop (line 69). `failedProbes` is a history variable that counts the failed pings of the current check. `ProbeOutcomes` is what a ping can come to against a live or a dead proxy: a connect failure, an answered PING, or a failed PING. A live proxy can also fail a probe, on a stale connection or a transient error. `PingResult` is `ping`'s mapping of these to `Ok(Some)`, `Ok(None)` and `Err`.
- `Report`: `add_failure`, which may fail.

### DetectorRound (the promise of F)

The abstract round of the sequential detector (spec 4.F, 8.6). It is written from the spec, because `SeqFailureDetector` is not under src/. It walks the broker's list by position.

- `Skip`: a retrieval error at `pos` is logged and skipped.
- `Take`: the address at `pos` is taken to be checked.
- `Pass`: the address passes its check. Only a live proxy can pass.
- `Handle`: the check failed, and the address is handed to the reporter.
- `Finish`: the list has ended.

`FailureDetector` instantiates it with these mappings:

- `pos` is `idx - 1` while an address is checked or reported, and `idx` otherwise;
- `checking` is `pc` ∈ {Check, Report};
- `taken` is `yielded`;
- `handled` is `reported ∪ reportErr`.

`DetectorRoundRefined` is its `Spec`. The `checking` phase is what tells a skipped retrieval error apart from a dead proxy that passed.

### MigrationCommit (G, with the Committing task of I)

- `SendCommit`: the Committing task calls `commit_migration`, and the PUT goes out.
- `BrokerAnswer`: the broker answers. It commits a pending migration with 2xx, answers 404 for one already committed, or fails with 5xx. The broker is not in the repository; this behaviour is from spec 4.G.
- `BrokerAnswerLate`: a request of an abandoned attempt arrives late and commits.
- `NetFail`: `send().await` fails. The request is lost, is still on its way, or its answer is lost.
- `ClientReceive`: the status test at line 79. Ok moves the task to Done; any other status is `InvalidReply`, and the task retries.

`MaxFaults` bounds the faults and the 5xx answers together.

### ProxyFailover (G, `replace_proxy_impl`)

One call of `replace_proxy_impl` per failed proxy in `Failed`. The calls interleave freely, because the failover driver that makes them is not in the repository.

- `SendFailover`: the POST to `/api/proxies/failover/{address}` goes out.
- `BrokerFailover`: the broker fails the proxy over to a host of its free pool (`FreeHosts`) and answers 2xx with that host, or answers an error status. This is from spec 4.G.
- `NetFail`: the request or the answer is lost, and the call returns `InvalidReply`.
- `Receive`: a 2xx body is decoded into the host, or fails to decode and gives `InvalidReply`. Any other status gives `InvalidReply` whether or not its body can be read.

`MaxFaults` bounds lost messages and decoding failures together.

### FailoverContract (the promise of G's failover)

The abstract specification of failing proxies over (spec 4.G, 4.F).

- `Assign(p, h)`: the broker fails `p` over once, to a host that no proxy holds.
- `Return(p, r)`: the call for `p` returns once. It returns `InvalidReply`, or the host `p` was given.

`ProxyFailover` instantiates it with `assigned` and `result` as they are. `FailoverContractRefined` is its `Spec`.

## 3. Runs

| Run | Config | Expect | Properties |
|---|---|---|---|
| forward_setdb | ForwardHandler.cfg | pass | MigrationCoversRouting, QuiescentRoutingMatchesMigration |
| forward_cleardb | ForwardHandlerClearDb.cfg | violation | ClearedProxyServesNothing |
| forward_import_race | ForwardHandlerImportRace.cfg | violation | ImportingNeverServedDirectly |
| resp_stop | RespExecution.cfg | pass | StopSucceedsAtMostOnce, StaleStoreBounded, StopEndsTask, StopContractRefined |
| resp_reconnect | RespExecutionReconnect.cfg | pass | FreshClientAfterFailure |
| resp_fatal | RespExecutionFatalEndsTask.cfg | violation | FatalEndsTask |
| resp_pacing | RespExecutionIntervalPacing.cfg | violation | IntervalPacing |
| resp_stop_outcome | RespExecutionStopOutcome.cfg | violation | FinishedTaskIsDone |
| commit_retry | MigrationCommit.cfg | pass | DoneMeansCommitted, CommitEventuallyDone |
| proxy_failover | ProxyFailover.cfg | pass | ReplaceOkReturnsBrokerHost, FailoverContractRefined |
| detector_round | FailureDetector.cfg | pass | ReportsFollowAllProbesFailing, DeadProxiesReported, DetectorRoundRefined |

### forward_setdb

Two sessions, one slot, epochs 1..3, with symmetry over sessions. About 2.3 million distinct states, about a minute.

- **MigrationCoversRouting** (spec 8.3, "migration before routing").
  - The routing store's epoch never exceeds the migration manager's.
  - At equal epochs, every Importing or Migrating routing slot carries the same tag in the manager's map.
  - Breaking it takes two racing SETDBs, or a rejected set_dbs after an accepted update.
- **QuiescentRoutingMatchesMigration**: when no SETDB is half done, the two epochs are equal.

Why the bounds are enough:

- Slots are routed independently, so one slot exercises every routing case.
- Two sessions are the least number that can race.
- Three epochs allow an old and a new SETDB to race after a first install.

### forward_cleardb

A violation, reported as a **spec gap**. Two sessions, one slot, epochs 1..2.

- **ClearedProxyServesNothing** (spec 4.K): once CLEARDB has emptied the routing store and no SETDB is half done, the migration overlay serves no slot.

The trace:

1. A SETDB marks the slot Importing in the migration manager, with its task in PreCheck.
2. The SETDB installs the same map in the routing store.
3. CLEARDB empties the routing store.

The migration manager still holds the map, so a data command for the slot is still forwarded to the migration source. `UMCTL CLEARDB` (executor.rs:158) calls only `db.clear()`. Spec 4.K says CLEARDB resets the proxy's routing state. It does not say whether the migration manager is part of that state.

### forward_import_race

A violation, reported as a **code bug**.

The trace:

1. A data command passes the overlay (`SlotNotFound`).
2. Another session's SETDB installs the slot as Importing in both managers.
3. The first command is served directly by `db.send` while the import task is still in PreCheck.

The comment in `handle_umctl_setdb` (executor.rs:192-195) says IMPORTING slots are not served directly before the migration succeeds.

### resp_stop

Two stoppers; predicate values {0, 1}; at most 3 clients and 3 sends. Both counters are bounded, so the run checks `CHECK_DEADLOCK FALSE`: a task that reached its bound, or finished, is allowed to stop.

- **StopSucceedsAtMostOnce** (spec 8.5): at most one `try_stop` returns true.
- **StaleStoreBounded** (hazard at resp_execution.rs:121): once a `try_stop` has returned true, the predicate stores into the cell at most once more. Only the poll that was already inside the sending loop when the stop landed can still complete an execute. The next poll looks at the receiver first. TLC reaches the one late store. The mutant lets a poll enter the sending loop without looking at the receiver, and the stores go on after the stop.
- **StopEndsTask**: a stop that returned true always leads to the task's end. This is a liveness property.
- **StopContractRefined** (spec 4.B, 8.5): the retriever implements `StoppableTask`. It is caught when `try_stop` returns true once it has taken the sender, whatever `send` answered. Then a stop that races the task's end claims a success the task never sees.

Three clients and three sends reach a reconnect after a failure and a second iteration on one client.

### resp_reconnect

One stopper; at most 3 clients and 3 sends.

- **FreshClientAfterFailure** (spec 4.A item 2, 8.4): the loop never iterates on the client whose send failed.

The mutant keeps the failed client and lets the join recover from the error, as a fold that swallowed the error would. TLC finds it iterating on that client again.

### resp_fatal, resp_pacing, resp_stop_outcome

Violations, each a **spec/code divergence**:

- `resp_execution.rs:53`: any predicate error other than Done reconnects. The spec says a terminal predicate result ends the task.
- `resp_execution.rs:84`: the join drops the Delay when the send fails. The next execute then goes out with no interval.
- `resp_execution.rs:128`: a task ended by its stop completes with `Ok(())`. The spec says it completes with `Done`.

### commit_retry

`MaxFaults` = 5: enough for late requests to commit behind abandoned attempts, followed by 5xx and lost answers.

- **DoneMeansCommitted**: the task reaches Done only after the broker has committed.
- **CommitEventuallyDone** (spec 4.G, 8.7): once the faults stop, the task retries its way to Done. This is a liveness property.

The two mutants of the status test show why both properties are needed. Dropping the 404 rule makes a retry after a late commit loop forever. Accepting any status lets a 5xx finish the task before the broker has committed.

`CHECK_DEADLOCK FALSE`: a task in Done stops.

### proxy_failover

Three failed proxies, two free hosts, at most two faults. About 800 distinct states.

- **ReplaceOkReturnsBrokerHost** (spec 4.G): a call returns `Ok(host)` only for a failover the broker performed for that proxy, and with the host the broker assigned to it.
- **FailoverContractRefined**: the calls implement `FailoverContract`. Each proxy is failed over at most once, and each call returns once. Its mutant retries the POST after a failed send. After a lost 2xx, the retry fails the proxy over a second time and takes a second host. `replace_proxy_impl` sends its POST once, so an `InvalidReply` leaves open whether the broker acted.

Three proxies and two hosts reach the case where a proxy finds the pool empty. Two faults cover a lost answer after the broker applied a failover, followed by an undecodable 2xx body for another proxy. The mutant maps an undecodable body to a default host, and is caught.

### detector_round

Proxies p1 and p2, listed as ⟨p1, p2, p2⟩. Each proxy is live or dead.

- **ReportsFollowAllProbesFailing** (spec 8.6): a report is sent only after exactly `RETRY` = 3 pings of the check failed. This holds only if the loop's range `1..=RETRY`, its `i == RETRY` guard and the fall-through after the loop agree. The mutant writes the range one short (`1..RETRY`). The loop then falls through after two failed pings, and the mutant is caught.
- **DeadProxiesReported**: at the end of the round, every dead listed proxy has had a report attempted, whatever the broker errors. This needs a failed connect to count as a failed probe, although `ping` returns it as `Ok(Some)` rather than `Err`.
- **DetectorRoundRefined**: the composition implements `DetectorRound`. The addresses are taken in list order, one at a time. A dead proxy never passes. Each failed check ends in one report attempt before the next element is taken. The mutant that takes a failed connect for a healthy answer breaks it.

Every property of a passing run has a mutant in `PROJECT.json`: a plausible bug in a mapped definition that TLC catches.

## 4. Fairness

`ForwardHandler` and `ProxyFailover` have no fairness. Their properties are safety properties only.

`RespExecution` assumes:

- `WF_vars(LoopStep)`: the runtime polls the driven future whenever it is woken. Every event the loop waits on completes:
  - the Delay fires;
  - the client has timeouts;
  - `create_client` returns.
- `WF_vars(StopSend(t))`: a thread inside `try_stop` finishes its call.

`StopTake` is not fair, because nobody has to call `stop`.

`ProxyFailover` has no fairness. Its property is a safety property.

`FailureDetector` assumes `WF_vars(Next)`: each await of the round completes, under the client and HTTP timeouts.

`MigrationCommit` assumes weak fairness of `SendCommit`, `BrokerAnswer` and `ClientReceive`:

- the task keeps retrying;
- a request that reached the broker is answered;
- an answer that arrived is read.

Faults and late requests are not fair. Because faults are bounded, the network eventually stops failing.

## 5. What is proved

`tlapm` checks the proofs. Each theorem holds for every value of the constants allowed by the module's named assumption. An invariant that is not inductive by itself gets a strengthening `IInv`, or a second invariant proved with `IInv` as context.

**ForwardHandlerProofs.** It holds for every set of sessions and slots and every `MaxEpoch` in Nat.

- `IInvInductive` proves `Spec => []IInv`, where:

      IInv == TypeOK /\ PendingMapsInstalled /\ MigrationCoversRouting

  - `MigrationCoversRouting` alone is not inductive. A session between `update` and `set_dbs` carries a map that `set_dbs` is about to install.
  - `PendingMapsInstalled` says that such a map is well typed and its epoch is at most `migEpoch`. At equal epochs it is `migMap`.
  - The proof has one step per action, and under each one step per conjunct the action can disturb.
  - The lemmas `RepliedKeepsIInv` and `TaskStepKeepsIInv` cover the reply-only steps and the task steps.
- `TypeCorrect` and `MigrationCoversRoutingHolds` follow by PTL.
- `QuiescentRoutingMatchesMigrationHolds` rests on a second invariant, `RoutingCatchingUp`:

      routing.epoch = migEpoch
        \/ \E s \in Sessions : pc[s] = "SetDbRouting" /\ pendingMap[s].epoch = migEpoch

  - `CatchingUpStep` proves it is preserved by every step of a state that satisfies `IInv`.
  - `IInv` is needed because, when the witness session's `set_dbs` runs, `routing.epoch <= migEpoch`. So `set_dbs` either installs the manager's epoch or finds it already installed.
  - The lemma `KeepsSetDbsKeepsCatchingUp` covers every step that leaves the store epochs and the sessions inside SETDB alone.

**RespExecutionProofs.** It holds for every set of stoppers and values and every bound on clients and sends.

- The strengthening `OneClaim` says that a stopper claims the sender when its `take` found `Some`, and keeps the claim once its send returned true. At most one stopper claims it, and while one does the AtomicOption is empty. This gives `StopSucceedsAtMostOnceHolds`.
- `ClientsFresh` says that clients are numbered in creation order, that the held and the failed client both exist, and that the one held while iterating is newer than the failed one. This gives `FreshClientAfterFailureHolds`.
- `StaleStoreBoundedHolds` rests on `LateStoresBound`, proved with `IInv` as context:
  - no late store while the channel is empty;
  - none yet while a stop is on the channel and a poll is still inside the sending loop;
  - at most one in all.

  A stop lands with no late store. The poll in progress makes at most one, and leaves the sending loop as it does. No poll enters the loop again, because `PollReceiver` needs an empty channel.
- `StopContractRefinedHolds` proves `Spec => StopContractRefined`.
  - It needs a further invariant, `StopsRecorded`: a stopper has a result only once its call returned, and a stop is on the channel only after some `try_stop` returned true. The lemma `StopsRecordedInvariant` proves it, with `IInv` as context.
  - `LoopStepRefines`: each step of the driven future is a stutter, `End("Done")` (the predicate's Done) or `End("Ok")` (`ObserveStop`). `End("Ok")` needs `StopsRecorded`.
  - `StopperStepRefines`: a take and a failed send are stutters. A successful send is `Stop(t)`. The set of winners was empty before it, because `OneClaim` leaves `t` as the only stopper that can claim the sender, and `StopsRecorded` says that `t` had no result yet.

**FailureDetectorProofs.** It holds for every list of proxies.

- `ReportsFollowAllProbesFailingHolds`: the strengthening `ProbeCount` adds two facts. While probing, `failedProbes = attempt - 1`, and at Report `failedProbes = RETRY`. A `continue` from an `i` below `RETRY` stays in the range, so the fall-through is unreachable.
- `DeadProxiesReportedHolds` rests on `DeadHandled`: each dead yielded proxy is already reported, or is the one being checked or reported. The lemma `DeadProbeFails` states that a dead proxy's probe never comes to `Ok(None)`.
- `DetectorRoundRefinedHolds` needs `CurListed`: while an address is checked or reported, `idx - 1` is a position of the list, and `cur` is the address at it. The lemma `CurListedInvariant` proves it, with `IInv` as context. `NextRefinesRound` reads the steps as follows:
  - a retrieved address is `Take`, a retrieval error is `Skip`, and the stream's end is `Finish`;
  - a healthy probe is `Pass`, because by `DeadProbeFails` the proxy is live;
  - a `continue`, or a move to Report, is a stutter;
  - `Report` is `Handle` at position `idx - 1`.

**MigrationCommitProofs.** `DoneMeansCommittedHolds` holds for every `MaxFaults`. The strengthening adds two facts:

- a 2xx or 404 on its way back was sent by a broker that had committed;
- there are at most as many late requests as faults.

**ProxyFailoverProofs.** `ReplaceOkReturnsBrokerHostHolds` holds for every set of failed proxies and hosts. The strengthening `CallsInOrder` says three things:

- a call's POST reaches the broker at most once;
- the broker has not failed a proxy over before its POST arrived;
- a 2xx on its way back carries the assigned host.

A fourth conjunct says that a call has no result before it finishes. `FailoverContractRefinedHolds` uses it together with `NextRefines`:

- the broker's 2xx failover is `Assign`, because `CallsInOrder` says the proxy had no host while its POST was on its way;
- a lost message, or a received answer, is `Return`, because the call had no result yet;
- everything else is a stutter.

Out of the prover's reach, and checked with TLC only:

- the liveness properties `StopEndsTask` and `CommitEventuallyDone`, which need fairness and ENABLED.

## 6. Not modelled

- **The failover driver** that calls `replace_proxy` is not in the repository. So is what it does with an `InvalidReply` for a failover the broker applied. The model makes one call per failed proxy and does not retry.
- **The session layer, RESP codec, backend senders and broker service**: pure I/O and parsing, mostly outside the sources. Replies are reduced to their kind.
- **Cluster-level slot arithmetic** (`gen_cluster_nodes`, `gen_cluster_slots`): these are reads, modelled as replies.
- **The retry loops that drive migration tasks**: abstracted to single task steps.

## 7. Plan

1. Compose `MigrationCommit` with the task states of `ForwardHandler`, so that the overlay's Committing-to-Done step is driven by the commit.
2. Split `HandleRead` into the CLUSTER reads and the UMCTL reports (`LISTDB`, `INFOREPL`, `INFOMGR`). They read different managers.
3. Liveness of the forwarding engine: under fair sessions, every SETDB completes and the routing store catches up with the migration manager.
4. The failure detector's outer driver: repeated rounds, with a proxy that comes back between rounds.
