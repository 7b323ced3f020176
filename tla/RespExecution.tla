--------------------------- MODULE RespExecution ---------------------------
(***************************************************************************)
(* The retry-send primitive and the I64 retriever of                     *)
(* src/src/common/resp_execution.rs.                                       *)
(*                                                                         *)
(* keep_connecting_and_sending loops forever: create a client, then run   *)
(* keep_sending_cmd on it; an error other than Done from the inner loop   *)
(* is logged and the outer loop creates a new client; Done ends it.       *)
(* keep_sending_cmd loops forever: each iteration joins the execute       *)
(* future (whose reply goes through the predicate handle_result) with a   *)
(* Delay of one interval; the join fails as soon as either side fails.    *)
(*                                                                         *)
(* I64Retriever::new selects this loop against the receiver of a oneshot  *)
(* stop channel whose sender sits in an AtomicOption; try_stop takes the  *)
(* sender and sends on it.  The driven future is one task: a poll first   *)
(* looks at the receiver and, finding it empty, advances the loop by one  *)
(* event; a send from another thread may land between the two.           *)
(***************************************************************************)
EXTENDS Naturals, FiniteSets

CONSTANTS
    Stoppers,    \* threads that call stop()/try_stop(), Drop among them
    Values,      \* the values the predicate may store into the i64 cell
    InitData,    \* init_data of I64Retriever::new
    MaxClients,  \* bound on create_client calls in a run
    MaxSends     \* bound on execute calls in a run

ASSUME ConstantsAssumption ==
    /\ InitData \in Values
    /\ MaxClients \in Nat
    /\ MaxSends \in Nat

VARIABLES
    loopPc,      \* the driven future: "Connect", "Iterate" or "Finished"
    execState,   \* the execute half of the join: "Pending" or "Replied"
    delayDone,   \* the Delay half of the join has fired
    clients,     \* create_client calls so far
    client,      \* the client the inner loop holds (0: none)
    failedClient,\* the last client whose execute failed (0: none)
    sends,       \* execute calls so far
    data,        \* the AtomicI64 cell
    verdict,     \* the last outcome of an execute and its predicate
    outcome,     \* what the driven future resolved to
    sinceDelay,  \* a Delay has fired since the last execute was sent
    polling,     \* a poll found the receiver empty and is in the sending loop
    lateStores,  \* history: predicate stores made after a stop was sent
    stopSignal,  \* the AtomicOption: "Held" (Some(sender)) or "Taken"
    channel,     \* the oneshot: "Empty" or "Sent"
    stopperPc,   \* each stopper: "Idle", "HasSender" or "Returned"
    stopResult   \* what each stopper's try_stop returned, once it returned

vars == << loopPc, execState, delayDone, clients, client, failedClient,
           sends, data, verdict, outcome, sinceDelay, polling, lateStores,
           stopSignal, channel, stopperPc, stopResult >>

loopVars == << loopPc, execState, delayDone, clients, client, failedClient,
               sends, data, verdict, outcome, sinceDelay, polling, lateStores >>

stopVars == << stopSignal, channel, stopperPc, stopResult >>

\* What the predicate handle_result makes of a reply: Ok(()) to go on,
\* Err(Done) to stop, or another error.
Verdicts == {"Continue", "Done", "Fatal"}

-----------------------------------------------------------------------------
Init ==
    /\ loopPc = "Connect"
    /\ execState = "Replied"
    /\ delayDone = FALSE
    /\ clients = 0
    /\ client = 0
    /\ failedClient = 0
    /\ sends = 0
    /\ data = InitData
    /\ verdict = "None"
    /\ outcome = "Pending"
    /\ sinceDelay = TRUE
    /\ polling = FALSE
    /\ lateStores = 0
    /\ stopSignal = "Held"
    /\ channel = "Empty"
    /\ stopperPc = [t \in Stoppers |-> "Idle"]
    /\ stopResult = [t \in Stoppers |-> FALSE]

\* keep_sending_cmd starts an iteration: execute on the held client, joined
\* with a fresh Delay.
StartIteration ==
    /\ sends < MaxSends
    /\ sends' = sends + 1
    /\ execState' = "Pending"
    /\ delayDone' = FALSE
    /\ sinceDelay' = FALSE

\* Mutant: a poll goes into the sending loop without looking at the
\* receiver.
PollReceiverSkipped ==
    /\ loopPc \in {"Connect", "Iterate"}
    /\ ~polling
    /\ polling' = TRUE
    /\ UNCHANGED << loopPc, execState, delayDone, clients, client, failedClient,
                    sends, data, verdict, outcome, sinceDelay, lateStores, stopVars >>

\* A poll of the driven future begins: the select polls the receiver
\* first and finds no stop on it, so it goes on to poll the sending loop.
PollReceiver ==
    /\ loopPc \in {"Connect", "Iterate"}
    /\ ~polling
    /\ channel = "Empty"
    /\ polling' = TRUE
    /\ UNCHANGED << loopPc, execState, delayDone, clients, client, failedClient,
                    sends, data, verdict, outcome, sinceDelay, lateStores, stopVars >>

\* The sending loop, polled, advances by one event and the poll ends.
LoopPoll ==
    /\ loopPc \in {"Connect", "Iterate"}
    /\ polling
    /\ polling' = FALSE

\* The sending loop, polled, has nothing ready: the poll returns NotReady.
PollIdle ==
    /\ polling
    /\ polling' = FALSE
    /\ UNCHANGED << loopPc, execState, delayDone, clients, client, failedClient,
                    sends, data, verdict, outcome, sinceDelay, lateStores, stopVars >>

\* A store into the cell by the predicate, counted when a stop is already
\* on the channel.
RecordStore ==
    lateStores' = IF channel = "Sent" THEN lateStores + 1 ELSE lateStores

\* The outer loop: create_client.  On success the inner loop starts its
\* first iteration; on failure the error is logged and the outer loop goes
\* round again at once.
Connect ==
    /\ LoopPoll
    /\ loopPc = "Connect"
    /\ clients < MaxClients
    /\ clients' = clients + 1
    /\ \/ /\ client' = clients + 1
          /\ loopPc' = "Iterate"
          /\ StartIteration
       \/ /\ UNCHANGED << loopPc, client, execState, delayDone, sends, sinceDelay >>
    /\ UNCHANGED << failedClient, data, verdict, outcome, lateStores, stopVars >>

\* Mutant: a failed execute is logged and the loop goes on with the same
\* client, as if the join recovered from the error.
ExecReplyKeepClient ==
    /\ LoopPoll
    /\ loopPc = "Iterate"
    /\ execState = "Pending"
    /\ \/ /\ verdict' = "SendErr"
          /\ execState' = "Replied"
          /\ failedClient' = client
          /\ UNCHANGED << loopPc, client, data, outcome, lateStores >>
       \/ /\ verdict' = "Continue"
          /\ execState' = "Replied"
          /\ \E v \in Values : data' = v
          /\ RecordStore
          /\ UNCHANGED << loopPc, client, failedClient, outcome >>
       \/ /\ verdict' = "Done"
          /\ loopPc' = "Finished"
          /\ outcome' = "Done"
          /\ UNCHANGED << execState, client, failedClient, data, lateStores >>
       \/ /\ verdict' = "Fatal"
          /\ loopPc' = "Connect"
          /\ client' = 0
          /\ UNCHANGED << execState, failedClient, data, outcome, lateStores >>
    /\ UNCHANGED << delayDone, clients, sends, sinceDelay, stopVars >>

\* The execute half of the join completes.  A send error fails the join at
\* once (the Delay is dropped) and the outer loop reconnects.  A reply goes
\* through the predicate, which may store into the cell: Ok(()) lets the
\* join wait for the Delay; Err(Done) ends the future with Done; any other
\* error is logged by keep_connecting_and_sending and it reconnects.
ExecReply ==
    /\ LoopPoll
    /\ loopPc = "Iterate"
    /\ execState = "Pending"
    /\ \/ /\ verdict' = "SendErr"
          /\ loopPc' = "Connect"
          /\ client' = 0
          /\ failedClient' = client
          /\ UNCHANGED << execState, data, outcome, lateStores >>
       \/ /\ verdict' = "Continue"
          /\ execState' = "Replied"
          /\ \E v \in Values : data' = v
          /\ RecordStore
          /\ UNCHANGED << loopPc, client, failedClient, outcome >>
       \/ /\ verdict' = "Done"
          /\ loopPc' = "Finished"
          /\ outcome' = "Done"
          /\ UNCHANGED << execState, client, failedClient, data, lateStores >>
       \/ /\ verdict' = "Fatal"
          /\ loopPc' = "Connect"
          /\ client' = 0
          /\ UNCHANGED << execState, failedClient, data, outcome, lateStores >>
    /\ UNCHANGED << delayDone, clients, sends, sinceDelay, stopVars >>

\* The Delay of the current iteration fires.
DelayFire ==
    /\ LoopPoll
    /\ loopPc = "Iterate"
    /\ ~delayDone
    /\ delayDone' = TRUE
    /\ sinceDelay' = TRUE
    /\ UNCHANGED << loopPc, execState, clients, client, failedClient, sends, data, verdict,
                    outcome, lateStores, stopVars >>

\* Both halves of the join are done: the fold starts the next iteration on
\* the same client.
NextIteration ==
    /\ LoopPoll
    /\ loopPc = "Iterate"
    /\ execState = "Replied"
    /\ delayDone
    /\ StartIteration
    /\ UNCHANGED << loopPc, clients, client, failedClient, data, verdict, outcome,
                    lateStores, stopVars >>

\* Mutant: the select only notices the stop while the loop reconnects.
ObserveStopOnReconnect ==
    /\ loopPc = "Connect"
    /\ ~polling
    /\ channel = "Sent"
    /\ loopPc' = "Finished"
    /\ outcome' = "Ok"
    /\ UNCHANGED << execState, delayDone, clients, client, failedClient, sends, data,
                    verdict, sinceDelay, polling, lateStores, stopVars >>

\* A poll finds the stop on the receiver: the select resolves Ok(()) and
\* the sending loop and its client are dropped.
ObserveStop ==
    /\ loopPc \in {"Connect", "Iterate"}
    /\ ~polling
    /\ channel = "Sent"
    /\ loopPc' = "Finished"
    /\ outcome' = "Ok"
    /\ UNCHANGED << execState, delayDone, clients, client, failedClient, sends, data,
                    verdict, sinceDelay, polling, lateStores, stopVars >>

\* Mutant: try_stop reads the AtomicOption without taking the sender.
StopTakePeek(t) ==
    /\ stopperPc[t] = "Idle"
    /\ \/ /\ stopSignal = "Held"
          /\ stopperPc' = [stopperPc EXCEPT ![t] = "HasSender"]
          /\ UNCHANGED << stopSignal, stopResult >>
       \/ /\ stopSignal = "Taken"
          /\ stopperPc' = [stopperPc EXCEPT ![t] = "Returned"]
          /\ stopResult' = [stopResult EXCEPT ![t] = FALSE]
          /\ UNCHANGED stopSignal
    /\ UNCHANGED << channel, loopVars >>

\* try_stop, first step: stop_signal.take(SeqCst).  None returns false.
StopTake(t) ==
    /\ stopperPc[t] = "Idle"
    /\ \/ /\ stopSignal = "Held"
          /\ stopSignal' = "Taken"
          /\ stopperPc' = [stopperPc EXCEPT ![t] = "HasSender"]
          /\ UNCHANGED stopResult
       \/ /\ stopSignal = "Taken"
          /\ stopperPc' = [stopperPc EXCEPT ![t] = "Returned"]
          /\ stopResult' = [stopResult EXCEPT ![t] = FALSE]
          /\ UNCHANGED stopSignal
    /\ UNCHANGED << channel, loopVars >>

\* Mutant: try_stop returns true once it took the sender, without looking
\* at whether the send reached the receiver.
StopSendIgnoreResult(t) ==
    /\ stopperPc[t] = "HasSender"
    /\ \/ /\ loopPc # "Finished"
          /\ channel' = "Sent"
       \/ /\ loopPc = "Finished"
          /\ UNCHANGED channel
    /\ stopResult' = [stopResult EXCEPT ![t] = TRUE]
    /\ stopperPc' = [stopperPc EXCEPT ![t] = "Returned"]
    /\ UNCHANGED << stopSignal, loopVars >>

\* try_stop, second step: sender.send(()).is_ok(); the send fails when the
\* driven future has finished and dropped the receiver.
StopSend(t) ==
    /\ stopperPc[t] = "HasSender"
    /\ \/ /\ loopPc # "Finished"
          /\ channel' = "Sent"
          /\ stopResult' = [stopResult EXCEPT ![t] = TRUE]
       \/ /\ loopPc = "Finished"
          /\ stopResult' = [stopResult EXCEPT ![t] = FALSE]
          /\ UNCHANGED channel
    /\ stopperPc' = [stopperPc EXCEPT ![t] = "Returned"]
    /\ UNCHANGED << stopSignal, loopVars >>

-----------------------------------------------------------------------------
LoopStep ==
    \/ PollReceiver
    \/ PollIdle
    \/ Connect
    \/ ExecReply
    \/ DelayFire
    \/ NextIteration
    \/ ObserveStop

StopperStep(t) == StopTake(t) \/ StopSend(t)

Next == LoopStep \/ \E t \in Stoppers : StopperStep(t)

\* The runtime polls the driven future whenever it is woken, the Delay
\* fires, an execute completes (the client has timeouts), and a thread
\* inside try_stop finishes its call.
Fairness ==
    /\ WF_vars(LoopStep)
    /\ \A t \in Stoppers : WF_vars(StopSend(t))

Spec == Init /\ [][Next]_vars /\ Fairness

-----------------------------------------------------------------------------
(* Properties.                                                             *)

TypeOK ==
    /\ loopPc \in {"Connect", "Iterate", "Finished"}
    /\ execState \in {"Pending", "Replied"}
    /\ delayDone \in BOOLEAN
    /\ clients \in 0..MaxClients
    /\ client \in 0..MaxClients
    /\ failedClient \in 0..MaxClients
    /\ sends \in 0..MaxSends
    /\ data \in Values
    /\ verdict \in Verdicts \cup {"None", "SendErr"}
    /\ outcome \in {"Pending", "Ok", "Done"}
    /\ sinceDelay \in BOOLEAN
    /\ polling \in BOOLEAN
    /\ lateStores \in Nat
    /\ stopSignal \in {"Held", "Taken"}
    /\ channel \in {"Empty", "Sent"}
    /\ stopperPc \in [Stoppers -> {"Idle", "HasSender", "Returned"}]
    /\ stopResult \in [Stoppers -> BOOLEAN]

\* Stop idempotence (try_stop): however the stoppers interleave, at most
\* one call of try_stop returns true.
StopSucceedsAtMostOnce ==
    \A t1, t2 \in Stoppers :
        stopResult[t1] = TRUE /\ stopResult[t2] = TRUE => t1 = t2

\* A successful stop ends the driven future: once try_stop has returned
\* true, the select resolves on the receiver, whatever the sending loop is
\* doing.
StopEndsTask ==
    (\E t \in Stoppers : stopResult[t] = TRUE) ~> loopPc = "Finished"

\* Retry reconnection (spec 4.A item 2, 8.4): after a send failure the
\* sending loop never runs on the client that failed; keep_connecting_and_sending
\* drops it and the next iteration runs on a client fresh from create_client.
FreshClientAfterFailure ==
    loopPc = "Iterate" => client # failedClient

\* Bounded staleness after a stop (I64Retriever::new, the select at line
\* 127): once a try_stop has returned true, the predicate stores into the
\* i64 cell at most once more.  Only the poll that had found the receiver
\* empty when the stop was sent can still complete an execute; the next
\* poll looks at the receiver first and drops the sending loop.
StaleStoreBounded ==
    lateStores <= 1

\* The spec's failure policy (4.A, 7): a predicate that returns a terminal
\* error other than Done ends the task.
FatalEndsTask ==
    verdict = "Fatal" => loopPc = "Finished"

\* The spec's pacing rule (4.A): every execute after the first is sent only
\* once an interval Delay has elapsed since the previous one.
IntervalPacing ==
    [][sends' > sends => sinceDelay]_vars

\* The spec's cancellation rule (4.A item 3, 7): a task ended by its stop
\* signal completes with the distinguished Done outcome, like one ended by
\* the predicate.
FinishedTaskIsDone ==
    loopPc = "Finished" => outcome = "Done"


\* The retriever's stop contract (spec 4.B, 7, 8.5) as an abstract task:
\* running is the driven future not having resolved, winners the stoppers
\* whose try_stop returned true.
Task == INSTANCE StoppableTask
    WITH running <- loopPc # "Finished",
         winners <- {t \in Stoppers : stopResult[t]}

\* I64Retriever implements StoppableTask: try_stop returns true for one
\* caller at most, and only when its send reaches a receiver the select
\* still polls; the driven future resolves once, and resolves Ok only
\* after such a stop.
StopContractRefined == Task!Spec

=============================================================================
