------------------------ MODULE RespExecutionProofs ------------------------
(***************************************************************************)
(* Proofs about RespExecution for every set of stoppers and values and    *)
(* every bound on clients and sends.                                       *)
(***************************************************************************)
EXTENDS RespExecution, TLAPS

USE ConstantsAssumption

(***************************************************************************)
(* The stop sender has one owner.  A stopper claims the sender when its   *)
(* stop_signal.take finds Some and keeps the claim once its send returned *)
(* true.  StopSucceedsAtMostOnce alone is not inductive: a stopper that   *)
(* holds the sender and has not sent yet is a success to come, and the    *)
(* AtomicOption must already be empty for every other stopper.            *)
(***************************************************************************)
Claims(t) == stopperPc[t] = "HasSender" \/ stopResult[t] = TRUE

OneClaim ==
    /\ \A t \in Stoppers : Claims(t) => stopSignal = "Taken"
    /\ \A t1, t2 \in Stoppers : Claims(t1) /\ Claims(t2) => t1 = t2

(***************************************************************************)
(* Clients are numbered in the order create_client made them.  The client *)
(* whose execute failed and the client the loop holds were both made      *)
(* already, and the one held while iterating was made after the failed    *)
(* one: only Connect hands the loop a client, always a new one.           *)
(***************************************************************************)
ClientsFresh ==
    /\ client <= clients
    /\ failedClient <= clients
    /\ loopPc = "Iterate" => client > failedClient

IInv ==
    /\ TypeOK
    /\ OneClaim
    /\ ClientsFresh

\* A step of the driven future leaves the stoppers and the cell's owner
\* alone, and none is enabled once the future has finished.
LEMMA LoopStepKeepsIInv ==
    ASSUME IInv, LoopStep
    PROVE  IInv'
<1>2. UNCHANGED stopVars
  BY DEF LoopStep, PollReceiver, PollIdle, Connect, ExecReply, DelayFire,
         NextIteration, ObserveStop
<1>3. OneClaim'
  BY <1>2 DEF stopVars, OneClaim, Claims, IInv
<1>5. TypeOK'
  <2>1. CASE Connect
    <3>1. clients \in Nat /\ clients < MaxClients /\ sends \in Nat
      BY <2>1 DEF Connect, IInv, TypeOK
    <3>5. polling' \in BOOLEAN
      BY <2>1 DEF Connect, LoopPoll
    <3>2. clients' \in 0..MaxClients
      BY <2>1, <3>1 DEF Connect
    <3>3. CASE client' = clients + 1 /\ loopPc' = "Iterate" /\ StartIteration
      <4>1. client' \in 0..MaxClients /\ sends' \in 0..MaxSends
        BY <3>1, <3>3 DEF StartIteration
      <4> QED
        BY <2>1, <3>2, <3>3, <3>5, <4>1 DEF Connect, StartIteration, IInv, TypeOK, stopVars
    <3>4. CASE UNCHANGED << loopPc, client, execState, delayDone, sends, sinceDelay >>
      BY <2>1, <3>2, <3>4, <3>5 DEF Connect, IInv, TypeOK, stopVars
    <3> QED
      BY <2>1, <3>3, <3>4 DEF Connect
  <2>2. CASE ExecReply
    <3>0. lateStores' \in {lateStores, lateStores + 1}
      BY <2>2 DEF ExecReply, RecordStore
    <3>1. lateStores \in Nat
      BY DEF IInv, TypeOK
    <3>2. lateStores' \in Nat
      BY <3>0, <3>1
    <3>3. polling' \in BOOLEAN
      BY <2>2 DEF ExecReply, LoopPoll
    <3> QED
      BY <2>2, <3>2, <3>3 DEF ExecReply, IInv, TypeOK, Verdicts, stopVars
  <2>3. CASE DelayFire
    BY <2>3 DEF DelayFire, LoopPoll, IInv, TypeOK, stopVars
  <2>4. CASE NextIteration
    <3>1. sends \in Nat /\ sends < MaxSends
      BY <2>4 DEF NextIteration, StartIteration, IInv, TypeOK
    <3>2. sends' \in 0..MaxSends
      BY <2>4, <3>1 DEF NextIteration, StartIteration
    <3> QED
      BY <2>4, <3>2 DEF NextIteration, StartIteration, LoopPoll, IInv, TypeOK, stopVars
  <2>5. CASE ObserveStop
    BY <2>5 DEF ObserveStop, IInv, TypeOK, stopVars
  <2>6. CASE PollReceiver \/ PollIdle
    BY <2>6 DEF PollReceiver, PollIdle, IInv, TypeOK, stopVars
  <2> QED
    BY <2>1, <2>2, <2>3, <2>4, <2>5, <2>6 DEF LoopStep
<1>6. ClientsFresh'
  <2>1. clients \in Nat /\ client \in Nat /\ failedClient \in Nat
    BY DEF IInv, TypeOK
  <2>2. ClientsFresh
    BY DEF IInv
  <2>3. CASE Connect
    BY <2>1, <2>2, <2>3 DEF Connect, ClientsFresh
  <2>4. CASE ExecReply
    BY <2>1, <2>2, <2>4 DEF ExecReply, ClientsFresh
  <2>5. CASE DelayFire \/ NextIteration \/ ObserveStop \/ PollReceiver \/ PollIdle
    BY <2>1, <2>2, <2>5 DEF DelayFire, NextIteration, ObserveStop, PollReceiver,
                            PollIdle, ClientsFresh
  <2> QED
    BY <2>3, <2>4, <2>5 DEF LoopStep
<1> QED
  BY <1>3, <1>5, <1>6 DEF IInv

\* try_stop's take: only the stopper that found Some claims the sender.
LEMMA StopTakeKeepsIInv ==
    ASSUME IInv, NEW t \in Stoppers, StopTake(t)
    PROVE  IInv'
<1>1. UNCHANGED loopVars
  BY DEF StopTake
<1>2. ClientsFresh'
  BY <1>1 DEF loopVars, ClientsFresh, IInv
<1>3. CASE stopSignal = "Held"
  <2>1. /\ stopSignal' = "Taken"
        /\ stopperPc' = [stopperPc EXCEPT ![t] = "HasSender"]
        /\ UNCHANGED stopResult
    BY <1>3 DEF StopTake
  <2>2. \A u \in Stoppers : ~Claims(u)
    BY <1>3 DEF IInv, OneClaim
  <2>3. \A u \in Stoppers : Claims(u)' => u = t
    BY <2>1, <2>2 DEF Claims, IInv, TypeOK
  <2>4. OneClaim'
    BY <2>1, <2>3 DEF OneClaim
  <2>5. TypeOK'
    BY <2>1, <1>1 DEF StopTake, IInv, TypeOK, loopVars
  <2> QED
    BY <1>2, <2>4, <2>5 DEF IInv
<1>4. CASE stopSignal = "Taken"
  <2>1. /\ stopSignal' = "Taken"
        /\ stopperPc' = [stopperPc EXCEPT ![t] = "Returned"]
        /\ stopResult' = [stopResult EXCEPT ![t] = FALSE]
        /\ UNCHANGED channel
    BY <1>4 DEF StopTake
  <2>2. \A u \in Stoppers : Claims(u)' => Claims(u)
    BY <2>1 DEF Claims, IInv, TypeOK
  <2>3. OneClaim'
    BY <2>1, <2>2 DEF OneClaim, IInv
  <2>4. TypeOK'
    BY <2>1, <1>1 DEF IInv, TypeOK, loopVars
  <2> QED
    BY <1>2, <2>3, <2>4 DEF IInv
<1> QED
  BY <1>3, <1>4 DEF IInv, TypeOK

\* try_stop's send: the claim of the sender becomes a result, true or false.
LEMMA StopSendKeepsIInv ==
    ASSUME IInv, NEW t \in Stoppers, StopSend(t)
    PROVE  IInv'
<1>1. UNCHANGED << stopSignal, loopVars >>
  BY DEF StopSend
<1>2. ClientsFresh'
  BY <1>1 DEF loopVars, ClientsFresh, IInv
<1>3. /\ stopperPc[t] = "HasSender"
      /\ stopperPc' = [stopperPc EXCEPT ![t] = "Returned"]
      /\ \E b \in BOOLEAN : stopResult' = [stopResult EXCEPT ![t] = b]
      /\ channel' \in {"Empty", "Sent"}
  BY DEF StopSend, IInv, TypeOK
<1>4. \A u \in Stoppers : Claims(u)' => Claims(u)
  BY <1>3 DEF Claims, IInv, TypeOK
<1>5. OneClaim'
  BY <1>1, <1>4 DEF OneClaim, IInv
<1>6. TypeOK'
  BY <1>1, <1>3 DEF IInv, TypeOK, loopVars
<1> QED
  BY <1>2, <1>5, <1>6 DEF IInv

THEOREM IInvInductive == Spec => []IInv
<1>1. Init => IInv
  <2> SUFFICES ASSUME Init PROVE IInv
    OBVIOUS
  <2>1. TypeOK
    <3>1. 0 \in 0..MaxClients /\ 0 \in 0..MaxSends
      OBVIOUS
    <3>2. /\ stopperPc \in [Stoppers -> {"Idle", "HasSender", "Returned"}]
          /\ stopResult \in [Stoppers -> BOOLEAN]
      BY DEF Init
    <3> QED
      BY <3>1, <3>2 DEF Init, TypeOK
  <2>2. OneClaim
    BY DEF Init, OneClaim, Claims
  <2>4. ClientsFresh
    BY DEF Init, ClientsFresh
  <2> QED
    BY <2>1, <2>2, <2>4 DEF IInv
<1>2. IInv /\ [Next]_vars => IInv'
  <2> SUFFICES ASSUME IInv, [Next]_vars PROVE IInv'
    OBVIOUS
  <2>1. CASE LoopStep
    BY <2>1, LoopStepKeepsIInv
  <2>2. ASSUME NEW t \in Stoppers, StopperStep(t) PROVE IInv'
    BY <2>2, StopTakeKeepsIInv, StopSendKeepsIInv DEF StopperStep
  <2>3. CASE UNCHANGED vars
    BY <2>3 DEF vars, IInv, TypeOK, OneClaim, Claims, ClientsFresh
  <2> QED
    BY <2>1, <2>2, <2>3 DEF Next
<1> QED
  BY <1>1, <1>2, PTL DEF Spec

(***************************************************************************)
(* Stop idempotence (I64Retriever::try_stop, stop_signal.take): however   *)
(* many threads call stop, try_stop or Drop, at most one call returns     *)
(* true.                                                                   *)
(***************************************************************************)
THEOREM StopSucceedsAtMostOnceHolds == Spec => []StopSucceedsAtMostOnce
<1>1. IInv => StopSucceedsAtMostOnce
  BY DEF IInv, OneClaim, Claims, StopSucceedsAtMostOnce
<1> QED
  BY <1>1, IInvInductive, PTL

(***************************************************************************)
(* Retry reconnection (spec 8.4, keep_connecting_and_sending): after a    *)
(* send failure the sending loop never iterates on the failed client      *)
(* again; the next iteration runs on a client fresh from create_client.   *)
(***************************************************************************)
THEOREM FreshClientAfterFailureHolds == Spec => []FreshClientAfterFailure
<1>1. IInv => FreshClientAfterFailure
  <2> SUFFICES ASSUME IInv, loopPc = "Iterate" PROVE client # failedClient
    BY DEF FreshClientAfterFailure
  <2>1. client \in Nat /\ failedClient \in Nat /\ client > failedClient
    BY DEF IInv, TypeOK, ClientsFresh
  <2> QED
    BY <2>1
<1> QED
  BY <1>1, IInvInductive, PTL


(***************************************************************************)
(* What try_stop has returned is on record: a stopper has a result only   *)
(* once its call returned, and a stop is on the channel only after a      *)
(* try_stop whose send succeeded returned true.                           *)
(***************************************************************************)
StopsRecorded ==
    /\ \A t \in Stoppers : stopResult[t] => stopperPc[t] = "Returned"
    /\ channel = "Sent" => \E t \in Stoppers : stopResult[t]

\* The driven future's steps leave the stop handle and the stoppers alone.
LEMMA LoopStepKeepsStopVars ==
    ASSUME LoopStep
    PROVE  UNCHANGED stopVars
BY DEF LoopStep, PollReceiver, PollIdle, Connect, ExecReply, DelayFire,
       NextIteration, ObserveStop

LEMMA StopsRecordedStep ==
    ASSUME IInv, StopsRecorded, [Next]_vars
    PROVE  StopsRecorded'
<1>1. CASE LoopStep
  BY <1>1, LoopStepKeepsStopVars DEF stopVars, StopsRecorded
<1>2. ASSUME NEW t \in Stoppers, StopTake(t) PROVE StopsRecorded'
  <2>1. ~stopResult[t]
    BY <1>2 DEF StopTake, StopsRecorded
  <2> QED
    BY <1>2, <2>1 DEF StopTake, StopsRecorded, IInv, TypeOK
<1>3. ASSUME NEW t \in Stoppers, StopSend(t) PROVE StopsRecorded'
  <2>1. ~stopResult[t]
    BY <1>3 DEF StopSend, StopsRecorded
  <2> QED
    BY <1>3, <2>1 DEF StopSend, StopsRecorded, IInv, TypeOK
<1>4. CASE UNCHANGED vars
  BY <1>4 DEF vars, StopsRecorded
<1> QED
  BY <1>1, <1>2, <1>3, <1>4 DEF Next, StopperStep

LEMMA StopsRecordedInvariant == Spec => [](IInv /\ StopsRecorded)
<1>1. Init => StopsRecorded
  BY DEF Init, StopsRecorded
<1>2. IInv /\ StopsRecorded /\ [Next]_vars => StopsRecorded'
  BY StopsRecordedStep
<1> QED
  BY <1>1, <1>2, IInvInductive, PTL DEF Spec

\* The task's abstract state: whether the driven future still runs, what
\* it resolved to, and the stoppers whose try_stop returned true.
TaskVars == << loopPc # "Finished", outcome, {t \in Stoppers : stopResult[t]} >>

LEMMA LoopStepRefines ==
    ASSUME IInv, StopsRecorded, LoopStep
    PROVE  [Task!Next]_TaskVars
<1>1. UNCHANGED stopVars
  BY LoopStepKeepsStopVars
<1>2. CASE Connect \/ DelayFire \/ NextIteration \/ PollReceiver \/ PollIdle
  BY <1>1, <1>2 DEF Connect, DelayFire, NextIteration, PollReceiver, PollIdle,
                    LoopPoll, TaskVars, stopVars
<1>3. CASE ExecReply
  <2>1. CASE verdict' = "Done"
    <3>1. loopPc = "Iterate" /\ loopPc' = "Finished" /\ outcome' = "Done"
      BY <1>3, <2>1 DEF ExecReply
    <3>2. Task!End("Done")
      BY <1>1, <3>1 DEF Task!End, stopVars
    <3> QED
      BY <3>2 DEF Task!Next
  <2>2. CASE verdict' # "Done"
    <3>1. loopPc' # "Finished" /\ loopPc # "Finished" /\ UNCHANGED outcome
      BY <1>3, <2>2 DEF ExecReply
    <3> QED
      BY <1>1, <3>1 DEF TaskVars, stopVars
  <2> QED
    BY <2>1, <2>2
<1>4. CASE ObserveStop
  <2>1. \E t \in Stoppers : stopResult[t]
    BY <1>4 DEF ObserveStop, StopsRecorded
  <2>2. Task!End("Ok")
    BY <1>1, <1>4, <2>1 DEF ObserveStop, Task!End, stopVars
  <2> QED
    BY <2>2 DEF Task!Next
<1> QED
  BY <1>2, <1>3, <1>4 DEF LoopStep

LEMMA StopperStepRefines ==
    ASSUME IInv, StopsRecorded, NEW t \in Stoppers, StopperStep(t)
    PROVE  [Task!Next]_TaskVars
<1>1. ~stopResult[t] /\ stopperPc[t] # "Returned"
  BY DEF StopperStep, StopTake, StopSend, StopsRecorded
<1>2. CASE StopTake(t)
  <2>1. UNCHANGED << loopPc, outcome >>
    BY <1>2 DEF StopTake, loopVars
  <2>2. {u \in Stoppers : stopResult'[u]} = {u \in Stoppers : stopResult[u]}
    BY <1>1, <1>2 DEF StopTake, IInv, TypeOK
  <2> QED
    BY <2>1, <2>2 DEF TaskVars
<1>3. CASE StopSend(t) /\ loopPc # "Finished"
  <2>1. stopResult' = [stopResult EXCEPT ![t] = TRUE] /\ UNCHANGED << loopPc, outcome >>
    BY <1>3 DEF StopSend, loopVars
  <2>2. \A u \in Stoppers : stopResult[u] => u = t
    BY <1>3 DEF StopSend, IInv, OneClaim, Claims
  <2>3. {u \in Stoppers : stopResult[u]} = {}
    BY <1>1, <2>2
  <2>4. {u \in Stoppers : stopResult'[u]} = {t}
    BY <2>1, <2>2, <1>1 DEF IInv, TypeOK
  <2>5. Task!Stop(t)
    BY <1>3, <2>1, <2>3, <2>4 DEF Task!Stop
  <2> QED
    BY <2>5 DEF Task!Next
<1>4. CASE StopSend(t) /\ loopPc = "Finished"
  <2>1. stopResult' = [stopResult EXCEPT ![t] = FALSE] /\ UNCHANGED << loopPc, outcome >>
    BY <1>4 DEF StopSend, loopVars
  <2>2. {u \in Stoppers : stopResult'[u]} = {u \in Stoppers : stopResult[u]}
    BY <1>1, <2>1 DEF IInv, TypeOK
  <2> QED
    BY <2>1, <2>2 DEF TaskVars
<1> QED
  BY <1>2, <1>3, <1>4 DEF StopperStep

(***************************************************************************)
(* The stop contract (spec 4.B, 7, 8.5), for every set of stoppers:       *)
(* I64Retriever implements StoppableTask.  try_stop returns true for one  *)
(* caller at most, and only when its send reaches a receiver the select   *)
(* still polls; the driven future resolves once, and resolves Ok only     *)
(* after such a stop.                                                      *)
(***************************************************************************)
THEOREM StopContractRefinedHolds == Spec => StopContractRefined
<1>1. Init => Task!Init
  BY DEF Init, Task!Init
<1>2. IInv /\ StopsRecorded /\ [Next]_vars => [Task!Next]_TaskVars
  <2> SUFFICES ASSUME IInv, StopsRecorded, [Next]_vars PROVE [Task!Next]_TaskVars
    OBVIOUS
  <2>1. CASE LoopStep
    BY <2>1, LoopStepRefines
  <2>2. ASSUME NEW t \in Stoppers, StopperStep(t) PROVE [Task!Next]_TaskVars
    BY <2>2, StopperStepRefines
  <2>3. CASE UNCHANGED vars
    BY <2>3 DEF vars, TaskVars
  <2> QED
    BY <2>1, <2>2, <2>3 DEF Next
<1> QED
  BY <1>1, <1>2, StopsRecordedInvariant, PTL
     DEF Spec, StopContractRefined, Task!Spec, TaskVars


(***************************************************************************)
(* Why a stop leaves at most one late store.  While the channel is empty  *)
(* no store is late.  A stop that lands while a poll is in the sending    *)
(* loop finds no late store yet, and that poll makes at most one; after   *)
(* it no poll enters the sending loop again, since PollReceiver needs an  *)
(* empty channel.                                                          *)
(***************************************************************************)
LateStoresBound ==
    /\ lateStores \in 0..1
    /\ channel = "Empty" => lateStores = 0
    /\ channel = "Sent" /\ polling => lateStores = 0

LEMMA LateStoresBoundStep ==
    ASSUME IInv, LateStoresBound, [Next]_vars
    PROVE  LateStoresBound'
<1> USE DEF IInv, TypeOK, LateStoresBound
<1>1. CASE PollReceiver \/ PollIdle
  BY <1>1 DEF PollReceiver, PollIdle, stopVars
<1>2. CASE Connect \/ DelayFire \/ NextIteration
  BY <1>2 DEF Connect, DelayFire, NextIteration, LoopPoll, stopVars
<1>3. CASE ExecReply
  <2>1. polling /\ UNCHANGED channel
    BY <1>3 DEF ExecReply, LoopPoll, stopVars
  <2>2. lateStores' \in {lateStores, lateStores + 1}
    BY <1>3 DEF ExecReply, RecordStore
  <2>3. channel = "Empty" => lateStores' = lateStores
    BY <1>3 DEF ExecReply, RecordStore
  <2>4. ~polling'
    BY <1>3 DEF ExecReply, LoopPoll
  <2> QED
    BY <2>1, <2>2, <2>3, <2>4
<1>4. CASE ObserveStop
  BY <1>4 DEF ObserveStop, stopVars
<1>5. ASSUME NEW t \in Stoppers, StopperStep(t) PROVE LateStoresBound'
  BY <1>5 DEF StopperStep, StopTake, StopSend, loopVars
<1>6. CASE UNCHANGED vars
  BY <1>6 DEF vars
<1> QED
  BY <1>1, <1>2, <1>3, <1>4, <1>5, <1>6 DEF Next, LoopStep

(***************************************************************************)
(* Bounded staleness after a stop, for every set of stoppers and values   *)
(* and every bound on clients and sends: once a try_stop has returned     *)
(* true, the predicate stores into the i64 cell at most once more, in the *)
(* poll that was in the sending loop when the stop landed.                *)
(***************************************************************************)
THEOREM StaleStoreBoundedHolds == Spec => []StaleStoreBounded
<1>1. Init => LateStoresBound
  BY DEF Init, LateStoresBound
<1>2. IInv /\ LateStoresBound /\ [Next]_vars => LateStoresBound'
  BY LateStoresBoundStep
<1>3. LateStoresBound => StaleStoreBounded
  BY DEF LateStoresBound, StaleStoreBounded
<1> QED
  BY <1>1, <1>2, <1>3, IInvInductive, PTL DEF Spec

=====
