----------------------------- MODULE ServiceProofs -----------------------------
(***************************************************************************)
(* Proofs about IngestService, for any requests, polls, targets and edits. *)
(*                                                                         *)
(* The service keeps to the two components: each of its steps is one of    *)
(* the buffer, or none, and one of the poller, or none.  So what           *)
(* BatcherProofs and PollerProofs prove holds in the service, and what is  *)
(* left to prove is what main's order of shutting down adds: that it loses *)
(* nothing it has accepted, when it cannot panic, and that whomever it     *)
(* waits for can go on.                                                    *)
(***************************************************************************)
EXTENDS IngestService, Sequences, FiniteSets, TLAPS

B == INSTANCE BatcherProofs WITH Calls <- AllCalls, Size <- CallSize
P == INSTANCE PollerProofs

------------------------------------------------------------------------------
(* The service runs the poller *)

\* A step of the service is a step of the poller, or leaves it alone.
LEMMA PollerStep == [Next]_vars => [P!Next]_P!vars
<1> SUFFICES ASSUME [Next]_vars PROVE [P!Next]_P!vars
  OBVIOUS
<1> USE DEF P!vars, P!dbVars, P!syncVars, P!runnerVars, pollerVars
<1>1. ASSUME NEW q \in Requests, Arrive(q) \/ Handle(q) PROVE UNCHANGED P!vars
  BY <1>1 DEF Arrive, Handle
<1>2. ASSUME NEW r \in Runners, Run(r) PROVE [P!Next]_P!vars
  <2>1. CASE RunnerWakes(r)
    <3>1. P!Wake(r)
      BY <2>1 DEF RunnerWakes, Polls!Wake, P!Wake, Polls!dbVars, Polls!syncVars
    <3>2. QED BY <3>1 DEF P!Next, P!RunTarget, P!Runners, Runners
  <2>2. CASE RunnerEnqueues(r) BY <2>2 DEF RunnerEnqueues
  <2>3. CASE RunnerPolled(r)
    <3>1. P!Poll(r)
      BY <2>3 DEF RunnerPolled, Polls!Poll, P!Poll, Polls!dbVars, Polls!syncVars
    <3>2. QED BY <3>1 DEF P!Next, P!RunTarget, P!Runners, Runners
  <2>4. CASE RunnerGoesOn(r)
    <3>1. P!Quit(r) \/ P!Report(r)
      BY <2>4 DEF RunnerGoesOn, Polls!Quit, P!Quit, Polls!Report, P!Report, Polls!Done,
                  P!Done, Polls!dbVars, Polls!syncVars
    <3>2. QED BY <3>1 DEF P!Next, P!RunTarget, P!Runners, Runners
  <2>5. QED BY <1>2, <2>1, <2>2, <2>3, <2>4 DEF Run
<1>3. CASE Sync
  <2>1. P!SyncTargets \/ P!Serve
    BY <1>3 DEF Sync, Polls!SyncTargets, P!SyncTargets, Polls!Serve, P!Serve,
       Polls!SyncStart, P!SyncStart, Polls!ListOk, P!ListOk, Polls!ListError, P!ListError,
       Polls!Wanted, P!Wanted, Polls!Reconcile, P!Reconcile, Polls!ReadKeys, P!ReadKeys,
       Polls!WantedKeys, P!WantedKeys, Polls!RemoveTarget, P!RemoveTarget,
       Polls!RemovalsDone, P!RemovalsDone, Polls!AddOrUpdateTarget, P!AddOrUpdateTarget,
       Polls!KeepTarget, P!KeepTarget, Polls!StartTarget, P!StartTarget,
       Polls!SyncEnd, P!SyncEnd, Polls!SyncExit, P!SyncExit, Polls!Runners, P!Runners,
       Polls!dbVars, Polls!syncVars, Polls!runnerVars
  <2>2. QED BY <2>1 DEF P!Next
<1>4. CASE Edit
  <2>1. PICK k \in Keys, c \in Confs \union {NoConf} : Polls!Change(k, c)
    BY <1>4 DEF Edit
  <2>2. P!Change(k, c)
    BY <2>1 DEF Polls!Change, P!Change, Polls!syncVars, Polls!runnerVars
  <2>3. QED BY <2>2 DEF P!Next
<1>5. CASE Signal
  <2>1. P!Cancel
    BY <1>5 DEF Signal, Polls!Cancel, P!Cancel, Polls!dbVars, Polls!syncVars,
                Polls!runnerVars
  <2>2. QED BY <2>1 DEF P!Next
<1>6. CASE Collect BY <1>6 DEF Collect
<1>7. ASSUME NEW w \in Workers, Publish(w) PROVE UNCHANGED P!vars
  BY <1>7 DEF Publish
<1>8. CASE Shutdown
  BY <1>8 DEF Shutdown, ShutdownDrained, ShutdownTimeout, WaitReturn, StopBatcher, Exit
<1>9. CASE UNCHANGED vars BY <1>9 DEF vars
<1>10. QED
  BY <1>1, <1>2, <1>3, <1>4, <1>5, <1>6, <1>7, <1>8, <1>9 DEF Next

\* The service's poller is a Poller: what is proved of Poller holds here.
THEOREM ServiceRunsThePoller == Spec => P!Spec
<1>1. Init => P!Init
  BY DEF Init, Polls!Init, P!Init, Polls!WantedKeys, P!WantedKeys, Polls!Runners, P!Runners
<1>2. QED BY <1>1, PollerStep, PTL DEF Spec, P!Spec

------------------------------------------------------------------------------
(* The service runs the buffer *)

\* A runner that is polling has a call of its own for this poll.
CallerInv ==
    /\ polls \in [Runners -> 0..MaxPolls]
    /\ \A r \in Runners : pc[r] = "polling" => polls[r] \in 1..MaxPolls

\* Only waking up brings a runner to its poll, and it counts the poll.
LEMMA CallerStep == P!TypeOK /\ CallerInv /\ [Next]_vars => CallerInv'
<1> SUFFICES ASSUME P!TypeOK, CallerInv, [Next]_vars PROVE CallerInv'
  OBVIOUS
<1> USE ServiceAssumption DEF CallerInv
<1>0. pc \in [Runners -> {"unused", "delay", "polling", "report", "done"}]
  BY DEF P!TypeOK, P!Runners, Runners
<1>1. CASE UNCHANGED polls /\ \A r \in Runners : pc'[r] = "polling" => pc[r] = "polling"
  BY <1>1
<1>2. ASSUME NEW r \in Runners, RunnerWakes(r) PROVE CallerInv'
  <2>1. polls[r] < MaxPolls /\ polls' = [polls EXCEPT ![r] = @ + 1]
    BY <1>2 DEF RunnerWakes
  <2>2. pc' = [pc EXCEPT ![r] = "polling"]
    BY <1>2 DEF RunnerWakes, Polls!Wake
  <2>3. polls[r] + 1 \in 1..MaxPolls
    BY <2>1
  <2>4. QED BY <1>0, <2>1, <2>2, <2>3
<1>3. ASSUME NEW r \in Runners,
             RunnerEnqueues(r) \/ RunnerPolled(r) \/ RunnerGoesOn(r)
      PROVE  UNCHANGED polls /\ \A q \in Runners : pc'[q] = "polling" => pc[q] = "polling"
  <2>1. CASE RunnerEnqueues(r) BY <2>1 DEF RunnerEnqueues, pollerVars, callerVars
  <2>2. CASE RunnerPolled(r)
    BY <1>0, <2>2 DEF RunnerPolled, Polls!Poll, callerVars
  <2>3. CASE RunnerGoesOn(r)
    <3>1. \E here \in {"done", "delay"} : pc' = [pc EXCEPT ![r] = here]
      BY <2>3 DEF RunnerGoesOn, Polls!Quit, Polls!Report
    <3>2. QED BY <1>0, <2>3, <3>1 DEF RunnerGoesOn, callerVars
  <2>4. QED BY <1>3, <2>1, <2>2, <2>3
<1>4. CASE Sync
  <2>1. UNCHANGED pc \/ \E r \in Runners : pc' = [pc EXCEPT ![r] = "delay"]
    BY <1>4 DEF Sync, Polls!SyncTargets, Polls!Serve, Polls!SyncStart, Polls!ListOk,
       Polls!ListError, Polls!Reconcile, Polls!ReadKeys, Polls!RemoveTarget,
       Polls!RemovalsDone, Polls!AddOrUpdateTarget, Polls!KeepTarget, Polls!StartTarget,
       Polls!SyncEnd, Polls!SyncExit, Polls!Runners, Runners, Polls!runnerVars
  <2>2. QED BY <1>0, <1>1, <1>4, <2>1 DEF Sync, callerVars
<1>5. CASE Edit \/ Signal
  BY <1>1, <1>5 DEF Edit, Signal, Polls!Change, Polls!Cancel, Polls!runnerVars, callerVars
<1>6. ASSUME NEW q \in Requests, Arrive(q) \/ Handle(q) PROVE CallerInv'
  BY <1>1, <1>6 DEF Arrive, Handle, pollerVars, callerVars
<1>7. CASE Collect BY <1>1, <1>7 DEF Collect, pollerVars, callerVars
<1>8. ASSUME NEW w \in Workers, Publish(w) PROVE CallerInv'
  BY <1>1, <1>8 DEF Publish, pollerVars, callerVars
<1>9. CASE Shutdown
  BY <1>1, <1>9 DEF Shutdown, ShutdownDrained, ShutdownTimeout, WaitReturn, StopBatcher,
     Exit, pollerVars, callerVars
<1>10. CASE UNCHANGED vars BY <1>1, <1>10 DEF vars, pollerVars, callerVars
<1>11. QED
  BY <1>1, <1>2, <1>3, <1>4, <1>5, <1>6, <1>7, <1>8, <1>9, <1>10 DEF Next, Run

\* The poller's assumption, of the poller of the service.
LEMMA PollerAssumed ==
    /\ NoConf \notin Confs
    /\ MaxStarts \in Nat
    /\ NoRunner \notin 1..MaxStarts
    /\ Static \in [Keys -> Confs \union {NoConf}]
    /\ MaxChanges \in Nat
BY ServiceAssumption DEF Runners

\* Every poll that is under way has its call.
LEMMA CallerInvariant == Spec => []CallerInv
<1>1. Init => CallerInv
  BY ServiceAssumption DEF Init, Polls!Init, Polls!Runners, Runners, CallerInv
<1>2. P!Spec => []P!TypeOK
  BY PollerAssumed, P!PollerTypes
<1>3. QED BY <1>1, <1>2, CallerStep, ServiceRunsThePoller, PTL DEF Spec

\* A call made through the service is a call of the buffer.
LEMMA SameEnqueue ==
    ASSUME NEW c \in AllCalls, Buffer!TryEnqueue(c)
    PROVE  B!TryEnqueue(c)
BY DEF Buffer!TryEnqueue, B!TryEnqueue, Buffer!EnqueueNothing, B!EnqueueNothing,
   Buffer!EnqueueRefuse, B!EnqueueRefuse, Buffer!EnqueueBegin, B!EnqueueBegin,
   Buffer!EnqueueSend, B!EnqueueSend, Buffer!EnqueuePanic, B!EnqueuePanic,
   Buffer!EnqueueReturn, B!EnqueueReturn, Buffer!Fits, B!Fits,
   Buffer!collectorVars, B!collectorVars, Buffer!workerVars, B!workerVars

\* A step of the service is a step of the buffer, or leaves it alone.
LEMMA BufferStep == CallerInv /\ [Next]_vars => [B!Next]_B!vars
<1> SUFFICES ASSUME CallerInv, [Next]_vars PROVE [B!Next]_B!vars
  OBVIOUS
<1> USE DEF B!vars, B!callVars, B!collectorVars, B!workerVars, bufferVars
<1>1. ASSUME NEW q \in Requests, Arrive(q) \/ Handle(q) PROVE [B!Next]_B!vars
  <2>1. CASE Arrive(q) BY <2>1 DEF Arrive
  <2>2. CASE Handle(q)
    <3>1. q \in AllCalls /\ Buffer!TryEnqueue(q)
      BY <2>2 DEF Handle, AllCalls
    <3>2. QED BY <3>1, SameEnqueue DEF B!Next
  <2>3. QED BY <1>1, <2>1, <2>2
<1>2. ASSUME NEW r \in Runners, Run(r) PROVE [B!Next]_B!vars
  <2>1. CASE RunnerEnqueues(r)
    <3>1. PollCall(r) \in AllCalls /\ Buffer!TryEnqueue(PollCall(r))
      BY <2>1 DEF RunnerEnqueues, CallerInv, PollCall, PollCalls, AllCalls
    <3>2. QED BY <3>1, SameEnqueue DEF B!Next
  <2>2. CASE RunnerWakes(r) \/ RunnerPolled(r) \/ RunnerGoesOn(r)
    BY <2>2 DEF RunnerWakes, RunnerPolled, RunnerGoesOn
  <2>3. QED BY <1>2, <2>1, <2>2 DEF Run
<1>3. CASE Sync \/ Edit \/ Signal BY <1>3 DEF Sync, Edit, Signal
<1>4. CASE Collect
  <2>1. B!Collect
    BY <1>4 DEF Collect, Buffer!Collect, B!Collect, Buffer!Receive, B!Receive,
       Buffer!Tick, B!Tick, Buffer!SeeClosed, B!SeeClosed, Buffer!SendFlush, B!SendFlush,
       Buffer!CloseFlush, B!CloseFlush, Buffer!FlushNow, B!FlushNow,
       Buffer!callVars, Buffer!workerVars
  <2>2. QED BY <2>1 DEF B!Next
<1>5. ASSUME NEW w \in Workers, Publish(w) PROVE [B!Next]_B!vars
  <2>1. B!Publish(w)
    BY <1>5 DEF Publish, Buffer!Publish, B!Publish, Buffer!TakeBatch, B!TakeBatch,
       Buffer!PublishOk, B!PublishOk, Buffer!PublishError, B!PublishError,
       Buffer!StoreBatch, B!StoreBatch, Buffer!WorkerExit, B!WorkerExit,
       Buffer!Range, B!Range, Buffer!callVars, Buffer!collectorVars
  <2>2. QED BY <2>1 DEF B!Next
<1>6. CASE Shutdown
  <2>1. CASE StopBatcher
    <3>1. B!StopClose
      BY <2>1 DEF StopBatcher, Buffer!StopClose, B!StopClose, Buffer!callVars,
                  Buffer!collectorVars, Buffer!workerVars
    <3>2. QED BY <3>1 DEF B!Next
  <2>2. CASE Exit
    <3>1. B!StopReturn
      BY <2>2 DEF Exit, Buffer!StopReturn, B!StopReturn, Buffer!callVars,
                  Buffer!collectorVars, Buffer!workerVars
    <3>2. QED BY <3>1 DEF B!Next
  <2>3. CASE ShutdownDrained \/ ShutdownTimeout \/ WaitReturn
    BY <2>3 DEF ShutdownDrained, ShutdownTimeout, WaitReturn
  <2>4. QED BY <1>6, <2>1, <2>2, <2>3 DEF Shutdown
<1>7. CASE UNCHANGED vars BY <1>7 DEF vars
<1>8. QED BY <1>1, <1>2, <1>3, <1>4, <1>5, <1>6, <1>7 DEF Next

\* The service's buffer is a Batcher: what is proved of Batcher holds here.
THEOREM ServiceRunsTheBuffer == Spec => B!Spec
<1>1. Init => B!Init
  BY DEF Init, Buffer!Init, B!Init
<1>2. QED BY <1>1, BufferStep, CallerInvariant, PTL DEF Spec, B!Spec

\* The buffer's assumption, of the calls the service makes.
LEMMA BufferAssumed ==
    /\ CallSize \in [AllCalls -> Nat]
    /\ Workers # {}
    /\ MaxCapacity \in Nat
    /\ BatchSize \in Nat \ {0}
    /\ FlushCap \in Nat \ {0}
    /\ Persist \in BOOLEAN
    /\ NoCall \notin AllCalls
BY ServiceAssumption DEF CallSize

------------------------------------------------------------------------------
(* main's way down *)

\* main has cancelled the context when it leaves the service, closes the buffer
\* only when Wait has returned, and comes to its end only behind Stop.
MainInv ==
    /\ main \in {"serving", "shutdown", "waiting", "stopping", "exited", "crashed"}
    /\ main \in {"shutdown", "waiting", "stopping", "exited"} => ctx = "cancelled"
    /\ main \in {"serving", "shutdown", "waiting"} => stop = "running"
    /\ main = "exited" => stop = "returned"

\* Of the goroutines only a runner that panics moves main, and only main moves
\* the context to its end and Stop to its return.
LEMMA MainStep == MainInv /\ [Next]_vars => MainInv'
<1> SUFFICES ASSUME MainInv, [Next]_vars PROVE MainInv'
  OBVIOUS
<1> USE DEF MainInv, bufferVars, pollerVars, callerVars
<1>1. ASSUME NEW q \in Requests, Arrive(q) \/ Handle(q) PROVE MainInv'
  <2>1. UNCHANGED <<main, ctx, stop>>
    BY <1>1 DEF Arrive, Handle, Buffer!TryEnqueue, Buffer!EnqueueNothing,
       Buffer!EnqueueRefuse, Buffer!EnqueueBegin, Buffer!EnqueueSend,
       Buffer!EnqueuePanic, Buffer!EnqueueReturn
  <2>2. QED BY <2>1
<1>2. ASSUME NEW r \in Runners, Run(r) PROVE MainInv'
  <2>1. UNCHANGED <<ctx, stop>> /\ main' \in {main, "crashed"}
    BY <1>2 DEF Run, RunnerWakes, RunnerEnqueues, RunnerPolled, RunnerGoesOn,
       Polls!Wake, Polls!Poll, Polls!Quit, Polls!Report,
       Buffer!TryEnqueue, Buffer!EnqueueNothing,
       Buffer!EnqueueRefuse, Buffer!EnqueueBegin, Buffer!EnqueueSend,
       Buffer!EnqueuePanic, Buffer!EnqueueReturn
  <2>2. QED BY <2>1
<1>3. CASE Sync
  <2>1. UNCHANGED <<main, stop>> /\ (ctx = "cancelled" => ctx' = "cancelled")
    BY <1>3 DEF Sync, Polls!SyncTargets, Polls!Serve, Polls!SyncStart, Polls!ListOk,
       Polls!ListError, Polls!Reconcile, Polls!ReadKeys, Polls!RemoveTarget,
       Polls!RemovalsDone, Polls!AddOrUpdateTarget, Polls!KeepTarget, Polls!StartTarget,
       Polls!SyncEnd, Polls!SyncExit
  <2>2. QED BY <2>1
<1>4. CASE Edit \/ Collect \/ UNCHANGED vars
  <2>1. UNCHANGED <<main, ctx, stop>>
    BY <1>4 DEF Edit, Polls!Change, Collect, Buffer!Collect, Buffer!Receive, Buffer!Tick,
       Buffer!SeeClosed, Buffer!SendFlush, Buffer!CloseFlush, vars
  <2>2. QED BY <2>1
<1>5. ASSUME NEW w \in Workers, Publish(w) PROVE MainInv'
  <2>1. UNCHANGED <<main, ctx, stop>>
    BY <1>5 DEF Publish, Buffer!Publish, Buffer!TakeBatch, Buffer!PublishOk,
       Buffer!PublishError, Buffer!StoreBatch, Buffer!WorkerExit
  <2>2. QED BY <2>1
<1>6. CASE Signal BY <1>6 DEF Signal, Polls!Cancel
<1>7. CASE Shutdown
  BY <1>7 DEF Shutdown, ShutdownDrained, ShutdownTimeout, WaitReturn, StopBatcher, Exit,
     Buffer!StopClose, Buffer!StopReturn
<1>8. QED BY <1>1, <1>2, <1>3, <1>4, <1>5, <1>6, <1>7 DEF Next

\* What main has done by the time it is where it is.
LEMMA MainInvariant == Spec => []MainInv
<1>1. Init => MainInv
  BY DEF Init, Buffer!Init, MainInv
<1>2. QED BY <1>1, MainStep, PTL DEF Spec

\* Whoever was told "accepted" has had every event published or given up when
\* the process exits: main exits only behind Stop, which has drained the buffer,
\* and an accepted call has put every one of its events there.
THEOREM AcceptedIsSettled == Spec => []ExitSettles
<1>1. B!Spec => []B!StopDrains
  BY BufferAssumed, B!StopIsGraceful
<1>2. B!Spec => []B!CallInv
  BY BufferAssumed, B!CallInvariant
<1>3. MainInv /\ B!StopDrains /\ B!CallInv => ExitSettles
  <2> SUFFICES ASSUME MainInv, B!StopDrains, B!CallInv, main = "exited",
                      NEW c \in AllCalls, call[c] = "accepted", NEW i \in 1..CallSize[c]
               PROVE  <<c, i>> \in acked \union failed
    BY DEF ExitSettles
  <2>1. stop = "returned"
    BY DEF MainInv
  <2>2. sent[c] = CallSize[c]
    BY DEF B!CallInv
  <2>3. QED BY <2>1, <2>2 DEF B!StopDrains
<1>4. QED BY <1>1, <1>2, <1>3, MainInvariant, ServiceRunsTheBuffer, PTL

------------------------------------------------------------------------------
(* A quiet stop *)

\* main is behind Shutdown, no runner can be started any more, and the buffer
\* is open as long as one of the started runners may still use it.
Quiet ==
    /\ main \in {"waiting", "stopping", "exited"}
    /\ sync \in {"idle", "listing", "exited"}
    /\ ctx = "cancelled"
    /\ main = "waiting" => ~closed
    /\ main \in {"stopping", "exited"} => \A r \in Started : pc[r] = "done"

\* A call panics in the one step that finds the channel closed.
LEMMA OnlyClosedPanics ==
    ASSUME B!TypeOK, NEW c \in AllCalls, Buffer!TryEnqueue(c), ~closed
    PROVE  call'[c] # "panicked" /\ ~closed'
<1>1. call \in [AllCalls -> {"idle", "sending", "accepted", "refused", "panicked"}]
  BY DEF B!TypeOK
<1>2. QED
  BY <1>1 DEF Buffer!TryEnqueue, Buffer!EnqueueNothing, Buffer!EnqueueRefuse,
     Buffer!EnqueueBegin, Buffer!EnqueueSend, Buffer!EnqueuePanic, Buffer!EnqueueReturn

\* Once quiet, the service stays so: a query under the cancelled context fails,
\* so no sync gets to start a runner.
LEMMA QuietStep ==
    B!TypeOK /\ P!TypeOK /\ CallerInv /\ Quiet /\ [Next]_vars => Quiet'
<1> SUFFICES ASSUME B!TypeOK, P!TypeOK, CallerInv, Quiet, [Next]_vars PROVE Quiet'
  OBVIOUS
<1> USE DEF Quiet, bufferVars, pollerVars, callerVars
<1>0. pc \in [Runners -> {"unused", "delay", "polling", "report", "done"}]
  BY DEF P!TypeOK, P!Runners, Runners
<1>1. CASE UNCHANGED <<main, closed, pc, ctx>> /\ sync' \in {"idle", "listing", "exited"}
  BY <1>1 DEF Started
<1>2. ASSUME NEW q \in Requests, Arrive(q) \/ Handle(q) PROVE Quiet'
  <2>1. UNCHANGED <<main, closed, pc, ctx, sync>>
    BY <1>2 DEF Arrive, Handle, Buffer!TryEnqueue, Buffer!EnqueueNothing,
       Buffer!EnqueueRefuse, Buffer!EnqueueBegin, Buffer!EnqueueSend,
       Buffer!EnqueuePanic, Buffer!EnqueueReturn
  <2>2. QED BY <1>1, <2>1
<1>3. ASSUME NEW r \in Runners, Run(r) PROVE Quiet'
  <2>1. pc[r] \in {"delay", "polling", "report"} /\ r \in Started
    BY <1>3 DEF Run, RunnerWakes, RunnerEnqueues, RunnerPolled, RunnerGoesOn, Started,
       Polls!Wake, Polls!Poll, Polls!Quit, Polls!Report
  <2>2. main = "waiting" /\ ~closed
    BY <2>1
  <2>3. CASE RunnerEnqueues(r)
    <3>1. PollCall(r) \in AllCalls /\ Buffer!TryEnqueue(PollCall(r))
      BY <2>3 DEF RunnerEnqueues, CallerInv, PollCall, PollCalls, AllCalls
    <3>2. call'[PollCall(r)] # "panicked" /\ ~closed'
      BY <2>2, <3>1, OnlyClosedPanics
    <3>3. main' = main /\ UNCHANGED <<pc, ctx, sync>>
      BY <2>3, <3>2 DEF RunnerEnqueues
    <3>4. QED BY <2>2, <3>2, <3>3
  <2>4. CASE RunnerWakes(r) \/ RunnerPolled(r) \/ RunnerGoesOn(r)
    <3>1. UNCHANGED <<main, closed, ctx, sync>>
      BY <2>4 DEF RunnerWakes, RunnerPolled, RunnerGoesOn, Polls!Wake, Polls!Poll,
         Polls!Quit, Polls!Report, Polls!syncVars
    <3>2. QED BY <2>2, <3>1
  <2>5. QED BY <1>3, <2>3, <2>4 DEF Run
<1>4. CASE Sync
  <2>1. UNCHANGED <<main, closed, pc, ctx>> /\ sync' \in {"idle", "listing", "exited"}
    BY <1>4 DEF Sync, Polls!SyncTargets, Polls!Serve, Polls!SyncStart, Polls!ListOk,
       Polls!ListError, Polls!Reconcile, Polls!ReadKeys, Polls!RemoveTarget,
       Polls!RemovalsDone, Polls!AddOrUpdateTarget, Polls!KeepTarget, Polls!StartTarget,
       Polls!SyncEnd, Polls!SyncExit, Polls!runnerVars
  <2>2. QED BY <1>1, <2>1
<1>5. CASE Edit \/ Collect \/ UNCHANGED vars
  <2>1. UNCHANGED <<main, closed, pc, ctx, sync>>
    BY <1>5 DEF Edit, Polls!Change, Polls!runnerVars, Polls!syncVars, Collect,
       Buffer!Collect, Buffer!Receive, Buffer!Tick, Buffer!SeeClosed, Buffer!SendFlush,
       Buffer!CloseFlush, vars
  <2>2. QED BY <1>1, <2>1
<1>6. ASSUME NEW w \in Workers, Publish(w) PROVE Quiet'
  <2>1. UNCHANGED <<main, closed, pc, ctx, sync>>
    BY <1>6 DEF Publish, Buffer!Publish, Buffer!TakeBatch, Buffer!PublishOk,
       Buffer!PublishError, Buffer!StoreBatch, Buffer!WorkerExit
  <2>2. QED BY <1>1, <2>1
<1>7. CASE Signal BY <1>7 DEF Signal
<1>8. CASE Shutdown
  <2>1. main' \in {"stopping", "exited"} /\ (\A r \in Started : pc[r] = "done")
    BY <1>8 DEF Shutdown, ShutdownDrained, ShutdownTimeout, WaitReturn, StopBatcher, Exit
  <2>2. UNCHANGED <<pc, ctx, sync>>
    BY <1>8 DEF Shutdown, ShutdownDrained, ShutdownTimeout, WaitReturn, StopBatcher, Exit
  <2>3. QED BY <2>1, <2>2 DEF Started
<1>9. QED BY <1>2, <1>3, <1>4, <1>5, <1>6, <1>7, <1>8 DEF Next

\* With no sync under way when main comes to Wait the process lives until it
\* exits: the runners Wait does not see are never started.
THEOREM QuietStopLives == Spec => QuietStopIsSafe
<1>1. B!Spec => []B!TypeOK
  BY BufferAssumed, B!TypeCorrect
<1>2. B!Spec => []B!PhaseInv
  BY BufferAssumed, B!PhaseInvariant
<1>3. P!Spec => []P!TypeOK
  BY PollerAssumed, P!PollerTypes
<1>4. ASSUME MainInv, B!PhaseInv, main = "waiting", sync \in {"idle", "listing", "exited"}
      PROVE  Quiet
  BY <1>4 DEF MainInv, B!PhaseInv, Quiet
<1>5. Quiet => main # "crashed"
  BY DEF Quiet
<1>6. QED
  BY <1>1, <1>2, <1>3, <1>4, <1>5, QuietStep, MainInvariant, CallerInvariant,
     ServiceRunsTheBuffer, ServiceRunsThePoller, PTL DEF Spec, QuietStopIsSafe

------------------------------------------------------------------------------
(* What the service's components keep to *)

\* The buffer keeps its promises to all its callers, the handlers that outlive
\* Shutdown and the runners a late sync has started included: nobody who passed the
\* length check blocks, calls are taken whole or not at all and leave in order, and
\* Stop drains.  So it implements EventDelivery for the calls of the service.
THEOREM ServiceBufferKeeps ==
    Spec => /\ [](B!SendNeverBlocks /\ B!MemoryBounded /\ B!AllOrNothing)
            /\ [](B!StopDrains /\ B!SinksAgree /\ B!OrderKept)
            /\ B!ImplementsDelivery
<1>1. B!Spec => [](B!SendNeverBlocks /\ B!MemoryBounded /\ B!AllOrNothing)
  <2>1. B!Spec => []B!SendNeverBlocks
    BY BufferAssumed, B!NeverBlocks
  <2>2. B!Spec => []B!MemoryBounded
    BY BufferAssumed, B!MemoryIsBounded
  <2>3. B!Spec => []B!AllOrNothing
    BY BufferAssumed, B!CallsAreAtomic
  <2>4. QED BY <2>1, <2>2, <2>3, PTL
<1>2. B!Spec => [](B!StopDrains /\ B!SinksAgree /\ B!OrderKept)
  <2>1. B!Spec => []B!StopDrains
    BY BufferAssumed, B!StopIsGraceful
  <2>2. B!Spec => []B!SinksAgree
    BY BufferAssumed, B!SinksAreConsistent
  <2>3. B!Spec => []B!OrderKept
    BY BufferAssumed, B!OrderIsKept
  <2>4. QED BY <2>1, <2>2, <2>3, PTL
<1>3. B!Spec => B!ImplementsDelivery
  BY BufferAssumed, B!BufferImplementsDelivery
<1>4. QED BY <1>1, <1>2, <1>3, ServiceRunsTheBuffer, PTL

\* The poller keeps its promises while its runners wait for the buffer and main for
\* the runners: one runner to a target, each sync completed before the next, no
\* unchanged target restarted, a stale report the last one of its runner, and a
\* cancelled runner on its way to its end.
THEOREM ServicePollerKeeps ==
    Spec => /\ [](P!OneRunnerPerTarget /\ P!ReconcileDone)
            /\ P!StaleReportIsLast
            /\ [][P!UnchangedIsKept /\ P!CancelledRunsDown]_P!vars
<1>1. P!Spec => [](P!OneRunnerPerTarget /\ P!ReconcileDone)
  <2>1. P!Spec => []P!OneRunnerPerTarget
    BY PollerAssumed, P!TargetHasOneRunner
  <2>2. P!Spec => []P!ReconcileDone
    BY PollerAssumed, P!SyncsReconcile
  <2>3. QED BY <2>1, <2>2, PTL
<1>2. P!Spec => P!StaleReportIsLast
  BY PollerAssumed, P!StaleReportsEnd
<1>3. P!Spec => [][P!UnchangedIsKept /\ P!CancelledRunsDown]_P!vars
  <2>1. P!Spec => [][P!UnchangedIsKept]_P!vars
    BY PollerAssumed, P!UnchangedRunsOn
  <2>2. P!Spec => [][P!CancelledRunsDown]_P!vars
    BY PollerAssumed, P!CancelledEnd
  <2>3. QED BY <2>1, <2>2, PTL
<1>4. QED BY <1>1, <1>2, <1>3, ServiceRunsThePoller, PTL

------------------------------------------------------------------------------
(* Why the shutdown ends *)

\* While main waits for the runners each of them can go on (the guards of Run): none
\* waits for room in the buffer or finds it closed.  While main is in Stop, it or a
\* goroutine of the buffer can go on.
ShutdownNotStuck ==
    /\ main = "waiting" => \A r \in Started :
         \/ pc[r] \in {"delay", "report", "done"}
         \/ pc[r] = "polling" /\ call[PollCall(r)] \in {"idle", "accepted", "refused"}
         \/ /\ pc[r] = "polling" /\ call[PollCall(r)] = "sending"
            /\ sent[PollCall(r)] < CallSize[PollCall(r)] =>
                 ~closed /\ Len(eventCh) < MaxCapacity
    /\ main = "stopping" => stop = "running" \/ (stop = "waiting" /\ B!NotStuck)

\* Only main's exit is behind the return of Stop.
ReturnInv == stop = "returned" => main = "exited"

\* The steps that set main or stop keep it so.
LEMMA ReturnStep == MainInv /\ ReturnInv /\ [Next]_vars => ReturnInv'
<1> SUFFICES ASSUME MainInv, ReturnInv, [Next]_vars PROVE ReturnInv'
  OBVIOUS
<1> USE DEF ReturnInv, bufferVars, pollerVars, callerVars
<1>1. ASSUME NEW q \in Requests, Arrive(q) \/ Handle(q) PROVE UNCHANGED <<main, stop>>
  BY <1>1 DEF Arrive, Handle, Buffer!TryEnqueue, Buffer!EnqueueNothing,
     Buffer!EnqueueRefuse, Buffer!EnqueueBegin, Buffer!EnqueueSend,
     Buffer!EnqueuePanic, Buffer!EnqueueReturn
<1>2. ASSUME NEW r \in Runners, Run(r) PROVE ReturnInv'
  <2>1. UNCHANGED stop /\ main # "exited"
    BY <1>2 DEF Run, RunnerWakes, RunnerEnqueues, RunnerPolled, RunnerGoesOn, Alive,
       Polls!Wake, Polls!Poll, Polls!Quit, Polls!Report, Buffer!TryEnqueue,
       Buffer!EnqueueNothing, Buffer!EnqueueRefuse, Buffer!EnqueueBegin,
       Buffer!EnqueueSend, Buffer!EnqueuePanic, Buffer!EnqueueReturn
  <2>2. QED BY <2>1
<1>3. CASE Sync \/ Edit \/ Collect \/ UNCHANGED vars
  <2>1. UNCHANGED <<main, stop>>
    BY <1>3 DEF Sync, Edit, Collect, Buffer!Collect, Buffer!Receive, Buffer!Tick,
       Buffer!SeeClosed, Buffer!SendFlush, Buffer!CloseFlush, vars
  <2>2. QED BY <2>1
<1>4. ASSUME NEW w \in Workers, Publish(w) PROVE UNCHANGED <<main, stop>>
  BY <1>4 DEF Publish, Buffer!Publish, Buffer!TakeBatch, Buffer!PublishOk,
     Buffer!PublishError, Buffer!StoreBatch, Buffer!WorkerExit
<1>5. CASE Signal BY <1>5 DEF Signal
<1>6. CASE Shutdown
  BY <1>6 DEF Shutdown, ShutdownDrained, ShutdownTimeout, WaitReturn, StopBatcher, Exit,
     Buffer!StopClose, Buffer!StopReturn
<1>7. QED BY <1>1, <1>2, <1>3, <1>4, <1>5, <1>6 DEF Next

\* What makes the shutdown end: main's steps and, in each of them, whoever it waits
\* for can go on, and the goroutines of the buffer have a bounded number of steps
\* before them, to which nobody adds once the buffer is closed (the steps of the
\* runners are bounded by ServicePollerKeeps, those of their calls by the events).
THEOREM ShutdownGoesOn ==
    IsFiniteSet(Workers) =>
        (Spec => /\ []ShutdownNotStuck
                 /\ [](B!Work \in Nat) /\ [][B!RunsDown]_B!vars)
<1> SUFFICES ASSUME IsFiniteSet(Workers)
             PROVE  Spec => /\ []ShutdownNotStuck
                            /\ [](B!Work \in Nat) /\ [][B!RunsDown]_B!vars
  OBVIOUS
<1>1. B!Spec => [](B!Work \in Nat) /\ [][B!RunsDown]_B!vars /\ []B!NotStuck
  <2>1. B!IsFiniteSet(Workers)
    BY DEF IsFiniteSet, B!IsFiniteSet
  <2>2. QED BY <2>1, BufferAssumed, B!BufferRunsDown
<1>2. B!Spec => [](B!TypeOK /\ B!CallInv /\ B!PhaseInv /\ B!SendNeverBlocks)
  <2>1. B!Spec => []B!TypeOK
    BY BufferAssumed, B!TypeCorrect
  <2>2. B!Spec => []B!CallInv
    BY BufferAssumed, B!CallInvariant
  <2>3. B!Spec => []B!PhaseInv
    BY BufferAssumed, B!PhaseInvariant
  <2>4. B!Spec => []B!SendNeverBlocks
    BY BufferAssumed, B!NeverBlocks
  <2>5. QED BY <2>1, <2>2, <2>3, <2>4, PTL
<1>3. P!Spec => []P!TypeOK
  BY PollerAssumed, P!PollerTypes
<1>4. ASSUME B!TypeOK, B!CallInv, B!PhaseInv, B!SendNeverBlocks, B!NotStuck, P!TypeOK,
             CallerInv, MainInv, ReturnInv
      PROVE  ShutdownNotStuck
  <2>1. ASSUME main = "waiting", NEW r \in Started, pc[r] = "polling"
        PROVE  \/ call[PollCall(r)] \in {"idle", "accepted", "refused"}
               \/ /\ call[PollCall(r)] = "sending"
                  /\ sent[PollCall(r)] < CallSize[PollCall(r)] =>
                       ~closed /\ Len(eventCh) < MaxCapacity
    <3>1. PollCall(r) \in AllCalls
      BY <1>4, <2>1 DEF Started, CallerInv, PollCall, PollCalls, AllCalls
    <3>2. ~closed
      BY <1>4, <2>1 DEF MainInv, B!PhaseInv
    <3>3. call[PollCall(r)] \in {"idle", "sending", "accepted", "refused"}
      BY <1>4, <3>1, <3>2 DEF B!TypeOK, B!CallInv
    <3>4. QED BY <1>4, <3>1, <3>2, <3>3 DEF B!SendNeverBlocks
  <2>2. \A r \in Started : pc[r] \in {"delay", "polling", "report", "done"}
    BY <1>4 DEF Started, P!TypeOK, P!Runners, Runners
  <2>3. main = "stopping" => stop \in {"running", "waiting"}
    BY <1>4 DEF ReturnInv, B!TypeOK
  <2>4. QED BY <1>4, <2>1, <2>2, <2>3 DEF ShutdownNotStuck
<1>5. Spec => []ReturnInv
  <2>1. Init => ReturnInv
    BY DEF Init, Buffer!Init, ReturnInv
  <2>2. QED BY <2>1, ReturnStep, MainInvariant, PTL DEF Spec
<1>6. QED
  BY <1>1, <1>2, <1>3, <1>4, <1>5, MainInvariant, CallerInvariant,
     ServiceRunsTheBuffer, ServiceRunsThePoller, PTL

================================================================================
