---------------------------- MODULE BatcherProofs ----------------------------
(***************************************************************************)
(* Proofs about Batcher, for any number of calls, events and publishers    *)
(* and any capacities.                                                     *)
(*                                                                         *)
(* The first part proves the invariants of the buffer.  The second proves  *)
(* that it never holds or settles an event twice, so the two sinks agree.  *)
(* The third is about the order in which the events leave.  The fourth     *)
(* proves that Batcher implements EventDelivery: every step of the         *)
(* goroutines is a step of the promise, or none.  The last proves why      *)
(* events settle and Stop returns: a measure that falls, and somebody who  *)
(* can always move.                                                        *)
(***************************************************************************)
EXTENDS Batcher, Integers, FiniteSets, FiniteSetTheorems, SequenceTheorems, TLAPS

\* What every TryEnqueue call knows while it runs: the lock is held by the one
\* call that is sending, and that call has its space reserved in eventCh.
CallInv ==
    /\ \A c \in Calls : call[c] = "sending" <=> mutex = c
    /\ \A c \in Calls : call[c] \in {"idle", "refused"} => sent[c] = 0
    /\ \A c \in Calls : call[c] = "accepted" => sent[c] = Size[c]
    /\ \A c \in Calls : call[c] = "panicked" => closed
    /\ \A c \in Calls : sent[c] <= Size[c]
    /\ \A c \in Calls :
         call[c] = "sending" => Len(eventCh) + (Size[c] - sent[c]) <= MaxCapacity
    /\ Len(eventCh) <= MaxCapacity

\* What a shutdown has reached is empty and stays empty.
PhaseInv ==
    /\ closed <=> stop # "running"
    /\ collector \in {"lastFlush", "closing", "done"} =>
         closed /\ eventCh = <<>> /\ batch = <<>>
    /\ collector \in {"select", "closing", "done"} => out = <<>>
    /\ flushClosed <=> collector = "done"
    /\ \A w \in Workers : worker[w] \in {"idle", "done"} => held[w] = <<>>
    /\ \A w \in Workers : worker[w] = "done" => flushClosed /\ flushCh = <<>>
    /\ stop = "returned" =>
         collector = "done" /\ \A w \in Workers : worker[w] = "done"

\* Nothing that entered eventCh is lost and nothing else is settled.
Entered == UNION {{c} \X (1..sent[c]) : c \in Calls}

ConserveInv == InBuffer \union acked \union failed = Entered

IInv == TypeOK /\ CallInv /\ PhaseInv /\ MemoryBounded /\ ConserveInv

------------------------------------------------------------------------------
\* The variables keep their types.
THEOREM TypeCorrect == Spec => []TypeOK
<1> USE BatcherAssumption DEF TypeOK
<1>1. Init => TypeOK
  <2>1. <<>> \in Seq(Events) /\ <<>> \in Seq(Seq(Events))
    OBVIOUS
  <2>2. SUFFICES ASSUME Init PROVE TypeOK
    OBVIOUS
  <2>3. eventCh \in Seq(Events) /\ batch \in Seq(Events) /\ out \in Seq(Events)
    BY <2>1, <2>2 DEF Init
  <2>4. flushCh \in Seq(Seq(Events))
    BY <2>1, <2>2 DEF Init
  <2>5. held \in [Workers -> Seq(Events)]
    BY <2>1, <2>2 DEF Init
  <2>6. /\ call \in [Calls -> {"idle", "sending", "accepted", "refused", "panicked"}]
        /\ sent \in [Calls -> Nat]
        /\ worker \in [Workers -> {"idle", "publishing", "storing", "done"}]
    BY <2>2 DEF Init
  <2>7. QED BY <2>2, <2>3, <2>4, <2>5, <2>6 DEF Init
<1>2. TypeOK /\ [Next]_vars => TypeOK'
  <2> SUFFICES ASSUME TypeOK, [Next]_vars PROVE TypeOK'
    OBVIOUS
  <2> USE DEF callVars, collectorVars, workerVars
  <2>1. ASSUME NEW c \in Calls, TryEnqueue(c) PROVE TypeOK'
    <3>1. CASE EnqueueNothing(c) BY <3>1 DEF EnqueueNothing
    <3>2. CASE EnqueueRefuse(c) BY <3>2 DEF EnqueueRefuse
    <3>3. CASE EnqueueBegin(c) BY <3>3 DEF EnqueueBegin
    <3>4. CASE EnqueueSend(c)
      <4>1. <<c, sent[c] + 1>> \in Events
        BY <3>4 DEF EnqueueSend, Events
      <4>2. QED BY <3>4, <4>1 DEF EnqueueSend
    <3>5. CASE EnqueuePanic(c) BY <3>5 DEF EnqueuePanic
    <3>6. CASE EnqueueReturn(c) BY <3>6 DEF EnqueueReturn
    <3>7. QED BY <2>1, <3>1, <3>2, <3>3, <3>4, <3>5, <3>6 DEF TryEnqueue
  <2>2. CASE Receive
    <3>1. Head(eventCh) \in Events /\ Tail(eventCh) \in Seq(Events)
      BY <2>2, HeadTailProperties DEF Receive
    <3>2. Append(batch, Head(eventCh)) \in Seq(Events)
      BY <3>1
    <3>3. CASE Len(Append(batch, Head(eventCh))) >= BatchSize
      <4>1. out' = Append(batch, Head(eventCh)) /\ batch' = <<>> /\ collector' = "flushing"
        BY <2>2, <3>3 DEF Receive, FlushNow
      <4>2. batch' \in Seq(Events)
        BY <4>1
      <4>3. out' \in Seq(Events) 
        BY <4>1, <3>2
      <4>4. eventCh' \in Seq(Events)
        BY <2>2, <3>1 DEF Receive
      <4>5. UNCHANGED <<closed, flushCh, flushClosed, stop, mutex, call, sent, worker, held, acked, failed, stored>>
        BY <2>2 DEF Receive
      <4>6. collector' \in {"select", "flushing", "lastFlush", "closing", "done"}
        BY <4>1
      <4>7. QED
        BY <4>2, <4>3, <4>4, <4>5, <4>6
    <3>4. CASE ~(Len(Append(batch, Head(eventCh))) >= BatchSize)
      BY <2>2, <3>1, <3>2, <3>4 DEF Receive
    <3>5. QED BY <3>3, <3>4
  <2>3. CASE Tick BY <2>3 DEF Tick, FlushNow
  <2>4. CASE SeeClosed BY <2>4 DEF SeeClosed, FlushNow
  <2>5. CASE SendFlush BY <2>5 DEF SendFlush
  <2>6. CASE CloseFlush BY <2>6 DEF CloseFlush
  <2>7. ASSUME NEW w \in Workers, Publish(w) PROVE TypeOK'
    <3>1. Range(held[w]) \subseteq Events
      BY RangeOfSeq
    <3>2. CASE TakeBatch(w)
      <4>1. Head(flushCh) \in Seq(Events) /\ Tail(flushCh) \in Seq(Seq(Events))
        BY <3>2, HeadTailProperties DEF TakeBatch
      <4>2. QED BY <3>2, <4>1 DEF TakeBatch
    <3>3. CASE PublishOk(w)
      <4>1. CASE Persist BY <3>1, <3>3, <4>1 DEF PublishOk
      <4>2. CASE ~Persist
        <5>1. held' \in [Workers -> Seq(Events)]
          <6>1. held' = [held EXCEPT ![w] = <<>>]
            BY <3>3, <4>2 DEF PublishOk
          <6>2. QED BY <6>1
        <5>2. worker' = [worker EXCEPT ![w] = "idle"]
          BY <3>3, <4>2 DEF PublishOk
        <5>3. acked' = acked \union Range(held[w])
          BY <3>3 DEF PublishOk
        <5>4. UNCHANGED <<eventCh, closed, mutex, call, sent, collector, batch, out,
                          flushCh, flushClosed, failed, stored, stop>>
          BY <3>3 DEF PublishOk
        <5>5. QED BY <3>1, <5>1, <5>2, <5>3, <5>4
      <4>3. QED BY <4>1, <4>2
    <3>4. CASE PublishError(w) BY <3>1, <3>4 DEF PublishError
    <3>5. CASE StoreBatch(w) BY <3>1, <3>5 DEF StoreBatch
    <3>6. CASE WorkerExit(w) BY <3>6 DEF WorkerExit
    <3>7. QED BY <2>7, <3>2, <3>3, <3>4, <3>5, <3>6 DEF Publish
  <2>8. CASE StopClose BY <2>8 DEF StopClose
  <2>9. CASE StopReturn BY <2>9 DEF StopReturn
  <2>10. CASE UNCHANGED vars BY <2>10 DEF vars
  <2>11. QED
    BY <2>1, <2>2, <2>3, <2>4, <2>5, <2>6, <2>7, <2>8, <2>9, <2>10 DEF Next, Collect
<1>3. QED BY <1>1, <1>2, PTL DEF Spec

------------------------------------------------------------------------------
\* The lock, the progress of the calls and the space reserved in eventCh.
LEMMA CallInvStep == TypeOK /\ CallInv /\ [Next]_vars => CallInv'
<1> SUFFICES ASSUME TypeOK, CallInv, [Next]_vars PROVE CallInv'
  OBVIOUS
<1> USE BatcherAssumption DEF TypeOK, CallInv, callVars, collectorVars, workerVars
<1>1. ASSUME NEW c \in Calls, TryEnqueue(c) PROVE CallInv'
  <2>1. CASE EnqueueNothing(c) BY <2>1 DEF EnqueueNothing
  <2>2. CASE EnqueueRefuse(c) BY <2>2 DEF EnqueueRefuse
  <2>3. CASE EnqueueBegin(c) BY <2>3 DEF EnqueueBegin, Fits
  <2>4. CASE EnqueueSend(c)
    <3>1. Len(eventCh') = Len(eventCh) + 1
      BY <2>4 DEF EnqueueSend
    <3>2. /\ sent[c] < Size[c]
          /\ sent' = [sent EXCEPT ![c] = @ + 1]
          /\ UNCHANGED <<call, mutex, closed>>
          /\ call[c] = "sending"
      BY <2>4 DEF EnqueueSend
    <3>3. \A d \in Calls : call[d] = "sending" => d = c
      BY <3>2
    <3>4. QED BY <3>1, <3>2, <3>3
  <2>5. CASE EnqueuePanic(c) BY <2>5 DEF EnqueuePanic
  <2>6. CASE EnqueueReturn(c) BY <2>6 DEF EnqueueReturn
  <2>7. QED BY <1>1, <2>1, <2>2, <2>3, <2>4, <2>5, <2>6 DEF TryEnqueue
<1>2. CASE Receive
  <2>1. Len(eventCh') = Len(eventCh) - 1
    BY <1>2, HeadTailProperties DEF Receive
  <2>2. UNCHANGED <<call, mutex, sent, closed>>
    BY <1>2 DEF Receive
  <2>3. QED BY <2>1, <2>2
<1>3. CASE Tick BY <1>3 DEF Tick
<1>4. CASE SeeClosed BY <1>4 DEF SeeClosed
<1>5. CASE SendFlush BY <1>5 DEF SendFlush
<1>6. CASE CloseFlush BY <1>6 DEF CloseFlush
<1>7. ASSUME NEW w \in Workers, Publish(w) PROVE CallInv'
  <2>1. UNCHANGED <<eventCh, closed, mutex, call, sent>>
    BY <1>7 DEF Publish, TakeBatch, PublishOk, PublishError, StoreBatch, WorkerExit
  <2>2. QED BY <2>1
<1>8. CASE StopClose BY <1>8 DEF StopClose
<1>9. CASE StopReturn BY <1>9 DEF StopReturn
<1>10. CASE UNCHANGED vars BY <1>10 DEF vars
<1>11. QED
  BY <1>1, <1>2, <1>3, <1>4, <1>5, <1>6, <1>7, <1>8, <1>9, <1>10 DEF Next, Collect

\* The lock belongs to the one call that sends, and that call has its space.
THEOREM CallInvariant == Spec => []CallInv
<1>1. Init => CallInv
  BY BatcherAssumption DEF Init, CallInv
<1>2. QED BY <1>1, CallInvStep, TypeCorrect, PTL DEF Spec

\* A caller that passed the length check never finds eventCh full.
THEOREM NeverBlocks == Spec => []SendNeverBlocks
<1>1. TypeOK /\ CallInv => SendNeverBlocks
  BY BatcherAssumption DEF TypeOK, CallInv, SendNeverBlocks
<1>2. QED BY <1>1, CallInvariant, TypeCorrect, PTL

------------------------------------------------------------------------------
\* What a shutdown has emptied stays empty.
LEMMA PhaseInvStep == TypeOK /\ PhaseInv /\ [Next]_vars => PhaseInv'
<1> SUFFICES ASSUME TypeOK, PhaseInv, [Next]_vars PROVE PhaseInv'
  OBVIOUS
<1> USE DEF TypeOK, PhaseInv, callVars, collectorVars, workerVars
<1>1. ASSUME NEW c \in Calls, TryEnqueue(c) PROVE PhaseInv'
  <2>1. UNCHANGED <<closed, flushCh, flushClosed, stop, collector, batch, out,
                    worker, held>>
    BY <1>1 DEF TryEnqueue, EnqueueNothing, EnqueueRefuse, EnqueueBegin,
                EnqueueSend, EnqueuePanic, EnqueueReturn
  <2>2. eventCh' # eventCh => ~closed
    BY <1>1 DEF TryEnqueue, EnqueueNothing, EnqueueRefuse, EnqueueBegin,
                EnqueueSend, EnqueuePanic, EnqueueReturn
  <2>3. QED BY <2>1, <2>2
<1>2. CASE Receive BY <1>2 DEF Receive, FlushNow
<1>3. CASE Tick BY <1>3 DEF Tick, FlushNow
<1>4. CASE SeeClosed BY <1>4 DEF SeeClosed, FlushNow
<1>5. CASE SendFlush BY <1>5 DEF SendFlush
<1>6. CASE CloseFlush BY <1>6 DEF CloseFlush
<1>7. ASSUME NEW w \in Workers, Publish(w) PROVE PhaseInv'
  <2>1. CASE TakeBatch(w) BY <2>1 DEF TakeBatch
  <2>2. CASE PublishOk(w) BY <2>2 DEF PublishOk
  <2>3. CASE PublishError(w) BY <2>3 DEF PublishError
  <2>4. CASE StoreBatch(w) BY <2>4 DEF StoreBatch
  <2>5. CASE WorkerExit(w) BY <2>5 DEF WorkerExit
  <2>6. QED BY <1>7, <2>1, <2>2, <2>3, <2>4, <2>5 DEF Publish
<1>8. CASE StopClose BY <1>8 DEF StopClose
<1>9. CASE StopReturn BY <1>9 DEF StopReturn
<1>10. CASE UNCHANGED vars BY <1>10 DEF vars
<1>11. QED
  BY <1>1, <1>2, <1>3, <1>4, <1>5, <1>6, <1>7, <1>8, <1>9, <1>10 DEF Next, Collect

\* The goroutines end in order, each leaving nothing behind.
THEOREM PhaseInvariant == Spec => []PhaseInv
<1>1. Init => PhaseInv
  BY DEF Init, PhaseInv
<1>2. QED BY <1>1, PhaseInvStep, TypeCorrect, PTL DEF Spec

------------------------------------------------------------------------------
\* The bound of each place that holds events.
LEMMA MemoryStep == TypeOK /\ CallInv' /\ MemoryBounded /\ [Next]_vars => MemoryBounded'
<1> SUFFICES ASSUME TypeOK, CallInv', MemoryBounded, [Next]_vars PROVE MemoryBounded'
  OBVIOUS
<1> USE BatcherAssumption DEF TypeOK, MemoryBounded, callVars, collectorVars, workerVars
<1>0. Len(eventCh') <= MaxCapacity
  BY DEF CallInv
<1>1. ASSUME NEW c \in Calls, TryEnqueue(c) PROVE MemoryBounded'
  <2>1. UNCHANGED <<flushCh, batch, out, held>>
    BY <1>1 DEF TryEnqueue, EnqueueNothing, EnqueueRefuse, EnqueueBegin,
                EnqueueSend, EnqueuePanic, EnqueueReturn
  <2>2. QED BY <1>0, <2>1
<1>2. CASE Receive
  <2> DEFINE grown == Append(batch, Head(eventCh))
  <2>1. Head(eventCh) \in Events
    BY <1>2, HeadTailProperties DEF Receive
  <2>2. Len(grown) = Len(batch) + 1
    BY <2>1, AppendProperties
  <2>3. UNCHANGED <<flushCh, held>>
    BY <1>2 DEF Receive
  <2>4. CASE Len(grown) >= BatchSize
    <3>1. out' = grown /\ batch' = <<>>
      BY <1>2, <2>4 DEF Receive, FlushNow
    <3>2. QED BY <1>0, <2>2, <2>3, <3>1
  <2>5. CASE ~(Len(grown) >= BatchSize)
    <3>1. batch' = grown /\ out' = out
      BY <1>2, <2>5 DEF Receive, FlushNow
    <3>2. QED BY <1>0, <2>2, <2>3, <2>5, <3>1
  <2>6. QED BY <2>4, <2>5
<1>3. CASE Tick BY <1>3 DEF Tick, FlushNow
<1>4. CASE SeeClosed BY <1>4 DEF SeeClosed, FlushNow
<1>5. CASE SendFlush
  <2>1. Len(flushCh') <= FlushCap
    BY <1>5 DEF SendFlush
  <2>2. \A i \in DOMAIN flushCh' : Len(flushCh'[i]) <= BatchSize
    BY <1>5 DEF SendFlush
  <2>3. out' = <<>> /\ UNCHANGED <<batch, held>>
    BY <1>5 DEF SendFlush
  <2>4. QED BY <1>0, <2>1, <2>2, <2>3
<1>6. CASE CloseFlush BY <1>6 DEF CloseFlush
<1>7. ASSUME NEW w \in Workers, Publish(w) PROVE MemoryBounded'
  <2>1. CASE TakeBatch(w)
    <3>1. flushCh' = Tail(flushCh) /\ held' = [held EXCEPT ![w] = Head(flushCh)]
      BY <2>1 DEF TakeBatch
    <3>2. /\ Len(Tail(flushCh)) = Len(flushCh) - 1
          /\ \A i \in 1..Len(Tail(flushCh)) : Tail(flushCh)[i] = flushCh[i + 1]
      BY <2>1, HeadTailProperties DEF TakeBatch
    <3>3. Len(Head(flushCh)) <= BatchSize
      BY <2>1 DEF TakeBatch
    <3>4. \A i \in DOMAIN flushCh' : Len(flushCh'[i]) <= BatchSize
      <4>1. DOMAIN Tail(flushCh) = 1..Len(Tail(flushCh))
        BY <2>1, HeadTailProperties, LenProperties DEF TakeBatch
      <4>2. \A i \in 1..(Len(flushCh) - 1) : i + 1 \in DOMAIN flushCh
        BY LenProperties
      <4>3. QED BY <3>1, <3>2, <4>1, <4>2
    <3>5. \A v \in Workers : Len(held'[v]) <= BatchSize
      BY <3>1, <3>3
    <3>6. UNCHANGED <<batch, out>>
      BY <2>1 DEF TakeBatch
    <3>7. Len(flushCh') <= FlushCap
      BY <3>1, <3>2
    <3>8. QED BY <1>0, <3>4, <3>5, <3>6, <3>7
  <2>2. CASE PublishOk(w)
    <3>1. held' \in {held, [held EXCEPT ![w] = <<>>]}
      BY <2>2 DEF PublishOk
    <3>2. UNCHANGED <<flushCh, batch, out>>
      BY <2>2 DEF PublishOk
    <3>3. \A v \in Workers : Len(held'[v]) <= BatchSize
      <4>1. CASE held' = held BY <4>1
      <4>2. CASE held' = [held EXCEPT ![w] = <<>>] BY <4>2
      <4>3. QED BY <3>1, <4>1, <4>2
    <3>4. QED BY <1>0, <3>2, <3>3
  <2>3. CASE PublishError(w)
    <3>1. held' = [held EXCEPT ![w] = <<>>] /\ UNCHANGED <<flushCh, batch, out>>
      BY <2>3 DEF PublishError
    <3>2. QED BY <1>0, <3>1
  <2>4. CASE StoreBatch(w)
    <3>1. held' = [held EXCEPT ![w] = <<>>] /\ UNCHANGED <<flushCh, batch, out>>
      BY <2>4 DEF StoreBatch
    <3>2. QED BY <1>0, <3>1
  <2>5. CASE WorkerExit(w) BY <1>0, <2>5 DEF WorkerExit
  <2>6. QED BY <1>7, <2>1, <2>2, <2>3, <2>4, <2>5 DEF Publish
<1>8. CASE StopClose BY <1>8 DEF StopClose
<1>9. CASE StopReturn BY <1>9 DEF StopReturn
<1>10. CASE UNCHANGED vars BY <1>10 DEF vars
<1>11. QED
  BY <1>1, <1>2, <1>3, <1>4, <1>5, <1>6, <1>7, <1>8, <1>9, <1>10 DEF Next, Collect

\* The buffer is memory-bounded for any capacities and any number of callers.
THEOREM MemoryIsBounded == Spec => []MemoryBounded
<1>1. Init => MemoryBounded
  BY BatcherAssumption DEF Init, MemoryBounded
<1>2. QED BY <1>1, MemoryStep, CallInvariant, TypeCorrect, PTL DEF Spec

------------------------------------------------------------------------------
(* What Append, Head and Tail do to the elements of a sequence. *)

\* An empty sequence holds nothing.
LEMMA RangeEmpty == Range(<<>>) = {}
BY DEF Range

\* Append adds its element.
LEMMA RangeAppend ==
  ASSUME NEW S, NEW s \in Seq(S), NEW e \in S
  PROVE  Range(Append(s, e)) = Range(s) \union {e}
<1>1. Append(s, e) \in Seq(S) /\ Len(Append(s, e)) = Len(s) + 1
  BY AppendProperties
<1>2. Range(Append(s, e)) = {Append(s, e)[i] : i \in 1..(Len(s) + 1)}
  BY <1>1, RangeEquality
<1>3. Range(s) = {s[i] : i \in 1..Len(s)}
  BY RangeEquality
<1>4. \A i \in 1..Len(s) : Append(s, e)[i] = s[i]
  BY AppendProperties
<1>5. Append(s, e)[Len(s) + 1] = e
  BY AppendProperties
<1>6. Len(s) \in Nat
  OBVIOUS
<1>7. 1..(Len(s) + 1) = 1..Len(s) \union {Len(s) + 1}
  BY <1>6
<1>8. {Append(s, e)[i] : i \in 1..Len(s)} = {s[i] : i \in 1..Len(s)}
  BY <1>4
<1>9. QED BY <1>2, <1>3, <1>5, <1>7, <1>8

\* Head and Tail hold between them what the sequence holds.
LEMMA RangeHeadTail ==
  ASSUME NEW S, NEW s \in Seq(S), s # <<>>
  PROVE  Range(s) = {Head(s)} \union Range(Tail(s))
<1>1. /\ Tail(s) \in Seq(S)
      /\ Len(Tail(s)) = Len(s) - 1
      /\ \A i \in 1..Len(Tail(s)) : Tail(s)[i] = s[i + 1]
  BY HeadTailProperties
<1>2. Range(Tail(s)) = {s[i + 1] : i \in 1..(Len(s) - 1)}
  <2>1. Range(Tail(s)) = {Tail(s)[i] : i \in 1..Len(Tail(s))}
    BY <1>1, RangeEquality
  <2>2. QED BY <1>1, <2>1
<1>3. Range(s) = {s[i] : i \in 1..Len(s)}
  BY RangeEquality
<1>4. Len(s) \in Nat \ {0}
  BY EmptySeq
<1>5. Head(s) = s[1]
  OBVIOUS
<1>6. \A i \in 1..Len(s) : i = 1 \/ (i - 1 \in 1..(Len(s) - 1) /\ (i - 1) + 1 = i)
  BY <1>4
<1>7. \A i \in 1..(Len(s) - 1) : i + 1 \in 1..Len(s)
  BY <1>4
<1>8. 1 \in 1..Len(s)
  BY <1>4
<1>9. ASSUME NEW x \in Range(s) PROVE x \in {Head(s)} \union Range(Tail(s))
  <2>1. PICK i \in 1..Len(s) : x = s[i]
    BY <1>3
  <2>2. QED BY <1>2, <1>5, <1>6, <2>1
<1>10. ASSUME NEW x \in {Head(s)} \union Range(Tail(s)) PROVE x \in Range(s)
  BY <1>2, <1>3, <1>5, <1>7, <1>8
<1>11. QED BY <1>9, <1>10

\* The same for the events in a sequence of batches.
LEMMA EventsInAppend ==
  ASSUME NEW S, NEW bs \in Seq(Seq(S)), NEW b \in Seq(S)
  PROVE  EventsIn(Append(bs, b)) = EventsIn(bs) \union Range(b)
<1>1. Range(Append(bs, b)) = Range(bs) \union {b}
  BY RangeAppend
<1>2. QED BY <1>1 DEF EventsIn

\* And for the first batch and the rest.
LEMMA EventsInHeadTail ==
  ASSUME NEW S, NEW bs \in Seq(Seq(S)), bs # <<>>
  PROVE  EventsIn(bs) = Range(Head(bs)) \union EventsIn(Tail(bs))
<1>1. Range(bs) = {Head(bs)} \union Range(Tail(bs))
  BY RangeHeadTail
<1>2. QED BY <1>1 DEF EventsIn

------------------------------------------------------------------------------
\* No event is lost or invented between eventCh and its publisher's verdict.
LEMMA ConserveStep == TypeOK /\ PhaseInv /\ ConserveInv /\ [Next]_vars => ConserveInv'
<1> SUFFICES ASSUME TypeOK, PhaseInv, ConserveInv, [Next]_vars PROVE ConserveInv'
  OBVIOUS
<1> USE DEF callVars, collectorVars, workerVars
<1>0. /\ eventCh \in Seq(Events) /\ batch \in Seq(Events) /\ out \in Seq(Events)
      /\ flushCh \in Seq(Seq(Events)) /\ held \in [Workers -> Seq(Events)]
      /\ sent \in [Calls -> Nat]
      /\ worker \in [Workers -> {"idle", "publishing", "storing", "done"}]
  BY DEF TypeOK
<1>1. ASSUME NEW c \in Calls, TryEnqueue(c) PROVE ConserveInv'
  <2>1. CASE EnqueueSend(c)
    <3> DEFINE e == <<c, sent[c] + 1>>
    <3>1. e \in Events
      BY <2>1, BatcherAssumption, <1>0 DEF EnqueueSend, Events
    <3>2. Range(eventCh') = Range(eventCh) \union {e}
      BY <2>1, <3>1, <1>0, RangeAppend DEF EnqueueSend
    <3>3. Entered' = Entered \union {e}
      <4>1. sent' = [sent EXCEPT ![c] = @ + 1]
        BY <2>1 DEF EnqueueSend
      <4>2. 1..sent'[c] = 1..sent[c] \union {sent[c] + 1}
        BY <4>1, <1>0
      <4>3. \A d \in Calls : d # c => sent'[d] = sent[d]
        BY <4>1, <1>0
      <4>4. QED BY <4>2, <4>3 DEF Entered
    <3>4. UNCHANGED <<batch, out, flushCh, worker, held, acked, failed>>
      BY <2>1 DEF EnqueueSend
    <3>5. QED BY <3>2, <3>3, <3>4 DEF ConserveInv, InBuffer, EventsIn, InHands, Publishing
  <2>2. CASE ~EnqueueSend(c)
    <3>1. UNCHANGED <<eventCh, sent, batch, out, flushCh, worker, held, acked, failed>>
      BY <1>1, <2>2 DEF TryEnqueue, EnqueueNothing, EnqueueRefuse, EnqueueBegin,
                        EnqueuePanic, EnqueueReturn
    <3>2. QED BY <3>1 DEF ConserveInv, InBuffer, EventsIn, InHands, Publishing, Entered
  <2>3. QED BY <2>1, <2>2
<1>2. CASE Receive
  <2>1. Head(eventCh) \in Events /\ eventCh # <<>>
    BY <1>2, <1>0, HeadTailProperties DEF Receive
  <2>2. Range(eventCh) = {Head(eventCh)} \union Range(eventCh')
    BY <1>2, <1>0, RangeHeadTail DEF Receive
  <2>3. Range(Append(batch, Head(eventCh))) = Range(batch) \union {Head(eventCh)}
    BY <2>1, <1>0, RangeAppend
  <2>4. Range(out) = {}
    BY <1>2, RangeEmpty DEF Receive, PhaseInv
  <2>5. UNCHANGED <<sent, flushCh, worker, held, acked, failed>>
    BY <1>2 DEF Receive
  <2>6. Range(batch') \union Range(out') = Range(batch) \union {Head(eventCh)}
    <3>1. CASE Len(Append(batch, Head(eventCh))) >= BatchSize
      <4>1. out' = Append(batch, Head(eventCh)) /\ batch' = <<>>
        BY <1>2, <3>1 DEF Receive, FlushNow
      <4>2. QED BY <4>1, <2>3, RangeEmpty
    <3>2. CASE ~(Len(Append(batch, Head(eventCh))) >= BatchSize)
      <4>1. batch' = Append(batch, Head(eventCh)) /\ out' = out
        BY <1>2, <3>2 DEF Receive
      <4>2. QED BY <4>1, <2>3, <2>4
    <3>3. QED BY <3>1, <3>2
  <2>7. QED
    BY <2>2, <2>4, <2>5, <2>6 DEF ConserveInv, InBuffer, InHands, Publishing, Entered
<1>3. CASE Tick \/ SeeClosed
  <2>1. out' = batch /\ batch' = <<>> /\ out = <<>>
    BY <1>3 DEF Tick, SeeClosed, FlushNow, PhaseInv
  <2>2. UNCHANGED <<eventCh, sent, flushCh, worker, held, acked, failed>>
    BY <1>3 DEF Tick, SeeClosed
  <2>3. QED
    BY <2>1, <2>2, RangeEmpty DEF ConserveInv, InBuffer, InHands, Publishing, Entered
<1>4. CASE SendFlush
  <2>1. EventsIn(flushCh') = EventsIn(flushCh) \union Range(out)
    BY <1>4, <1>0, EventsInAppend DEF SendFlush
  <2>2. Range(out') = {}
    BY <1>4, RangeEmpty DEF SendFlush
  <2>3. UNCHANGED <<eventCh, batch, sent, worker, held, acked, failed>>
    BY <1>4 DEF SendFlush
  <2>4. QED
    BY <2>1, <2>2, <2>3 DEF ConserveInv, InBuffer, InHands, Publishing, Entered
<1>5. ASSUME NEW w \in Workers, Publish(w) PROVE ConserveInv'
  <2>1. CASE TakeBatch(w)
    <3>1. EventsIn(flushCh) = Range(Head(flushCh)) \union EventsIn(flushCh')
      BY <2>1, <1>0, EventsInHeadTail DEF TakeBatch
    <3>2. InHands' = InHands \union Range(Head(flushCh))
      <4>1. Publishing' = Publishing \union {w} /\ w \notin Publishing
        BY <2>1, <1>0 DEF TakeBatch, Publishing
      <4>2. held'[w] = Head(flushCh) /\ \A v \in Workers : v # w => held'[v] = held[v]
        BY <2>1, <1>0 DEF TakeBatch
      <4>3. QED BY <4>1, <4>2 DEF InHands, Publishing
    <3>3. UNCHANGED <<eventCh, batch, out, sent, acked, failed>>
      BY <2>1 DEF TakeBatch
    <3>4. QED BY <3>1, <3>2, <3>3 DEF ConserveInv, InBuffer, Entered
  <2>2. CASE PublishOk(w) \/ PublishError(w)
    <3>1. w \in Publishing /\ Publishing' = Publishing \ {w}
      BY <2>2, <1>0 DEF PublishOk, PublishError, Publishing
    <3>2. \A v \in Workers : v # w => held'[v] = held[v]
      BY <2>2, <1>0 DEF PublishOk, PublishError
    <3>3. InHands' \union Range(held[w]) = InHands
      BY <3>1, <3>2 DEF InHands, Publishing
    <3>4. acked' \union failed' = acked \union failed \union Range(held[w])
      BY <2>2 DEF PublishOk, PublishError
    <3>5. UNCHANGED <<eventCh, batch, out, flushCh, sent>>
      BY <2>2 DEF PublishOk, PublishError
    <3>6. QED BY <3>3, <3>4, <3>5 DEF ConserveInv, InBuffer, Entered
  <2>3. CASE StoreBatch(w) \/ WorkerExit(w)
    <3>1. Publishing' = Publishing /\ \A v \in Publishing : held'[v] = held[v]
      BY <2>3, <1>0 DEF StoreBatch, WorkerExit, Publishing
    <3>2. InHands' = InHands
      BY <3>1 DEF InHands
    <3>3. UNCHANGED <<eventCh, batch, out, flushCh, sent, acked, failed>>
      BY <2>3 DEF StoreBatch, WorkerExit
    <3>4. QED BY <3>2, <3>3 DEF ConserveInv, InBuffer, Entered
  <2>4. QED BY <1>5, <2>1, <2>2, <2>3 DEF Publish
<1>6. CASE CloseFlush \/ StopClose \/ StopReturn \/ UNCHANGED vars
  <2>1. UNCHANGED <<eventCh, batch, out, flushCh, sent, worker, held, acked, failed>>
    BY <1>6 DEF CloseFlush, StopClose, StopReturn, vars
  <2>2. QED BY <2>1 DEF ConserveInv, InBuffer, InHands, Publishing, Entered
<1>7. QED
  BY <1>1, <1>2, <1>3, <1>4, <1>5, <1>6 DEF Next, Collect

\* What entered eventCh is held somewhere or settled, and nothing else is.
THEOREM ConserveInvariant == Spec => []ConserveInv
<1>1. Init => ConserveInv
  <2> SUFFICES ASSUME Init PROVE ConserveInv
    OBVIOUS
  <2>1. Entered = {}
    BY DEF Init, Entered
  <2>2. Range(eventCh) = {} /\ Range(batch) = {} /\ Range(out) = {} /\ Range(flushCh) = {}
    BY RangeEmpty DEF Init
  <2>3. Publishing = {} /\ acked = {} /\ failed = {}
    BY DEF Init, Publishing
  <2>4. QED BY <2>1, <2>2, <2>3 DEF ConserveInv, InBuffer, EventsIn, InHands
<1>2. QED BY <1>1, ConserveStep, PhaseInvariant, TypeCorrect, PTL DEF Spec

\* A stopped buffer has given every event that entered it to Kafka.
THEOREM StopIsGraceful == Spec => []StopDrains
<1>1. TypeOK /\ PhaseInv /\ ConserveInv => StopDrains
  <2> SUFFICES ASSUME TypeOK, PhaseInv, ConserveInv, stop = "returned"
               PROVE  /\ InBuffer = {}
                      /\ \A c \in Calls : \A i \in 1..sent[c] : <<c, i>> \in acked \union failed
    BY DEF StopDrains
  <2>1. eventCh = <<>> /\ batch = <<>> /\ out = <<>>
    BY DEF PhaseInv
  <2>2. \A w \in Workers : worker[w] = "done"
    BY DEF PhaseInv
  <2>3. flushCh = <<>>
    BY <2>2, BatcherAssumption DEF PhaseInv
  <2>4. Publishing = {}
    BY <2>2 DEF Publishing
  <2>5. /\ Range(eventCh) = {} /\ Range(batch) = {} /\ Range(out) = {}
        /\ Range(flushCh) = {}
    BY <2>1, <2>3, RangeEmpty
  <2>6. InBuffer = {}
    BY <2>4, <2>5 DEF InBuffer, EventsIn, InHands
  <2>7. acked \union failed = Entered
    BY <2>6 DEF ConserveInv
  <2>8. QED BY <2>6, <2>7 DEF Entered
<1>2. QED BY <1>1, ConserveInvariant, PhaseInvariant, TypeCorrect, PTL

------------------------------------------------------------------------------
\* A call is taken as a whole or not at all.
THEOREM CallsAreAtomic == Spec => []AllOrNothing
<1>1. TypeOK /\ CallInv /\ ConserveInv => AllOrNothing
  <2> SUFFICES ASSUME TypeOK, CallInv, ConserveInv, NEW c \in Calls
               PROVE  LET taken == {i \in 1..Size[c] :
                                      <<c, i>> \in InBuffer \union acked \union failed} IN
                      /\ call[c] \in {"idle", "refused"} => taken = {}
                      /\ call[c] = "accepted" => taken = 1..Size[c]
                      /\ call[c] = "panicked" => closed
    BY DEF AllOrNothing
  <2> DEFINE taken == {i \in 1..Size[c] : <<c, i>> \in InBuffer \union acked \union failed}
  <2>1. sent[c] \in Nat /\ Size[c] \in Nat /\ sent[c] <= Size[c]
    BY BatcherAssumption DEF TypeOK, CallInv
  <2>2. InBuffer \union acked \union failed = Entered
    BY DEF ConserveInv
  <2>3. \A i : <<c, i>> \in Entered <=> i \in 1..sent[c]
    BY DEF Entered
  <2>4. taken = {i \in 1..Size[c] : i \in 1..sent[c]}
    BY <2>2, <2>3
  <2>5. taken = 1..sent[c]
    BY <2>1, <2>4
  <2>6. call[c] \in {"idle", "refused"} => taken = {}
    <3>1. call[c] \in {"idle", "refused"} => sent[c] = 0
      BY DEF CallInv
    <3>2. QED BY <2>5, <3>1
  <2>7. call[c] = "accepted" => taken = 1..Size[c]
    BY <2>5 DEF CallInv
  <2>8. call[c] = "panicked" => closed
    BY DEF CallInv
  <2>9. QED BY <2>6, <2>7, <2>8
<1>2. QED BY <1>1, ConserveInvariant, CallInvariant, TypeCorrect, PTL

------------------------------------------------------------------------------
(* No event twice *)

Settled == acked \union failed

\* No event is in two places, the six places from eventCh to the verdict.
ApartInv ==
    /\ Range(eventCh) \intersect (Range(batch) \union Range(out)) = {}
    /\ Range(eventCh) \intersect (EventsIn(flushCh) \union InHands \union Settled) = {}
    /\ Range(batch) \intersect Range(out) = {}
    /\ Range(batch) \intersect (EventsIn(flushCh) \union InHands \union Settled) = {}
    /\ Range(out) \intersect (EventsIn(flushCh) \union InHands \union Settled) = {}
    /\ EventsIn(flushCh) \intersect (InHands \union Settled) = {}
    /\ InHands \intersect Settled = {}

\* Nor is one twice in the same place.
OnceInv ==
    /\ \A i, j \in 1..Len(eventCh) : i # j => eventCh[i] # eventCh[j]
    /\ \A i, j \in 1..Len(flushCh) :
         i # j => Range(flushCh[i]) \intersect Range(flushCh[j]) = {}
    /\ \A v, w \in Publishing : v # w => Range(held[v]) \intersect Range(held[w]) = {}
    /\ acked \intersect failed = {}

\* What is stored or on its way to Timescale was acknowledged before.
SinkInv ==
    /\ stored \subseteq acked
    /\ \A w \in Workers : worker[w] = "storing" => Range(held[w]) \subseteq acked

------------------------------------------------------------------------------
(* Lemmas *)

\* What a sequence without repetitions loses with its head does not come back.
LEMMA DistinctTail ==
  ASSUME NEW S, NEW s \in Seq(S), s # <<>>,
         \A i, j \in 1..Len(s) : i # j => s[i] # s[j]
  PROVE  /\ \A i, j \in 1..Len(Tail(s)) : i # j => Tail(s)[i] # Tail(s)[j]
         /\ Head(s) \notin Range(Tail(s))
<1>1. /\ Tail(s) \in Seq(S)
      /\ Len(Tail(s)) = Len(s) - 1
      /\ \A i \in 1..Len(Tail(s)) : Tail(s)[i] = s[i + 1]
  BY HeadTailProperties
<1>2. Len(s) \in Nat \ {0}
  BY EmptySeq
<1>3. \A i \in 1..Len(Tail(s)) : i + 1 \in 1..Len(s) /\ i + 1 # 1
  BY <1>1, <1>2
<1>4. \A i, j \in 1..Len(Tail(s)) : i # j => i + 1 # j + 1
  BY <1>1, <1>2
<1>5. \A i, j \in 1..Len(Tail(s)) : i # j => Tail(s)[i] # Tail(s)[j]
  BY <1>1, <1>3, <1>4
<1>6. Head(s) = s[1] /\ 1 \in 1..Len(s)
  BY <1>2
<1>7. Range(Tail(s)) = {Tail(s)[i] : i \in 1..Len(Tail(s))}
  BY <1>1, RangeEquality
<1>8. Head(s) \notin Range(Tail(s))
  BY <1>1, <1>3, <1>6, <1>7
<1>9. QED BY <1>5, <1>8

\* The batch taken from flushCh shares no event with those left there.
LEMMA DisjointTail ==
  ASSUME NEW S, NEW bs \in Seq(Seq(S)), bs # <<>>,
         \A i, j \in 1..Len(bs) : i # j => Range(bs[i]) \intersect Range(bs[j]) = {}
  PROVE  /\ \A i, j \in 1..Len(Tail(bs)) :
              i # j => Range(Tail(bs)[i]) \intersect Range(Tail(bs)[j]) = {}
         /\ Range(Head(bs)) \intersect EventsIn(Tail(bs)) = {}
<1>1. /\ Tail(bs) \in Seq(Seq(S))
      /\ Len(Tail(bs)) = Len(bs) - 1
      /\ \A i \in 1..Len(Tail(bs)) : Tail(bs)[i] = bs[i + 1]
  BY HeadTailProperties
<1>2. Len(bs) \in Nat \ {0}
  BY EmptySeq
<1>3. \A i \in 1..Len(Tail(bs)) : i + 1 \in 1..Len(bs) /\ i + 1 # 1
  BY <1>1, <1>2
<1>4. \A i, j \in 1..Len(Tail(bs)) : i # j => i + 1 # j + 1
  BY <1>1, <1>2
<1>5. \A i, j \in 1..Len(Tail(bs)) :
        i # j => Range(Tail(bs)[i]) \intersect Range(Tail(bs)[j]) = {}
  BY <1>1, <1>3, <1>4
<1>6. Head(bs) = bs[1] /\ 1 \in 1..Len(bs)
  BY <1>2
<1>7. Range(Tail(bs)) = {Tail(bs)[i] : i \in 1..Len(Tail(bs))}
  BY <1>1, RangeEquality
<1>8. \A b \in Range(Tail(bs)) : Range(Head(bs)) \intersect Range(b) = {}
  BY <1>1, <1>3, <1>6, <1>7
<1>9. Range(Head(bs)) \intersect EventsIn(Tail(bs)) = {}
  BY <1>8 DEF EventsIn
<1>10. QED BY <1>5, <1>9

\* Nor does a batch that is appended with those before it.
LEMMA DisjointAppend ==
  ASSUME NEW S, NEW bs \in Seq(Seq(S)), NEW b \in Seq(S),
         Range(b) \intersect EventsIn(bs) = {},
         \A i, j \in 1..Len(bs) : i # j => Range(bs[i]) \intersect Range(bs[j]) = {}
  PROVE  \A i, j \in 1..Len(Append(bs, b)) :
           i # j => Range(Append(bs, b)[i]) \intersect Range(Append(bs, b)[j]) = {}
<1>1. /\ Append(bs, b) \in Seq(Seq(S))
      /\ Len(Append(bs, b)) = Len(bs) + 1
      /\ \A i \in 1..Len(bs) : Append(bs, b)[i] = bs[i]
      /\ Append(bs, b)[Len(bs) + 1] = b
  BY AppendProperties
<1>2. Len(bs) \in Nat
  OBVIOUS
<1>3. \A i \in 1..(Len(bs) + 1) : i \in 1..Len(bs) \/ i = Len(bs) + 1
  BY <1>2
<1>4. \A i \in 1..Len(bs) : bs[i] \in Range(bs)
  BY RangeEquality
<1>5. \A i \in 1..Len(bs) : Range(b) \intersect Range(bs[i]) = {}
  BY <1>4 DEF EventsIn
<1>6. QED BY <1>1, <1>3, <1>5

------------------------------------------------------------------------------
(* No event is held twice *)

\* An event moves from place to place and leaves nothing behind.
LEMMA ApartStep ==
  TypeOK /\ PhaseInv /\ ConserveInv /\ ApartInv /\ OnceInv /\ [Next]_vars
    => ApartInv' /\ OnceInv'
<1> SUFFICES ASSUME TypeOK, PhaseInv, ConserveInv, ApartInv, OnceInv, [Next]_vars
             PROVE  ApartInv' /\ OnceInv'
  OBVIOUS
<1> USE DEF callVars, collectorVars, workerVars
<1>0. /\ eventCh \in Seq(Events) /\ batch \in Seq(Events) /\ out \in Seq(Events)
      /\ flushCh \in Seq(Seq(Events)) /\ held \in [Workers -> Seq(Events)]
      /\ sent \in [Calls -> Nat]
      /\ worker \in [Workers -> {"idle", "publishing", "storing", "done"}]
  BY DEF TypeOK
<1>1. ASSUME NEW c \in Calls, TryEnqueue(c) PROVE ApartInv' /\ OnceInv'
  <2>1. CASE EnqueueSend(c)
    <3> DEFINE e == <<c, sent[c] + 1>>
    <3>1. e \in Events
      BY <2>1, BatcherAssumption, <1>0 DEF EnqueueSend, Events
    <3>2. e \notin Entered
      <4>1. sent[c] \in Nat
        BY <1>0
      <4>2. sent[c] + 1 \notin 1..sent[c]
        BY <4>1
      <4>3. QED BY <4>2 DEF Entered
    <3>3. e \notin InBuffer \union acked \union failed
      BY <3>2 DEF ConserveInv
    <3>4. eventCh' = Append(eventCh, e)
      BY <2>1 DEF EnqueueSend
    <3>5. Range(eventCh') = Range(eventCh) \union {e}
      BY <3>1, <3>4, <1>0, RangeAppend
    <3>6. UNCHANGED <<batch, out, flushCh, worker, held, acked, failed>>
      BY <2>1 DEF EnqueueSend
    <3>7. ApartInv'
      BY <3>3, <3>5, <3>6 DEF ApartInv, InBuffer, EventsIn, InHands, Publishing, Settled
    <3>8. \A i, j \in 1..Len(eventCh') : i # j => eventCh'[i] # eventCh'[j]
      <4>1. e \notin Range(eventCh)
        BY <3>3 DEF InBuffer
      <4>2. \A i, j \in 1..Len(eventCh) : i # j => eventCh[i] # eventCh[j]
        BY DEF OnceInv
      <4>3. /\ Len(eventCh') = Len(eventCh) + 1
            /\ \A i \in 1..Len(eventCh) : eventCh'[i] = eventCh[i]
            /\ eventCh'[Len(eventCh) + 1] = e
        BY <3>1, <3>4, <1>0, AppendProperties
      <4>4. \A i \in 1..Len(eventCh) : eventCh[i] # e
        BY <4>1, <1>0, RangeEquality
      <4>5. \A i \in 1..(Len(eventCh) + 1) : i \in 1..Len(eventCh) \/ i = Len(eventCh) + 1
        BY <1>0
      <4>6. QED BY <4>2, <4>3, <4>4, <4>5
    <3>9. QED BY <3>6, <3>7, <3>8 DEF OnceInv, Publishing
  <2>2. CASE ~EnqueueSend(c)
    <3>1. UNCHANGED <<eventCh, batch, out, flushCh, worker, held, acked, failed>>
      BY <1>1, <2>2 DEF TryEnqueue, EnqueueNothing, EnqueueRefuse, EnqueueBegin,
                        EnqueuePanic, EnqueueReturn
    <3>2. Publishing' = Publishing /\ InHands' = InHands
      BY <3>1 DEF InHands, Publishing
    <3>3. ApartInv'
      BY <3>1, <3>2 DEF ApartInv, EventsIn, Settled
    <3>4. QED BY <3>1, <3>2, <3>3 DEF OnceInv
  <2>3. QED BY <2>1, <2>2
<1>2. CASE Receive
  <2>1. Head(eventCh) \in Events /\ eventCh # <<>> /\ eventCh' = Tail(eventCh)
    BY <1>2, <1>0, HeadTailProperties DEF Receive
  <2>2. Range(eventCh) = {Head(eventCh)} \union Range(eventCh')
    BY <2>1, <1>0, RangeHeadTail
  <2>3. /\ \A i, j \in 1..Len(eventCh') : i # j => eventCh'[i] # eventCh'[j]
        /\ Head(eventCh) \notin Range(eventCh')
    BY <2>1, <1>0, DistinctTail DEF OnceInv
  <2>4. Range(Append(batch, Head(eventCh))) = Range(batch) \union {Head(eventCh)}
    BY <2>1, <1>0, RangeAppend
  <2>5. Range(out) = {}
    BY <1>2, RangeEmpty DEF Receive, PhaseInv
  <2>6. UNCHANGED <<flushCh, worker, held, acked, failed>>
    BY <1>2 DEF Receive
  <2>7. /\ Range(batch') \union Range(out') = Range(batch) \union {Head(eventCh)}
        /\ Range(batch') \intersect Range(out') = {}
    <3>1. CASE Len(Append(batch, Head(eventCh))) >= BatchSize
      <4>1. out' = Append(batch, Head(eventCh)) /\ batch' = <<>>
        BY <1>2, <3>1 DEF Receive, FlushNow
      <4>2. QED BY <4>1, <2>4, RangeEmpty
    <3>2. CASE ~(Len(Append(batch, Head(eventCh))) >= BatchSize)
      <4>1. batch' = Append(batch, Head(eventCh)) /\ out' = out
        BY <1>2, <3>2 DEF Receive
      <4>2. QED BY <4>1, <2>4, <2>5
    <3>3. QED BY <3>1, <3>2
  <2>8. ApartInv'
    BY <2>2, <2>3, <2>5, <2>6, <2>7 DEF ApartInv, EventsIn, InHands, Publishing, Settled
  <2>9. QED BY <2>3, <2>6, <2>8 DEF OnceInv, Publishing
<1>3. CASE Tick \/ SeeClosed
  <2>1. out' = batch /\ batch' = <<>> /\ out = <<>>
    BY <1>3 DEF Tick, SeeClosed, FlushNow, PhaseInv
  <2>2. UNCHANGED <<eventCh, flushCh, worker, held, acked, failed>>
    BY <1>3 DEF Tick, SeeClosed
  <2>3. Range(batch') = {} /\ Range(out') = Range(batch)
    BY <2>1, RangeEmpty
  <2>4. ApartInv'
    BY <2>2, <2>3 DEF ApartInv, EventsIn, InHands, Publishing, Settled
  <2>5. QED BY <2>2, <2>4 DEF OnceInv, Publishing
<1>4. CASE SendFlush
  <2>1. flushCh' = Append(flushCh, out)
    BY <1>4 DEF SendFlush
  <2>2. EventsIn(flushCh') = EventsIn(flushCh) \union Range(out)
    BY <2>1, <1>0, EventsInAppend
  <2>3. Range(out') = {}
    BY <1>4, RangeEmpty DEF SendFlush
  <2>4. UNCHANGED <<eventCh, batch, worker, held, acked, failed>>
    BY <1>4 DEF SendFlush
  <2>5. ApartInv'
    BY <2>2, <2>3, <2>4 DEF ApartInv, InHands, Publishing, Settled
  <2>6. \A i, j \in 1..Len(flushCh') :
          i # j => Range(flushCh'[i]) \intersect Range(flushCh'[j]) = {}
    <3>1. Range(out) \intersect EventsIn(flushCh) = {}
      BY DEF ApartInv
    <3>2. QED BY <2>1, <3>1, <1>0, DisjointAppend DEF OnceInv
  <2>7. QED BY <2>4, <2>5, <2>6 DEF OnceInv, Publishing
<1>5. ASSUME NEW w \in Workers, Publish(w) PROVE ApartInv' /\ OnceInv'
  <2>1. CASE TakeBatch(w)
    <3>1. flushCh # <<>> /\ flushCh' = Tail(flushCh)
      BY <2>1 DEF TakeBatch
    <3>2. EventsIn(flushCh) = Range(Head(flushCh)) \union EventsIn(flushCh')
      BY <3>1, <1>0, EventsInHeadTail
    <3>3. /\ \A i, j \in 1..Len(flushCh') :
              i # j => Range(flushCh'[i]) \intersect Range(flushCh'[j]) = {}
          /\ Range(Head(flushCh)) \intersect EventsIn(flushCh') = {}
      BY <3>1, <1>0, DisjointTail DEF OnceInv
    <3>4. Publishing' = Publishing \union {w} /\ w \notin Publishing
      BY <2>1, <1>0 DEF TakeBatch, Publishing
    <3>5. held'[w] = Head(flushCh) /\ \A v \in Workers : v # w => held'[v] = held[v]
      BY <2>1, <1>0 DEF TakeBatch
    <3>6. InHands' = InHands \union Range(Head(flushCh))
      BY <3>4, <3>5 DEF InHands, Publishing
    <3>7. UNCHANGED <<eventCh, batch, out, acked, failed>>
      BY <2>1 DEF TakeBatch
    <3>8. ApartInv'
      BY <3>2, <3>3, <3>6, <3>7 DEF ApartInv, Settled
    <3>9. \A u, v \in Publishing' : u # v => Range(held'[u]) \intersect Range(held'[v]) = {}
      <4>1. \A v \in Publishing : Range(held[v]) \subseteq InHands
        BY DEF InHands
      <4>2. \A v \in Publishing : Range(held[v]) \intersect Range(Head(flushCh)) = {}
        BY <3>2, <4>1 DEF ApartInv
      <4>3. \A v \in Publishing : v \in Workers /\ v # w
        BY <3>4 DEF Publishing
      <4>4. QED BY <3>4, <3>5, <4>2, <4>3 DEF OnceInv
    <3>10. QED BY <3>3, <3>7, <3>8, <3>9 DEF OnceInv
  <2>2. CASE PublishOk(w) \/ PublishError(w)
    <3>1. w \in Publishing /\ Publishing' = Publishing \ {w}
      BY <2>2, <1>0 DEF PublishOk, PublishError, Publishing
    <3>2. \A v \in Workers : v # w => held'[v] = held[v]
      BY <2>2, <1>0 DEF PublishOk, PublishError
    <3>3. InHands' \union Range(held[w]) = InHands
      BY <3>1, <3>2 DEF InHands, Publishing
    <3>4. InHands' \intersect Range(held[w]) = {}
      <4>1. \A v \in Publishing' : v \in Workers /\ v # w /\ v \in Publishing
        BY <3>1 DEF Publishing
      <4>2. \A v \in Publishing' : Range(held'[v]) \intersect Range(held[w]) = {}
        BY <3>1, <3>2, <4>1 DEF OnceInv
      <4>3. QED BY <4>2 DEF InHands
    <3>5. Settled' = Settled \union Range(held[w])
      BY <2>2 DEF PublishOk, PublishError, Settled
    <3>6. UNCHANGED <<eventCh, batch, out, flushCh>>
      BY <2>2 DEF PublishOk, PublishError
    <3>7. ApartInv'
      BY <3>3, <3>4, <3>5, <3>6 DEF ApartInv, EventsIn
    <3>8. \A u, v \in Publishing' : u # v => Range(held'[u]) \intersect Range(held'[v]) = {}
      BY <3>1, <3>2 DEF OnceInv, Publishing
    <3>9. acked' \intersect failed' = {}
      <4>1. Range(held[w]) \intersect Settled = {}
        BY <3>3 DEF ApartInv
      <4>2. QED BY <2>2, <4>1 DEF PublishOk, PublishError, OnceInv, Settled
    <3>10. QED BY <3>6, <3>7, <3>8, <3>9 DEF OnceInv
  <2>3. CASE StoreBatch(w) \/ WorkerExit(w)
    <3>1. Publishing' = Publishing /\ \A v \in Publishing : held'[v] = held[v]
      BY <2>3, <1>0 DEF StoreBatch, WorkerExit, Publishing
    <3>2. InHands' = InHands
      BY <3>1 DEF InHands
    <3>3. UNCHANGED <<eventCh, batch, out, flushCh, acked, failed>>
      BY <2>3 DEF StoreBatch, WorkerExit
    <3>4. ApartInv'
      BY <3>2, <3>3 DEF ApartInv, EventsIn, Settled
    <3>5. QED BY <3>1, <3>3, <3>4 DEF OnceInv
  <2>4. QED BY <1>5, <2>1, <2>2, <2>3 DEF Publish
<1>6. CASE CloseFlush \/ StopClose \/ StopReturn \/ UNCHANGED vars
  <2>1. UNCHANGED <<eventCh, batch, out, flushCh, worker, held, acked, failed>>
    BY <1>6 DEF CloseFlush, StopClose, StopReturn, vars
  <2>2. Publishing' = Publishing /\ InHands' = InHands
    BY <2>1 DEF InHands, Publishing
  <2>3. ApartInv'
    BY <2>1, <2>2 DEF ApartInv, EventsIn, Settled
  <2>4. QED BY <2>1, <2>2, <2>3 DEF OnceInv
<1>7. QED
  BY <1>1, <1>2, <1>3, <1>4, <1>5, <1>6 DEF Next, Collect

\* The buffer holds and settles every event at most once.
THEOREM HeldOnce == Spec => [](ApartInv /\ OnceInv)
<1>1. Init => ApartInv /\ OnceInv
  <2> SUFFICES ASSUME Init PROVE ApartInv /\ OnceInv
    OBVIOUS
  <2>1. /\ Range(eventCh) = {} /\ Range(batch) = {} /\ Range(out) = {}
        /\ Range(flushCh) = {}
    BY RangeEmpty DEF Init
  <2>2. Publishing = {} /\ acked = {} /\ failed = {}
    BY DEF Init, Publishing
  <2>3. ApartInv
    BY <2>1, <2>2 DEF ApartInv, EventsIn, InHands, Settled
  <2>4. 1..Len(eventCh) = {} /\ 1..Len(flushCh) = {}
    BY DEF Init
  <2>5. QED BY <2>2, <2>3, <2>4 DEF OnceInv
<1>2. QED BY <1>1, ApartStep, ConserveInvariant, PhaseInvariant, TypeCorrect, PTL DEF Spec

------------------------------------------------------------------------------
\* A row in Timescale comes from a batch that Kafka acknowledged, and no batch
\* is both acknowledged and given up.
THEOREM SinksAreConsistent == Spec => []SinksAgree
<1>1. Init => SinkInv
  BY DEF Init, SinkInv
<1>2. TypeOK /\ SinkInv /\ [Next]_vars => SinkInv'
  <2> SUFFICES ASSUME TypeOK, SinkInv, [Next]_vars PROVE SinkInv'
    OBVIOUS
  <2> USE DEF callVars, collectorVars, workerVars
  <2>0. /\ held \in [Workers -> Seq(Events)]
        /\ worker \in [Workers -> {"idle", "publishing", "storing", "done"}]
    BY DEF TypeOK
  <2>1. ASSUME NEW c \in Calls, TryEnqueue(c) PROVE SinkInv'
    BY <2>1 DEF TryEnqueue, EnqueueNothing, EnqueueRefuse, EnqueueBegin, EnqueueSend,
                EnqueuePanic, EnqueueReturn, SinkInv
  <2>2. CASE Collect
    BY <2>2 DEF Collect, Receive, Tick, SeeClosed, SendFlush, CloseFlush, SinkInv
  <2>3. ASSUME NEW w \in Workers, Publish(w) PROVE SinkInv'
    <3>1. CASE TakeBatch(w)
      BY <3>1, <2>0 DEF TakeBatch, SinkInv
    <3>2. CASE PublishOk(w)
      <4>1. acked' = acked \union Range(held[w]) /\ stored' = stored
        BY <3>2 DEF PublishOk
      <4>2. \A v \in Workers : v # w => held'[v] = held[v] /\ worker'[v] = worker[v]
        BY <3>2, <2>0 DEF PublishOk
      <4>3. worker'[w] = "storing" => held'[w] = held[w]
        BY <3>2, <2>0 DEF PublishOk
      <4>4. QED BY <4>1, <4>2, <4>3 DEF SinkInv
    <3>3. CASE PublishError(w)
      BY <3>3, <2>0 DEF PublishError, SinkInv
    <3>4. CASE StoreBatch(w)
      <4>1. stored' \subseteq acked
        BY <3>4 DEF StoreBatch, SinkInv
      <4>2. \A v \in Workers : v # w => held'[v] = held[v] /\ worker'[v] = worker[v]
        BY <3>4, <2>0 DEF StoreBatch
      <4>3. worker'[w] = "idle" /\ acked' = acked
        BY <3>4, <2>0 DEF StoreBatch
      <4>4. QED BY <4>1, <4>2, <4>3 DEF SinkInv
    <3>5. CASE WorkerExit(w)
      BY <3>5, <2>0 DEF WorkerExit, SinkInv
    <3>6. QED BY <2>3, <3>1, <3>2, <3>3, <3>4, <3>5 DEF Publish
  <2>4. CASE StopClose \/ StopReturn \/ UNCHANGED vars
    BY <2>4 DEF StopClose, StopReturn, vars, SinkInv
  <2>5. QED BY <2>1, <2>2, <2>3, <2>4 DEF Next
<1>3. SinkInv /\ OnceInv => SinksAgree
  BY DEF SinkInv, OnceInv, SinksAgree
<1>4. QED BY <1>1, <1>2, <1>3, HeldOnce, TypeCorrect, PTL DEF Spec

------------------------------------------------------------------------------
(* First in, first out *)

\* The places of any pipe, a sequence of sequences, and the event at one.
PlacesIn(P) == UNION {{k} \X DOMAIN P[k] : k \in DOMAIN P}
EventAt(P, p) == P[p[1]][p[2]]

\* What OrderKept says of a place p of a pipe that holds an event of call c, and of
\* the pipe, n[d] being the number of events that call d has sent.
Followed(P, n, p, c) ==
    /\ \A i \in (EventAt(P, p)[2] + 1)..n[c] :
         \E q \in PlacesIn(P) : Before(p, q) /\ EventAt(P, q) = <<c, i>>
    /\ \A q \in PlacesIn(P) : Before(p, q) /\ EventAt(P, q)[1] = c =>
         /\ EventAt(P, p)[2] < EventAt(P, q)[2]
         /\ \A r \in PlacesIn(P) : Before(p, r) /\ Before(r, q) => EventAt(P, r)[1] = c
InOrder(P, n) == \A p \in PlacesIn(P) : Followed(P, n, p, EventAt(P, p)[1])

\* From its first event on, the pipe holds nothing but events of call c.
EndsIn(P, c) ==
    \A p, q \in PlacesIn(P) :
        EventAt(P, p)[1] = c /\ Before(p, q) => EventAt(P, q)[1] = c

\* The step from pipe P to pipe Q keeps the order.
Keeps(P, Q, n) ==
    /\ InOrder(P, n) => InOrder(Q, n)
    /\ \A c : EndsIn(P, c) => EndsIn(Q, c)

\* The call that is sending has nobody behind it.
OrderInv ==
    /\ InOrder(Pipe, sent)
    /\ \A c \in Calls : call[c] = "sending" => EndsIn(Pipe, c)

\* A place is a segment and an index in it.
LEMMA PlaceIs ==
  ASSUME NEW S, NEW P \in Seq(Seq(S))
  PROVE  /\ \A p \in PlacesIn(P) :
              /\ p = <<p[1], p[2]>> /\ p[1] \in Nat /\ p[2] \in Nat
              /\ p[1] \in 1..Len(P) /\ p[2] \in 1..Len(P[p[1]])
         /\ \A k \in 1..Len(P) : \A i \in 1..Len(P[k]) : <<k, i>> \in PlacesIn(P)
         /\ \A k \in 1..Len(P) : P[k] \in Seq(S) /\ Len(P[k]) \in Nat
<1>1. DOMAIN P = 1..Len(P) /\ \A k \in 1..Len(P) : P[k] \in Seq(S)
  BY LenProperties
<1>2. \A k \in 1..Len(P) : DOMAIN P[k] = 1..Len(P[k]) /\ Len(P[k]) \in Nat
  BY <1>1, LenProperties
<1>3. ASSUME NEW p \in PlacesIn(P)
      PROVE  /\ p = <<p[1], p[2]>> /\ p[1] \in Nat /\ p[2] \in Nat
             /\ p[1] \in 1..Len(P) /\ p[2] \in 1..Len(P[p[1]])
  <2>1. PICK k \in DOMAIN P : p \in {k} \X DOMAIN P[k]
    BY DEF PlacesIn
  <2>2. p = <<p[1], p[2]>> /\ p[1] = k /\ p[2] \in DOMAIN P[k]
    BY <2>1
  <2>3. QED BY <1>1, <1>2, <2>2
<1>4. ASSUME NEW k \in 1..Len(P), NEW i \in 1..Len(P[k]) PROVE <<k, i>> \in PlacesIn(P)
  BY <1>1, <1>2 DEF PlacesIn
<1>5. QED BY <1>1, <1>2, <1>3, <1>4

\* Of two places one comes first.
LEMMA PlacesAreOrdered ==
  ASSUME NEW S, NEW P \in Seq(Seq(S)), NEW p \in PlacesIn(P), NEW q \in PlacesIn(P)
  PROVE  /\ Before(p, q) \/ p = q \/ Before(q, p)
         /\ ~(Before(p, q) /\ Before(q, p))
<1>1. /\ p = <<p[1], p[2]>> /\ p[1] \in Nat /\ p[2] \in Nat
      /\ q = <<q[1], q[2]>> /\ q[1] \in Nat /\ q[2] \in Nat
  BY PlaceIs
<1>2. \/ p[1] < q[1] \/ q[1] < p[1]
      \/ (p[1] = q[1] /\ (p[2] < q[2] \/ q[2] < p[2] \/ p[2] = q[2]))
  BY <1>1
<1>3. p[1] = q[1] /\ p[2] = q[2] => p = q
  BY <1>1
<1>4. QED BY <1>1, <1>2, <1>3 DEF Before

\* A pipe whose events keep their order, and lose only the foremost, stays in order.
LEMMA Moved ==
  ASSUME NEW S, NEW P \in Seq(Seq(S)), NEW Q \in Seq(Seq(S)), NEW n,
         NEW f \in [PlacesIn(Q) -> PlacesIn(P)],
         \A p \in PlacesIn(Q) : EventAt(Q, p) = EventAt(P, f[p]),
         \A p, q \in PlacesIn(Q) : Before(p, q) => Before(f[p], f[q]),
         \A p \in PlacesIn(Q) : \A q \in PlacesIn(P) :
           Before(f[p], q) => \E r \in PlacesIn(Q) : f[r] = q
  PROVE  Keeps(P, Q, n)
<1>0. ASSUME NEW p \in PlacesIn(Q), NEW q \in PlacesIn(P), Before(f[p], q)
      PROVE  \E r \in PlacesIn(Q) : Before(p, r) /\ f[r] = q
  <2>1. PICK r \in PlacesIn(Q) : f[r] = q
    BY <1>0
  <2>2. Before(p, r) \/ p = r \/ Before(r, p)
    BY PlacesAreOrdered
  <2>3. ~(Before(f[p], f[r]) /\ Before(f[r], f[p]))
    BY PlacesAreOrdered
  <2>4. QED BY <1>0, <2>1, <2>2, <2>3
<1>1. ASSUME NEW c, EndsIn(P, c) PROVE EndsIn(Q, c)
  BY <1>1 DEF EndsIn
<1>2. ASSUME InOrder(P, n), NEW p \in PlacesIn(Q), NEW c, c = EventAt(Q, p)[1]
      PROVE  Followed(Q, n, p, c)
  <2>1. f[p] \in PlacesIn(P) /\ EventAt(Q, p) = EventAt(P, f[p]) /\ c = EventAt(P, f[p])[1]
    BY <1>2
  <2>2. Followed(P, n, f[p], c)
    BY <1>2, <2>1 DEF InOrder
  <2>3. ASSUME NEW i \in (EventAt(Q, p)[2] + 1)..n[c]
        PROVE  \E q \in PlacesIn(Q) : Before(p, q) /\ EventAt(Q, q) = <<c, i>>
    <3>1. PICK q \in PlacesIn(P) : Before(f[p], q) /\ EventAt(P, q) = <<c, i>>
      BY <2>1, <2>2 DEF Followed
    <3>2. PICK r \in PlacesIn(Q) : Before(p, r) /\ f[r] = q
      BY <3>1, <1>0
    <3>3. QED BY <3>1, <3>2
  <2>4. ASSUME NEW q \in PlacesIn(Q), Before(p, q), EventAt(Q, q)[1] = c
        PROVE  /\ EventAt(Q, p)[2] < EventAt(Q, q)[2]
               /\ \A r \in PlacesIn(Q) : Before(p, r) /\ Before(r, q) => EventAt(Q, r)[1] = c
    <3>1. f[q] \in PlacesIn(P) /\ Before(f[p], f[q]) /\ EventAt(P, f[q])[1] = c
      BY <2>4
    <3>2. ASSUME NEW r \in PlacesIn(Q), Before(p, r), Before(r, q)
          PROVE  f[r] \in PlacesIn(P) /\ Before(f[p], f[r]) /\ Before(f[r], f[q])
      BY <2>4, <3>2
    <3>3. QED BY <2>1, <2>2, <2>4, <3>1, <3>2 DEF Followed
  <2>5. QED BY <2>3, <2>4 DEF Followed
<1>3. InOrder(P, n) => InOrder(Q, n)
  BY <1>2 DEF InOrder
<1>4. QED BY <1>1, <1>3 DEF Keeps

\* Q is the pipe P after the first event of segment k + 1 went to the end of segment k.
HeadMoved(P, Q, k) ==
    /\ k + 1 <= Len(P) /\ Len(Q) = Len(P) /\ P[k + 1] # <<>>
    /\ Q[k] = Append(P[k], Head(P[k + 1])) /\ Q[k + 1] = Tail(P[k + 1])
    /\ \A j \in 1..Len(P) : j # k /\ j # k + 1 => Q[j] = P[j]

\* That keeps the order.
LEMMA HeadMoves ==
  ASSUME NEW S, NEW P \in Seq(Seq(S)), NEW Q \in Seq(Seq(S)), NEW n,
         NEW k \in Nat \ {0}, HeadMoved(P, Q, k)
  PROVE  Keeps(P, Q, n)
<1>1. /\ Len(P) \in Nat /\ Len(Q) = Len(P) /\ k \in 1..Len(P) /\ k + 1 \in 1..Len(P)
      /\ \A j \in 1..Len(P) : j # k /\ j # k + 1 => Q[j] = P[j]
  <2>1. Len(P) \in Nat /\ k + 1 <= Len(P) /\ Len(Q) = Len(P)
    BY LenProperties DEF HeadMoved
  <2>2. k \in 1..Len(P) /\ k + 1 \in 1..Len(P)
    BY <2>1
  <2>3. \A j \in 1..Len(P) : j # k /\ j # k + 1 => Q[j] = P[j]
    BY Zenon DEF HeadMoved
  <2>4. QED BY <2>1, <2>2, <2>3
<1>2. PICK a \in Nat, b \in Nat \ {0} : a = Len(P[k]) /\ b = Len(P[k + 1])
  BY <1>1, PlaceIs, EmptySeq DEF HeadMoved
<1>3. /\ Head(P[k + 1]) = P[k + 1][1]
      /\ Len(Q[k + 1]) = b - 1
      /\ \A i \in 1..(b - 1) : Q[k + 1][i] = P[k + 1][i + 1]
  BY <1>1, <1>2, PlaceIs, HeadTailProperties DEF HeadMoved
<1>4. /\ Len(Q[k]) = a + 1
      /\ \A i \in 1..a : Q[k][i] = P[k][i]
      /\ Q[k][a + 1] = P[k + 1][1]
  BY <1>1, <1>2, <1>3, PlaceIs, AppendProperties, HeadTailProperties DEF HeadMoved
<1>5. PICK f : f = [p \in PlacesIn(Q) |->
                      IF p[1] = k + 1 THEN <<k + 1, p[2] + 1>>
                      ELSE IF p[1] = k /\ p[2] = a + 1 THEN <<k + 1, 1>> ELSE p]
  OBVIOUS
<1>6. ASSUME NEW p \in PlacesIn(Q)
      PROVE  \/ /\ p[1] = k + 1 /\ p[2] \in 1..(b - 1)
                /\ f[p] = <<k + 1, p[2] + 1>> /\ f[p][1] = k + 1 /\ f[p][2] = p[2] + 1
             \/ /\ p[1] = k /\ p[2] = a + 1
                /\ f[p] = <<k + 1, 1>> /\ f[p][1] = k + 1 /\ f[p][2] = 1
             \/ /\ p[1] = k /\ p[2] \in 1..a /\ f[p] = p
             \/ /\ p[1] # k /\ p[1] # k + 1 /\ f[p] = p
  <2>1. /\ p[1] \in 1..Len(P) /\ p[2] \in 1..Len(Q[p[1]]) /\ p[1] \in Nat /\ p[2] \in Nat
    BY <1>1, PlaceIs
  <2>2. f[p] = IF p[1] = k + 1 THEN <<k + 1, p[2] + 1>>
               ELSE IF p[1] = k /\ p[2] = a + 1 THEN <<k + 1, 1>> ELSE p
    BY <1>5
  <2>3. CASE p[1] = k + 1 BY <2>1, <2>2, <2>3, <1>3
  <2>4. CASE p[1] = k
    <3>0. p[2] \in 1..(a + 1)
      BY <2>1, <2>4, <1>4
    <3>1. p[2] = a + 1 \/ p[2] \in 1..a
      BY <3>0
    <3>2. k # k + 1 /\ (p[2] \in 1..a => p[2] # a + 1)
      BY <1>2
    <3>3. QED BY <2>2, <2>4, <3>1, <3>2
  <2>5. CASE p[1] # k /\ p[1] # k + 1 BY <2>2, <2>5
  <2>6. QED BY <2>3, <2>4, <2>5
<1>7. ASSUME NEW p \in PlacesIn(Q)
      PROVE  \/ p[1] = k + 1 /\ f[p][1] = k + 1 /\ f[p][2] = p[2] + 1
             \/ p[1] = k /\ p[2] = a + 1 /\ f[p][1] = k + 1 /\ f[p][2] = 1
             \/ p[1] = k /\ p[2] <= a /\ f[p] = p
             \/ p[1] # k /\ p[1] # k + 1 /\ f[p] = p
  <2>1. \A i \in 1..a : i <= a
    OBVIOUS
  <2>2. QED BY <1>6, <2>1, Zenon
<1>8. \A p \in PlacesIn(Q) : f[p] \in PlacesIn(P) /\ EventAt(Q, p) = EventAt(P, f[p])
  <2> SUFFICES ASSUME NEW p \in PlacesIn(Q)
               PROVE  f[p] \in PlacesIn(P) /\ EventAt(Q, p) = EventAt(P, f[p])
    OBVIOUS
  <2>0. p = <<p[1], p[2]>> /\ p[1] \in 1..Len(P) /\ p[2] \in 1..Len(Q[p[1]])
    BY <1>1, PlaceIs
  <2>1. CASE p[1] = k + 1 /\ p[2] \in 1..(b - 1) /\ f[p] = <<k + 1, p[2] + 1>>
    <3>1. p[2] + 1 \in 1..Len(P[k + 1])
      BY <2>1, <1>2
    <3>2. f[p] \in PlacesIn(P)
      BY <2>1, <3>1, <1>1, PlaceIs
    <3>3. EventAt(Q, p) = P[k + 1][p[2] + 1]
      BY <2>1, <1>3 DEF EventAt
    <3>4. EventAt(P, f[p]) = P[k + 1][p[2] + 1]
      BY <2>1 DEF EventAt
    <3>5. QED BY <3>2, <3>3, <3>4
  <2>2. CASE p[1] = k /\ p[2] = a + 1 /\ f[p] = <<k + 1, 1>>
    <3>1. 1 \in 1..Len(P[k + 1])
      BY <1>2
    <3>2. <<k + 1, 1>> \in PlacesIn(P)
      BY <3>1, <1>1, PlaceIs
    <3>3. EventAt(Q, p) = P[k + 1][1]
      BY <2>2, <1>4 DEF EventAt
    <3>4. EventAt(P, f[p]) = P[k + 1][1]
      BY <2>2 DEF EventAt
    <3>5. QED BY <2>2, <3>2, <3>3, <3>4
  <2>3. CASE p[1] = k /\ p[2] \in 1..a /\ f[p] = p
    <3>1. <<k, p[2]>> \in PlacesIn(P)
      BY <2>3, <1>1, <1>2, PlaceIs
    <3>2. p = <<k, p[2]>>
      BY <2>0, <2>3
    <3>3. QED BY <2>3, <3>1, <3>2, <1>4 DEF EventAt
  <2>4. CASE p[1] # k /\ p[1] # k + 1 /\ f[p] = p
    <3>1. Q[p[1]] = P[p[1]]
      BY <2>4, <2>0, <1>1
    <3>2. <<p[1], p[2]>> \in PlacesIn(P)
      BY <3>1, <2>0, PlaceIs
    <3>3. QED BY <2>0, <2>4, <3>1, <3>2 DEF EventAt
  <2>5. QED BY <1>6, <2>1, <2>2, <2>3, <2>4
<1>9. \A p, q \in PlacesIn(Q) : Before(p, q) => Before(f[p], f[q])
  <2> SUFFICES ASSUME NEW p \in PlacesIn(Q), NEW q \in PlacesIn(Q), Before(p, q)
               PROVE  Before(f[p], f[q])
    OBVIOUS
  <2>1. /\ p[1] \in Nat /\ p[2] \in Nat /\ q[1] \in Nat /\ q[2] \in Nat
        /\ p[2] >= 1 /\ q[2] >= 1
    BY PlaceIs
  <2>2. p[1] < q[1] \/ (p[1] = q[1] /\ p[2] < q[2])
    BY DEF Before
  <2>3. f[p][1] < f[q][1] \/ (f[p][1] = f[q][1] /\ f[p][2] < f[q][2])
    <3>1. PICK p1 \in Nat, p2 \in Nat, q1 \in Nat, q2 \in Nat :
            p1 = p[1] /\ p2 = p[2] /\ q1 = q[1] /\ q2 = q[2]
      BY <2>1
    <3>2. PICK u1, u2, v1, v2 :
            u1 = f[p][1] /\ u2 = f[p][2] /\ v1 = f[q][1] /\ v2 = f[q][2]
      OBVIOUS
    <3>3. \/ p1 = k + 1 /\ u1 = k + 1 /\ u2 = p2 + 1
          \/ p1 = k /\ p2 = a + 1 /\ u1 = k + 1 /\ u2 = 1
          \/ p1 = k /\ p2 <= a /\ u1 = p1 /\ u2 = p2
          \/ p1 # k /\ p1 # k + 1 /\ u1 = p1 /\ u2 = p2
      <4>1. \/ p[1] = k + 1 /\ f[p][1] = k + 1 /\ f[p][2] = p[2] + 1
            \/ p[1] = k /\ p[2] = a + 1 /\ f[p][1] = k + 1 /\ f[p][2] = 1
            \/ p[1] = k /\ p[2] <= a /\ f[p] = p
            \/ p[1] # k /\ p[1] # k + 1 /\ f[p] = p
        BY <1>7
      <4>2. QED BY <3>1, <3>2, <4>1
    <3>4. \/ q1 = k + 1 /\ v1 = k + 1 /\ v2 = q2 + 1
          \/ q1 = k /\ q2 = a + 1 /\ v1 = k + 1 /\ v2 = 1
          \/ q1 = k /\ q2 <= a /\ v1 = q1 /\ v2 = q2
          \/ q1 # k /\ q1 # k + 1 /\ v1 = q1 /\ v2 = q2
      <4>1. \/ q[1] = k + 1 /\ f[q][1] = k + 1 /\ f[q][2] = q[2] + 1
            \/ q[1] = k /\ q[2] = a + 1 /\ f[q][1] = k + 1 /\ f[q][2] = 1
            \/ q[1] = k /\ q[2] <= a /\ f[q] = q
            \/ q[1] # k /\ q[1] # k + 1 /\ f[q] = q
        BY <1>7
      <4>2. QED BY <3>1, <3>2, <4>1
    <3>5. p2 >= 1 /\ q2 >= 1 /\ (p1 < q1 \/ (p1 = q1 /\ p2 < q2))
      BY <2>1, <2>2, <3>1
    <3>6. u1 < v1 \/ (u1 = v1 /\ u2 < v2)
      BY <1>2, <3>3, <3>4, <3>5
    <3>7. QED BY <3>2, <3>6
  <2>4. QED BY <2>3 DEF Before
<1>10. ASSUME NEW q \in PlacesIn(P) PROVE \E r \in PlacesIn(Q) : f[r] = q
  <2>1. /\ q = <<q[1], q[2]>> /\ q[1] \in Nat /\ q[2] \in Nat
        /\ q[1] \in 1..Len(P) /\ q[2] \in 1..Len(P[q[1]])
    BY PlaceIs
  <2>2. CASE q[1] = k + 1 /\ q[2] = 1
    <3>1. a + 1 \in 1..Len(Q[k]) /\ k \in 1..Len(Q)
      BY <1>1, <1>2, <1>4
    <3>2. <<k, a + 1>> \in PlacesIn(Q)
      BY <3>1, PlaceIs
    <3>3. f[<<k, a + 1>>] = <<k + 1, 1>>
      BY <3>2, <1>5
    <3>4. QED BY <3>2, <3>3, <2>2, <2>1
  <2>3. CASE q[1] = k + 1 /\ q[2] # 1
    <3>0. q[2] \in 1..b /\ q[2] # 1 /\ Len(Q[k + 1]) = b - 1
      BY <1>2, <1>3, <2>1, <2>3
    <3>1. q[2] - 1 \in 1..(b - 1) /\ (q[2] - 1) + 1 = q[2]
      BY <3>0
    <3>2. <<k + 1, q[2] - 1>> \in PlacesIn(Q)
      BY <3>0, <3>1, <1>1, PlaceIs
    <3>3. f[<<k + 1, q[2] - 1>>] = <<k + 1, (q[2] - 1) + 1>>
      BY <3>2, <1>5
    <3>4. QED BY <3>1, <3>2, <3>3, <2>3, <2>1
  <2>4. CASE q[1] = k
    <3>0. q[2] \in 1..a /\ Len(Q[k]) = a + 1
      BY <2>1, <2>4, <1>2, <1>4
    <3>1. q[2] \in 1..(a + 1) /\ q[2] # a + 1 /\ k # k + 1
      BY <3>0
    <3>2. q \in PlacesIn(Q)
      BY <2>1, <2>4, <3>0, <3>1, <1>1, PlaceIs
    <3>3. f[q] = q
      BY <2>4, <3>1, <3>2, <1>5
    <3>4. QED BY <3>2, <3>3
  <2>5. CASE q[1] # k /\ q[1] # k + 1
    <3>1. Q[q[1]] = P[q[1]] /\ q[1] \in 1..Len(Q)
      BY <2>1, <2>5, <1>1
    <3>2. <<q[1], q[2]>> \in PlacesIn(Q)
      BY <2>1, <3>1, PlaceIs
    <3>3. f[q] = q
      BY <2>1, <2>5, <3>2, <1>5
    <3>4. QED BY <3>2, <3>3, <2>1
  <2>6. QED BY <2>2, <2>3, <2>4, <2>5
<1>11. f \in [PlacesIn(Q) -> PlacesIn(P)]
  BY <1>5, <1>8
<1>12. QED BY <1>8, <1>9, <1>10, <1>11, Moved

\* Segment j of Q is segment g[j] of P, in the same order; only the foremost are gone.
SegmentsMoved(P, Q, g) ==
    /\ g \in [1..Len(Q) -> 1..Len(P)]
    /\ \A j \in 1..Len(Q) : Q[j] # <<>> => Q[j] = P[g[j]]
    /\ \A i, j \in 1..Len(Q) : Q[i] # <<>> /\ Q[j] # <<>> /\ i < j => g[i] < g[j]
    /\ \A j \in 1..Len(Q) : \A m \in 1..Len(P) :
         Q[j] # <<>> /\ P[m] # <<>> /\ g[j] < m
           => \E l \in 1..Len(Q) : Q[l] # <<>> /\ g[l] = m

\* That keeps the order too.
LEMMA SegmentsMove ==
  ASSUME NEW S, NEW P \in Seq(Seq(S)), NEW Q \in Seq(Seq(S)), NEW n,
         NEW g, SegmentsMoved(P, Q, g)
  PROVE  Keeps(P, Q, n)
<1>1. PICK f : f = [p \in PlacesIn(Q) |-> <<g[p[1]], p[2]>>]
  OBVIOUS
<1>2. ASSUME NEW p \in PlacesIn(Q)
      PROVE  /\ p = <<p[1], p[2]>> /\ p[1] \in Nat /\ p[2] \in Nat
             /\ p[1] \in 1..Len(Q) /\ p[2] \in 1..Len(Q[p[1]])
             /\ Q[p[1]] # <<>> /\ f[p] = <<g[p[1]], p[2]>>
  <2>1. /\ p = <<p[1], p[2]>> /\ p[1] \in Nat /\ p[2] \in Nat
        /\ p[1] \in 1..Len(Q) /\ p[2] \in 1..Len(Q[p[1]])
    BY PlaceIs
  <2>2. Q[p[1]] # <<>>
    <3>1. SUFFICES ASSUME Q[p[1]] = <<>> PROVE FALSE
      OBVIOUS
    <3>2. 1..Len(<<>>) = {}
      OBVIOUS
    <3>3. QED BY <2>1, <3>1, <3>2, Zenon
  <2>3. f[p] = <<g[p[1]], p[2]>>
    BY <1>1
  <2>4. QED BY <2>1, <2>2, <2>3
<1>3. ASSUME NEW p \in PlacesIn(Q)
      PROVE  f[p] \in PlacesIn(P) /\ EventAt(Q, p) = EventAt(P, f[p])
  <2>1. g[p[1]] \in 1..Len(P) /\ Q[p[1]] = P[g[p[1]]] /\ p[2] \in 1..Len(P[g[p[1]]])
    BY <1>2, Zenon DEF SegmentsMoved
  <2>2. <<g[p[1]], p[2]>> \in PlacesIn(P)
    BY <2>1, PlaceIs
  <2>3. f[p] = <<g[p[1]], p[2]>> /\ f[p][1] = g[p[1]] /\ f[p][2] = p[2]
    BY <1>2
  <2>4. QED BY <2>1, <2>2, <2>3, Zenon DEF EventAt
<1>4. \A p, q \in PlacesIn(Q) : Before(p, q) => Before(f[p], f[q])
  <2> SUFFICES ASSUME NEW p \in PlacesIn(Q), NEW q \in PlacesIn(Q), Before(p, q)
               PROVE  Before(f[p], f[q])
    OBVIOUS
  <2>1. p[1] < q[1] \/ (p[1] = q[1] /\ p[2] < q[2])
    BY DEF Before
  <2>2. p[1] < q[1] => g[p[1]] < g[q[1]]
    BY <1>2, Zenon DEF SegmentsMoved
  <2>3. f[p][1] = g[p[1]] /\ f[p][2] = p[2] /\ f[q][1] = g[q[1]] /\ f[q][2] = q[2]
    BY <1>2
  <2>4. QED BY <2>1, <2>2, <2>3 DEF Before
<1>5. ASSUME NEW p \in PlacesIn(Q), NEW q \in PlacesIn(P), Before(f[p], q)
      PROVE  \E r \in PlacesIn(Q) : f[r] = q
  <2>1. /\ q = <<q[1], q[2]>> /\ q[1] \in 1..Len(P) /\ q[2] \in 1..Len(P[q[1]])
    BY PlaceIs
  <2>2. P[q[1]] # <<>>
    <3>1. SUFFICES ASSUME P[q[1]] = <<>> PROVE FALSE
      OBVIOUS
    <3>2. 1..Len(<<>>) = {}
      OBVIOUS
    <3>3. QED BY <2>1, <3>1, <3>2, Zenon
  <2>3. g[p[1]] < q[1] \/ g[p[1]] = q[1]
    BY <1>2, <1>5 DEF Before
  <2>4. PICK l \in 1..Len(Q) : Q[l] # <<>> /\ g[l] = q[1]
    <3>1. p[1] \in 1..Len(Q) /\ Q[p[1]] # <<>>
      BY <1>2
    <3>2. QED BY <2>1, <2>2, <2>3, <3>1, Zenon DEF SegmentsMoved
  <2>5. <<l, q[2]>> \in PlacesIn(Q)
    <3>1. Q[l] = P[q[1]]
      BY <2>4, Zenon DEF SegmentsMoved
    <3>2. QED BY <2>1, <2>4, <3>1, PlaceIs
  <2>6. f[<<l, q[2]>>] = q
    BY <2>1, <2>4, <2>5, <1>1
  <2>7. QED BY <2>5, <2>6
<1>6. f \in [PlacesIn(Q) -> PlacesIn(P)]
  BY <1>1, <1>3
<1>7. /\ \A p \in PlacesIn(Q) : EventAt(Q, p) = EventAt(P, f[p])
      /\ \A p \in PlacesIn(Q) : \A q \in PlacesIn(P) :
           Before(f[p], q) => \E r \in PlacesIn(Q) : f[r] = q
  BY <1>3, <1>5
<1>8. QED BY <1>4, <1>6, <1>7, Moved, Zenon

\* A new event at the end of the pipe is the next one of the call that ends it.
LEMMA EventJoins ==
  ASSUME NEW S, NEW P \in Seq(Seq(S)), NEW Q \in Seq(Seq(S)), NEW L \in Nat \ {0},
         Len(P) = L, Len(Q) = L, \A j \in 1..L : j # L => Q[j] = P[j],
         NEW d \in Calls, NEW m \in Nat, NEW n \in [Calls -> Nat],
         n[d] = m, Q[L] = Append(P[L], <<d, m + 1>>), <<d, m + 1>> \in S,
         \A p \in PlacesIn(P) : /\ EventAt(P, p)[1] \in Calls
                                /\ EventAt(P, p)[2] \in 1..n[EventAt(P, p)[1]],
         InOrder(P, n), EndsIn(P, d)
  PROVE  InOrder(Q, [n EXCEPT ![d] = m + 1]) /\ EndsIn(Q, d)
<1>0. PICK a \in Nat : a = Len(P[L])
  <2>1. L \in 1..Len(P)
    OBVIOUS
  <2>2. Len(P[L]) \in Nat
    BY <2>1, PlaceIs
  <2>3. QED BY <2>2
<1>1. PICK z : a = Len(P[L]) /\ z = <<L, a + 1>>
  BY <1>0
<1>2. /\ Len(Q[L]) = a + 1
      /\ \A i \in 1..a : Q[L][i] = P[L][i]
      /\ Q[L][a + 1] = <<d, m + 1>>
  <2>1. L \in 1..Len(P)
    OBVIOUS
  <2>2. P[L] \in Seq(S)
    BY <2>1, PlaceIs
  <2>3. QED BY <1>1, <2>2, AppendProperties
<1>3. z \in PlacesIn(Q) /\ EventAt(Q, z) = <<d, m + 1>>
  <2>1. L \in 1..Len(Q) /\ a + 1 \in 1..Len(Q[L])
    BY <1>2
  <2>2. <<L, a + 1>> \in PlacesIn(Q)
    BY <2>1, PlaceIs
  <2>3. QED BY <2>2, <1>1, <1>2 DEF EventAt
<1>4. ASSUME NEW p \in PlacesIn(P)
      PROVE  p \in PlacesIn(Q) /\ EventAt(Q, p) = EventAt(P, p) /\ Before(p, z) /\ ~Before(z, p)
  <2>1. /\ p = <<p[1], p[2]>> /\ p[1] \in Nat /\ p[2] \in Nat
        /\ p[1] \in 1..L /\ p[2] \in 1..Len(P[p[1]])
    BY PlaceIs
  <2>2. z[1] = L /\ z[2] = a + 1
    BY <1>1
  <2>3. CASE p[1] = L
    <3>1. p[2] \in 1..a
      BY <1>1, <2>1, <2>3
    <3>2. p[2] \in 1..(a + 1) /\ p[2] < a + 1 /\ ~(a + 1 < p[2])
      BY <3>1
    <3>3. p \in PlacesIn(Q)
      BY <2>1, <2>3, <3>2, <1>2, PlaceIs
    <3>4. EventAt(Q, p) = EventAt(P, p)
      BY <2>3, <3>1, <1>2 DEF EventAt
    <3>5. ~(L < L)
      OBVIOUS
    <3>6. QED BY <2>2, <2>3, <3>2, <3>3, <3>4, <3>5 DEF Before
  <2>4. CASE p[1] # L
    <3>1. Q[p[1]] = P[p[1]] /\ p[1] \in 1..Len(Q)
      BY <2>1, <2>4
    <3>2. <<p[1], p[2]>> \in PlacesIn(Q)
      BY <2>1, <3>1, PlaceIs
    <3>3. p[1] < L /\ ~(L < p[1])
      BY <2>1, <2>4
    <3>4. QED BY <2>1, <2>2, <2>4, <3>1, <3>2, <3>3 DEF Before, EventAt
  <2>5. QED BY <2>3, <2>4
<1>5. ASSUME NEW p \in PlacesIn(Q), p # z PROVE p \in PlacesIn(P)
  <2>1. /\ p = <<p[1], p[2]>> /\ p[1] \in Nat /\ p[2] \in Nat
        /\ p[1] \in 1..L /\ p[2] \in 1..Len(Q[p[1]])
    BY PlaceIs
  <2>2. CASE p[1] = L
    <3>1. p[2] \in 1..(a + 1) /\ p[2] # a + 1
      BY <1>1, <1>2, <1>5, <2>1, <2>2
    <3>2. p[2] \in 1..a
      BY <3>1
    <3>3. QED BY <1>1, <2>1, <2>2, <3>2, PlaceIs
  <2>3. CASE p[1] # L
    <3>1. p[2] \in 1..Len(P[p[1]])
      BY <2>1, <2>3
    <3>2. QED BY <2>1, <3>1, PlaceIs
  <2>4. QED BY <2>2, <2>3
<1>6. ~Before(z, z)
  BY <1>1 DEF Before
<1>7. \A p \in PlacesIn(Q) : ~Before(z, p)
  BY <1>4, <1>5, <1>6
<1>8. EndsIn(Q, d)
  <2> SUFFICES ASSUME NEW p \in PlacesIn(Q), NEW q \in PlacesIn(Q),
                      EventAt(Q, p)[1] = d, Before(p, q)
               PROVE  EventAt(Q, q)[1] = d
    BY DEF EndsIn
  <2>1. p \in PlacesIn(P) /\ EventAt(P, p)[1] = d
    BY <1>4, <1>5, <1>7
  <2>2. CASE q = z BY <2>2, <1>3
  <2>3. CASE q # z
    <3>1. q \in PlacesIn(P) /\ EventAt(Q, q) = EventAt(P, q)
      BY <2>3, <1>4, <1>5
    <3>2. QED BY <2>1, <3>1 DEF EndsIn
  <2>4. QED BY <2>2, <2>3
<1> DEFINE N == [n EXCEPT ![d] = m + 1]
<1>9. N[d] = m + 1 /\ \A c \in Calls : c # d => N[c] = n[c]
  OBVIOUS
<1> HIDE DEF N
<1>10. ASSUME NEW p \in PlacesIn(Q), NEW c, c = EventAt(Q, p)[1]
       PROVE  Followed(Q, N, p, c)
  <2>1. CASE p = z
    <3>1. c = d /\ EventAt(Q, p)[2] = m + 1
      BY <1>3, <1>10, <2>1
    <3>2. (m + 1 + 1)..(m + 1) = {}
      OBVIOUS
    <3>3. QED BY <1>7, <1>9, <2>1, <3>1, <3>2 DEF Followed
  <2>2. CASE p # z
    <3>1. /\ p \in PlacesIn(P) /\ EventAt(Q, p) = EventAt(P, p) /\ c = EventAt(P, p)[1]
          /\ c \in Calls
      BY <1>4, <1>5, <1>10, <2>2
    <3>2. PICK j : j = EventAt(P, p)[2] /\ j \in 1..n[c]
      BY <3>1
    <3>3. Followed(P, n, p, c)
      BY <3>1 DEF InOrder
    <3>4. ASSUME NEW i \in (j + 1)..N[c]
          PROVE  \E q \in PlacesIn(Q) : Before(p, q) /\ EventAt(Q, q) = <<c, i>>
      <4>1. CASE c = d /\ i = m + 1
        BY <1>3, <1>4, <3>1, <4>1
      <4>2. CASE ~(c = d /\ i = m + 1)
        <5>1. i \in (j + 1)..n[c]
          <6>1. CASE c = d
            <7>1. i \in (j + 1)..(m + 1) /\ i # m + 1 /\ n[c] = m
              BY <1>9, <4>2, <6>1
            <7>2. j \in Int
              BY <3>2
            <7>3. QED BY <7>1, <7>2
          <6>2. CASE c # d
            BY <1>9, <3>1, <6>2
          <6>3. QED BY <6>1, <6>2
        <5>2. PICK q \in PlacesIn(P) : Before(p, q) /\ EventAt(P, q) = <<c, i>>
          BY <3>2, <3>3, <5>1 DEF Followed
        <5>3. QED BY <5>2, <1>4
      <4>3. QED BY <4>1, <4>2
    <3>5. ASSUME NEW q \in PlacesIn(Q), Before(p, q), EventAt(Q, q)[1] = c
          PROVE  /\ j < EventAt(Q, q)[2]
                 /\ \A r \in PlacesIn(Q) : Before(p, r) /\ Before(r, q) => EventAt(Q, r)[1] = c
      <4>1. CASE q = z
        <5>1. c = d /\ EventAt(Q, q)[2] = m + 1
          BY <1>3, <3>5, <4>1
        <5>2. j \in 1..m
          BY <3>2, <5>1
        <5>3. j < m + 1
          BY <5>2
        <5>4. \A r \in PlacesIn(Q) : Before(p, r) => EventAt(Q, r)[1] = d
          BY <1>8, <1>10, <5>1 DEF EndsIn
        <5>5. QED BY <5>1, <5>3, <5>4
      <4>2. CASE q # z
        <5>1. q \in PlacesIn(P) /\ EventAt(Q, q) = EventAt(P, q)
          BY <1>4, <1>5, <4>2
        <5>2. ASSUME NEW r \in PlacesIn(Q), Before(p, r), Before(r, q)
              PROVE  EventAt(Q, r)[1] = c
          <6>1. r \in PlacesIn(P) /\ EventAt(Q, r) = EventAt(P, r)
            BY <1>4, <1>5, <1>7, <5>2
          <6>2. QED BY <3>3, <3>5, <5>1, <5>2, <6>1 DEF Followed
        <5>3. QED BY <3>2, <3>3, <3>5, <5>1, <5>2 DEF Followed
      <4>3. QED BY <4>1, <4>2
    <3>6. QED BY <3>1, <3>2, <3>4, <3>5 DEF Followed
  <2>3. QED BY <2>1, <2>2
<1>11. InOrder(Q, N)
  BY <1>10 DEF InOrder
<1>12. QED BY <1>8, <1>11 DEF N

------------------------------------------------------------------------------
(* The four moves of the buffer's pipe F \o <<o, b, e>> *)

\* Three segments make a pipe.
LEMMA ThreeSegments ==
  ASSUME NEW X, NEW x \in X, NEW y \in X, NEW z \in X
  PROVE  <<x, y, z>> \in Seq(X)
OBVIOUS

\* The segments of the pipe.
LEMMA PipeIs ==
  ASSUME NEW S, NEW F \in Seq(Seq(S)), NEW o \in Seq(S), NEW b \in Seq(S), NEW e \in Seq(S),
         NEW P, P = F \o <<o, b, e>>
  PROVE  /\ P \in Seq(Seq(S)) /\ Len(F) \in Nat /\ Len(P) = Len(F) + 3
         /\ \A k \in 1..Len(F) : P[k] = F[k]
         /\ P[Len(F) + 1] = o /\ P[Len(F) + 2] = b /\ P[Len(F) + 3] = e
<1>1. PICK G \in Seq(Seq(S)) : G = <<o, b, e>>
  BY ThreeSegments
<1>2. Len(G) = 3 /\ G[1] = o /\ G[2] = b /\ G[3] = e
  BY <1>1
<1>3. P = F \o G
  BY <1>1
<1>4. /\ P \in Seq(Seq(S)) /\ Len(P) = Len(F) + Len(G)
      /\ \A i \in 1..(Len(F) + Len(G)) : P[i] = IF i <= Len(F) THEN F[i] ELSE G[i - Len(F)]
  BY <1>3, ConcatProperties
<1>5. PICK n \in Nat : n = Len(F)
  OBVIOUS
<1>6. \A k \in 1..n : k \in 1..(n + 3) /\ k <= n
  BY <1>5
<1>7. /\ n + 1 \in 1..(n + 3) /\ ~(n + 1 <= n) /\ (n + 1) - n = 1
      /\ n + 2 \in 1..(n + 3) /\ ~(n + 2 <= n) /\ (n + 2) - n = 2
      /\ n + 3 \in 1..(n + 3) /\ ~(n + 3 <= n) /\ (n + 3) - n = 3
  BY <1>5
<1>8. \A k \in 1..n : P[k] = F[k]
  BY <1>2, <1>4, <1>5, <1>6
<1>9. P[n + 1] = o /\ P[n + 2] = b /\ P[n + 3] = e
  BY <1>2, <1>4, <1>5, <1>7
<1>10. QED BY <1>2, <1>4, <1>5, <1>8, <1>9

\* The collector receives the first event of eventCh.
LEMMA Received ==
  ASSUME NEW S, NEW F \in Seq(Seq(S)), NEW o \in Seq(S), NEW b \in Seq(S), NEW e \in Seq(S),
         e # <<>>, NEW P, P = F \o <<o, b, e>>,
         NEW Q, Q = F \o <<o, Append(b, Head(e)), Tail(e)>>, NEW n
  PROVE  Keeps(P, Q, n)
<1>1. Head(e) \in S /\ Tail(e) \in Seq(S) /\ Append(b, Head(e)) \in Seq(S)
  BY HeadTailProperties, AppendProperties
<1>2. PICK m \in Nat : m = Len(F)
  OBVIOUS
<1>3. /\ P \in Seq(Seq(S)) /\ Len(P) = m + 3 /\ \A j \in 1..m : P[j] = F[j]
      /\ P[m + 1] = o /\ P[m + 2] = b /\ P[m + 3] = e
  BY <1>2, PipeIs
<1>4. /\ Q \in Seq(Seq(S)) /\ Len(Q) = m + 3 /\ \A j \in 1..m : Q[j] = F[j]
      /\ Q[m + 1] = o /\ Q[m + 2] = Append(b, Head(e)) /\ Q[m + 3] = Tail(e)
  BY <1>1, <1>2, PipeIs
<1>5. PICK k \in Nat \ {0} : k = m + 2 /\ k + 1 = m + 3
  OBVIOUS
<1>6. \A j \in 1..(m + 3) : j \in 1..m \/ j = m + 1 \/ j = m + 2 \/ j = m + 3
  OBVIOUS
<1>7. \A j \in 1..Len(P) : j # k /\ j # k + 1 => Q[j] = P[j]
  BY <1>3, <1>4, <1>5, <1>6
<1>8. /\ k + 1 <= Len(P) /\ Len(Q) = Len(P)
      /\ P[k] = b /\ P[k + 1] = e /\ Q[k] = Append(b, Head(e)) /\ Q[k + 1] = Tail(e)
  <2>1. P[k] = b /\ P[k + 1] = e
    BY <1>3, <1>5, Zenon
  <2>2. Q[k] = Append(b, Head(e)) /\ Q[k + 1] = Tail(e)
    BY <1>4, <1>5, Zenon
  <2>3. m + 3 <= m + 3
    OBVIOUS
  <2>4. QED BY <1>3, <1>4, <1>5, <2>1, <2>2, <2>3, Zenon
<1>9. HeadMoved(P, Q, k)
  BY <1>7, <1>8, Zenon DEF HeadMoved
<1>10. QED BY <1>3, <1>4, <1>9, HeadMoves

\* The batch becomes the copy that is handed on.
LEMMA Copied ==
  ASSUME NEW S, NEW F \in Seq(Seq(S)), NEW b \in Seq(S), NEW e \in Seq(S),
         NEW P, P = F \o <<<<>>, b, e>>, NEW Q, Q = F \o <<b, <<>>, e>>, NEW n
  PROVE  Keeps(P, Q, n)
<1>0. <<>> \in Seq(S)
  OBVIOUS
<1>1. PICK m \in Nat : m = Len(F)
  OBVIOUS
<1>2. /\ P \in Seq(Seq(S)) /\ Len(P) = m + 3 /\ \A j \in 1..m : P[j] = F[j]
      /\ P[m + 1] = <<>> /\ P[m + 2] = b /\ P[m + 3] = e
  BY <1>0, <1>1, PipeIs
<1>3. /\ Q \in Seq(Seq(S)) /\ Len(Q) = m + 3 /\ \A j \in 1..m : Q[j] = F[j]
      /\ Q[m + 1] = b /\ Q[m + 2] = <<>> /\ Q[m + 3] = e
  BY <1>0, <1>1, PipeIs
<1>4. PICK g : g = [j \in 1..(m + 3) |-> IF j = m + 1 THEN m + 2 ELSE j]
  OBVIOUS
<1>5. \A j \in 1..(m + 3) : j \in 1..m \/ j = m + 1 \/ j = m + 2 \/ j = m + 3
  OBVIOUS
<1>6. /\ \A j \in 1..m : j \in 1..(m + 3) /\ g[j] = j
      /\ g[m + 1] = m + 2 /\ g[m + 2] = m + 2 /\ g[m + 3] = m + 3
  BY <1>4
<1>7. g \in [1..(m + 3) -> 1..(m + 3)]
  BY <1>4
<1>8. \A j \in 1..(m + 3) : Q[j] # <<>> => Q[j] = P[g[j]]
  BY <1>2, <1>3, <1>5, <1>6
<1>9. \A i, j \in 1..(m + 3) : j # m + 2 /\ i < j => g[i] < g[j]
  BY <1>4
<1>10. ASSUME NEW j \in 1..(m + 3), NEW k \in 1..(m + 3), P[k] # <<>>
       PROVE  \E l \in 1..(m + 3) : Q[l] # <<>> /\ g[l] = k
  <2>1. m + 1 \in 1..(m + 3)
    OBVIOUS
  <2>2. CASE k = m + 2 BY <1>2, <1>3, <1>6, <1>10, <2>1, <2>2
  <2>3. CASE k # m + 2
    <3>1. k # m + 1
      BY <1>2, <1>10
    <3>2. g[k] = k
      BY <1>4, <3>1
    <3>3. Q[k] = P[k]
      BY <1>2, <1>3, <1>5, <2>3, <3>1
    <3>4. QED BY <3>2, <3>3, <1>10
  <2>4. QED BY <2>2, <2>3
<1>11. SegmentsMoved(P, Q, g)
  BY <1>2, <1>3, <1>7, <1>8, <1>9, <1>10, Zenon DEF SegmentsMoved
<1>12. QED BY <1>2, <1>3, <1>11, SegmentsMove

\* The copy joins the batches in flushCh.
LEMMA Flushed ==
  ASSUME NEW S, NEW F \in Seq(Seq(S)), NEW o \in Seq(S), NEW b \in Seq(S), NEW e \in Seq(S),
         NEW P, P = F \o <<o, b, e>>,
         NEW A, A = Append(F, o), NEW Q, Q = A \o <<<<>>, b, e>>, NEW n
  PROVE  Keeps(P, Q, n)
<1>0. <<>> \in Seq(S)
  OBVIOUS
<1>1. PICK m \in Nat :
        /\ m = Len(F) /\ A \in Seq(Seq(S))
        /\ Len(A) = m + 1 /\ A[m + 1] = o /\ \A j \in 1..m : A[j] = F[j]
  <2>1. /\ Append(F, o) \in Seq(Seq(S)) /\ Len(Append(F, o)) = Len(F) + 1
        /\ Append(F, o)[Len(F) + 1] = o
        /\ \A j \in 1..Len(F) : Append(F, o)[j] = F[j]
    BY AppendProperties
  <2>2. Len(F) \in Nat
    OBVIOUS
  <2>3. QED BY <2>1, <2>2, Zenon
<1>2. /\ P \in Seq(Seq(S)) /\ Len(P) = m + 3 /\ \A j \in 1..m : P[j] = F[j]
      /\ P[m + 1] = o /\ P[m + 2] = b /\ P[m + 3] = e
  BY <1>1, PipeIs
<1>3. /\ Q \in Seq(Seq(S)) /\ Len(Q) = m + 4 /\ \A j \in 1..(m + 1) : Q[j] = A[j]
      /\ Q[m + 2] = <<>> /\ Q[m + 3] = b /\ Q[m + 4] = e
  <2>1. /\ Q \in Seq(Seq(S)) /\ Len(Q) = Len(A) + 3 /\ \A j \in 1..Len(A) : Q[j] = A[j]
        /\ Q[Len(A) + 1] = <<>> /\ Q[Len(A) + 2] = b /\ Q[Len(A) + 3] = e
    BY <1>0, <1>1, PipeIs
  <2>2. (m + 1) + 1 = m + 2 /\ (m + 1) + 2 = m + 3 /\ (m + 1) + 3 = m + 4
    OBVIOUS
  <2>3. QED BY <2>1, <2>2, <1>1
<1>4. PICK g : g = [j \in 1..(m + 4) |-> IF j <= m + 1 THEN j ELSE j - 1]
  OBVIOUS
<1>5. \A j \in 1..(m + 4) : j \in 1..m \/ j = m + 1 \/ j = m + 2 \/ j = m + 3 \/ j = m + 4
  OBVIOUS
<1>6. /\ \A j \in 1..m : j \in 1..(m + 1) /\ g[j] = j
      /\ m + 1 \in 1..(m + 1)
      /\ g[m + 1] = m + 1 /\ g[m + 2] = m + 1 /\ g[m + 3] = m + 2 /\ g[m + 4] = m + 3
  BY <1>4
<1>7. g \in [1..(m + 4) -> 1..(m + 3)]
  BY <1>4
<1>8. \A j \in 1..(m + 4) : Q[j] # <<>> => Q[j] = P[g[j]]
  <2> SUFFICES ASSUME NEW j \in 1..(m + 4), Q[j] # <<>> PROVE Q[j] = P[g[j]]
    OBVIOUS
  <2>1. CASE j \in 1..m
    <3>1. Q[j] = F[j] /\ P[j] = F[j] /\ g[j] = j
      BY <1>1, <1>2, <1>3, <1>6, <2>1, Zenon
    <3>2. QED BY <3>1
  <2>2. CASE j = m + 1
    <3>1. Q[m + 1] = o /\ P[m + 1] = o /\ g[m + 1] = m + 1
      BY <1>1, <1>2, <1>3, <1>6, Zenon
    <3>2. QED BY <3>1, <2>2
  <2>3. CASE j = m + 3
    <3>1. Q[j] = b /\ P[m + 2] = b /\ g[j] = m + 2
      BY <1>2, <1>3, <1>6, <2>3, Zenon
    <3>2. QED BY <3>1
  <2>4. CASE j = m + 4
    <3>1. Q[j] = e /\ P[m + 3] = e /\ g[j] = m + 3
      BY <1>2, <1>3, <1>6, <2>4, Zenon
    <3>2. QED BY <3>1
  <2>5. QED BY <1>3, <1>5, <2>1, <2>2, <2>3, <2>4, Zenon
<1>9. \A i, j \in 1..(m + 4) : i < j /\ j # m + 2 => g[i] < g[j]
  BY <1>4
<1>10. ASSUME NEW j \in 1..(m + 4), NEW k \in 1..(m + 3), P[k] # <<>>
       PROVE  \E l \in 1..(m + 4) : Q[l] # <<>> /\ g[l] = k
  <2>1. m + 1 \in 1..(m + 4) /\ m + 3 \in 1..(m + 4) /\ m + 4 \in 1..(m + 4)
    OBVIOUS
  <2>2. CASE k \in 1..m
    <3>1. k \in 1..(m + 4)
      BY <2>2
    <3>2. QED BY <1>1, <1>2, <1>3, <1>6, <1>10, <2>2, <3>1
  <2>3. CASE k = m + 1 BY <1>1, <1>2, <1>3, <1>6, <1>10, <2>1, <2>3
  <2>4. CASE k = m + 2 BY <1>2, <1>3, <1>6, <1>10, <2>1, <2>4
  <2>5. CASE k = m + 3 BY <1>2, <1>3, <1>6, <1>10, <2>1, <2>5
  <2>6. k \in 1..m \/ k = m + 1 \/ k = m + 2 \/ k = m + 3
    OBVIOUS
  <2>7. QED BY <2>2, <2>3, <2>4, <2>5, <2>6
<1>11. SegmentsMoved(P, Q, g)
  BY <1>2, <1>3, <1>7, <1>8, <1>9, <1>10, Zenon DEF SegmentsMoved
<1>12. QED BY <1>2, <1>3, <1>11, SegmentsMove

\* A publisher takes the oldest batch.
LEMMA Taken ==
  ASSUME NEW S, NEW F \in Seq(Seq(S)), NEW o \in Seq(S), NEW b \in Seq(S), NEW e \in Seq(S),
         F # <<>>, NEW P, P = F \o <<o, b, e>>,
         NEW T, T = Tail(F), NEW Q, Q = T \o <<o, b, e>>, NEW n
  PROVE  Keeps(P, Q, n)
<1>1. PICK m \in Nat :
        /\ Len(F) = m + 1 /\ T \in Seq(Seq(S)) /\ Len(T) = m
        /\ \A j \in 1..m : T[j] = F[j + 1]
  <2>1. /\ Tail(F) \in Seq(Seq(S)) /\ Len(Tail(F)) = Len(F) - 1
        /\ \A i \in 1..Len(Tail(F)) : Tail(F)[i] = F[i + 1]
    BY HeadTailProperties
  <2>2. Len(F) - 1 \in Nat /\ Len(F) = (Len(F) - 1) + 1
    BY EmptySeq
  <2>3. QED BY <2>1, <2>2
<1>2. /\ P \in Seq(Seq(S)) /\ Len(P) = m + 4 /\ \A j \in 1..(m + 1) : P[j] = F[j]
      /\ P[m + 2] = o /\ P[m + 3] = b /\ P[m + 4] = e
  <2>1. /\ P \in Seq(Seq(S)) /\ Len(P) = Len(F) + 3 /\ \A j \in 1..Len(F) : P[j] = F[j]
        /\ P[Len(F) + 1] = o /\ P[Len(F) + 2] = b /\ P[Len(F) + 3] = e
    BY PipeIs
  <2>2. (m + 1) + 1 = m + 2 /\ (m + 1) + 2 = m + 3 /\ (m + 1) + 3 = m + 4
    OBVIOUS
  <2>3. QED BY <2>1, <2>2, <1>1
<1>3. /\ Q \in Seq(Seq(S)) /\ Len(Q) = m + 3 /\ \A j \in 1..m : Q[j] = T[j]
      /\ Q[m + 1] = o /\ Q[m + 2] = b /\ Q[m + 3] = e
  <2>1. /\ Q \in Seq(Seq(S)) /\ Len(Q) = Len(T) + 3 /\ \A j \in 1..Len(T) : Q[j] = T[j]
        /\ Q[Len(T) + 1] = o /\ Q[Len(T) + 2] = b /\ Q[Len(T) + 3] = e
    BY <1>1, PipeIs
  <2>2. QED BY <1>1, <2>1
<1>4. PICK g : g = [j \in 1..(m + 3) |-> j + 1]
  OBVIOUS
<1>5. \A j \in 1..(m + 3) : j \in 1..m \/ j = m + 1 \/ j = m + 2 \/ j = m + 3
  OBVIOUS
<1>6. /\ \A j \in 1..m : j + 1 \in 1..(m + 1)
      /\ (m + 1) + 1 = m + 2 /\ (m + 2) + 1 = m + 3 /\ (m + 3) + 1 = m + 4
  OBVIOUS
<1>7. g \in [1..(m + 3) -> 1..(m + 4)]
  BY <1>4
<1>8. \A j \in 1..(m + 3) : Q[j] = P[j + 1]
  <2> SUFFICES ASSUME NEW j \in 1..(m + 3) PROVE Q[j] = P[j + 1]
    OBVIOUS
  <2>1. CASE j \in 1..m
    <3>1. Q[j] = F[j + 1] /\ P[j + 1] = F[j + 1]
      BY <1>1, <1>2, <1>3, <1>6, <2>1, Zenon
    <3>2. QED BY <3>1
  <2>2. CASE j = m + 1 \/ j = m + 2 \/ j = m + 3
    BY <1>2, <1>3, <1>6, <2>2, Zenon
  <2>3. QED BY <1>5, <2>1, <2>2
<1>9. \A j \in 1..(m + 3) : Q[j] = P[g[j]]
  BY <1>4, <1>8
<1>10. \A i, j \in 1..(m + 3) : i < j => g[i] < g[j]
  BY <1>4
<1>11. ASSUME NEW j \in 1..(m + 3), NEW k \in 1..(m + 4), P[k] # <<>>, g[j] < k
       PROVE  \E l \in 1..(m + 3) : Q[l] # <<>> /\ g[l] = k
  <2>1. k - 1 \in 1..(m + 3) /\ (k - 1) + 1 = k
    BY <1>4, <1>11
  <2>2. Q[k - 1] = P[k] /\ g[k - 1] = k
    BY <1>4, <1>8, <2>1
  <2>3. QED BY <1>11, <2>1, <2>2
<1>12. SegmentsMoved(P, Q, g)
  <2>1. \A j \in 1..(m + 3) : \A k \in 1..(m + 4) :
          Q[j] # <<>> /\ P[k] # <<>> /\ g[j] < k
            => \E l \in 1..(m + 3) : Q[l] # <<>> /\ g[l] = k
    BY <1>11
  <2>2. /\ \A j \in 1..(m + 3) : Q[j] # <<>> => Q[j] = P[g[j]]
        /\ \A i, j \in 1..(m + 3) : Q[i] # <<>> /\ Q[j] # <<>> /\ i < j => g[i] < g[j]
    BY <1>9, <1>10, Zenon
  <2>3. Len(P) = m + 4 /\ Len(Q) = m + 3
    BY <1>2, <1>3
  <2>4. g \in [1..Len(Q) -> 1..Len(P)]
    BY <1>7, <2>3
  <2>5. /\ \A j \in 1..Len(Q) : Q[j] # <<>> => Q[j] = P[g[j]]
        /\ \A i, j \in 1..Len(Q) : Q[i] # <<>> /\ Q[j] # <<>> /\ i < j => g[i] < g[j]
    BY <2>2, <2>3, Zenon
  <2>6. \A j \in 1..Len(Q) : \A k \in 1..Len(P) :
          Q[j] # <<>> /\ P[k] # <<>> /\ g[j] < k
            => \E l \in 1..Len(Q) : Q[l] # <<>> /\ g[l] = k
    BY <2>1, <2>3, Zenon
  <2>7. QED BY <2>4, <2>5, <2>6, Zenon DEF SegmentsMoved
<1>13. QED BY <1>2, <1>3, <1>12, SegmentsMove

------------------------------------------------------------------------------
(* The order is kept *)

\* The pipe of the buffer is a pipe, and OrderKept is what is said of its order.
LEMMA ThePipe ==
  TypeOK => /\ Pipe \in Seq(Seq(Events))
            /\ InOrder(Pipe, sent) <=> OrderKept
<1> SUFFICES ASSUME TypeOK
             PROVE  Pipe \in Seq(Seq(Events)) /\ (InOrder(Pipe, sent) <=> OrderKept)
  OBVIOUS
<1>1. Pipe \in Seq(Seq(Events))
  <2>1. /\ flushCh \in Seq(Seq(Events)) /\ out \in Seq(Events) /\ batch \in Seq(Events)
        /\ eventCh \in Seq(Events)
    BY DEF TypeOK
  <2>2. QED BY <2>1, PipeIs DEF Pipe
<1>2. PlacesIn(Pipe) = Places /\ \A p : EventAt(Pipe, p) = At(p)
  BY DEF PlacesIn, Places, EventAt, At
<1>3. InOrder(Pipe, sent) <=> OrderKept
  BY <1>2 DEF InOrder, Followed, OrderKept
<1>4. QED BY <1>1, <1>3

\* The same one step later.
LEMMA ThePipeNext == TypeOK' => (Pipe \in Seq(Seq(Events)))'
BY ThePipe, PTL

\* An event in the pipe has been sent by its call.
LEMMA PipeHasEntered ==
  TypeOK /\ ConserveInv =>
    \A p \in PlacesIn(Pipe) : /\ EventAt(Pipe, p)[1] \in Calls
                              /\ EventAt(Pipe, p)[2] \in 1..sent[EventAt(Pipe, p)[1]]
<1> SUFFICES ASSUME TypeOK, ConserveInv, NEW p \in PlacesIn(Pipe)
             PROVE  /\ EventAt(Pipe, p)[1] \in Calls
                    /\ EventAt(Pipe, p)[2] \in 1..sent[EventAt(Pipe, p)[1]]
  OBVIOUS
<1>1. /\ flushCh \in Seq(Seq(Events)) /\ out \in Seq(Events) /\ batch \in Seq(Events)
      /\ eventCh \in Seq(Events)
  BY DEF TypeOK
<1>2. PICK n \in Nat : n = Len(flushCh)
  BY <1>1
<1>3. /\ Pipe \in Seq(Seq(Events)) /\ Len(Pipe) = n + 3
      /\ \A k \in 1..n : Pipe[k] = flushCh[k]
      /\ Pipe[n + 1] = out /\ Pipe[n + 2] = batch /\ Pipe[n + 3] = eventCh
  BY <1>1, <1>2, PipeIs DEF Pipe
<1>4. PICK k, i : k = p[1] /\ i = p[2] /\ k \in 1..(n + 3) /\ i \in 1..Len(Pipe[k])
  BY <1>3, PlaceIs
<1>5. Pipe[k][i] \in InBuffer
  <2>1. k \in 1..n \/ k = n + 1 \/ k = n + 2 \/ k = n + 3
    BY <1>4
  <2>2. CASE k \in 1..n
    <3>1. flushCh[k] \in Range(flushCh)
      BY <1>1, <1>2, <2>2, RangeEquality
    <3>2. flushCh[k] \in Seq(Events) /\ Pipe[k] = flushCh[k]
      BY <1>1, <1>2, <1>3, <2>2
    <3>3. Pipe[k][i] \in Range(flushCh[k])
      BY <1>4, <3>2, RangeEquality
    <3>4. QED BY <3>1, <3>3 DEF InBuffer, EventsIn
  <2>3. CASE k = n + 1
    BY <1>1, <1>3, <1>4, <2>3, RangeEquality DEF InBuffer
  <2>4. CASE k = n + 2
    BY <1>1, <1>3, <1>4, <2>4, RangeEquality DEF InBuffer
  <2>5. CASE k = n + 3
    BY <1>1, <1>3, <1>4, <2>5, RangeEquality DEF InBuffer
  <2>6. QED BY <2>1, <2>2, <2>3, <2>4, <2>5
<1>6. EventAt(Pipe, p) \in Entered
  BY <1>4, <1>5 DEF EventAt, ConserveInv
<1>7. QED BY <1>6 DEF Entered

\* A step that keeps the order of the pipe and leaves the calls alone.
LEMMA OrderStays ==
  ASSUME OrderInv, Keeps(Pipe, Pipe', sent), UNCHANGED <<call, sent>>
  PROVE  OrderInv'
BY DEF OrderInv, Keeps

\* No step overtakes, and no caller comes between two sends of another.
LEMMA OrderStep ==
  TypeOK /\ TypeOK' /\ CallInv /\ PhaseInv /\ ConserveInv /\ OrderInv /\ [Next]_vars
    => OrderInv'
<1> SUFFICES ASSUME TypeOK, TypeOK', CallInv, PhaseInv, ConserveInv, OrderInv, [Next]_vars
             PROVE  OrderInv'
  OBVIOUS
<1> USE DEF callVars, collectorVars, workerVars
<1>0. /\ flushCh \in Seq(Seq(Events)) /\ out \in Seq(Events) /\ batch \in Seq(Events)
      /\ eventCh \in Seq(Events)
      /\ call \in [Calls -> {"idle", "sending", "accepted", "refused", "panicked"}]
      /\ sent \in [Calls -> Nat]
      /\ Pipe \in Seq(Seq(Events)) /\ Pipe' \in Seq(Seq(Events))
  BY ThePipe, ThePipeNext DEF TypeOK
<1>1. ASSUME NEW c \in Calls, TryEnqueue(c) PROVE OrderInv'
  <2>0. \A d \in Calls : call[d] = "sending" => mutex = d
    BY DEF CallInv
  <2>1. CASE EnqueueSend(c)
    <3>1. /\ call[c] = "sending" /\ sent[c] < Size[c]
          /\ eventCh' = Append(eventCh, <<c, sent[c] + 1>>)
          /\ sent' = [sent EXCEPT ![c] = sent[c] + 1]
          /\ UNCHANGED <<call, flushCh, out, batch>>
      BY <2>1 DEF EnqueueSend
    <3>2. <<c, sent[c] + 1>> \in Events
      BY <3>1, <1>0, BatcherAssumption DEF Events
    <3>3. PICK L \in Nat \ {0} : L = Len(flushCh) + 3
      BY <1>0
    <3>4. /\ Len(Pipe) = L /\ Pipe[L] = eventCh
          /\ \A k \in 1..Len(flushCh) : Pipe[k] = flushCh[k]
          /\ Pipe[Len(flushCh) + 1] = out /\ Pipe[Len(flushCh) + 2] = batch
      BY <1>0, <3>3, PipeIs DEF Pipe
    <3>5. /\ Len(Pipe') = L /\ Pipe'[L] = eventCh'
          /\ \A k \in 1..Len(flushCh) : Pipe'[k] = flushCh[k]
          /\ Pipe'[Len(flushCh) + 1] = out /\ Pipe'[Len(flushCh) + 2] = batch
      <4>1. Pipe' = flushCh \o <<out, batch, eventCh'>> /\ eventCh' \in Seq(Events)
        BY <3>1 DEF Pipe, TypeOK
      <4>2. QED BY <4>1, <1>0, <3>3, PipeIs
    <3>6. \A k \in 1..L : k # L => Pipe'[k] = Pipe[k]
      <4>1. \A k \in 1..L : k # L =>
              k \in 1..Len(flushCh) \/ k = Len(flushCh) + 1 \/ k = Len(flushCh) + 2
        <5>1. Len(flushCh) \in Nat
          BY <1>0
        <5>2. QED BY <5>1, <3>3
      <4>2. QED BY <4>1, <3>4, <3>5
    <3>7. InOrder(Pipe, sent) /\ EndsIn(Pipe, c)
      BY <3>1 DEF OrderInv
    <3>8. InOrder(Pipe', [sent EXCEPT ![c] = sent[c] + 1]) /\ EndsIn(Pipe', c)
      BY <1>0, <3>1, <3>2, <3>4, <3>5, <3>6, <3>7, PipeHasEntered, EventJoins
    <3>9. \A d \in Calls : call'[d] = "sending" => d = c
      BY <2>0, <3>1
    <3>10. QED BY <3>1, <3>8, <3>9 DEF OrderInv
  <2>2. CASE EnqueueBegin(c)
    <3>1. /\ call[c] = "idle" /\ mutex = NoCall /\ call' = [call EXCEPT ![c] = "sending"]
          /\ UNCHANGED <<sent, flushCh, out, batch, eventCh>>
      BY <2>2 DEF EnqueueBegin
    <3>2. Pipe' = Pipe
      BY <3>1 DEF Pipe
    <3>3. \A p \in PlacesIn(Pipe) : EventAt(Pipe, p)[1] # c
      <4>1. sent[c] = 0
        BY <3>1 DEF CallInv
      <4>2. 1..0 = {}
        OBVIOUS
      <4>3. QED BY <4>1, <4>2, PipeHasEntered
    <3>4. EndsIn(Pipe, c)
      BY <3>3 DEF EndsIn
    <3>5. \A d \in Calls : call'[d] = "sending" => d = c
      <4>1. \A d \in Calls : call[d] # "sending"
        BY <2>0, <3>1, BatcherAssumption
      <4>2. QED BY <3>1, <4>1, <1>0
    <3>6. QED BY <3>1, <3>2, <3>4, <3>5 DEF OrderInv
  <2>3. CASE EnqueueNothing(c) \/ EnqueueRefuse(c) \/ EnqueuePanic(c) \/ EnqueueReturn(c)
    <3>1. UNCHANGED <<sent, flushCh, out, batch, eventCh>>
      BY <2>3 DEF EnqueueNothing, EnqueueRefuse, EnqueuePanic, EnqueueReturn
    <3>2. \A d \in Calls : call'[d] = "sending" => call[d] = "sending"
      BY <2>3, <1>0 DEF EnqueueNothing, EnqueueRefuse, EnqueuePanic, EnqueueReturn
    <3>3. Pipe' = Pipe
      BY <3>1 DEF Pipe
    <3>4. QED BY <3>1, <3>2, <3>3 DEF OrderInv
  <2>4. QED BY <1>1, <2>1, <2>2, <2>3 DEF TryEnqueue
<1>2. CASE Receive
  <2>1. /\ eventCh # <<>> /\ eventCh' = Tail(eventCh) /\ out = <<>>
        /\ UNCHANGED <<flushCh, call, sent>>
    BY <1>2 DEF Receive, PhaseInv
  <2>2. /\ Head(eventCh) \in Events /\ Tail(eventCh) \in Seq(Events)
        /\ Append(batch, Head(eventCh)) \in Seq(Events)
    BY <2>1, <1>0, HeadTailProperties, AppendProperties
  <2>3. PICK M : M = flushCh \o <<<<>>, Append(batch, Head(eventCh)), Tail(eventCh)>>
    OBVIOUS
  <2>4. Keeps(Pipe, M, sent)
    <3>1. Pipe = flushCh \o <<<<>>, batch, eventCh>> /\ <<>> \in Seq(Events)
      BY <2>1 DEF Pipe
    <3>2. QED BY <3>1, <2>1, <2>3, <1>0, Received
  <2>5. CASE Len(Append(batch, Head(eventCh))) >= BatchSize
    <3>1. out' = Append(batch, Head(eventCh)) /\ batch' = <<>>
      BY <1>2, <2>5 DEF Receive, FlushNow
    <3>2. Pipe' = flushCh \o <<Append(batch, Head(eventCh)), <<>>, Tail(eventCh)>>
      BY <2>1, <3>1 DEF Pipe
    <3>3. Keeps(M, Pipe', sent)
      BY <2>2, <2>3, <3>2, <1>0, Copied
    <3>4. Keeps(Pipe, Pipe', sent)
      BY <2>4, <3>3 DEF Keeps
    <3>5. QED BY <2>1, <3>4, OrderStays
  <2>6. CASE ~(Len(Append(batch, Head(eventCh))) >= BatchSize)
    <3>1. batch' = Append(batch, Head(eventCh)) /\ out' = out
      BY <1>2, <2>6 DEF Receive
    <3>2. Pipe' = M
      BY <2>1, <2>3, <3>1 DEF Pipe
    <3>3. Keeps(Pipe, Pipe', sent)
      BY <2>4, <3>2
    <3>4. QED BY <2>1, <3>3, OrderStays
  <2>7. QED BY <2>5, <2>6
<1>3. CASE Tick \/ SeeClosed
  <2>1. out' = batch /\ batch' = <<>> /\ out = <<>> /\ UNCHANGED <<flushCh, eventCh, call, sent>>
    BY <1>3 DEF Tick, SeeClosed, FlushNow, PhaseInv
  <2>2. Pipe = flushCh \o <<<<>>, batch, eventCh>> /\ Pipe' = flushCh \o <<batch, <<>>, eventCh>>
    BY <2>1 DEF Pipe
  <2>3. Keeps(Pipe, Pipe', sent)
    BY <2>2, <1>0, Copied
  <2>4. QED BY <2>1, <2>3, OrderStays
<1>4. CASE SendFlush
  <2>1. flushCh' = Append(flushCh, out) /\ out' = <<>> /\ UNCHANGED <<batch, eventCh, call, sent>>
    BY <1>4 DEF SendFlush
  <2>2. Pipe = flushCh \o <<out, batch, eventCh>>
        /\ Pipe' = flushCh' \o <<<<>>, batch, eventCh>>
    BY <2>1 DEF Pipe
  <2>3. Keeps(Pipe, Pipe', sent)
    BY <2>1, <2>2, <1>0, Flushed
  <2>4. QED BY <2>1, <2>3, OrderStays
<1>5. ASSUME NEW w \in Workers, Publish(w) PROVE OrderInv'
  <2>1. CASE TakeBatch(w)
    <3>1. /\ flushCh # <<>> /\ flushCh' = Tail(flushCh)
          /\ UNCHANGED <<out, batch, eventCh, call, sent>>
      BY <2>1 DEF TakeBatch
    <3>2. /\ Pipe = flushCh \o <<out, batch, eventCh>>
          /\ Pipe' = flushCh' \o <<out, batch, eventCh>>
      BY <3>1 DEF Pipe
    <3>3. Keeps(Pipe, Pipe', sent)
      BY <3>1, <3>2, <1>0, Taken
    <3>4. QED BY <3>1, <3>3, OrderStays
  <2>2. CASE ~TakeBatch(w)
    <3>1. UNCHANGED <<flushCh, out, batch, eventCh, call, sent>>
      BY <1>5, <2>2 DEF Publish, PublishOk, PublishError, StoreBatch, WorkerExit
    <3>2. QED BY <3>1 DEF OrderInv, Pipe
  <2>3. QED BY <2>1, <2>2
<1>6. CASE CloseFlush \/ StopClose \/ StopReturn \/ UNCHANGED vars
  <2>1. UNCHANGED <<flushCh, out, batch, eventCh, call, sent>>
    BY <1>6 DEF CloseFlush, StopClose, StopReturn, vars
  <2>2. QED BY <2>1 DEF OrderInv, Pipe
<1>7. QED
  BY <1>1, <1>2, <1>3, <1>4, <1>5, <1>6 DEF Next, Collect

\* The buffer is first in, first out, and a call goes through it in one piece.
THEOREM OrderIsKept == Spec => []OrderKept
<1>1. Init => OrderInv
  <2> SUFFICES ASSUME Init PROVE OrderInv
    OBVIOUS
  <2>1. Pipe \in Seq(Seq(Events)) /\ Len(Pipe) = 3
        /\ Pipe[1] = <<>> /\ Pipe[2] = <<>> /\ Pipe[3] = <<>>
    <3>1. <<>> \in Seq(Seq(Events)) /\ <<>> \in Seq(Events) /\ Len(<<>>) = 0
      OBVIOUS
    <3>2. Pipe = <<>> \o <<<<>>, <<>>, <<>>>>
      BY DEF Init, Pipe
    <3>3. QED BY <3>1, <3>2, PipeIs
  <2>2. ASSUME NEW p \in PlacesIn(Pipe) PROVE FALSE
    <3>1. p[1] \in 1..3 /\ p[2] \in 1..Len(Pipe[p[1]])
      BY <2>1, PlaceIs
    <3>2. Pipe[p[1]] = <<>>
      BY <2>1, <3>1
    <3>3. 1..Len(<<>>) = {}
      OBVIOUS
    <3>4. QED BY <3>1, <3>2, <3>3, Zenon
  <2>3. QED BY <2>2 DEF OrderInv, InOrder, EndsIn
<1>2. TypeOK /\ OrderInv => OrderKept
  BY ThePipe DEF OrderInv
<1>3. QED
  BY <1>1, <1>2, OrderStep, ConserveInvariant, PhaseInvariant, CallInvariant, TypeCorrect,
     PTL DEF Spec

------------------------------------------------------------------------------
(* The refinement *)

\* The mapped state, as the refinement mapping of Batcher gives it.
Told == [c \in Calls |-> Answer(c)]

\* Where an event stands, read off what entered and what was settled.
Standing ==
    [e \in Events |-> IF e \in acked THEN "delivered"
                      ELSE IF e \in failed THEN "dropped"
                      ELSE IF e \in Entered THEN "queued" ELSE "outside"]

\* The invariants of the buffer that the mapping rests on.
RInv == /\ TypeOK /\ CallInv /\ PhaseInv /\ ConserveInv
        /\ ApartInv /\ OnceInv /\ StopDrains

------------------------------------------------------------------------------
(* The mapping *)

\* An event that entered and is not settled is still in the buffer.
LEMMA FatesAreStandings == RInv => Fates = Standing
<1> SUFFICES ASSUME RInv PROVE Fates = Standing
  OBVIOUS
<1>1. InBuffer \intersect Settled = {}
  BY DEF RInv, ApartInv, InBuffer
<1>2. InBuffer \union Settled = Entered
  BY DEF RInv, ConserveInv, Settled
<1>3. ASSUME NEW e \in Events PROVE Fates[e] = Standing[e]
  BY <1>1, <1>2 DEF Fates, Standing, Settled
<1>4. QED BY <1>3 DEF Fates, Standing

\* The same one step later.
LEMMA FatesAreStandingsNext == RInv' => (Fates = Standing)'
BY FatesAreStandings, PTL

\* Only a send, a publish and its failure change where an event stands.
LEMMA FatesStay ==
  RInv /\ RInv' /\ UNCHANGED <<sent, acked, failed>> => Fates' = Fates
<1> SUFFICES ASSUME RInv, RInv', UNCHANGED <<sent, acked, failed>> PROVE Fates' = Fates
  OBVIOUS
<1>1. Standing' = Standing
  BY DEF Standing, Entered
<1>2. QED BY <1>1, FatesAreStandings, FatesAreStandingsNext

\* Answers change only when a call moves on.
LEMMA ToldStays == UNCHANGED call => Told' = Told
BY DEF Told, Answer

\* The phase is read off the progress of Stop.
LEMMA PhaseStays == UNCHANGED stop => Phase' = Phase
BY DEF Phase

\* What a caller is told when its call moves on.
LEMMA ToldChanges ==
  ASSUME TypeOK, NEW c \in Calls, NEW r \in {"sending", "accepted", "refused", "panicked"},
         call[c] \in {"idle", "sending"}, call' = [call EXCEPT ![c] = r]
  PROVE  /\ Told[c] = "none"
         /\ r = "sending" => Told' = Told
         /\ r = "accepted" => Told' = [Told EXCEPT ![c] = "accepted"]
         /\ r = "refused" => Told' = [Told EXCEPT ![c] = "refused"]
         /\ r = "panicked" => Told' = [Told EXCEPT ![c] = "aborted"]
<1>1. call'[c] = r /\ \A d \in Calls : d # c => call'[d] = call[d]
  BY DEF TypeOK
<1>2. Told[c] = "none"
  BY DEF Told, Answer
<1>3. \A d \in Calls : d # c => Told'[d] = Told[d]
  BY <1>1 DEF Told, Answer
<1>4. Told'[c] = IF r = "sending" THEN "none" ELSE IF r = "panicked" THEN "aborted" ELSE r
  BY <1>1 DEF Told, Answer
<1>5. Told = [d \in Calls |-> Told[d]] /\ Told' = [d \in Calls |-> Told'[d]]
  BY DEF Told
<1>6. QED BY <1>2, <1>3, <1>4, <1>5

------------------------------------------------------------------------------
(* The steps *)

\* What the mapping leaves alone, the promise does not see.
LEMMA Stutter ==
  ASSUME Told' = Told, Fates' = Fates, Phase' = Phase
  PROVE  UNCHANGED Delivery!vars
BY DEF Delivery!vars, Told

\* A send admits an event; the end of a call is its answer.
LEMMA CallStep ==
  ASSUME RInv, RInv', NEW c \in Calls, TryEnqueue(c)
  PROVE  [Delivery!Next]_(Delivery!vars)
<1> USE DEF callVars, collectorVars, workerVars
<1>0. /\ TypeOK /\ CallInv /\ PhaseInv
      /\ call \in [Calls -> {"idle", "sending", "accepted", "refused", "panicked"}]
      /\ sent \in [Calls -> Nat] /\ Size \in [Calls -> Nat]
  BY BatcherAssumption DEF RInv, TypeOK
<1>1. Phase' = Phase
  BY PhaseStays DEF TryEnqueue, EnqueueNothing, EnqueueRefuse, EnqueueBegin, EnqueueSend,
                    EnqueuePanic, EnqueueReturn
<1>2. ~EnqueueSend(c) => Fates' = Fates
  BY FatesStay DEF TryEnqueue, EnqueueNothing, EnqueueRefuse, EnqueueBegin,
                   EnqueuePanic, EnqueueReturn
<1>3. Delivery!EventsOf(c) = {c} \X (1..Size[c])
  <2>1. \A e \in Events : e[1] = c => e \in {c} \X (1..Size[c])
    BY DEF Events
  <2>2. {c} \X (1..Size[c]) \subseteq Events
    BY DEF Events
  <2>3. QED BY <2>1, <2>2 DEF Delivery!EventsOf, Delivery!Events, Events
<1>4. \A e \in Delivery!EventsOf(c) : e \in Events
  BY DEF Delivery!EventsOf, Delivery!Events, Events
<1>5. Fates = Standing
  BY FatesAreStandings
<1>6. \A e \in {c} \X (1..Size[c]) : e \in Entered <=> e[2] <= sent[c]
  BY <1>0 DEF Entered
<1>7. InBuffer \union acked \union failed = Entered
  BY DEF RInv, ConserveInv
<1>8. \A e \in Events : e \in Entered <=> Fates[e] # "outside"
  BY <1>5, <1>7 DEF Standing
<1>9. CASE EnqueueNothing(c) \/ EnqueueReturn(c)
  <2>1. call' = [call EXCEPT ![c] = "accepted"] /\ call[c] \in {"idle", "sending"}
    BY <1>9 DEF EnqueueNothing, EnqueueReturn
  <2>2. Told[c] = "none" /\ Told' = [Told EXCEPT ![c] = "accepted"]
    BY <2>1, <1>0, ToldChanges
  <2>3. Size[c] = sent[c]
    BY <1>9, <1>0 DEF EnqueueNothing, EnqueueReturn, CallInv
  <2>4. \A e \in Delivery!EventsOf(c) : Fates[e] # "outside"
    BY <2>3, <1>0, <1>3, <1>4, <1>6, <1>8
  <2>5. Fates' = Fates
    BY <1>9, <1>2 DEF EnqueueNothing, EnqueueReturn, EnqueueSend
  <2>6. Delivery!Accept(c)
    BY <2>2, <2>4, <2>5, <1>1 DEF Delivery!Accept, Told
  <2>7. QED BY <2>6 DEF Delivery!Next
<1>10. CASE EnqueueRefuse(c)
  <2>1. call' = [call EXCEPT ![c] = "refused"] /\ call[c] = "idle"
    BY <1>10 DEF EnqueueRefuse
  <2>2. Told[c] = "none" /\ Told' = [Told EXCEPT ![c] = "refused"]
    BY <2>1, <1>0, ToldChanges
  <2>3. sent[c] = 0
    BY <2>1, <1>0 DEF CallInv
  <2>4. \A e \in Delivery!EventsOf(c) : Fates[e] = "outside"
    BY <2>3, <1>0, <1>3, <1>4, <1>6, <1>8
  <2>5. Fates' = Fates
    BY <2>1, <1>2 DEF EnqueueSend
  <2>6. Delivery!Refuse(c)
    BY <2>2, <2>4, <2>5, <1>1 DEF Delivery!Refuse, Told
  <2>7. QED BY <2>6 DEF Delivery!Next
<1>11. CASE EnqueueBegin(c)
  <2>1. call' = [call EXCEPT ![c] = "sending"] /\ call[c] = "idle"
    BY <1>11 DEF EnqueueBegin
  <2>2. Told' = Told
    BY <2>1, <1>0, ToldChanges
  <2>3. Fates' = Fates
    BY <2>1, <1>2 DEF EnqueueSend
  <2>4. QED BY <2>2, <2>3, <1>1, Stutter
<1>12. CASE EnqueuePanic(c)
  <2>1. call' = [call EXCEPT ![c] = "panicked"] /\ call[c] = "sending" /\ closed
    BY <1>12 DEF EnqueuePanic
  <2>2. Told[c] = "none" /\ Told' = [Told EXCEPT ![c] = "aborted"]
    BY <2>1, <1>0, ToldChanges
  <2>3. Phase # "open"
    BY <2>1, <1>0 DEF Phase, PhaseInv
  <2>4. Fates' = Fates
    BY <2>1, <1>2 DEF EnqueueSend
  <2>5. Delivery!Abort(c)
    BY <2>2, <2>3, <2>4, <1>1 DEF Delivery!Abort, Told
  <2>6. QED BY <2>5 DEF Delivery!Next
<1>13. CASE EnqueueSend(c)
  <2> DEFINE e == <<c, sent[c] + 1>>
  <2>1. /\ call[c] = "sending" /\ sent[c] < Size[c] /\ ~closed
        /\ sent' = [sent EXCEPT ![c] = @ + 1]
        /\ UNCHANGED <<call, acked, failed>>
    BY <1>13 DEF EnqueueSend
  <2>2. Told' = Told /\ Told[c] = "none"
    BY <2>1, ToldStays DEF Told, Answer
  <2>3. Phase = "open"
    BY <2>1, <1>0 DEF Phase, PhaseInv
  <2>4. e \in Events /\ e \in {c} \X (1..Size[c])
    BY <2>1, <1>0 DEF Events
  <2>5. e \notin Entered
    BY <2>4, <1>0, <1>6
  <2>6. Fates[e] = "outside"
    BY <2>4, <2>5, <1>8
  <2>7. Entered' = Entered \union {e}
    <3>1. sent'[c] = sent[c] + 1 /\ \A d \in Calls : d # c => sent'[d] = sent[d]
      BY <2>1, <1>0
    <3>2. 1..(sent[c] + 1) = (1..sent[c]) \union {sent[c] + 1}
      BY <1>0
    <3>3. {c} \X (1..sent'[c]) = ({c} \X (1..sent[c])) \union {e}
      BY <3>1, <3>2
    <3>4. \A d \in Calls : d # c => {d} \X (1..sent'[d]) = {d} \X (1..sent[d])
      BY <3>1
    <3>5. QED BY <3>3, <3>4 DEF Entered
  <2>8. Standing' = [Standing EXCEPT ![e] = "queued"]
    <3>1. e \notin acked /\ e \notin failed
      BY <2>5, <1>7
    <3>2. Standing'[e] = "queued"
      BY <2>1, <2>4, <2>7, <3>1 DEF Standing
    <3>3. \A d \in Events : d # e => Standing'[d] = Standing[d]
      BY <2>1, <2>7 DEF Standing
    <3>4. QED BY <3>2, <3>3 DEF Standing
  <2>9. Fates' = [Fates EXCEPT ![e] = "queued"]
    BY <2>8, <1>5, FatesAreStandingsNext
  <2>10. e[1] = c
    OBVIOUS
  <2>11. Delivery!Admit(e)
    BY <2>2, <2>3, <2>6, <2>9, <2>10, <1>1 DEF Delivery!Admit, Told
  <2>12. QED BY <2>4, <2>11 DEF Delivery!Next, Delivery!Events, Events
<1>14. QED
  BY <1>9, <1>10, <1>11, <1>12, <1>13 DEF TryEnqueue

\* The collector, and a publisher that touches no sink, move events inside.
LEMMA CollectorStep ==
  ASSUME RInv, RInv', Collect
  PROVE  [Delivery!Next]_(Delivery!vars)
<1> USE DEF callVars, collectorVars, workerVars
<1>1. UNCHANGED <<sent, acked, failed, call, stop>>
  BY DEF Collect, Receive, Tick, SeeClosed, SendFlush, CloseFlush
<1>2. QED BY <1>1, FatesStay, ToldStays, PhaseStays, Stutter

\* A publish settles the whole batch, unless the batch is empty.
LEMMA PublishStep ==
  ASSUME RInv, RInv', NEW w \in Workers, Publish(w)
  PROVE  [Delivery!Next]_(Delivery!vars)
<1> USE DEF callVars, collectorVars, workerVars
<1>1. CASE TakeBatch(w) \/ StoreBatch(w) \/ WorkerExit(w)
  <2>1. UNCHANGED <<sent, acked, failed, call, stop>>
    BY <1>1 DEF TakeBatch, StoreBatch, WorkerExit
  <2>2. QED BY <2>1, FatesStay, ToldStays, PhaseStays, Stutter
<1>2. CASE PublishOk(w) \/ PublishError(w)
  <2> DEFINE group == Range(held[w])
             outcome == IF PublishOk(w) THEN "delivered" ELSE "dropped"
  <2>1. /\ worker[w] = "publishing"
        /\ UNCHANGED <<sent, call, stop>>
        /\ PublishOk(w) => acked' = acked \union group /\ failed' = failed
        /\ PublishError(w) => failed' = failed \union group /\ acked' = acked
    BY <1>2 DEF PublishOk, PublishError
  <2>2. Told' = Told /\ Phase' = Phase
    BY <2>1, ToldStays, PhaseStays
  <2>3. group \subseteq InHands
    BY <2>1 DEF InHands, Publishing
  <2>4. group \subseteq Events
    BY RangeOfSeq DEF RInv, TypeOK
  <2>5. group \subseteq InBuffer
    BY <2>3 DEF InBuffer
  <2>6. InBuffer \intersect (acked \union failed) = {}
    BY DEF RInv, ApartInv, InBuffer, Settled
  <2>7. Fates = Standing /\ Fates' = Standing'
    BY FatesAreStandings, FatesAreStandingsNext
  <2>8. Entered' = Entered
    BY <2>1 DEF Entered
  <2>9. Standing' = [e \in Events |-> IF e \in group THEN outcome ELSE Standing[e]]
    <3>1. CASE PublishOk(w)
      <4>1. \A e \in Events :
              Standing'[e] = IF e \in group THEN "delivered" ELSE Standing[e]
        BY <2>1, <2>8, <3>1 DEF Standing
      <4>2. outcome = "delivered"
        BY <3>1
      <4>3. QED BY <4>1, <4>2 DEF Standing
    <3>2. CASE ~PublishOk(w)
      <4>1. \A e \in Events :
              Standing'[e] = IF e \in group THEN "dropped" ELSE Standing[e]
        BY <1>2, <2>1, <2>5, <2>6, <2>8, <3>2 DEF Standing
      <4>2. outcome = "dropped"
        BY <3>2
      <4>3. QED BY <4>1, <4>2 DEF Standing
    <3>3. QED BY <3>1, <3>2
  <2>10. CASE group = {}
    <3>1. Standing' = Standing
      BY <2>9, <2>10 DEF Standing
    <3>2. QED BY <3>1, <2>2, <2>7, Stutter
  <2>11. CASE group # {}
    <3>1. group \in SUBSET Delivery!Queued
      <4>1. \A e \in group : e \in Events /\ Fates[e] = "queued"
        BY <2>4, <2>5 DEF Fates
      <4>2. QED BY <4>1 DEF Delivery!Queued, Delivery!Events, Events
    <3>2. outcome \in {"delivered", "dropped"}
      OBVIOUS
    <3>3. Fates' = [e \in Delivery!Events |-> IF e \in group THEN outcome ELSE Fates[e]]
      BY <2>7, <2>9 DEF Delivery!Events, Events
    <3>4. Delivery!Settle(group, outcome)
      BY <2>2, <2>11, <3>3 DEF Delivery!Settle, Told
    <3>5. QED BY <3>1, <3>2, <3>4 DEF Delivery!Next
  <2>12. QED BY <2>10, <2>11
<1>3. QED BY <1>1, <1>2 DEF Publish

\* A stop begins at the close of eventCh and is over when nothing is queued.
LEMMA StopStep ==
  ASSUME RInv, RInv', StopClose \/ StopReturn
  PROVE  [Delivery!Next]_(Delivery!vars)
<1> USE DEF callVars, collectorVars, workerVars
<1>1. UNCHANGED <<sent, acked, failed, call>>
  BY DEF StopClose, StopReturn
<1>2. Told' = Told /\ Fates' = Fates
  BY <1>1, FatesStay, ToldStays
<1>3. CASE StopClose
  <2>1. Phase = "open" /\ Phase' = "stopping"
    BY <1>3 DEF StopClose, Phase
  <2>2. Delivery!BeginStop
    BY <1>2, <2>1 DEF Delivery!BeginStop, Told
  <2>3. QED BY <2>2 DEF Delivery!Next
<1>4. CASE StopReturn
  <2>1. Phase = "stopping" /\ Phase' = "stopped"
    BY <1>4 DEF StopReturn, Phase
  <2>2. InBuffer' = {}
    BY <1>4 DEF StopReturn, RInv, StopDrains
  <2>3. \A e \in Events : Fates'[e] # "queued"
    BY <2>2 DEF Fates
  <2>4. Delivery!Queued = {}
    BY <1>2, <2>3 DEF Delivery!Queued, Delivery!Events, Events
  <2>5. Delivery!FinishStop
    BY <1>2, <2>1, <2>4 DEF Delivery!FinishStop, Told
  <2>6. QED BY <2>5 DEF Delivery!Next
<1>5. QED BY <1>3, <1>4

------------------------------------------------------------------------------
\* The buffer implements its promise: every event that enters is queued once
\* and settled once and for good, every answer is all-or-nothing, and a stop
\* ends with nothing queued, for any capacities, callers and publishers.
THEOREM BufferImplementsDelivery == Spec => ImplementsDelivery
<1>1. Init => Delivery!Init
  <2> SUFFICES ASSUME Init PROVE Delivery!Init
    OBVIOUS
  <2>1. [c \in Calls |-> Answer(c)] = [c \in Calls |-> "none"]
    BY DEF Init, Answer
  <2>2. InBuffer = {}
    <3>1. /\ Range(eventCh) = {} /\ Range(batch) = {} /\ Range(out) = {}
          /\ Range(flushCh) = {}
      BY RangeEmpty DEF Init
    <3>2. Publishing = {}
      BY DEF Init, Publishing
    <3>3. QED BY <3>1, <3>2 DEF InBuffer, EventsIn, InHands
  <2>3. Fates = [e \in Delivery!Events |-> "outside"]
    BY <2>2 DEF Init, Fates, Delivery!Events, Events
  <2>4. Phase = "open"
    BY DEF Init, Phase
  <2>5. QED BY <2>1, <2>3, <2>4 DEF Delivery!Init
<1>2. RInv /\ RInv' /\ [Next]_vars => [Delivery!Next]_(Delivery!vars)
  <2> SUFFICES ASSUME RInv, RInv', [Next]_vars PROVE [Delivery!Next]_(Delivery!vars)
    OBVIOUS
  <2>1. CASE UNCHANGED vars
    <3>1. UNCHANGED <<sent, acked, failed, call, stop>>
      BY <2>1 DEF vars, callVars, workerVars
    <3>2. QED BY <3>1, FatesStay, ToldStays, PhaseStays, Stutter
  <2>2. CASE Next
    BY <2>2, CallStep, CollectorStep, PublishStep, StopStep DEF Next
  <2>3. QED BY <2>1, <2>2
<1>3. Spec => []RInv
  BY TypeCorrect, CallInvariant, PhaseInvariant, ConserveInvariant, HeldOnce,
     StopIsGraceful, PTL DEF RInv
<1>4. Spec => Delivery!Spec
  BY <1>1, <1>2, <1>3, PTL DEF Spec, Delivery!Spec
<1>5. QED BY <1>4 DEF ImplementsDelivery

------------------------------------------------------------------------------
(* Why events settle and Stop returns *)

\* The publishers that are in one of the states of S.
Among(S) == Cardinality({w \in Workers : worker[w] \in S})

\* How far the collector is from its end: its flush under way weighs more than the
\* batch it leaves behind, less than the events it was made of.
Stage ==
    CASE collector = "select" -> 2
      [] collector \in {"flushing", "lastFlush"} -> 6
      [] collector = "closing" -> 1
      [] OTHER -> 0

\* A publisher publishes, stores and exits: three steps, two, or the last one.
Load ==
    Among({"publishing"}) + Among({"publishing", "storing"})
        + Among({"idle", "publishing", "storing"})

\* How many steps the goroutines have before them at most, when no more events
\* come: one that waits in eventCh is received, flushed, taken, published, stored.
Work == 6 * Len(eventCh) + 5 * Len(batch) + Stage + 3 * Len(flushCh) + Load

\* Only a send into eventCh adds to it, as long as the channel is open, and each
\* step of the collector and of a publisher takes from it.
RunsDown ==
    /\ Work' <= Work + 6
    /\ closed => Work' <= Work
    /\ Collect \/ (\E w \in Workers : Publish(w)) => Work' < Work

\* While the buffer holds an event or Stop waits, somebody can move (the guards of
\* Collect, Publish and StopReturn): the goroutines do not all wait for one another,
\* nor for a caller.
NotStuck ==
    InBuffer # {} \/ stop = "waiting" =>
        \/ collector = "select" /\ (eventCh # <<>> \/ batch # <<>> \/ closed)
        \/ collector = "closing"
        \/ collector \in {"flushing", "lastFlush"} /\ Len(flushCh) < FlushCap
        \/ \E w \in Workers : worker[w] \in {"publishing", "storing"}
        \/ \E w \in Workers : worker[w] = "idle" /\ (flushCh # <<>> \/ flushClosed)
        \/ /\ collector = "done" /\ stop = "waiting"
           /\ \A w \in Workers : worker[w] = "done"

\* There are finitely many publishers in a state.
LEMMA AmongIsNat ==
    ASSUME IsFiniteSet(Workers), NEW S
    PROVE  Among(S) \in Nat
<1>1. {w \in Workers : worker[w] \in S} \in SUBSET Workers
  OBVIOUS
<1>2. IsFiniteSet({w \in Workers : worker[w] \in S})
  BY <1>1, FS_Subset
<1>3. QED BY <1>2, FS_CardinalityType DEF Among

\* So is what they have to do.
LEMMA LoadIsNat == ASSUME IsFiniteSet(Workers) PROVE Load \in Nat
<1>1. Among({"publishing"}) \in Nat
  BY AmongIsNat
<1>2. Among({"publishing", "storing"}) \in Nat
  BY AmongIsNat
<1>3. Among({"idle", "publishing", "storing"}) \in Nat
  BY AmongIsNat
<1>4. QED BY <1>1, <1>2, <1>3 DEF Load

\* The measure is a number.
LEMMA WorkIsNat == ASSUME TypeOK, IsFiniteSet(Workers) PROVE Work \in Nat
<1>1. Len(eventCh) \in Nat /\ Len(batch) \in Nat /\ Len(flushCh) \in Nat
  BY DEF TypeOK
<1>2. Stage \in Nat
  BY DEF Stage
<1>3. QED BY <1>1, <1>2, LoadIsNat DEF Work

\* One publisher that changes state leaves the others where they are.
LEMMA OneMoves ==
    ASSUME TypeOK, IsFiniteSet(Workers), NEW w \in Workers, NEW s, NEW S,
           worker' = [worker EXCEPT ![w] = s]
    PROVE  Among(S)' = Among(S) - (IF worker[w] \in S THEN 1 ELSE 0)
                                + (IF s \in S THEN 1 ELSE 0)
<1> DEFINE Old == {v \in Workers : worker[v] \in S}
           New == {v \in Workers : worker'[v] \in S}
<1>1. IsFiniteSet(Old) /\ IsFiniteSet(Old \ {w})
  <2>1. Old \in SUBSET Workers /\ Old \ {w} \in SUBSET Workers
    OBVIOUS
  <2>2. QED BY <2>1, FS_Subset
<1>2. Cardinality(Old) \in Nat
  BY <1>1, FS_CardinalityType
<1>3. Cardinality(Old \ {w}) = Cardinality(Old) - (IF worker[w] \in S THEN 1 ELSE 0)
  BY <1>1, <1>2, FS_RemoveElement
<1>4. Cardinality((Old \ {w}) \union {w}) = Cardinality(Old \ {w}) + 1
  BY <1>1, FS_AddElement
<1>5. New = IF s \in S THEN (Old \ {w}) \union {w} ELSE Old \ {w}
  BY DEF TypeOK
<1>6. Among(S) = Cardinality(Old) /\ Among(S)' = Cardinality(New)
  BY DEF Among
<1>7. QED BY <1>2, <1>3, <1>4, <1>5, <1>6

\* So the load changes by what that publisher had and has before it.
LEMMA LoadMoves ==
    ASSUME TypeOK, IsFiniteSet(Workers), NEW w \in Workers,
           NEW s \in {"idle", "publishing", "storing", "done"},
           worker' = [worker EXCEPT ![w] = s]
    PROVE  /\ worker[w] = "idle" /\ s = "publishing" => Load' = Load + 2
           /\ worker[w] = "publishing" /\ s = "storing" => Load' = Load - 1
           /\ worker[w] = "publishing" /\ s = "idle" => Load' = Load - 2
           /\ worker[w] = "storing" /\ s = "idle" => Load' = Load - 1
           /\ worker[w] = "idle" /\ s = "done" => Load' = Load - 1
<1>1. PICK p \in Nat : p = Among({"publishing"})
  BY AmongIsNat
<1>2. PICK q \in Nat : q = Among({"publishing", "storing"})
  BY AmongIsNat
<1>3. PICK a \in Nat : a = Among({"idle", "publishing", "storing"})
  BY AmongIsNat
<1>4. Among({"publishing"})' =
        p - (IF worker[w] \in {"publishing"} THEN 1 ELSE 0)
          + (IF s \in {"publishing"} THEN 1 ELSE 0)
  BY <1>1, OneMoves
<1>5. Among({"publishing", "storing"})' =
        q - (IF worker[w] \in {"publishing", "storing"} THEN 1 ELSE 0)
          + (IF s \in {"publishing", "storing"} THEN 1 ELSE 0)
  BY <1>2, OneMoves
<1>6. Among({"idle", "publishing", "storing"})' =
        a - (IF worker[w] \in {"idle", "publishing", "storing"} THEN 1 ELSE 0)
          + (IF s \in {"idle", "publishing", "storing"} THEN 1 ELSE 0)
  BY <1>3, OneMoves
<1>7. QED BY <1>1, <1>2, <1>3, <1>4, <1>5, <1>6 DEF Load

\* Each step of the collector takes from the work.
LEMMA CollectLowers ==
    ASSUME TypeOK, PhaseInv, IsFiniteSet(Workers), Collect
    PROVE  Work' < Work
<1>1. UNCHANGED worker
  BY DEF Collect, Receive, Tick, SeeClosed, SendFlush, CloseFlush, workerVars
<1>2. PICK n \in Nat : n = Load /\ n = Load'
  <2>1. Load' = Load
    BY <1>1 DEF Load, Among
  <2>2. QED BY <2>1, LoadIsNat
<1>3. PICK e \in Nat, b \in Nat, f \in Nat :
        e = Len(eventCh) /\ b = Len(batch) /\ f = Len(flushCh)
  BY DEF TypeOK
<1>4. Work = 6 * e + 5 * b + Stage + 3 * f + n
  BY <1>2, <1>3 DEF Work
<1>5. Work' = 6 * Len(eventCh') + 5 * Len(batch') + Stage' + 3 * Len(flushCh') + n
  BY <1>2 DEF Work
<1>6. Len(<<>>) = 0
  OBVIOUS
<1>7. batch # <<>> => b >= 1
  BY <1>3 DEF TypeOK
<1>8. CASE Receive
  <2>1. Len(eventCh') = e - 1 /\ e >= 1 /\ flushCh' = flushCh /\ Stage = 2
    BY <1>3, <1>8, HeadTailProperties DEF Receive, TypeOK, Stage
  <2>2. CASE batch' = <<>> /\ collector' = "flushing"
    <3>1. Stage' = 6
      BY <2>2 DEF Stage
    <3>2. Work' = 6 * (e - 1) + 5 * 0 + 6 + 3 * f + n
      BY <1>3, <1>5, <1>6, <2>1, <2>2, <3>1
    <3>3. QED BY <1>4, <2>1, <3>2
  <2>3. CASE batch' = Append(batch, Head(eventCh)) /\ collector' = collector
    <3>1. Stage' = 2 /\ Len(batch') = b + 1
      BY <1>3, <1>8, <2>3, HeadTailProperties, AppendProperties DEF Receive, TypeOK, Stage
    <3>2. Work' = 6 * (e - 1) + 5 * (b + 1) + 2 + 3 * f + n
      BY <1>3, <1>5, <2>1, <3>1
    <3>3. QED BY <1>4, <2>1, <3>2
  <2>4. QED BY <1>8, <2>2, <2>3 DEF Receive, FlushNow
<1>9. CASE Tick
  <2>1. Stage = 2 /\ Stage' = 6
    BY <1>9 DEF Tick, FlushNow, Stage
  <2>2. Work' = 6 * e + 5 * 0 + 6 + 3 * f + n
    BY <1>3, <1>5, <1>6, <1>9, <2>1 DEF Tick, FlushNow
  <2>3. b >= 1
    BY <1>7, <1>9 DEF Tick
  <2>4. QED BY <1>4, <2>1, <2>2, <2>3
<1>10. CASE SeeClosed
  <2>1. Stage = 2 /\ Stage' = IF batch = <<>> THEN 1 ELSE 6
    BY <1>10 DEF SeeClosed, FlushNow, Stage
  <2>2. PICK s \in {1, 6} : s = Stage' /\ (s = 6 => b >= 1)
    BY <1>7, <2>1
  <2>3. Work' = 6 * e + 5 * 0 + s + 3 * f + n
    BY <1>3, <1>5, <1>6, <1>10, <2>2 DEF SeeClosed, FlushNow
  <2>4. QED BY <1>4, <2>1, <2>2, <2>3
<1>11. CASE SendFlush
  <2>1. Stage = 6 /\ Stage' \in {1, 2}
    BY <1>11 DEF SendFlush, Stage
  <2>2. Len(flushCh') = f + 1
    BY <1>3, <1>11, AppendProperties DEF SendFlush, TypeOK
  <2>3. PICK s \in {1, 2} : s = Stage'
    BY <2>1
  <2>4. Work' = 6 * e + 5 * b + s + 3 * (f + 1) + n
    BY <1>3, <1>5, <1>11, <2>2, <2>3 DEF SendFlush
  <2>5. QED BY <1>4, <2>1, <2>4
<1>12. CASE CloseFlush
  <2>1. Stage = 1 /\ Stage' = 0
    BY <1>12 DEF CloseFlush, Stage
  <2>2. Work' = 6 * e + 5 * b + 0 + 3 * f + n
    BY <1>3, <1>5, <1>12, <2>1 DEF CloseFlush
  <2>3. QED BY <1>4, <2>1, <2>2
<1>13. QED BY <1>8, <1>9, <1>10, <1>11, <1>12 DEF Collect

\* Each step of a publisher takes from the work.
LEMMA PublishLowers ==
    ASSUME TypeOK, IsFiniteSet(Workers), NEW w \in Workers, Publish(w)
    PROVE  Work' < Work
<1>1. PICK n \in Nat : n = Load
  BY LoadIsNat
<1>2. PICK e \in Nat : e = 6 * Len(eventCh) + 5 * Len(batch) + Stage
  BY DEF TypeOK, Stage
<1>3. e = (6 * Len(eventCh) + 5 * Len(batch) + Stage)'
  <2>1. UNCHANGED <<eventCh, batch, collector>>
    BY DEF Publish, TakeBatch, PublishOk, PublishError, StoreBatch, WorkerExit,
           collectorVars
  <2>2. QED BY <1>2, <2>1 DEF Stage
<1>4. PICK f \in Nat : f = Len(flushCh)
  BY DEF TypeOK
<1>5. Work = e + 3 * f + n
  BY <1>1, <1>2, <1>4 DEF Work
<1>6. Work' = e + 3 * Len(flushCh') + Load'
  BY <1>3 DEF Work
<1>7. CASE TakeBatch(w)
  <2>1. worker' = [worker EXCEPT ![w] = "publishing"] /\ worker[w] = "idle"
    BY <1>7 DEF TakeBatch
  <2>2. Load' = n + 2
    BY <1>1, <2>1, LoadMoves
  <2>3. Len(flushCh') = f - 1
    BY <1>4, <1>7, HeadTailProperties DEF TakeBatch, TypeOK
  <2>4. QED BY <1>5, <1>6, <2>2, <2>3
<1>8. CASE ~TakeBatch(w)
  <2>1. flushCh' = flushCh
    BY <1>8 DEF Publish, PublishOk, PublishError, StoreBatch, WorkerExit
  <2>2. \/ worker[w] = "publishing" /\ worker' = [worker EXCEPT ![w] = "idle"]
        \/ worker[w] = "publishing" /\ worker' = [worker EXCEPT ![w] = "storing"]
        \/ worker[w] = "storing" /\ worker' = [worker EXCEPT ![w] = "idle"]
        \/ worker[w] = "idle" /\ worker' = [worker EXCEPT ![w] = "done"]
    BY <1>8 DEF Publish, PublishOk, PublishError, StoreBatch, WorkerExit
  <2>3. Load' \in {n - 1, n - 2}
    BY <1>1, <2>2, LoadMoves
  <2>4. QED BY <1>4, <1>5, <1>6, <2>1, <2>3
<1>9. QED BY <1>7, <1>8

\* A call adds the event it sends, and cannot send into the closed channel.
LEMMA CallAdds ==
    ASSUME TypeOK, IsFiniteSet(Workers), NEW c \in Calls, TryEnqueue(c)
    PROVE  Work' <= Work + 6 /\ (closed => Work' <= Work)
<1>1. PICK k \in Nat :
        Work = 6 * Len(eventCh) + k /\ Work' = 6 * Len(eventCh') + k
  <2>1. UNCHANGED <<batch, collector, flushCh, worker>>
    BY DEF TryEnqueue, EnqueueNothing, EnqueueRefuse, EnqueueBegin, EnqueueSend,
           EnqueuePanic, EnqueueReturn, collectorVars, workerVars
  <2> DEFINE K == 5 * Len(batch) + Stage + 3 * Len(flushCh) + Load
  <2>2. Stage' = Stage /\ Load' = Load /\ UNCHANGED <<batch, flushCh>>
    BY <2>1 DEF Stage, Load, Among
  <2>3. Stage \in Nat
    BY DEF Stage
  <2>4. K \in Nat
    BY <2>3, LoadIsNat DEF TypeOK
  <2>5. Len(eventCh) \in Nat /\ Len(eventCh') \in Nat
    BY DEF TypeOK, TryEnqueue, EnqueueNothing, EnqueueRefuse, EnqueueBegin, EnqueueSend,
           EnqueuePanic, EnqueueReturn
  <2>6. Work = 6 * Len(eventCh) + K
    BY <2>3, <2>5, LoadIsNat DEF Work, TypeOK
  <2>7. Work' = 6 * Len(eventCh') + K
    BY <2>2, <2>3, <2>5, LoadIsNat DEF Work, TypeOK
  <2>8. QED BY <2>4, <2>6, <2>7
<1>2. \/ eventCh' = eventCh
      \/ Len(eventCh') = Len(eventCh) + 1 /\ ~closed
  <2>1. CASE EnqueueSend(c)
    BY <2>1, AppendProperties DEF EnqueueSend, TypeOK
  <2>2. CASE ~EnqueueSend(c)
    BY <2>2 DEF TryEnqueue, EnqueueNothing, EnqueueRefuse, EnqueueBegin, EnqueuePanic,
                EnqueueReturn
  <2>3. QED BY <2>1, <2>2
<1>3. QED BY <1>1, <1>2 DEF TypeOK

\* What makes events settle, and Stop return however full the channels are when it is
\* called: the goroutines have a bounded number of steps before them, each step they
\* take is one of these, a send adds six of them and nobody any once eventCh is
\* closed, and as long as there is something to do one of them can move.
THEOREM BufferRunsDown ==
    IsFiniteSet(Workers) =>
        (Spec => [](Work \in Nat) /\ [][RunsDown]_vars /\ []NotStuck)
<1> SUFFICES ASSUME IsFiniteSet(Workers)
             PROVE  Spec => [](Work \in Nat) /\ [][RunsDown]_vars /\ []NotStuck
  OBVIOUS
<1>1. TypeOK => Work \in Nat
  BY WorkIsNat
<1>2. TypeOK' => (Work \in Nat)'
  BY WorkIsNat, PTL
<1>3. TypeOK /\ TypeOK' /\ PhaseInv /\ [Next]_vars => [RunsDown]_vars
  <2> SUFFICES ASSUME TypeOK, TypeOK', PhaseInv, Next PROVE RunsDown
    OBVIOUS
  <2>1. Work \in Nat /\ Work' \in Nat
    BY <1>2, WorkIsNat
  <2>2. Collect \/ (\E w \in Workers : Publish(w)) => Work' < Work
    BY CollectLowers, PublishLowers
  <2>3. Work' <= Work + 6 /\ (closed => Work' <= Work)
    <3>1. CASE Collect \/ (\E w \in Workers : Publish(w))
      <4>1. Work' < Work
        BY <2>2, <3>1
      <4>2. QED BY <2>1, <4>1
    <3>2. ASSUME NEW c \in Calls, TryEnqueue(c)
          PROVE  Work' <= Work + 6 /\ (closed => Work' <= Work)
      BY <3>2, CallAdds
    <3>3. CASE StopClose \/ StopReturn
      <4>1. Work' = Work
        BY <3>3 DEF StopClose, StopReturn, collectorVars, workerVars, Work, Stage, Load, Among
      <4>2. QED BY <2>1, <4>1
    <3>4. QED BY <3>1, <3>2, <3>3 DEF Next
  <2>4. QED BY <2>2, <2>3 DEF RunsDown
<1>4. TypeOK /\ PhaseInv => NotStuck
  <2> SUFFICES ASSUME TypeOK, PhaseInv, InBuffer # {} \/ stop = "waiting",
                      ~(collector = "select"
                          /\ (eventCh # <<>> \/ batch # <<>> \/ closed)),
                      collector # "closing",
                      ~ \E w \in Workers : worker[w] \in {"publishing", "storing"}
               PROVE  \/ collector \in {"flushing", "lastFlush"} /\ Len(flushCh) < FlushCap
                      \/ \E w \in Workers : worker[w] = "idle"
                                              /\ (flushCh # <<>> \/ flushClosed)
                      \/ /\ collector = "done" /\ stop = "waiting"
                         /\ \A w \in Workers : worker[w] = "done"
    BY DEF NotStuck
  <2>1. \A w \in Workers : worker[w] \in {"idle", "done"}
    BY DEF TypeOK
  <2>2. PICK w \in Workers : TRUE
    BY BatcherAssumption
  <2>3. CASE flushCh # <<>>
    <3>1. worker[w] # "done"
      BY <2>3 DEF PhaseInv
    <3>2. QED BY <2>1, <2>2, <2>3, <3>1
  <2>4. CASE flushCh = <<>> /\ collector \in {"flushing", "lastFlush"}
    BY <2>4, BatcherAssumption
  <2>5. CASE flushCh = <<>> /\ collector \in {"select", "done"}
    <3>1. eventCh = <<>> /\ batch = <<>> /\ out = <<>>
      BY <2>5 DEF PhaseInv
    <3>2. InHands = {}
      BY DEF InHands, Publishing
    <3>3. InBuffer = {}
      BY <2>5, <3>1, <3>2, RangeEmpty DEF InBuffer, EventsIn
    <3>4. stop = "waiting" /\ closed /\ collector = "done"
      BY <2>5, <3>3 DEF PhaseInv
    <3>5. QED BY <2>1, <3>4 DEF PhaseInv
  <2>6. QED BY <2>3, <2>4, <2>5 DEF TypeOK
<1>5. QED BY <1>1, <1>3, <1>4, TypeCorrect, PhaseInvariant, PTL DEF Spec

==============================================================================
