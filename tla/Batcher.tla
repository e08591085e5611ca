------------------------------- MODULE Batcher -------------------------------
(***************************************************************************)
(* The ingest buffer of ingest-service/internal/buffer/batcher.go.         *)
(*                                                                         *)
(* Callers (HTTP handlers and poll runners) run TryEnqueue, which puts the *)
(* events of one call into the bounded channel eventCh, one by one, under  *)
(* enqueueMu.  One collector goroutine gathers them into batches and hands *)
(* the batches to flushCh, whose publisher goroutines write each batch to  *)
(* Kafka and then to Timescale.  Stop closes eventCh and waits for all of  *)
(* these goroutines.                                                       *)
(*                                                                         *)
(* A goroutine runs alone between two channel or I/O operations, so each   *)
(* action below is one such operation with the local code that follows it. *)
(***************************************************************************)
EXTENDS Naturals, Sequences, Functions

CONSTANTS
    Calls,        \* the TryEnqueue calls made in a run of the service
    Size,         \* Size[c]: the number of events call c offers
    Workers,      \* the publisher goroutines
    MaxCapacity,  \* capacity of eventCh (MAX_BUFFER_CAPACITY)
    BatchSize,    \* events per full batch (BATCH_SIZE)
    FlushCap,     \* capacity of flushCh, 256 in the code
    Persist,      \* TRUE if a Timescale sink is configured
    NoCall        \* enqueueMu when nobody holds it

ASSUME BatcherAssumption ==
    /\ Size \in [Calls -> Nat]
    /\ Workers # {}  \* NewBatcher turns any smaller number into 1
    /\ MaxCapacity \in Nat
    /\ BatchSize \in Nat \ {0}
    /\ FlushCap \in Nat \ {0}
    /\ Persist \in BOOLEAN
    /\ NoCall \notin Calls

Events == UNION {{c} \X (1..Size[c]) : c \in Calls}

VARIABLES
    eventCh,      \* content of the channel of accepted events
    closed,       \* has eventCh been closed
    mutex,        \* the call that holds enqueueMu
    call,         \* call[c]: progress and result of TryEnqueue call c
    sent,         \* sent[c]: how many of its events c has put into eventCh
    collector,    \* where the collector goroutine is
    batch,        \* its batch under construction
    out,          \* the copy it is handing to flushCh
    flushCh,      \* batches waiting for a publisher
    flushClosed,  \* has flushCh been closed
    worker,       \* worker[w]: where publisher w is
    held,         \* held[w]: the batch it works on
    acked,        \* events whose PublishBatch returned nil
    failed,       \* events whose PublishBatch returned an error
    stored,       \* events in api_telemetry
    stop          \* progress of Stop

callVars == <<mutex, call, sent>>
collectorVars == <<collector, batch, out>>
workerVars == <<worker, held, acked, failed, stored>>
vars == <<eventCh, closed, flushCh, flushClosed, stop,
          callVars, collectorVars, workerVars>>

Init ==
    /\ eventCh = <<>>
    /\ closed = FALSE
    /\ mutex = NoCall
    /\ call = [c \in Calls |-> "idle"]
    /\ sent = [c \in Calls |-> 0]
    /\ collector = "select"
    /\ batch = <<>>
    /\ out = <<>>
    /\ flushCh = <<>>
    /\ flushClosed = FALSE
    /\ worker = [w \in Workers |-> "idle"]
    /\ held = [w \in Workers |-> <<>>]
    /\ acked = {}
    /\ failed = {}
    /\ stored = {}
    /\ stop = "running"

------------------------------------------------------------------------------
(* TryEnqueue *)

Fits(c) == Size[c] <= MaxCapacity - Len(eventCh)

\* No events: TRUE without taking the lock.
EnqueueNothing(c) ==
    /\ call[c] = "idle"
    /\ Size[c] = 0
    /\ call' = [call EXCEPT ![c] = "accepted"]
    /\ UNCHANGED <<eventCh, closed, mutex, sent, flushCh, flushClosed, stop,
                   collectorVars, workerVars>>

\* The lock is taken, the free space does not suffice, the lock is released.
EnqueueRefuse(c) ==
    /\ call[c] = "idle"
    /\ Size[c] > 0
    /\ mutex = NoCall
    /\ ~Fits(c)
    /\ call' = [call EXCEPT ![c] = "refused"]
    /\ UNCHANGED <<eventCh, closed, mutex, sent, flushCh, flushClosed, stop,
                   collectorVars, workerVars>>

\* Slip: the capacity is checked without taking the lock.
EnqueueBeginUnlocked(c) ==
    /\ call[c] = "idle"
    /\ Size[c] > 0
    /\ Fits(c)
    /\ mutex' = c
    /\ call' = [call EXCEPT ![c] = "sending"]
    /\ UNCHANGED <<eventCh, closed, sent, flushCh, flushClosed, stop,
                   collectorVars, workerVars>>

\* The lock is taken and the free space suffices: the sends begin.
EnqueueBegin(c) ==
    /\ call[c] = "idle"
    /\ Size[c] > 0
    /\ mutex = NoCall
    /\ Fits(c)
    /\ mutex' = c
    /\ call' = [call EXCEPT ![c] = "sending"]
    /\ UNCHANGED <<eventCh, closed, sent, flushCh, flushClosed, stop,
                   collectorVars, workerVars>>

\* One b.eventCh <- evt.  A full channel would block the caller.
EnqueueSend(c) ==
    /\ call[c] = "sending"
    /\ sent[c] < Size[c]
    /\ ~closed
    /\ Len(eventCh) < MaxCapacity
    /\ eventCh' = Append(eventCh, <<c, sent[c] + 1>>)
    /\ sent' = [sent EXCEPT ![c] = @ + 1]
    /\ UNCHANGED <<closed, mutex, call, flushCh, flushClosed, stop,
                   collectorVars, workerVars>>

\* A send on the closed channel panics; the deferred Unlock still runs.
EnqueuePanic(c) ==
    /\ call[c] = "sending"
    /\ sent[c] < Size[c]
    /\ closed
    /\ call' = [call EXCEPT ![c] = "panicked"]
    /\ mutex' = NoCall
    /\ UNCHANGED <<eventCh, closed, sent, flushCh, flushClosed, stop,
                   collectorVars, workerVars>>

\* Slip: the loop over the events stops one short.
EnqueueReturnEarly(c) ==
    /\ call[c] = "sending"
    /\ sent[c] + 1 >= Size[c]
    /\ call' = [call EXCEPT ![c] = "accepted"]
    /\ mutex' = NoCall
    /\ UNCHANGED <<eventCh, closed, sent, flushCh, flushClosed, stop,
                   collectorVars, workerVars>>

EnqueueReturn(c) ==
    /\ call[c] = "sending"
    /\ sent[c] = Size[c]
    /\ call' = [call EXCEPT ![c] = "accepted"]
    /\ mutex' = NoCall
    /\ UNCHANGED <<eventCh, closed, sent, flushCh, flushClosed, stop,
                   collectorVars, workerVars>>

TryEnqueue(c) ==
    \/ EnqueueNothing(c)
    \/ EnqueueRefuse(c)
    \/ EnqueueBegin(c)
    \/ EnqueueSend(c)
    \/ EnqueuePanic(c)
    \/ EnqueueReturn(c)

------------------------------------------------------------------------------
(* runCollector *)

\* flushNow up to its send: the batch is copied out and emptied.
FlushNow(events, next) ==
    /\ out' = events
    /\ batch' = <<>>
    /\ collector' = next

\* Receive one event; a full batch is flushed at once.
Receive ==
    /\ collector = "select"
    /\ eventCh # <<>>
    /\ eventCh' = Tail(eventCh)
    /\ LET grown == Append(batch, Head(eventCh)) IN
         IF Len(grown) >= BatchSize
         THEN FlushNow(grown, "flushing")
         ELSE batch' = grown /\ UNCHANGED <<collector, out>>
    /\ UNCHANGED <<closed, flushCh, flushClosed, stop, callVars, workerVars>>

\* Slip: the ticker leaves a partial batch alone.
TickFullOnly ==
    /\ collector = "select"
    /\ Len(batch) >= BatchSize
    /\ FlushNow(batch, "flushing")
    /\ UNCHANGED <<eventCh, closed, flushCh, flushClosed, stop, callVars, workerVars>>

\* The ticker fires; flushNow returns at once when there is nothing to flush.
Tick ==
    /\ collector = "select"
    /\ batch # <<>>
    /\ FlushNow(batch, "flushing")
    /\ UNCHANGED <<eventCh, closed, flushCh, flushClosed, stop, callVars, workerVars>>

\* Slip: the collector leaves without the last flush.
SeeClosedNoFlush ==
    /\ collector = "select"
    /\ closed
    /\ eventCh = <<>>
    /\ FlushNow(<<>>, "closing")
    /\ UNCHANGED <<eventCh, closed, flushCh, flushClosed, stop, callVars, workerVars>>

\* The closed channel is drained: flush what is left and leave the loop.
SeeClosed ==
    /\ collector = "select"
    /\ closed
    /\ eventCh = <<>>
    /\ FlushNow(batch, IF batch = <<>> THEN "closing" ELSE "lastFlush")
    /\ UNCHANGED <<eventCh, closed, flushCh, flushClosed, stop, callVars, workerVars>>

\* b.flushCh <- out, which blocks while the publishers are behind.
SendFlush ==
    /\ collector \in {"flushing", "lastFlush"}
    /\ Len(flushCh) < FlushCap
    /\ flushCh' = Append(flushCh, out)
    /\ out' = <<>>
    /\ collector' = IF collector = "flushing" THEN "select" ELSE "closing"
    /\ UNCHANGED <<eventCh, closed, batch, flushClosed, stop, callVars, workerVars>>

\* Slip: the collector ends without closing flushCh.
CloseFlushForgotten ==
    /\ collector = "closing"
    /\ collector' = "done"
    /\ UNCHANGED <<eventCh, closed, batch, out, flushCh, flushClosed, stop, callVars,
                   workerVars>>

\* The deferred close(b.flushCh) and wg.Done.
CloseFlush ==
    /\ collector = "closing"
    /\ flushClosed' = TRUE
    /\ collector' = "done"
    /\ UNCHANGED <<eventCh, closed, batch, out, flushCh, stop, callVars, workerVars>>

Collect == Receive \/ Tick \/ SeeClosed \/ SendFlush \/ CloseFlush

------------------------------------------------------------------------------
(* runPublisher and publish *)

TakeBatch(w) ==
    /\ worker[w] = "idle"
    /\ flushCh # <<>>
    /\ held' = [held EXCEPT ![w] = Head(flushCh)]
    /\ flushCh' = Tail(flushCh)
    /\ worker' = [worker EXCEPT ![w] = "publishing"]
    /\ UNCHANGED <<eventCh, closed, flushClosed, stop, acked, failed, stored,
                   callVars, collectorVars>>

\* Every replica acknowledged the message.
PublishOk(w) ==
    /\ worker[w] = "publishing"
    /\ acked' = acked \union Range(held[w])
    /\ IF Persist
       THEN worker' = [worker EXCEPT ![w] = "storing"] /\ UNCHANGED held
       ELSE /\ worker' = [worker EXCEPT ![w] = "idle"]
            /\ held' = [held EXCEPT ![w] = <<>>]
    /\ UNCHANGED <<eventCh, closed, flushCh, flushClosed, stop, failed, stored,
                   callVars, collectorVars>>

\* Slip: the return after a publish error is missing.
PublishErrorFallsThrough(w) ==
    /\ worker[w] = "publishing"
    /\ failed' = failed \union Range(held[w])
    /\ worker' = [worker EXCEPT ![w] = "storing"]
    /\ UNCHANGED <<eventCh, closed, flushCh, flushClosed, stop, acked, held, stored,
                   callVars, collectorVars>>

\* An error or the deadline: it is logged and the batch is given up, whether
\* or not the message reached the log before its acknowledgement was lost.
PublishError(w) ==
    /\ worker[w] = "publishing"
    /\ failed' = failed \union Range(held[w])
    /\ worker' = [worker EXCEPT ![w] = "idle"]
    /\ held' = [held EXCEPT ![w] = <<>>]
    /\ UNCHANGED <<eventCh, closed, flushCh, flushClosed, stop, acked, stored,
                   callVars, collectorVars>>

\* WriteBatch is one transaction.  Its error is counted and logged, nothing
\* more, so a failed batch is just not stored.
StoreBatch(w) ==
    /\ worker[w] = "storing"
    /\ stored' \in {stored, stored \union Range(held[w])}
    /\ worker' = [worker EXCEPT ![w] = "idle"]
    /\ held' = [held EXCEPT ![w] = <<>>]
    /\ UNCHANGED <<eventCh, closed, flushCh, flushClosed, stop, acked, failed,
                   callVars, collectorVars>>

\* The range over the closed and drained flushCh ends.
WorkerExit(w) ==
    /\ worker[w] = "idle"
    /\ flushClosed
    /\ flushCh = <<>>
    /\ worker' = [worker EXCEPT ![w] = "done"]
    /\ UNCHANGED <<eventCh, closed, flushCh, flushClosed, stop, held, acked, failed,
                   stored, callVars, collectorVars>>

Publish(w) == TakeBatch(w) \/ PublishOk(w) \/ PublishError(w) \/ StoreBatch(w) \/ WorkerExit(w)

------------------------------------------------------------------------------
(* Stop *)

StopClose ==
    /\ stop = "running"
    /\ closed' = TRUE
    /\ stop' = "waiting"
    /\ UNCHANGED <<eventCh, flushCh, flushClosed, callVars, collectorVars, workerVars>>

\* Slip: the publishers are not counted in the wait group.
StopReturnEarly ==
    /\ stop = "waiting"
    /\ collector = "done"
    /\ stop' = "returned"
    /\ UNCHANGED <<eventCh, closed, flushCh, flushClosed, callVars, collectorVars,
                   workerVars>>

\* wg.Wait returns once the collector and every publisher are done.
StopReturn ==
    /\ stop = "waiting"
    /\ collector = "done"
    /\ \A w \in Workers : worker[w] = "done"
    /\ stop' = "returned"
    /\ UNCHANGED <<eventCh, closed, flushCh, flushClosed, callVars, collectorVars,
                   workerVars>>

Next ==
    \/ \E c \in Calls : TryEnqueue(c)
    \/ Collect
    \/ \E w \in Workers : Publish(w)
    \/ StopClose
    \/ StopReturn

Spec == Init /\ [][Next]_vars

\* The goroutines run whenever they can: the collector's select and the
\* publishers' loops wait for no caller, the ticker keeps firing, and
\* PublishBatch and WriteBatch return within the 10 s of pubCtx.  A caller
\* inside TryEnqueue waits for nothing but space in eventCh.
Fairness ==
    /\ WF_vars(Collect)
    /\ \A w \in Workers : WF_vars(Publish(w))
    /\ \A c \in Calls : WF_vars(EnqueueSend(c) \/ EnqueuePanic(c) \/ EnqueueReturn(c))
    /\ WF_vars(StopReturn)

FairSpec == Spec /\ Fairness

------------------------------------------------------------------------------
(* Properties *)

\* The types of the variables.
TypeOK ==
    /\ eventCh \in Seq(Events)
    /\ closed \in BOOLEAN
    /\ mutex \in Calls \union {NoCall}
    /\ call \in [Calls -> {"idle", "sending", "accepted", "refused", "panicked"}]
    /\ sent \in [Calls -> Nat]
    /\ collector \in {"select", "flushing", "lastFlush", "closing", "done"}
    /\ batch \in Seq(Events)
    /\ out \in Seq(Events)
    /\ flushCh \in Seq(Seq(Events))
    /\ flushClosed \in BOOLEAN
    /\ worker \in [Workers -> {"idle", "publishing", "storing", "done"}]
    /\ held \in [Workers -> Seq(Events)]
    /\ acked \in SUBSET Events
    /\ failed \in SUBSET Events
    /\ stored \in SUBSET Events
    /\ stop \in {"running", "waiting", "returned"}

\* The length check and the sends are one critical section: a caller that
\* passed the check never finds the channel full, so TryEnqueue does not block
\* (batcher.go:96 "attempts to enqueue events without blocking").
SendNeverBlocks ==
    \A c \in Calls :
        call[c] = "sending" /\ sent[c] < Size[c] => Len(eventCh) < MaxCapacity

\* Whatever the load, every place that holds events is bounded, so the buffer
\* never holds more than MaxCapacity + BatchSize * (2 + FlushCap + |Workers|)
\* events (ingest-service/README.md:181 "memory-bounded operation").
MemoryBounded ==
    /\ Len(eventCh) <= MaxCapacity
    /\ Len(batch) < BatchSize
    /\ Len(out) <= BatchSize
    /\ Len(flushCh) <= FlushCap
    /\ \A i \in DOMAIN flushCh : Len(flushCh[i]) <= BatchSize
    /\ \A w \in Workers : Len(held[w]) <= BatchSize

\* The events of a sequence of batches, and those being published.
EventsIn(batches) == UNION {Range(b) : b \in Range(batches)}
Publishing == {w \in Workers : worker[w] = "publishing"}
InHands == UNION {Range(held[w]) : w \in Publishing}

\* What the buffer still has to hand to Kafka.
InBuffer ==
    Range(eventCh) \union Range(batch) \union Range(out)
        \union EventsIn(flushCh) \union InHands

\* When Stop has returned, every event that ever entered eventCh has been
\* given to Kafka, successfully or not, and no goroutine holds one
\* (batcher.go:80 "waiting for all pending events to be processed").
StopDrains ==
    stop = "returned" =>
        /\ InBuffer = {}
        /\ \A c \in Calls : \A i \in 1..sent[c] : <<c, i>> \in acked \union failed

\* A call is taken as a whole or not at all: a refused one has left no event
\* behind, an accepted one has every event in the buffer or settled, and only
\* Stop can cut a call in two.
AllOrNothing ==
    \A c \in Calls :
        LET taken == {i \in 1..Size[c] : <<c, i>> \in InBuffer \union acked \union failed} IN
        /\ call[c] \in {"idle", "refused"} => taken = {}
        /\ call[c] = "accepted" => taken = 1..Size[c]
        /\ call[c] = "panicked" => closed

\* Everything on its way to a publisher, the oldest batch first, and the places
\* in it, in the order in which their events leave.
Pipe == flushCh \o <<out, batch, eventCh>>
Places == UNION {{k} \X DOMAIN Pipe[k] : k \in DOMAIN Pipe}
At(p) == Pipe[p[1]][p[2]]
Before(p, q) == p[1] < q[1] \/ (p[1] = q[1] /\ p[2] < q[2])

\* The pipe is first in, first out, and a call goes through it in one piece:
\* behind an event are the later ones of its call, all that have been sent, and
\* neither an earlier one, nor itself again, nor another call's in between
\* (enqueueMu is held over the sends, batcher.go:104).
OrderKept ==
    \A p \in Places : LET c == At(p)[1] IN
        /\ \A i \in (At(p)[2] + 1)..sent[c] : \E q \in Places : Before(p, q) /\ At(q) = <<c, i>>
        /\ \A q \in Places : Before(p, q) /\ At(q)[1] = c =>
             /\ At(p)[2] < At(q)[2]
             /\ \A r \in Places : Before(p, r) /\ Before(r, q) => At(r)[1] = c

\* The two sinks agree: a row in Timescale comes from a batch that Kafka
\* acknowledged, and no batch is both acknowledged and given up.
SinksAgree ==
    /\ stored \subseteq acked
    /\ acked \intersect failed = {}

\* Stop returns, however full the channels are when it is called.
StopCompletes == stop = "waiting" ~> stop = "returned"

\* An event does not stay in the buffer: the ticker flushes a batch that never
\* fills up, and the publishers keep up with the collector.
EventsSettle ==
    \A e \in Events : e \in InBuffer ~> e \in acked \union failed

------------------------------------------------------------------------------
(* The buffer implements EventDelivery *)

Answer(c) ==
    IF call[c] \in {"idle", "sending"} THEN "none"
    ELSE IF call[c] = "panicked" THEN "aborted" ELSE call[c]

Fates ==
    LET queued == InBuffer IN
    [e \in Events |-> IF e \in queued THEN "queued"
                      ELSE IF e \in acked THEN "delivered"
                      ELSE IF e \in failed THEN "dropped" ELSE "outside"]

Phase ==
    IF stop = "running" THEN "open"
    ELSE IF stop = "waiting" THEN "stopping" ELSE "stopped"

Delivery == INSTANCE EventDelivery WITH
    answer <- [c \in Calls |-> Answer(c)],
    fate <- Fates,
    phase <- Phase

\* Every event is queued once and settled once, answers are all-or-nothing,
\* and a stop ends with nothing queued.
ImplementsDelivery == Delivery!Spec

==============================================================================
