----------------------------- MODULE IngestService -----------------------------
(***************************************************************************)
(* The ingest service as cmd/server/main.go puts it together: HTTP         *)
(* handlers and poll runners hand their events to one Batcher, and after   *)
(* the signal main shuts the three down one after the other.               *)
(*                                                                         *)
(* The Batcher and the Poller are instances of their modules; here is what *)
(* ties them: which goroutine makes which TryEnqueue call, in which order  *)
(* main stops them, and what a panic does.  net/http recovers a handler's  *)
(* panic (RecoverMiddleware does so before it); a panic in a runner's      *)
(* goroutine ends the process.                                             *)
(***************************************************************************)
EXTENDS Naturals

CONSTANTS
    Requests,     \* the HTTP requests that get as far as TryEnqueue
    RequestSize,  \* RequestSize[q]: the number of events request q carries
    MaxPolls,     \* bound: how often one runner polls
    Workers, MaxCapacity, BatchSize, FlushCap, Persist, NoCall,
    Keys, Confs, NoConf, Static, MaxStarts, NoRunner, MaxChanges

Runners == 1..MaxStarts

\* The TryEnqueue calls: one per request and one per poll of a runner.
PollCalls == Runners \X (1..MaxPolls)
AllCalls == Requests \union PollCalls
CallSize == [c \in AllCalls |-> IF c \in Requests THEN RequestSize[c] ELSE 1]

\* What Batcher and Poller assume, of these calls.
ASSUME ServiceAssumption ==
    /\ \A q \in Requests : RequestSize[q] \in Nat
    /\ MaxPolls \in Nat
    /\ Workers # {}
    /\ MaxCapacity \in Nat
    /\ BatchSize \in Nat \ {0}
    /\ FlushCap \in Nat \ {0}
    /\ Persist \in BOOLEAN
    /\ NoCall \notin AllCalls
    /\ NoConf \notin Confs
    /\ MaxStarts \in Nat
    /\ NoRunner \notin Runners
    /\ Static \in [Keys -> Confs \union {NoConf}]
    /\ MaxChanges \in Nat

VARIABLES
    eventCh, closed, mutex, call, sent, collector, batch, out, flushCh,
    flushClosed, worker, held, acked, failed, stored, stop,
    db, changes, ctx, sync, desired, todo, runners, key, conf, pc, cancelled,
    reporter,
    arrived,  \* requests whose handler was started
    polls,    \* polls[r]: how often runner r has polled, this poll included
    main      \* how far main has come

Buffer == INSTANCE Batcher WITH Calls <- AllCalls, Size <- CallSize
Polls == INSTANCE Poller

bufferVars == <<eventCh, closed, mutex, call, sent, collector, batch, out, flushCh,
                flushClosed, worker, held, acked, failed, stored, stop>>
pollerVars == <<db, changes, ctx, sync, desired, todo, runners, key, conf, pc,
                cancelled, reporter>>
callerVars == <<arrived, polls>>
vars == <<bufferVars, pollerVars, callerVars, main>>

Init ==
    /\ Buffer!Init
    /\ Polls!Init
    /\ arrived = {}
    /\ polls = [r \in Runners |-> 0]
    /\ main = "serving"

Alive == main \notin {"exited", "crashed"}

Started == {r \in Runners : pc[r] # "unused"}

\* Handlers that have not come back from TryEnqueue.
InFlight == {q \in arrived : call[q] \in {"idle", "sending"}}

------------------------------------------------------------------------------
(* The callers of TryEnqueue *)

\* The listener is open until Shutdown.
Arrive(q) ==
    /\ main = "serving"
    /\ ctx = "live"
    /\ q \notin arrived
    /\ arrived' = arrived \union {q}
    /\ UNCHANGED <<bufferVars, pollerVars, polls, main>>

\* IngestTelemetry in TryEnqueue; a panic there fails this one request.
Handle(q) ==
    /\ Alive
    /\ q \in arrived
    /\ Buffer!TryEnqueue(q)
    /\ UNCHANGED <<pollerVars, callerVars, main>>

PollCall(r) == <<r, polls[r]>>

RunnerWakes(r) ==
    /\ Alive
    /\ polls[r] < MaxPolls
    /\ Polls!Wake(r)
    /\ polls' = [polls EXCEPT ![r] = @ + 1]
    /\ UNCHANGED <<bufferVars, arrived, main>>

\* enqueueEvent, when the request of this poll is over.
RunnerEnqueues(r) ==
    /\ Alive
    /\ pc[r] = "polling"
    /\ Buffer!TryEnqueue(PollCall(r))
    /\ main' = IF call'[PollCall(r)] = "panicked" THEN "crashed" ELSE main
    /\ UNCHANGED <<pollerVars, callerVars>>

\* The poll is over, with or without (bad URL) an event.
RunnerPolled(r) ==
    /\ Alive
    /\ Polls!Poll(r)
    /\ call[PollCall(r)] \in {"idle", "accepted", "refused"}
    /\ UNCHANGED <<bufferVars, callerVars, main>>

RunnerGoesOn(r) ==
    /\ Alive
    /\ Polls!Quit(r) \/ Polls!Report(r)
    /\ UNCHANGED <<bufferVars, callerVars, main>>

Run(r) == RunnerWakes(r) \/ RunnerEnqueues(r) \/ RunnerPolled(r) \/ RunnerGoesOn(r)

\* The sync goroutine, and main's own first sync.  Nobody waits for it.
Sync ==
    /\ Alive
    /\ Polls!SyncTargets \/ Polls!Serve
    /\ UNCHANGED <<bufferVars, callerVars, main>>

Edit ==
    /\ Alive
    /\ \E k \in Keys, c \in Confs \union {NoConf} : Polls!Change(k, c)
    /\ UNCHANGED <<bufferVars, callerVars, main>>

------------------------------------------------------------------------------
(* The collector and the publishers *)

Collect ==
    /\ Alive
    /\ Buffer!Collect
    /\ UNCHANGED <<pollerVars, callerVars, main>>

Publish(w) ==
    /\ Alive
    /\ Buffer!Publish(w)
    /\ UNCHANGED <<pollerVars, callerVars, main>>

------------------------------------------------------------------------------
(* main after the signal *)

\* Slip: main goes on without cancelling the context.
SignalNoCancel ==
    /\ main = "serving"
    /\ ctx = "live"
    /\ main' = "shutdown"
    /\ UNCHANGED <<bufferVars, pollerVars, callerVars>>

Signal ==
    /\ main = "serving"
    /\ Polls!Cancel
    /\ main' = "shutdown"
    /\ UNCHANGED <<bufferVars, callerVars>>

\* srv.Shutdown has seen every handler return.
ShutdownDrained ==
    /\ main = "shutdown"
    /\ InFlight = {}
    /\ main' = "waiting"
    /\ UNCHANGED <<bufferVars, pollerVars, callerVars>>

\* It gave up after 15 s; the handlers run on.
ShutdownTimeout ==
    /\ main = "shutdown"
    /\ InFlight # {}
    /\ main' = "waiting"
    /\ UNCHANGED <<bufferVars, pollerVars, callerVars>>

\* Slip: main does not wait for the poller.
WaitSkipped ==
    /\ main = "waiting"
    /\ main' = "stopping"
    /\ UNCHANGED <<bufferVars, pollerVars, callerVars>>

\* activePoller.Wait: the runners started so far are done.
WaitReturn ==
    /\ main = "waiting"
    /\ \A r \in Started : pc[r] = "done"
    /\ main' = "stopping"
    /\ UNCHANGED <<bufferVars, pollerVars, callerVars>>

\* The deferred batcher.Stop.
StopBatcher ==
    /\ main = "stopping"
    /\ Buffer!StopClose
    /\ UNCHANGED <<pollerVars, callerVars, main>>

\* Slip: Stop closes the channel and waits for nobody.
ExitAtOnce ==
    /\ main = "stopping"
    /\ stop = "waiting"
    /\ main' = "exited"
    /\ UNCHANGED <<bufferVars, pollerVars, callerVars>>

\* main returns, which ends whatever goroutines are left.
Exit ==
    /\ main = "stopping"
    /\ Buffer!StopReturn
    /\ main' = "exited"
    /\ UNCHANGED <<pollerVars, callerVars>>

Shutdown == ShutdownDrained \/ ShutdownTimeout \/ WaitReturn \/ StopBatcher \/ Exit

Next ==
    \/ \E q \in Requests : Arrive(q) \/ Handle(q)
    \/ \E r \in Runners : Run(r)
    \/ Sync
    \/ Edit
    \/ Collect
    \/ \E w \in Workers : Publish(w)
    \/ Signal
    \/ Shutdown

Spec == Init /\ [][Next]_vars

\* Every goroutine runs while the process lives; main's calls return.
Fairness ==
    /\ \A q \in Requests : WF_vars(Handle(q))
    /\ \A r \in Runners : WF_vars(Run(r))
    /\ WF_vars(Sync)
    /\ WF_vars(Collect)
    /\ \A w \in Workers : WF_vars(Publish(w))
    /\ WF_vars(Shutdown)

FairSpec == Spec /\ Fairness

------------------------------------------------------------------------------
(* Properties *)

\* Whoever was told "accepted", by a 202 or by TryEnqueue in a runner, has had
\* every event published or given up when the process exits, though handlers
\* may outlive Shutdown and runners start after the signal.
ExitSettles ==
    main = "exited" =>
        \A c \in AllCalls : call[c] = "accepted" =>
            \A i \in 1..CallSize[c] : <<c, i>> \in acked \union failed

\* main closes the buffer only behind the runners.  A panic that ends the
\* process needs a sync that had read its targets before the signal and starts
\* a runner that Wait does not see: with no such sync under way when main comes
\* to Wait, the process lives until it exits.
QuietStopIsSafe ==
    [](main = "waiting" /\ sync \in {"idle", "listing", "exited"}
       => [](main # "crashed"))

\* After the signal the process ends, whatever the handlers do.
ShutdownEnds == main = "shutdown" ~> main \in {"exited", "crashed"}

\* What the README says of a shutdown (ingest-service/README.md:173 "Graceful
\* shutdown (flush pending, wait for workers)"): main comes to its end, it is
\* not cut off by a panic with events pending.
GracefulShutdown == main # "crashed"

==============================================================================
