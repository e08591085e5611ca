-------------------------------- MODULE Poller --------------------------------
(***************************************************************************)
(* The active poller of ingest-service/internal/poller/poller.go and the   *)
(* target synchronisation of cmd/server/main.go that drives it.            *)
(*                                                                         *)
(* One goroutine per target polls its endpoint in a loop.  A sync reads    *)
(* the wanted targets from the database and reconciles the running ones    *)
(* with them: Reconcile takes p.mu for one target at a time, so polls and  *)
(* their status writes run between its steps.  A target is a key and a     *)
(* configuration; the configuration stands for fingerprintTarget.          *)
(***************************************************************************)
EXTENDS Naturals

CONSTANTS
    Keys,        \* target keys
    Confs,       \* configurations a target can have
    NoConf,      \* the target is not wanted
    Static,      \* Static[k]: the target of ACTIVE_POLL_TARGETS, or NoConf
    MaxStarts,   \* bound: how many runners are started
    NoRunner,    \* p.runners has no entry
    MaxChanges   \* bound: how often a target is added to the database or edited

ASSUME PollerAssumption ==
    /\ NoConf \notin Confs
    /\ MaxStarts \in Nat
    /\ NoRunner \notin 1..MaxStarts
    /\ Static \in [Keys -> Confs \union {NoConf}]
    /\ MaxChanges \in Nat

\* The targetRunner objects, numbered in the order they are started.
Runners == 1..MaxStarts

VARIABLES
    db,         \* db[k]: the target enabled in the control-plane database
    changes,    \* how often a target was added or edited there
    ctx,        \* main's context: "starting" until main waits for a signal
    sync,       \* where syncTargets is
    desired,    \* the targets its Reconcile works towards
    todo,       \* keys its current loop has still to visit
    runners,    \* p.runners: the current runner of a key
    key,        \* key[r], conf[r]: the target runner r was started for
    conf,
    pc,         \* pc[r]: where its goroutine is
    cancelled,  \* runners whose cancel function was called
    reporter    \* reporter[r]: the runner that wrote r's TargetStatus last

dbVars == <<db, changes>>
syncVars == <<sync, desired, todo>>
runnerVars == <<runners, key, conf, pc, cancelled, reporter>>
vars == <<dbVars, ctx, syncVars, runnerVars>>

\* mergeTargets: a static target wins over one from the database.
Wanted == [k \in Keys |-> IF Static[k] # NoConf THEN Static[k] ELSE db[k]]

WantedKeys(targets) == {k \in Keys : targets[k] # NoConf}

\* New and Start: the static targets are added before the first sync.
Init ==
    /\ db = [k \in Keys |-> NoConf]
    /\ changes = 0
    /\ ctx = "starting"
    /\ sync = "adding"
    /\ desired = Static
    /\ todo = WantedKeys(Static)
    /\ runners = [k \in Keys |-> NoRunner]
    /\ key \in [Runners -> Keys]
    /\ conf \in [Runners -> Confs]
    /\ pc = [r \in Runners |-> "unused"]
    /\ cancelled = {}
    /\ reporter = [r \in Runners |-> NoRunner]

\* Slip: a runner's context is not derived from the poller's.
DoneOwnOnly(r) == r \in cancelled

\* Is the context of runner r done?
Done(r) == ctx = "cancelled" \/ r \in cancelled

------------------------------------------------------------------------------
(* The environment and main *)

\* A user adds, edits, pauses or deletes an endpoint, never a static target:
\* the keys of database targets have an endpoint id, those of static ones none.
Change(k, c) ==
    /\ Static[k] = NoConf
    /\ db[k] # c
    /\ c # NoConf => changes < MaxChanges
    /\ db' = [db EXCEPT ![k] = c]
    /\ changes' = IF c = NoConf THEN changes ELSE changes + 1
    /\ UNCHANGED <<ctx, syncVars, runnerVars>>

\* The first syncTargets, called by main itself, has returned.
Serve ==
    /\ ctx = "starting"
    /\ sync = "idle"
    /\ ctx' = "live"
    /\ UNCHANGED <<dbVars, syncVars, runnerVars>>

\* The signal: main cancels the context.
Cancel ==
    /\ ctx = "live"
    /\ ctx' = "cancelled"
    /\ UNCHANGED <<dbVars, syncVars, runnerVars>>

------------------------------------------------------------------------------
(* syncTargets and Reconcile *)

\* The ticker fires; its case may be taken though the context is done as well.
SyncStart ==
    /\ sync = "idle"
    /\ sync' = "listing"
    /\ UNCHANGED <<dbVars, ctx, desired, todo, runnerVars>>

\* ListTargets returns.  A cancelled context makes its query fail.
ListOk ==
    /\ sync = "listing"
    /\ ctx # "cancelled"
    /\ desired' = Wanted
    /\ sync' = "listed"
    /\ UNCHANGED <<dbVars, ctx, todo, runnerVars>>

ListError ==
    /\ sync = "listing"
    /\ sync' = "idle"
    /\ UNCHANGED <<dbVars, ctx, desired, todo, runnerVars>>

\* The keys of p.runners are read under one lock, to be removed under others.
ReadKeys ==
    /\ sync = "listed"
    /\ todo' = {k \in Keys : runners[k] # NoRunner} \ WantedKeys(desired)
    /\ sync' = "removing"
    /\ UNCHANGED <<dbVars, ctx, desired, runnerVars>>

RemoveTarget(k) ==
    /\ sync = "removing"
    /\ k \in todo
    /\ todo' = todo \ {k}
    /\ cancelled' = cancelled \union {runners[k]}
    /\ runners' = [runners EXCEPT ![k] = NoRunner]
    /\ UNCHANGED <<dbVars, ctx, sync, desired, key, conf, pc, reporter>>

RemovalsDone ==
    /\ sync = "removing"
    /\ todo = {}
    /\ todo' = WantedKeys(desired)
    /\ sync' = "adding"
    /\ UNCHANGED <<dbVars, ctx, desired, runnerVars>>

\* Slip: a running key is left alone whatever its configuration.
KeepTargetStale(k) ==
    /\ sync = "adding"
    /\ k \in todo
    /\ runners[k] # NoRunner
    /\ todo' = todo \ {k}
    /\ UNCHANGED <<dbVars, ctx, sync, desired, runnerVars>>

\* AddOrUpdateTarget with the fingerprint of the running target.
KeepTarget(k) ==
    /\ sync = "adding"
    /\ k \in todo
    /\ runners[k] # NoRunner
    /\ conf[runners[k]] = desired[k]
    /\ todo' = todo \ {k}
    /\ UNCHANGED <<dbVars, ctx, sync, desired, runnerVars>>

\* Slip: the replaced runner is dropped from the map but not cancelled.
StartTargetNoCancel(k, r) ==
    /\ sync = "adding"
    /\ k \in todo
    /\ runners[k] # NoRunner => conf[runners[k]] # desired[k]
    /\ pc[r] = "unused"
    /\ todo' = todo \ {k}
    /\ runners' = [runners EXCEPT ![k] = r]
    /\ key' = [key EXCEPT ![r] = k]
    /\ conf' = [conf EXCEPT ![r] = desired[k]]
    /\ pc' = [pc EXCEPT ![r] = "delay"]
    /\ UNCHANGED <<dbVars, ctx, sync, desired, cancelled, reporter>>

\* AddOrUpdateTarget with a new key or another fingerprint: the old runner is
\* cancelled, not awaited, and the new one starts.
StartTarget(k, r) ==
    /\ sync = "adding"
    /\ k \in todo
    /\ runners[k] # NoRunner => conf[runners[k]] # desired[k]
    /\ pc[r] = "unused"
    /\ r > 1 => pc[r - 1] # "unused"
    /\ todo' = todo \ {k}
    /\ cancelled' = cancelled \union ({runners[k]} \ {NoRunner})
    /\ runners' = [runners EXCEPT ![k] = r]
    /\ key' = [key EXCEPT ![r] = k]
    /\ conf' = [conf EXCEPT ![r] = desired[k]]
    /\ pc' = [pc EXCEPT ![r] = "delay"]
    /\ UNCHANGED <<dbVars, ctx, sync, desired, reporter>>

AddOrUpdateTarget(k) == KeepTarget(k) \/ \E r \in Runners : StartTarget(k, r)

SyncEnd ==
    /\ sync = "adding"
    /\ todo = {}
    /\ sync' = "idle"
    /\ UNCHANGED <<dbVars, ctx, desired, todo, runnerVars>>

SyncExit ==
    /\ sync = "idle"
    /\ ctx = "cancelled"
    /\ sync' = "exited"
    /\ UNCHANGED <<dbVars, ctx, desired, todo, runnerVars>>

Reconcile ==
    \/ ReadKeys
    \/ \E k \in Keys : RemoveTarget(k)
    \/ RemovalsDone
    \/ \E k \in Keys : AddOrUpdateTarget(k)
    \/ SyncEnd

SyncTargets == SyncStart \/ ListOk \/ ListError \/ Reconcile \/ SyncExit

------------------------------------------------------------------------------
(* runTarget and pollOnce *)

\* The delay is over, or there was none.  A select with both cases ready may
\* take this one, so a cancelled runner may poll.
Wake(r) ==
    /\ pc[r] = "delay"
    /\ pc' = [pc EXCEPT ![r] = "polling"]
    /\ UNCHANGED <<dbVars, ctx, syncVars, runners, key, conf, cancelled, reporter>>

Quit(r) ==
    /\ pc[r] = "delay"
    /\ Done(r)
    /\ pc' = [pc EXCEPT ![r] = "done"]
    /\ UNCHANGED <<dbVars, ctx, syncVars, runners, key, conf, cancelled, reporter>>

\* pollOnce: the request has its outcome (an answer, an error, the timeout, the
\* cancellation) and its event has been taken or dropped by TryEnqueue.  A bad
\* URL ends without an event.
Poll(r) ==
    /\ pc[r] = "polling"
    /\ pc' = [pc EXCEPT ![r] = "report"]
    /\ UNCHANGED <<dbVars, ctx, syncVars, runners, key, conf, cancelled, reporter>>

\* Slip: the context is not looked at after a report.
ReportGoesOn(r) ==
    /\ pc[r] = "report"
    /\ LET current == runners[key[r]] IN
         reporter' = IF current = NoRunner THEN reporter
                     ELSE [reporter EXCEPT ![current] = r]
    /\ pc' = [pc EXCEPT ![r] = "delay"]
    /\ UNCHANGED <<dbVars, ctx, syncVars, runners, key, conf, cancelled>>

\* The status is written into whatever runner the map holds for the key, the
\* successor if this one was replaced while it polled.
Report(r) ==
    /\ pc[r] = "report"
    /\ LET current == runners[key[r]] IN
         reporter' = IF current = NoRunner THEN reporter
                     ELSE [reporter EXCEPT ![current] = r]
    /\ pc' = [pc EXCEPT ![r] = IF Done(r) THEN "done" ELSE "delay"]
    /\ UNCHANGED <<dbVars, ctx, syncVars, runners, key, conf, cancelled>>

RunTarget(r) ==
    \/ Wake(r)
    \/ Quit(r)
    \/ Poll(r)
    \/ Report(r)

Next ==
    \/ \E k \in Keys, c \in Confs \union {NoConf} : Change(k, c)
    \/ Serve
    \/ Cancel
    \/ SyncTargets
    \/ \E r \in Runners : RunTarget(r)

Spec == Init /\ [][Next]_vars

\* main reaches its signal wait; the sync ticker keeps firing, a query returns
\* and succeeds if it is tried again and again; a timer fires, a request ends
\* at its timeout or when its context is done.
Fairness ==
    /\ WF_vars(Serve)
    /\ WF_vars(SyncTargets)
    /\ SF_vars(ListOk)
    /\ \A r \in Runners : WF_vars(RunTarget(r))

FairSpec == Spec /\ Fairness

------------------------------------------------------------------------------
(* Properties *)

\* The types of the variables.
TypeOK ==
    /\ db \in [Keys -> Confs \union {NoConf}]
    /\ changes \in 0..MaxChanges
    /\ ctx \in {"starting", "live", "cancelled"}
    /\ sync \in {"idle", "listing", "listed", "removing", "adding", "exited"}
    /\ desired \in [Keys -> Confs \union {NoConf}]
    /\ todo \in SUBSET Keys
    /\ runners \in [Keys -> Runners \union {NoRunner}]
    /\ key \in [Runners -> Keys]
    /\ conf \in [Runners -> Confs]
    /\ pc \in [Runners -> {"unused", "delay", "polling", "report", "done"}]
    /\ cancelled \in SUBSET Runners
    /\ reporter \in [Runners -> Runners \union {NoRunner}]

\* A target has one runner that is not cancelled, the one in p.runners: no
\* replaced or removed runner escapes its cancellation and polls on, and while
\* the service runs the one in p.runners has not ended.
OneRunnerPerTarget ==
    /\ \A r \in Runners :
         pc[r] # "unused" /\ r \notin cancelled <=> runners[key[r]] = r /\ pc[r] # "unused"
    /\ \A k \in Keys : runners[k] # NoRunner =>
         /\ key[runners[k]] = k
         /\ pc[runners[k]] = "done" => ctx = "cancelled"

\* A TargetStatus is written by its own runner, or, once, by the last report
\* of a cancelled predecessor of the same key, which ends with it.
StaleReportIsLast ==
    [][\A r \in Runners :
         reporter'[r] # reporter[r] =>
             LET w == reporter'[r] IN
             /\ key[w] = key[r]
             /\ w # r => w \in cancelled /\ pc'[w] = "done"]_vars

\* A runner ends when it is replaced or removed, and every runner ends after
\* the signal, one started by a late sync included, so main's Wait returns.
RunnersEnd ==
    \A r \in Runners :
        pc[r] # "unused" /\ (r \in cancelled \/ ctx = "cancelled") ~> pc[r] = "done"

\* Do the running targets match the wanted ones, configuration included?
InSync ==
    \A k \in Keys :
        IF Wanted[k] = NoConf THEN runners[k] = NoRunner
        ELSE runners[k] # NoRunner /\ conf[runners[k]] = Wanted[k]

\* Once the database stops changing, the running targets come to match it and
\* stay so, whatever a sync saw half-way through earlier.
Converges == <>[](ctx = "cancelled" \/ InSync)

==============================================================================
