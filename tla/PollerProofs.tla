------------------------------ MODULE PollerProofs ------------------------------
(***************************************************************************)
(* Proofs about Poller, for any targets, configurations, edits and starts: *)
(* its invariants, what a sync brings about, and why runners end.          *)
(***************************************************************************)
EXTENDS Poller, TLAPS

\* What a sync still has to remove is running; what it has to add is wanted.
TodoInv ==
    /\ sync = "removing" => \A k \in todo : runners[k] # NoRunner
    /\ sync = "adding" => \A k \in todo : desired[k] # NoConf

\* The map holds started runners of its keys that are not cancelled ...
MapInv ==
    \A k \in Keys : runners[k] # NoRunner =>
        /\ key[runners[k]] = k
        /\ pc[runners[k]] # "unused"
        /\ runners[k] \notin cancelled

\* ... and all of them.
OwnInv ==
    \A r \in Runners :
        /\ pc[r] # "unused" /\ r \notin cancelled => runners[key[r]] = r
        /\ r \in cancelled => pc[r] # "unused"

\* A runner ends for a reason.
EndInv == \A r \in Runners : pc[r] = "done" => Done(r)

IInv == TypeOK /\ TodoInv /\ MapInv /\ OwnInv /\ EndInv

------------------------------------------------------------------------------
(* What changes neither the map nor a runner *)

\* A step of main or of a user, or one of a sync between two targets.
Outside == UNCHANGED <<runners, key, conf, pc, cancelled, reporter>>

\* Such a step leaves the map and the runners as they are; the context only ends.
LEMMA OutsideKeeps ==
    ASSUME IInv, Outside, ctx = "cancelled" => ctx' = "cancelled"
    PROVE  MapInv' /\ OwnInv' /\ EndInv'
BY DEF IInv, Outside, MapInv, OwnInv, EndInv, Done

\* Each step of the environment, of main and of a sync that is outside.
LEMMA OutsideStep ==
    ASSUME IInv,
           \/ \E k \in Keys, c \in Confs \union {NoConf} : Change(k, c)
           \/ Serve \/ Cancel \/ SyncStart \/ ListOk \/ ListError
           \/ ReadKeys \/ RemovalsDone \/ SyncEnd \/ SyncExit
           \/ \E k \in Keys : KeepTarget(k)
    PROVE  IInv'
<1> USE PollerAssumption DEF IInv, TypeOK, TodoInv, runnerVars, syncVars, dbVars
<1>1. ASSUME NEW k \in Keys, NEW c \in Confs \union {NoConf}, Change(k, c)
      PROVE  IInv'
  <2>1. Outside /\ UNCHANGED ctx BY <1>1 DEF Change, Outside
  <2>2. MapInv' /\ OwnInv' /\ EndInv' BY <2>1, OutsideKeeps
  <2>3. changes' \in 0..MaxChanges BY <1>1 DEF Change
  <2>4. db' \in [Keys -> Confs \union {NoConf}] BY <1>1 DEF Change
  <2>5. QED BY <1>1, <2>2, <2>3, <2>4 DEF Change
<1>2. CASE Serve \/ Cancel
  <2>1. Outside /\ (ctx = "cancelled" => ctx' = "cancelled")
    BY <1>2 DEF Serve, Cancel, Outside
  <2>2. MapInv' /\ OwnInv' /\ EndInv' BY <2>1, OutsideKeeps
  <2>3. QED BY <1>2, <2>2 DEF Serve, Cancel
<1>3. CASE ListOk
  <2>1. Outside /\ UNCHANGED ctx BY <1>3 DEF ListOk, Outside
  <2>2. MapInv' /\ OwnInv' /\ EndInv' BY <2>1, OutsideKeeps
  <2>3. Wanted \in [Keys -> Confs \union {NoConf}] BY DEF Wanted
  <2>4. QED BY <1>3, <2>2, <2>3 DEF ListOk
<1>4. CASE SyncStart \/ ListError \/ SyncEnd \/ SyncExit
  <2>1. Outside /\ UNCHANGED ctx
    BY <1>4 DEF SyncStart, ListError, SyncEnd, SyncExit, Outside
  <2>2. MapInv' /\ OwnInv' /\ EndInv' BY <2>1, OutsideKeeps
  <2>3. QED BY <1>4, <2>2 DEF SyncStart, ListError, SyncEnd, SyncExit
<1>5. CASE ReadKeys
  <2>1. Outside /\ UNCHANGED ctx BY <1>5 DEF ReadKeys, Outside
  <2>2. MapInv' /\ OwnInv' /\ EndInv' BY <2>1, OutsideKeeps
  <2>3. QED BY <1>5, <2>2 DEF ReadKeys
<1>6. CASE RemovalsDone
  <2>1. Outside /\ UNCHANGED ctx BY <1>6 DEF RemovalsDone, Outside
  <2>2. MapInv' /\ OwnInv' /\ EndInv' BY <2>1, OutsideKeeps
  <2>3. QED BY <1>6, <2>2 DEF RemovalsDone, WantedKeys
<1>7. ASSUME NEW k \in Keys, KeepTarget(k) PROVE IInv'
  <2>1. Outside /\ UNCHANGED ctx BY <1>7 DEF KeepTarget, Outside
  <2>2. MapInv' /\ OwnInv' /\ EndInv' BY <2>1, OutsideKeeps
  <2>3. QED BY <1>7, <2>2 DEF KeepTarget
<1>8. QED BY <1>1, <1>2, <1>3, <1>4, <1>5, <1>6, <1>7

------------------------------------------------------------------------------
(* What changes the map or a runner *)

\* Removing a target cancels its runner and takes it out of the map.
LEMMA RemoveStep ==
    ASSUME IInv, NEW k \in Keys, RemoveTarget(k)
    PROVE  IInv'
<1> USE PollerAssumption DEF IInv, TypeOK
<1>1. /\ runners[k] \in Runners /\ key[runners[k]] = k
      /\ runners' = [runners EXCEPT ![k] = NoRunner]
      /\ cancelled' = cancelled \union {runners[k]}
      /\ todo' = todo \ {k}
      /\ UNCHANGED <<dbVars, ctx, sync, desired, key, conf, pc, reporter>>
  BY DEF RemoveTarget, TodoInv, MapInv
<1>2. TypeOK' /\ TodoInv'
  BY <1>1 DEF TodoInv, dbVars
<1>3. MapInv'
  BY <1>1 DEF MapInv
<1>4. ASSUME NEW r \in Runners
      PROVE  /\ pc'[r] # "unused" /\ r \notin cancelled' => runners'[key'[r]] = r
             /\ r \in cancelled' => pc'[r] # "unused"
  <2>1. pc[r] # "unused" /\ r \notin cancelled' => runners[key[r]] = r /\ key[r] # k
    BY <1>1 DEF OwnInv
  <2>2. pc[runners[k]] # "unused"
    BY <1>1 DEF MapInv, RemoveTarget, TodoInv
  <2>3. r \in cancelled' => pc[r] # "unused"
    BY <1>1, <2>2 DEF OwnInv
  <2>4. QED BY <1>1, <2>1, <2>3
<1>5. EndInv'
  BY <1>1 DEF EndInv, Done
<1>6. QED BY <1>2, <1>3, <1>4, <1>5 DEF OwnInv

\* A started runner takes the place of the one that is cancelled with it.
LEMMA StartStep ==
    ASSUME IInv, NEW k \in Keys, NEW r \in Runners, StartTarget(k, r)
    PROVE  IInv'
<1> USE PollerAssumption DEF IInv, TypeOK
<1>1. /\ pc[r] = "unused" /\ r \notin cancelled
      /\ desired[k] \in Confs
      /\ sync = "adding" /\ todo' = todo \ {k}
      /\ cancelled' = cancelled \union ({runners[k]} \ {NoRunner})
      /\ runners' = [runners EXCEPT ![k] = r]
      /\ key' = [key EXCEPT ![r] = k]
      /\ conf' = [conf EXCEPT ![r] = desired[k]]
      /\ pc' = [pc EXCEPT ![r] = "delay"]
      /\ UNCHANGED <<dbVars, ctx, sync, desired, reporter>>
  BY DEF StartTarget, TodoInv, OwnInv
<1>2. \A l \in Keys : runners[l] # r
  BY <1>1 DEF MapInv, Runners
<1>3. TypeOK' /\ TodoInv'
  BY <1>1 DEF TodoInv, dbVars
<1>4. MapInv'
  BY <1>1, <1>2 DEF MapInv
<1>5. ASSUME NEW q \in Runners
      PROVE  /\ pc'[q] # "unused" /\ q \notin cancelled' => runners'[key'[q]] = q
             /\ q \in cancelled' => pc'[q] # "unused"
  <2>1. CASE q = r
    <3>1. r \notin cancelled'
      BY <1>1, <1>2
    <3>2. QED BY <1>1, <2>1, <3>1
  <2>2. CASE q # r
    <3>1. UNCHANGED <<pc[q], key[q]>>
      BY <1>1, <2>2
    <3>2. pc[q] # "unused" /\ q \notin cancelled' => runners[key[q]] = q /\ key[q] # k
      BY <1>1, <2>2 DEF OwnInv, Runners
    <3>3. q \in cancelled' => pc[q] # "unused"
      BY <1>1 DEF OwnInv, MapInv
    <3>4. QED BY <1>1, <3>1, <3>2, <3>3
  <2>3. QED BY <2>1, <2>2
<1>6. EndInv'
  BY <1>1 DEF EndInv, Done
<1>7. QED BY <1>3, <1>4, <1>5, <1>6 DEF OwnInv

\* A runner's own steps: it is started before and after them, and ends if its
\* context is done.
LEMMA RunStep ==
    ASSUME IInv, NEW r \in Runners, RunTarget(r)
    PROVE  IInv'
<1> USE PollerAssumption DEF IInv, TypeOK
<1>1. /\ pc[r] \notin {"unused", "done"}
      /\ UNCHANGED <<dbVars, ctx, syncVars, runners, key, conf, cancelled>>
  BY DEF RunTarget, Wake, Quit, Poll, Report
<1>2. PICK next \in {"delay", "polling", "report", "done"} :
        /\ pc' = [pc EXCEPT ![r] = next]
        /\ next = "done" => Done(r)
  BY DEF RunTarget, Wake, Quit, Poll, Report
<1>3. reporter' \in [Runners -> Runners \union {NoRunner}]
  BY DEF RunTarget, Wake, Quit, Poll, Report
<1>4. TypeOK' /\ TodoInv'
  BY <1>1, <1>2, <1>3 DEF TodoInv, dbVars, syncVars
<1>5. MapInv' /\ OwnInv'
  BY <1>1, <1>2 DEF MapInv, OwnInv
<1>6. EndInv'
  BY <1>1, <1>2 DEF EndInv, Done
<1>7. QED BY <1>4, <1>5, <1>6

------------------------------------------------------------------------------

\* The inductive invariant.
THEOREM PollerInvariant == Spec => []IInv
<1>1. Init => IInv
  BY PollerAssumption
     DEF Init, IInv, TypeOK, TodoInv, MapInv, OwnInv, EndInv, Runners, WantedKeys
<1>2. IInv /\ [Next]_vars => IInv'
  <2> SUFFICES ASSUME IInv, [Next]_vars PROVE IInv'
    OBVIOUS
  <2>1. CASE UNCHANGED vars
    BY <2>1 DEF vars, dbVars, syncVars, runnerVars, IInv, TypeOK, TodoInv, MapInv,
                OwnInv, EndInv, Done
  <2>2. QED BY <2>1, OutsideStep, RemoveStep, StartStep, RunStep
            DEF Next, SyncTargets, Reconcile, AddOrUpdateTarget
<1>3. QED BY <1>1, <1>2, PTL DEF Spec

\* The variables keep their types.
THEOREM PollerTypes == Spec => []TypeOK
<1>1. IInv => TypeOK
  BY DEF IInv
<1>2. QED BY <1>1, PollerInvariant, PTL

\* No replaced or removed runner escapes its cancellation (AddOrUpdateTarget,
\* RemoveTarget and Reconcile, with p.mu released between their steps).
THEOREM TargetHasOneRunner == Spec => []OneRunnerPerTarget
<1>1. IInv => OneRunnerPerTarget
  <2> SUFFICES ASSUME IInv PROVE OneRunnerPerTarget
    OBVIOUS
  <2>1. ASSUME NEW r \in Runners
        PROVE  pc[r] # "unused" /\ r \notin cancelled
               <=> runners[key[r]] = r /\ pc[r] # "unused"
    BY PollerAssumption DEF IInv, TypeOK, OwnInv, MapInv, Runners
  <2>2. ASSUME NEW k \in Keys, runners[k] # NoRunner
        PROVE  /\ key[runners[k]] = k
               /\ pc[runners[k]] = "done" => ctx = "cancelled"
    BY <2>2 DEF IInv, TypeOK, MapInv, EndInv, Done
  <2>3. QED BY <2>1, <2>2 DEF OneRunnerPerTarget
<1>2. QED BY <1>1, PollerInvariant, PTL

\* A status that a replaced runner writes is that of a runner of the same target
\* which ends with it (reportStatus under the key, not the runner).
THEOREM StaleReportsEnd == Spec => StaleReportIsLast
<1> DEFINE Written ==
      \A r \in Runners :
         reporter'[r] # reporter[r] =>
             LET w == reporter'[r] IN
             /\ key[w] = key[r]
             /\ w # r => w \in cancelled /\ pc'[w] = "done"
<1>1. IInv /\ [Next]_vars => [Written]_vars
  <2> SUFFICES ASSUME IInv, [Next]_vars PROVE Written
    OBVIOUS
  <2>1. CASE UNCHANGED reporter
    BY <2>1
  <2>2. ASSUME NEW w \in Runners, Report(w) PROVE Written
    <3> SUFFICES ASSUME NEW r \in Runners, reporter'[r] # reporter[r]
                 PROVE  /\ reporter'[r] = w /\ key[w] = key[r]
                        /\ w # r => w \in cancelled /\ pc'[w] = "done"
      OBVIOUS
    <3>1. runners[key[w]] = r /\ reporter'[r] = w
      BY <2>2, PollerAssumption DEF Report, IInv, TypeOK
    <3>2. key[w] = key[r]
      BY <3>1, PollerAssumption DEF IInv, TypeOK, MapInv, Runners
    <3>3. w # r => w \in cancelled
      BY <2>2, <3>1 DEF IInv, OwnInv, Report
    <3>4. w \in cancelled => pc'[w] = "done"
      BY <2>2 DEF Report, Done, IInv, TypeOK
    <3>5. QED BY <3>1, <3>2, <3>3, <3>4
  <2>3. QED BY <2>1, <2>2
            DEF Next, Change, Serve, Cancel, SyncTargets, SyncStart, ListOk, ListError,
                SyncExit, Reconcile, ReadKeys, RemoveTarget, RemovalsDone, SyncEnd,
                AddOrUpdateTarget, KeepTarget, StartTarget, RunTarget, Wake, Quit, Poll,
                runnerVars, vars
<1>2. QED BY <1>1, PollerInvariant, PTL DEF Spec, StaleReportIsLast

------------------------------------------------------------------------------
(* What a sync brings about *)

\* Does the running target of a key match the one the last sync has read?
Matches(k) ==
    IF desired[k] = NoConf THEN runners[k] = NoRunner
    ELSE runners[k] # NoRunner /\ conf[runners[k]] = desired[k]

\* How far Reconcile has come: it removes what is not wanted and nothing else, and
\* of the keys it has visited the targets match.
SyncInv ==
    /\ sync \in {"idle", "listing", "exited"} => \A k \in Keys : Matches(k)
    /\ sync = "removing" =>
         /\ \A k \in todo : desired[k] = NoConf
         /\ \A k \in Keys \ todo : desired[k] = NoConf => runners[k] = NoRunner
    /\ sync = "adding" => \A k \in Keys \ todo : Matches(k)

\* Between two syncs, and while one waits for the database, the running targets are
\* those that the last list had, with its configurations.
ReconcileDone ==
    sync \in {"idle", "listing", "exited"} => \A k \in Keys : Matches(k)

\* A running target that is still wanted as it is runs on.
UnchangedIsKept ==
    \A k \in Keys :
        runners[k] # NoRunner /\ runners'[k] # runners[k] =>
            desired[k] = NoConf \/ conf[runners[k]] # desired[k]

\* How many steps a runner is away from its end once its context is done.
StepsLeft(r) ==
    CASE pc[r] = "delay" -> 3
      [] pc[r] = "polling" -> 2
      [] pc[r] = "report" -> 1
      [] OTHER -> 0

\* Cancelled, a runner is so for good, and each of its steps is one towards its end.
CancelledRunsDown ==
    \A r \in Runners : pc[r] # "unused" /\ Done(r) =>
        /\ Done(r)' /\ pc'[r] # "unused"
        /\ pc'[r] # pc[r] => StepsLeft(r)' < StepsLeft(r)

\* A sync reaches what it set out for, key by key, while the runners go on.
LEMMA SyncStep ==
    ASSUME IInv, SyncInv, [Next]_vars
    PROVE  SyncInv'
<1> USE PollerAssumption DEF IInv, TypeOK, SyncInv, Matches, runnerVars, syncVars
<1>1. CASE UNCHANGED <<sync, todo, desired, runners, conf>>
  BY <1>1
<1>2. CASE SyncStart \/ ListError \/ SyncExit
  BY <1>2 DEF SyncStart, ListError, SyncExit
<1>3. CASE ListOk BY <1>3 DEF ListOk
<1>4. CASE ReadKeys BY <1>4 DEF ReadKeys, WantedKeys
<1>5. ASSUME NEW k \in Keys, RemoveTarget(k) PROVE SyncInv'
  <2>1. /\ runners' = [runners EXCEPT ![k] = NoRunner]
        /\ todo' = todo \ {k} /\ sync = "removing"
        /\ UNCHANGED <<sync, desired>>
    BY <1>5 DEF RemoveTarget
  <2>2. \A l \in Keys \ todo' : desired'[l] = NoConf => runners'[l] = NoRunner
    BY <2>1
  <2>3. QED BY <2>1, <2>2
<1>6. CASE RemovalsDone BY <1>6 DEF RemovalsDone, WantedKeys
<1>7. ASSUME NEW k \in Keys, KeepTarget(k) PROVE SyncInv'
  <2>1. /\ sync = "adding" /\ todo' = todo \ {k}
        /\ runners[k] # NoRunner /\ conf[runners[k]] = desired[k]
        /\ UNCHANGED <<sync, desired, runners, conf>>
    BY <1>7 DEF KeepTarget
  <2>2. desired[k] # NoConf
    BY <1>7 DEF KeepTarget, TodoInv
  <2>3. QED BY <2>1, <2>2
<1>8. ASSUME NEW k \in Keys, NEW r \in Runners, StartTarget(k, r) PROVE SyncInv'
  <2>1. /\ sync = "adding" /\ todo' = todo \ {k}
        /\ runners' = [runners EXCEPT ![k] = r]
        /\ conf' = [conf EXCEPT ![r] = desired[k]]
        /\ UNCHANGED <<sync, desired>>
    BY <1>8 DEF StartTarget
  <2>2. desired[k] # NoConf
    BY <1>8 DEF StartTarget, TodoInv
  <2>3. \A l \in Keys : runners[l] # r
    BY <1>8 DEF StartTarget, MapInv, Runners
  <2>4. runners'[k] = r /\ r # NoRunner
    BY <2>1 DEF Runners
  <2>5. conf'[r] = desired[k]
    BY <1>8, <2>1 DEF StartTarget, TodoInv
  <2>6. \A l \in Keys \ {k} : runners'[l] = runners[l]
    BY <2>1
  <2>7. \A q \in Runners \ {r} : conf'[q] = conf[q]
    BY <2>1
  <2>8. ASSUME NEW l \in Keys \ todo' PROVE Matches(l)'
    <3>1. CASE l = k BY <2>1, <2>2, <2>4, <2>5, <3>1
    <3>2. CASE l # k BY <2>1, <2>3, <2>6, <2>7, <3>2
    <3>3. QED BY <3>1, <3>2
  <2>9. QED BY <2>1, <2>8
<1>9. CASE SyncEnd BY <1>9 DEF SyncEnd
<1>10. QED
  BY <1>1, <1>2, <1>3, <1>4, <1>5, <1>6, <1>7, <1>8, <1>9
     DEF Next, Change, Serve, Cancel, SyncTargets, Reconcile, AddOrUpdateTarget,
         RunTarget, Wake, Quit, Poll, Report, vars

\* How far a sync has come, at any time.
LEMMA SyncInvariant == Spec => []SyncInv
<1>1. Init => SyncInv
  BY PollerAssumption DEF Init, SyncInv, Matches, WantedKeys
<1>2. QED BY <1>1, SyncStep, PollerInvariant, PTL DEF Spec

\* Between two syncs the running targets are those of the last list, with its
\* configurations (Reconcile), whatever edits and runners came between its steps.
THEOREM SyncsReconcile == Spec => []ReconcileDone
<1>1. SyncInv => ReconcileDone
  BY DEF SyncInv, ReconcileDone
<1>2. QED BY <1>1, SyncInvariant, PTL

\* A sync takes no running target away that is still wanted as it is: the poll loop
\* of an unchanged target is not restarted (the fingerprint in AddOrUpdateTarget).
THEOREM UnchangedRunsOn == Spec => [][UnchangedIsKept]_vars
<1>1. IInv /\ SyncInv /\ [Next]_vars => [UnchangedIsKept]_vars
  <2> SUFFICES ASSUME IInv, SyncInv, [Next]_vars PROVE UnchangedIsKept
    OBVIOUS
  <2> USE PollerAssumption DEF IInv, TypeOK, UnchangedIsKept
  <2>1. CASE UNCHANGED runners BY <2>1
  <2>2. ASSUME NEW k \in Keys, RemoveTarget(k) PROVE UnchangedIsKept
    <3>1. desired[k] = NoConf
      BY <2>2 DEF RemoveTarget, SyncInv
    <3>2. \A l \in Keys \ {k} : runners'[l] = runners[l]
      BY <2>2 DEF RemoveTarget
    <3>3. QED BY <3>1, <3>2
  <2>3. ASSUME NEW k \in Keys, NEW r \in Runners, StartTarget(k, r) PROVE UnchangedIsKept
    <3>1. runners[k] # NoRunner => conf[runners[k]] # desired[k]
      BY <2>3 DEF StartTarget
    <3>2. \A l \in Keys \ {k} : runners'[l] = runners[l]
      BY <2>3 DEF StartTarget
    <3>3. QED BY <3>1, <3>2
  <2>4. QED BY <2>1, <2>2, <2>3
            DEF Next, Change, Serve, Cancel, SyncTargets, SyncStart, ListOk, ListError,
                SyncExit, Reconcile, ReadKeys, RemovalsDone, SyncEnd, AddOrUpdateTarget,
                KeepTarget, RunTarget, Wake, Quit, Poll, Report, runnerVars, vars
<1>2. QED BY <1>1, PollerInvariant, SyncInvariant, PTL DEF Spec

------------------------------------------------------------------------------
(* Why runners end *)

\* A runner whose context is done takes at most three more steps: a select may still
\* choose the timer, but after its report it looks at the context (runTarget).
THEOREM CancelledEnd == Spec => [][CancelledRunsDown]_vars
<1>1. IInv /\ [Next]_vars => [CancelledRunsDown]_vars
  <2> SUFFICES ASSUME IInv, [Next]_vars, NEW r \in Runners, pc[r] # "unused", Done(r)
               PROVE  /\ Done(r)' /\ pc'[r] # "unused"
                      /\ pc'[r] # pc[r] => StepsLeft(r)' < StepsLeft(r)
    BY DEF CancelledRunsDown
  <2> USE PollerAssumption DEF IInv, TypeOK, Done, StepsLeft
  <2>1. CASE UNCHANGED <<ctx, pc, cancelled>>
    BY <2>1
  <2>2. CASE Serve \/ Cancel BY <2>2 DEF Serve, Cancel, runnerVars
  <2>3. ASSUME NEW k \in Keys, RemoveTarget(k) PROVE Done(r)' /\ UNCHANGED pc
    BY <2>3 DEF RemoveTarget
  <2>4. ASSUME NEW k \in Keys, NEW q \in Runners, StartTarget(k, q)
        PROVE  Done(r)' /\ pc'[r] = pc[r]
    BY <2>4 DEF StartTarget
  <2>5. ASSUME NEW q \in Runners, RunTarget(q)
        PROVE  /\ Done(r)' /\ pc'[r] # "unused"
               /\ pc'[r] # pc[r] => StepsLeft(r)' < StepsLeft(r)
    <3>1. Done(r)'
      BY <2>5 DEF RunTarget, Wake, Quit, Poll, Report
    <3>2. CASE q # r BY <2>5, <3>1, <3>2 DEF RunTarget, Wake, Quit, Poll, Report
    <3>3. CASE q = r
      <4>1. CASE Wake(r) BY <3>1, <4>1 DEF Wake
      <4>2. CASE Quit(r) BY <3>1, <4>2 DEF Quit
      <4>3. CASE Poll(r) BY <3>1, <4>3 DEF Poll
      <4>4. CASE Report(r) BY <3>1, <4>4 DEF Report
      <4>5. QED BY <2>5, <3>3, <4>1, <4>2, <4>3, <4>4 DEF RunTarget
    <3>4. QED BY <3>2, <3>3
  <2>6. QED BY <2>1, <2>2, <2>3, <2>4, <2>5
            DEF Next, Change, SyncTargets, SyncStart, ListOk, ListError, SyncExit,
                Reconcile, ReadKeys, RemovalsDone, SyncEnd, AddOrUpdateTarget, KeepTarget,
                runnerVars, syncVars, vars
<1>2. QED BY <1>1, PollerInvariant, PTL DEF Spec

==============================================================================
