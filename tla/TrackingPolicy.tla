----------------------------- MODULE TrackingPolicy -----------------------------
(***************************************************************************)
(* The tracking of an endpoint: its row in the core database, and the      *)
(* three that write it: the subscriber that counts failures in the raw     *)
(* topic (telemetry_tracking_subscriber.py), the tests that count them too *)
(* (routers/testing.py) and the user's own pause and resume                *)
(* (update_endpoint in api_service.py).                                    *)
(*                                                                         *)
(* All three read the row into a session, decide on what they read and     *)
(* write at the end.  No row is locked, and a session writes only the      *)
(* columns it changed, so they overwrite each other column by column.  A   *)
(* test awaits the executor in between.                                    *)
(***************************************************************************)
EXTENDS Naturals, Sequences, SequencesExt

CONSTANTS
    Threshold,   \* TRACKING_ERROR_PAUSE_THRESHOLD, a number
    Batches,     \* the messages there may be: sequences of outcomes
    MaxQueue,    \* bound: how many messages wait in the topic
    MaxCount,    \* bound: at this count there are no more polls,
    MaxLate,     \* bound: nor, at this one, other events of a paused endpoint
    MaxTests,    \* bound: how many tests are run
    MaxEdits,    \* bound: how many requests to pause or resume
    MaxFaults    \* bound: errors, crashes

VARIABLES
    row,       \* the endpoint
    down,      \* the endpoint is out of order: all its polls and tests fail
    queue,     \* the messages of the topic the group has not committed
    thread,    \* polling, loaded, applied; died; down, with the process
    work,      \* the session of the subscriber: the row it read, and makes of it
    test,      \* test[n]: the n-th test
    edit,      \* edit[n]: the n-th request of the user
    tests, edits, faults

subVars == <<queue, thread, work>>
testVars == <<test, tests>>
editVars == <<edit, edits>>
vars == <<row, down, subVars, testVars, editVars, faults>>

Row == [monitoring : BOOLEAN, count : Nat, auto : BOOLEAN]

Outcomes == {"ok", "fail"}

Fresh == [monitoring |-> TRUE, count |-> 0, auto |-> FALSE]

\* A session: what it read and what it wants to write.
NoWork == [seen |-> Fresh, new |-> Fresh]
NoTest == [stage |-> "unused", seen |-> Fresh, ok |-> FALSE]
NoEdit == [stage |-> "unused", seen |-> Fresh, on |-> FALSE]

Init ==
    /\ row = Fresh
    /\ down = FALSE
    /\ queue = << >>
    /\ thread = "polling" /\ work = NoWork
    /\ test = [n \in 1..MaxTests |-> NoTest] /\ tests = 0
    /\ edit = [n \in 1..MaxEdits |-> NoEdit] /\ edits = 0
    /\ faults = 0

\* The flush of a session that read seen: the columns that differ in new.
Written(seen, new) ==
    [c \in DOMAIN row |-> IF new[c] # seen[c] THEN new[c] ELSE row[c]]

\* Slip: the endpoint is paused at the threshold, and not above it.
FailureAtThreshold(r) ==
    LET n == r.count + 1
    IN  IF r.monitoring /\ n = Threshold
        THEN [monitoring |-> FALSE, count |-> n, auto |-> TRUE]
        ELSE [r EXCEPT !.count = n]

\* One more failure; at the threshold the tracking is paused, and a notification
\* written.
Failure(r) ==
    LET n == r.count + 1
    IN  IF r.monitoring /\ n >= (IF Threshold > 1 THEN Threshold ELSE 1)
        THEN [monitoring |-> FALSE, count |-> n, auto |-> TRUE]
        ELSE [r EXCEPT !.count = n]

------------------------------------------------------------------------------
(* The endpoint and its polls *)

GoDown == ~down /\ down' = TRUE /\ UNCHANGED <<row, subVars, testVars, editVars, faults>>

ComeBack == down /\ down' = FALSE /\ UNCHANGED <<row, subVars, testVars, editVars, faults>>

\* A batch of events of the endpoint is published: the poller's, while the row says
\* so, and for a while after; or a client's, at any time.
Publish ==
    \E batch \in Batches :
        /\ down => \A i \in DOMAIN batch : batch[i] = "fail"
        /\ Len(queue) < MaxQueue
        /\ row.count < IF row.monitoring THEN MaxCount ELSE MaxLate
        /\ queue' = Append(queue, batch)
        /\ UNCHANGED <<row, down, thread, work, testVars, editVars, faults>>

------------------------------------------------------------------------------
(* The subscriber *)

\* A success resets the count; the mark of an automatic pause goes if the tracking is
\* on.
Success(r) ==
    IF r.count = 0 THEN r
    ELSE [r EXCEPT !.count = 0, !.auto = @ /\ ~r.monitoring]

Apply(r, outcome) == IF outcome = "ok" THEN Success(r) ELSE Failure(r)

\* _apply_tracking, to its commit: all events of a message in one session.
Receive ==
    /\ thread = "polling"
    /\ queue # << >>
    /\ thread' = "loaded"
    /\ work' = [seen |-> row, new |-> FoldLeft(Apply, row, Head(queue))]
    /\ UNCHANGED <<row, down, queue, testVars, editVars, faults>>

CommitRow ==
    /\ thread = "loaded"
    /\ row' = Written(work.seen, work.new)
    /\ thread' = "applied" /\ work' = NoWork
    /\ UNCHANGED <<down, queue, testVars, editVars, faults>>

Fault == faults < MaxFaults /\ faults' = faults + 1

\* An error is logged, and the message goes as if it had been applied.
RollBack ==
    /\ Fault
    /\ thread = "loaded"
    /\ thread' = "applied" /\ work' = NoWork
    /\ UNCHANGED <<row, down, queue, testVars, editVars>>

CommitOffset ==
    /\ thread = "applied"
    /\ thread' = "polling"
    /\ queue' = Tail(queue)
    /\ UNCHANGED <<row, down, work, testVars, editVars, faults>>

\* The commit of the offset raises, which ends the thread and nothing else.
ThreadDies ==
    /\ Fault
    /\ thread = "applied"
    /\ thread' = "died"
    /\ UNCHANGED <<row, down, queue, work, testVars, editVars>>

\* The process ends, with the tests and requests it was at.
ProcessEnds ==
    /\ Fault
    /\ thread # "down"
    /\ thread' = "down" /\ work' = NoWork
    /\ test' = [n \in DOMAIN test |-> NoTest]
    /\ edit' = [n \in DOMAIN edit |-> NoEdit]
    /\ UNCHANGED <<row, down, queue, tests, edits>>

\* The group, which has committed before, goes on where it last did.
ProcessStarts ==
    /\ thread = "down"
    /\ thread' = "polling"
    /\ UNCHANGED <<row, down, queue, work, testVars, editVars, faults>>

------------------------------------------------------------------------------
(* Tests *)

\* execute_test, to its await: the row is read.
BeginTest ==
    /\ thread # "down"
    /\ tests < MaxTests
    /\ tests' = tests + 1
    /\ test' = [test EXCEPT ![tests + 1] =
                  [stage |-> "awaits", seen |-> row, ok |-> FALSE]]
    /\ UNCHANGED <<row, down, subVars, editVars, faults>>

\* The executor comes to its verdict.
Execute(n) ==
    /\ test[n].stage = "awaits"
    /\ \E ok \in BOOLEAN :
          /\ down => ~ok
          /\ test' = [test EXCEPT ![n] = [@ EXCEPT !.stage = "judged", !.ok = ok]]
    /\ UNCHANGED <<row, down, subVars, tests, editVars, faults>>

TestPolicy(r, ok) ==
    IF ok THEN [r EXCEPT !.count = 0, !.auto = FALSE] ELSE Failure(r)

\* _apply_tracking_failure_policy, on the row as it was before the await.
EndTest(n) ==
    /\ test[n].stage = "judged"
    /\ row' = Written(test[n].seen, TestPolicy(test[n].seen, test[n].ok))
    /\ test' = [test EXCEPT ![n] = NoTest]
    /\ UNCHANGED <<down, subVars, tests, editVars, faults>>

------------------------------------------------------------------------------
(* The user *)

\* update_endpoint with monitoring_enabled, to its commit.
BeginEdit ==
    /\ thread # "down"
    /\ edits < MaxEdits
    /\ edits' = edits + 1
    /\ \E on \in BOOLEAN :
          edit' = [edit EXCEPT ![edits + 1] =
                     [stage |-> "loaded", seen |-> row, on |-> on]]
    /\ UNCHANGED <<row, down, subVars, testVars, faults>>

Edited(r, on) ==
    [monitoring |-> on, auto |-> FALSE, count |-> IF on THEN 0 ELSE r.count]

CommitEdit(n) ==
    /\ edit[n].stage = "loaded"
    /\ row' = Written(edit[n].seen, Edited(edit[n].seen, edit[n].on))
    /\ edit' = [edit EXCEPT ![n] = NoEdit]
    /\ UNCHANGED <<down, subVars, testVars, edits, faults>>

------------------------------------------------------------------------------

Next ==
    \/ GoDown \/ ComeBack \/ Publish
    \/ Receive \/ CommitRow \/ RollBack \/ CommitOffset
    \/ ThreadDies \/ ProcessEnds \/ ProcessStarts
    \/ BeginTest \/ \E n \in 1..MaxTests : Execute(n) \/ EndTest(n)
    \/ BeginEdit \/ \E n \in 1..MaxEdits : CommitEdit(n)

\* The poller polls what the row says; the subscriber and whoever began a request go
\* on; the control plane is started again.
Fairness ==
    /\ WF_vars(row.monitoring /\ Publish)
    /\ WF_vars(Receive) /\ WF_vars(CommitRow) /\ WF_vars(CommitOffset)
    /\ WF_vars(ProcessStarts)
    /\ \A n \in 1..MaxTests : WF_vars(Execute(n)) /\ WF_vars(EndTest(n))
    /\ \A n \in 1..MaxEdits : WF_vars(CommitEdit(n))

Spec == Init /\ [][Next]_vars /\ Fairness

------------------------------------------------------------------------------
(* Properties *)

\* Every variable has its type.
TypeOK ==
    /\ row \in Row
    /\ down \in BOOLEAN
    /\ queue \in Seq(Batches)
    /\ thread \in {"polling", "loaded", "applied", "died", "down"}
    /\ work \in [seen : Row, new : Row]

\* An endpoint that stays out of order is not polled for ever, however the tests,
\* the subscriber and the user overwrite each other's counts, once users leave it
\* alone: its tracking is paused for good, unless the thread that counts has died
\* (the threshold in _apply_tracking).
FailingIsPaused ==
    <>[]down => <>[](~row.monitoring \/ thread = "died")

================================================================================
