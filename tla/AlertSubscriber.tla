---------------------------- MODULE AlertSubscriber ----------------------------
(***************************************************************************)
(* services/alert_subscriber.py: the thread of the control plane that      *)
(* reads alerts from Kafka, one partition, and turns each into a row of    *)
(* the notifications table.  An alert is its offset.                       *)
(*                                                                         *)
(* A message is dispatched first and its offset committed afterwards, so a *)
(* crash in between makes it come again.  A group that has committed       *)
(* nothing starts at the end of the topic.                                 *)
(***************************************************************************)
EXTENDS Naturals, Sequences

CONSTANTS
    MaxAlerts,   \* bound: how many alerts there are
    MaxStarts    \* bound: how often the process starts

VARIABLES
    log,         \* the topic holds offsets 1..log
    committed,   \* the group's committed offset, the next to read; 0 is none
    thread,      \* down, polling, dispatched, died
    position,    \* the offset the consumer reads next
    table,       \* the alerts of the notifications, in the order of insertion
    starts,
    dropped,     \* history: alerts whose insert failed, or with nothing to insert
    unseen       \* history: alerts that were there when a new group started

vars == <<log, committed, thread, position, table, starts, dropped, unseen>>

Init ==
    /\ log = 0 /\ committed = 0
    /\ thread = "down" /\ position = 0
    /\ table = << >>
    /\ starts = 0
    /\ dropped = {} /\ unseen = {}

\* The inference worker raises an alert.
Raise ==
    /\ log < MaxAlerts
    /\ log' = log + 1
    /\ UNCHANGED <<committed, thread, position, table, starts, dropped, unseen>>

\* start: with auto.offset.reset "latest".
Start ==
    /\ thread = "down"
    /\ starts < MaxStarts
    /\ starts' = starts + 1
    /\ thread' = "polling"
    /\ position' = IF committed # 0 THEN committed ELSE log + 1
    /\ unseen' = IF committed # 0 THEN unseen ELSE unseen \union 1..log
    /\ UNCHANGED <<log, committed, table, dropped>>

\* poll and _dispatch: _store_notification inserts a row; it does nothing for an
\* alert without organisation, and an insert that fails is logged.  A payload that
\* is not JSON is not dispatched.  The webhook changes nothing here.
Dispatch ==
    /\ thread = "polling"
    /\ position <= log
    /\ thread' = "dispatched"
    /\ \/ /\ table' = Append(table, position)
          /\ UNCHANGED dropped
       \/ /\ dropped' = dropped \union {position}
          /\ UNCHANGED table
    /\ UNCHANGED <<log, committed, position, starts, unseen>>

\* Slip: the offset is committed before the alert is dispatched.
CommitEarly ==
    /\ thread \in {"polling", "dispatched"}
    /\ position <= log
    /\ committed' = position + 1
    /\ IF thread = "dispatched"
       THEN thread' = "polling" /\ position' = position + 1
       ELSE UNCHANGED <<thread, position>>
    /\ UNCHANGED <<log, table, starts, dropped, unseen>>

Commit ==
    /\ thread = "dispatched"
    /\ committed' = position + 1
    /\ position' = position + 1
    /\ thread' = "polling"
    /\ UNCHANGED <<log, table, starts, dropped, unseen>>

\* commit raises, and so ends _run: nobody starts the thread again.
CommitFails ==
    /\ thread = "dispatched"
    /\ thread' = "died"
    /\ UNCHANGED <<log, committed, position, table, starts, dropped, unseen>>

\* The process ends, by stop, which waits five seconds, or by a crash.
ProcessEnds ==
    /\ thread # "down"
    /\ thread' = "down"
    /\ UNCHANGED <<log, committed, position, table, starts, dropped, unseen>>

Next ==
    Raise \/ Start \/ Dispatch \/ Commit \/ CommitFails \/ ProcessEnds

Spec == Init /\ [][Next]_vars

------------------------------------------------------------------------------

Stored == {table[i] : i \in DOMAIN table}

\* No alert is passed over: one below the committed offset is a notification, or
\* its insert failed, or it was raised before the group's first commit and a start
\* (dispatch before commit in _run).
AlertsAreNotSkipped ==
    \A a \in 1..log : a < committed => a \in Stored \union dropped \union unseen

==============================================================================
