--------------------------------- MODULE TopBar --------------------------------
(***************************************************************************)
(* The notifications of the top bar (components/layout/Topbar.tsx), which  *)
(* is mounted as long as any page of the dashboard is: a load every twenty *)
(* seconds, and marks that are sent to the server and, once answered, made *)
(* in the list that is shown by then (routers/dashboard.py).               *)
(*                                                                         *)
(* A notification is its number in order of created_at.  Loads overlap     *)
(* when they are slow, and arrive in any order.                            *)
(***************************************************************************)
EXTENDS Naturals, FiniteSets

CONSTANTS
    Limit,         \* how many notifications a load asks for: 12
    Loads,         \* bound: loads in flight at the same time
    Marks,         \* bound: marks in flight at the same time
    MaxRows,       \* bound: how many notifications there are
    MaxFailures,   \* bound: how many requests fail
    MaxMarks       \* bound: how many marks are sent

VARIABLES
    rows,       \* the table holds notifications 1..rows
    read,       \* those with is_read
    shown,      \* notifications, the list of the top bar
    loading,    \* notificationsLoading
    load,       \* load[l]: what the server answered to a load in flight
    mark,       \* mark[m]: a mark in flight: its target, All or a notification
    marked,     \* how many marks were sent
    failures

vars == <<rows, read, shown, loading, load, mark, marked, failures>>

All == 0

\* A list of notifications, each with is_read.
Empty == [rows |-> {}, read |-> {}]

Idle == [stage |-> "idle", list |-> Empty]
NoMark == [stage |-> "idle", target |-> All]

Init ==
    /\ rows \in 0..MaxRows
    /\ read = {}
    /\ shown = Empty
    /\ loading = FALSE
    /\ load = [l \in Loads |-> Idle]
    /\ mark = [m \in Marks |-> NoMark]
    /\ marked = 0
    /\ failures = 0

\* list_notifications: the newest ones.
Newest ==
    LET R == {i \in 1..rows : i > rows - Limit}
    IN  [rows |-> R, read |-> read \intersect R]

\* A notification is inserted.
Notify ==
    /\ rows < MaxRows
    /\ rows' = rows + 1
    /\ UNCHANGED <<read, shown, loading, load, mark, marked, failures>>

------------------------------------------------------------------------------
(* loadNotifications *)

\* Slip: a failure ends the timer.
LoadUntilFailure(l) ==
    /\ failures = 0
    /\ load[l].stage = "idle"
    /\ load' = [load EXCEPT ![l].stage = "sent"]
    /\ loading' = TRUE
    /\ UNCHANGED <<rows, read, shown, mark, marked, failures>>

\* On mount and at every tick of the interval, whatever is in flight.
Load(l) ==
    /\ load[l].stage = "idle"
    /\ load' = [load EXCEPT ![l].stage = "sent"]
    /\ loading' = TRUE
    /\ UNCHANGED <<rows, read, shown, mark, marked, failures>>

LoadServed(l) ==
    /\ load[l].stage = "sent"
    /\ load' = [load EXCEPT ![l] = [stage |-> "served", list |-> Newest]]
    /\ UNCHANGED <<rows, read, shown, loading, mark, marked, failures>>

\* The list is replaced; with any load the indicator goes.
LoadArrives(l) ==
    /\ load[l].stage = "served"
    /\ shown' = load[l].list
    /\ load' = [load EXCEPT ![l] = Idle]
    /\ loading' = FALSE
    /\ UNCHANGED <<rows, read, mark, marked, failures>>

\* A load that fails empties the list.
LoadFails(l) ==
    /\ failures < MaxFailures
    /\ load[l].stage # "idle"
    /\ shown' = Empty
    /\ load' = [load EXCEPT ![l] = Idle]
    /\ loading' = FALSE
    /\ failures' = failures + 1
    /\ UNCHANGED <<rows, read, mark, marked>>

------------------------------------------------------------------------------
(* markNotificationAsRead, markAllNotificationsRead *)

Unread == shown.rows \ shown.read

Send(target) ==
    \E m \in Marks :
        /\ mark[m].stage = "idle"
        /\ marked < MaxMarks
        /\ marked' = marked + 1
        /\ mark' = [mark EXCEPT ![m] = [stage |-> "sent", target |-> target]]
        /\ UNCHANGED <<rows, read, shown, loading, load, failures>>

\* A notification that is listed and unread is clicked; while a load runs the
\* indicator takes the place of the list.
MarkAsRead(i) ==
    /\ ~loading
    /\ i \in Unread
    /\ Send(i)

\* "Mark all read" is enabled as long as something unread is listed.
MarkAllRead ==
    /\ Unread # {}
    /\ Send(All)

\* The server marks one, or all there are, listed or not.
MarkServed(m) ==
    /\ mark[m].stage = "sent"
    /\ mark' = [mark EXCEPT ![m].stage = "served"]
    /\ read' = IF mark[m].target = All THEN 1..rows
               ELSE read \union {mark[m].target}
    /\ UNCHANGED <<rows, shown, loading, load, marked, failures>>

\* The answer: the mark is made in the list as it is now.
MarkArrives(m) ==
    /\ mark[m].stage = "served"
    /\ mark' = [mark EXCEPT ![m] = NoMark]
    /\ shown' = [shown EXCEPT
                   !.read = IF mark[m].target = All THEN shown.rows
                            ELSE @ \union (shown.rows \intersect {mark[m].target})]
    /\ UNCHANGED <<rows, read, loading, load, marked, failures>>

\* An error is swallowed; the server may have made the mark.
MarkFails(m) ==
    /\ failures < MaxFailures
    /\ mark[m].stage # "idle"
    /\ mark' = [mark EXCEPT ![m] = NoMark]
    /\ failures' = failures + 1
    /\ UNCHANGED <<rows, read, shown, loading, load, marked>>

------------------------------------------------------------------------------

Next ==
    \/ Notify
    \/ \E l \in Loads :
          Load(l) \/ LoadServed(l) \/ LoadArrives(l) \/ LoadFails(l)
    \/ \E i \in 1..MaxRows : MarkAsRead(i)
    \/ MarkAllRead
    \/ \E m \in Marks : MarkServed(m) \/ MarkArrives(m) \/ MarkFails(m)

\* The interval ticks, the server answers.
Fairness ==
    /\ \A l \in Loads :
          WF_vars(Load(l)) /\ WF_vars(LoadServed(l)) /\ WF_vars(LoadArrives(l))
    /\ \A m \in Marks : WF_vars(MarkServed(m)) /\ WF_vars(MarkArrives(m))

Spec == Init /\ [][Next]_vars /\ Fairness

------------------------------------------------------------------------------
(* Properties *)

\* The top bar converges: whatever loads and marks overtook each other, and
\* however many failed, once notifications stop coming the list is for ever the
\* newest ones as the server has them (the interval of Topbar's effect).
ShowsNewest == <>[](shown = Newest)

==============================================================================
