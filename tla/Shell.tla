-------------------------------- MODULE Shell ---------------------------------
(***************************************************************************)
(* What goes on by itself: in a tab of the browser, the session, the       *)
(* notifications of the top bar and the pages that only read; in the       *)
(* control plane, the tracking of an endpoint.  They share no state, so    *)
(* each is checked alone: a behaviour is one of part, and the others rest  *)
(* where they begin.                                                       *)
(***************************************************************************)
EXTENDS Session, Sequences

CONSTANTS
    None,
    MaxFailures,                                  \* of TopBar and Insights
    Limit, Loads, Marks, MaxRows, MaxMarks,       \* of TopBar
    Ranges, DefaultRange, Records, ListLimit,     \* of Insights
    Threshold, Batches, MaxQueue, MaxCount, MaxLate, MaxTests, MaxEdits,
    MaxFaults                                     \* of TrackingPolicy

\* The range that is selected first is one of the select's; a score is a probability,
\* in tenths (risk_score).
ASSUME ShellAssumption ==
    /\ DefaultRange \in Ranges
    /\ Len(Records) \in Nat
    /\ \A i \in 1..Len(Records) : Records[i].score \in 0..10

VARIABLES
    part,
    rows, read, shown, loading, load, mark, marked, lostMarks,
    view, timeRange, autoRefresh, stored, data, fetch, window, answer, errored,
    lostFetches,
    row, down, queue, thread, work, test, edit, tests, edits, faults

topVars == <<rows, read, shown, loading, load, mark, marked, lostMarks>>
viewVars == <<view, timeRange, autoRefresh, stored, data, fetch, window, answer,
              errored, lostFetches>>
trackVars == <<row, down, queue, thread, work, test, edit, tests, edits, faults>>
shellVars == <<part, vars, topVars, viewVars, trackVars>>

TopBar == INSTANCE TopBar WITH failures <- lostMarks

Insights == INSTANCE Insights WITH page <- view, failures <- lostFetches

Tracking == INSTANCE TrackingPolicy

Parts == {"session", "topbar", "insights", "tracking"}

ShellInit ==
    /\ part \in Parts
    /\ Init /\ TopBar!Init /\ Insights!Init /\ Tracking!Init

ShellNext ==
    /\ UNCHANGED part
    /\ \/ part = "session" /\ Next /\ UNCHANGED <<topVars, viewVars, trackVars>>
       \/ part = "topbar" /\ TopBar!Next /\ UNCHANGED <<vars, viewVars, trackVars>>
       \/ part = "insights" /\ Insights!Next /\ UNCHANGED <<vars, topVars, trackVars>>
       \/ part = "tracking" /\ Tracking!Next /\ UNCHANGED <<vars, topVars, viewVars>>

(* The Fairness of each module, of the part that is checked. *)
FairSession ==
    LET Fair(A) == part = "session" /\ A
    IN  /\ \A r \in Reqs :
              /\ WF_vars(Fair(AnswerError(r) \/ AnswerOk(r) \/ Unauthorized(r)))
              /\ WF_vars(Fair(TryAgain(r)))
        /\ WF_vars(Fair(LogoutFinally))
        /\ WF_vars(Fair(RefreshOk \/ RefreshFails))
        /\ WF_vars(Fair(FollowRedirect))

FairTopBar ==
    LET Fair(A) == part = "topbar" /\ A
    IN  /\ \A l \in Loads :
              /\ WF_topVars(Fair(TopBar!Load(l)))
              /\ WF_topVars(Fair(TopBar!LoadServed(l)))
              /\ WF_topVars(Fair(TopBar!LoadArrives(l)))
        /\ \A m \in Marks :
              /\ WF_topVars(Fair(TopBar!MarkServed(m)))
              /\ WF_topVars(Fair(TopBar!MarkArrives(m)))

FairInsights ==
    LET Fair(A) == part = "insights" /\ A
    IN  /\ WF_viewVars(Fair(Insights!Tick))
        /\ \A k \in Insights!Keys :
              /\ SF_viewVars(Fair(Insights!Answer(k)))
              /\ SF_viewVars(Fair(Insights!Arrive(k)))

FairTracking ==
    LET Fair(A) == part = "tracking" /\ A
    IN  /\ WF_trackVars(Fair(row.monitoring /\ Tracking!Publish))
        /\ WF_trackVars(Fair(Tracking!Receive))
        /\ WF_trackVars(Fair(Tracking!CommitRow))
        /\ WF_trackVars(Fair(Tracking!CommitOffset))
        /\ WF_trackVars(Fair(Tracking!ProcessStarts))
        /\ \A n \in 1..MaxTests :
              /\ WF_trackVars(Fair(Tracking!Execute(n)))
              /\ WF_trackVars(Fair(Tracking!EndTest(n)))
        /\ \A n \in 1..MaxEdits : WF_trackVars(Fair(Tracking!CommitEdit(n)))

ShellFairness == FairSession /\ FairTopBar /\ FairInsights /\ FairTracking

ShellSpec == ShellInit /\ [][ShellNext]_shellVars /\ ShellFairness

(* The properties of the parts, by the names their modules give them. *)

(* TopBar: once notifications stop coming the menu shows the newest ones for *)
(* ever, read and unread as the server has them.                             *)
ShowsNewest == TopBar!ShowsNewest

(* Insights: the pages show what their selects select. *)
ShowsTheSelection == Insights!ShowsTheSelection

(* Insights: the automatic refresh gets over failures. *)
AutoRefreshRecovers == Insights!AutoRefreshRecovers

(* TrackingPolicy: an endpoint that stays out of order is paused. *)
FailingIsPaused == Tracking!FailingIsPaused

================================================================================
