-------------------------------- MODULE Insights --------------------------------
(***************************************************************************)
(* The two pages that only read: the predictions, with their automatic     *)
(* refresh (predictions/page.tsx), and the telemetry of a time range       *)
(* (telemetry/page.tsx).  What they read stays in the React Query cache    *)
(* when they are left (lib/query-provider.tsx); their choices do not.  The risk *)
(* filter of the predictions is a parameter of what it filters.            *)
(*                                                                         *)
(* A prediction is its number in order of time.  It has a group, one per   *)
(* API and endpoint, and a score in tenths.                                *)
(***************************************************************************)
EXTENDS Naturals, FiniteSets, Sequences

CONSTANTS
    Ranges,        \* the windows of the time range select
    DefaultRange,  \* the one that is selected first: 24h
    Records,       \* the predictions there may be, a sequence
    ListLimit,     \* how many of them a list has at most: limit, 50
    None,
    MaxFailures    \* bound: how many fetches fail

VARIABLES
    page,          \* telemetry or predictions
    timeRange,
    autoRefresh,
    stored,        \* predictions 1..stored are in the database
    data,          \* data[k]: what the cache holds for k, or None
    fetch,         \* fetch[k]: idle, sent, answered
    window,        \* window[k]: the window parameter of the fetch in flight
    answer,        \* answer[k]: what the server answered to it
    errored,       \* keys whose last fetch failed
    failures

uiVars == <<page, timeRange, autoRefresh>>
cacheVars == <<data, fetch, window, answer, errored>>
vars == <<uiVars, cacheVars, stored, failures>>

Pages == {"telemetry", "predictions"}

PredictionsKey == [query |-> "predictions", range |-> None]

\* Slip: the range is not part of the key.
TelemetryKeyPlain(r) == [query |-> "telemetry-endpoints", range |-> None]

TelemetryKey(r) == [query |-> "telemetry-endpoints", range |-> r]

Keys == {TelemetryKey(r) : r \in Ranges} \union {PredictionsKey}

\* The query of page p with range r selected.
KeyOf(p, r) ==
    IF p = "telemetry" THEN {TelemetryKey(r)} ELSE {PredictionsKey}

\* get_predictions: the newest ones, by time, up to the limit; the page names none.
Newest == {i \in 1..stored : stored < i + ListLimit}

Init ==
    /\ page = "predictions"
    /\ timeRange = DefaultRange /\ autoRefresh = FALSE
    /\ stored = 0
    /\ data = [k \in Keys |-> None]
    /\ fetch = [k \in Keys |-> IF k = PredictionsKey THEN "sent" ELSE "idle"]
    /\ window = [k \in Keys |-> None]
    /\ answer = [k \in Keys |-> None]
    /\ errored = {}
    /\ failures = 0

\* The inference worker stores a prediction.
Predict ==
    /\ stored < Len(Records)
    /\ stored' = stored + 1
    /\ UNCHANGED <<uiVars, cacheVars, failures>>

------------------------------------------------------------------------------
(* The cache *)

\* The keys in K are fetched for range r; a fetch of one that has data already
\* starts over.
Fetch(K, r) ==
    LET started == {k \in K : data[k] # None \/ fetch[k] = "idle"}
    IN  /\ fetch' = [k \in Keys |-> IF k \in started THEN "sent" ELSE fetch[k]]
        /\ window' = [k \in Keys |-> IF k \in started THEN r ELSE window[k]]
        /\ answer' = [k \in Keys |-> IF k \in started THEN None ELSE answer[k]]
        /\ UNCHANGED <<data, errored>>

\* A query that becomes visible: it is fetched if it has no data, failed last
\* time, or is older than the staleTime of two minutes, which it may be.
Observe(p, r) ==
    \E aged \in SUBSET KeyOf(p, r) :
        Fetch({k \in KeyOf(p, r) : /\ fetch[k] = "idle"
                                   /\ data[k] = None \/ k \in errored \union aged},
              r)

Answer(k) ==
    /\ fetch[k] = "sent"
    /\ fetch' = [fetch EXCEPT ![k] = "answered"]
    /\ answer' = [answer EXCEPT ![k] =
                    IF k = PredictionsKey THEN Newest ELSE window[k]]
    /\ UNCHANGED <<uiVars, data, window, errored, stored, failures>>

Settle(k) ==
    /\ fetch' = [fetch EXCEPT ![k] = "idle"]
    /\ answer' = [answer EXCEPT ![k] = None]
    /\ window' = [window EXCEPT ![k] = None]

Arrive(k) ==
    /\ fetch[k] = "answered"
    /\ data' = [data EXCEPT ![k] = answer[k]]
    /\ errored' = errored \ {k}
    /\ Settle(k)
    /\ UNCHANGED <<uiVars, stored, failures>>

\* The retries are exhausted.
FetchFails(k) ==
    /\ fetch[k] # "idle"
    /\ failures < MaxFailures
    /\ failures' = failures + 1
    /\ errored' = errored \union {k}
    /\ Settle(k)
    /\ UNCHANGED <<uiVars, data, stored>>

------------------------------------------------------------------------------
(* What the pages show *)

\* isLoading: a skeleton, and the error of an earlier fetch is gone.
Loading(k) == data[k] = None /\ fetch[k] # "idle"

\* A fetch that failed takes the whole page, also when there are data.
ErrorView(k) == ~Loading(k) /\ k \in errored

\* In place of the telemetry, its select included, for range r.
TelemetryAway(r) == Loading(TelemetryKey(r)) \/ ErrorView(TelemetryKey(r))

\* The table of the telemetry, or its "No telemetry data found".
TelemetryShown == page = "telemetry" /\ ~TelemetryAway(timeRange)

\* The header of the predictions with its buttons.
PredictionsShown ==
    /\ page = "predictions"
    /\ ~Loading(PredictionsKey)
    /\ ~ErrorView(PredictionsKey)

Predictions ==
    IF data[PredictionsKey] = None THEN {} ELSE data[PredictionsKey]

\* groupedPredictions.
Groups == {Records[i].group : i \in Predictions}
Group(g) == {i \in Predictions : Records[i].group = g}

MaxRisk(g) ==
    LET scores == {Records[i].score : i \in Group(g)}
    IN  CHOOSE s \in scores : \A other \in scores : other <= s

\* getRiskTone.
Band(score) ==
    IF score >= 8 THEN "critical" ELSE IF score >= 5 THEN "warning" ELSE "stable"

\* criticalEvents, warningEvents, stableEvents of a group.
Events(g, band) ==
    LET in(s) == CASE band = "critical" -> s >= 8
                   [] band = "warning" -> s >= 5 /\ s < 8
                   [] OTHER -> s < 5
    IN  {i \in Group(g) : in(Records[i].score)}

\* filteredGroups, for each choice of the risk filter.
Filtered(filter) ==
    {g \in Groups : filter = "all" \/ filter = Band(MaxRisk(g))}

\* totalSignals, criticalGroups.
TotalSignals(filter) ==
    Cardinality(UNION {Group(g) : g \in Filtered(filter)})
CriticalGroups(filter) ==
    Cardinality(Filtered(filter) \intersect Filtered("critical"))

\* The three numbers below the header, and the select of the risk filter.
StatsShown == PredictionsShown /\ Predictions # {}

\* What is below them: a card for each group, or why there is none.
View(filter) ==
    IF Predictions = {} THEN "healthy"
    ELSE IF Filtered(filter) = {} THEN "none in this filter"
    ELSE "groups"

------------------------------------------------------------------------------
(* What the user and the timer do *)

\* A page is opened, with its choices as at first.
Open(p) ==
    /\ p # page
    /\ page' = p
    /\ timeRange' = DefaultRange /\ autoRefresh' = FALSE
    /\ Observe(p, DefaultRange)
    /\ UNCHANGED <<stored, failures>>

ChooseRange(r) ==
    /\ TelemetryShown
    /\ r # timeRange
    /\ timeRange' = r
    /\ Observe("telemetry", r)
    /\ UNCHANGED <<page, autoRefresh, stored, failures>>

\* "Refresh predictions".
Refresh ==
    /\ PredictionsShown
    /\ Fetch({PredictionsKey}, None)
    /\ UNCHANGED <<uiVars, stored, failures>>

ToggleAutoRefresh ==
    /\ PredictionsShown
    /\ autoRefresh' = ~autoRefresh
    /\ UNCHANGED <<page, timeRange, cacheVars, stored, failures>>

\* Slip: the timer runs while there is no error only.
TickWithoutError ==
    /\ page = "predictions" /\ autoRefresh
    /\ PredictionsKey \notin errored
    /\ Fetch({PredictionsKey}, None)
    /\ UNCHANGED <<uiVars, stored, failures>>

\* Every thirty seconds, whatever is in flight and whatever is shown.
Tick ==
    /\ page = "predictions" /\ autoRefresh
    /\ Fetch({PredictionsKey}, None)
    /\ UNCHANGED <<uiVars, stored, failures>>

------------------------------------------------------------------------------

Next ==
    \/ Predict
    \/ \E k \in Keys : Answer(k) \/ Arrive(k) \/ FetchFails(k)
    \/ \E p \in Pages : Open(p)
    \/ \E r \in Ranges : ChooseRange(r)
    \/ Refresh \/ ToggleAutoRefresh \/ Tick

\* The timer ticks.  An answer that does not come within thirty seconds is thrown
\* away by the next tick; it is assumed that not all of them are that late.
Fairness ==
    /\ WF_vars(Tick)
    /\ \A k \in Keys : SF_vars(Answer(k)) /\ SF_vars(Arrive(k))

Spec == Init /\ [][Next]_vars /\ Fairness

------------------------------------------------------------------------------
(* Properties *)

\* The pages show what their selects select.  The telemetry is of the range that is
\* selected, however the answers of several ranges overlap (the range in the query
\* key).  Every group of predictions is under exactly one of the three risk filters,
\* the one of its most severe event, so that the counts under "All Risk Bands" are
\* the sums of theirs and a group that is shown there is shown under a band
\* (filteredGroups and the event counts each spell the bounds out).
RangeIsShown ==
    TelemetryShown /\ data[TelemetryKey(timeRange)] # None
    => data[TelemetryKey(timeRange)] = timeRange

BandsPartition ==
    LET bands == {"critical", "warning", "stable"}
        total(f(_)) == f("critical") + f("warning") + f("stable")
    IN  /\ StatsShown => /\ total(TotalSignals) = TotalSignals("all")
                         /\ total(CriticalGroups) = CriticalGroups("all")
        /\ View("all") = "groups" <=> \E b \in bands : View(b) = "groups"
        /\ \A b \in bands : \A g \in Filtered(b) :
              /\ Events(g, b) # {}
              /\ b # "critical" => Events(g, "critical") = {}
              /\ b = "stable" => Events(g, b) = Group(g)

ShowsTheSelection == RangeIsShown /\ BandsPartition

\* While the automatic refresh stays on, the page gets over failures, also from the
\* view that has no button, and shows the newest predictions in the end, as many as a
\* list has (the effect with setInterval).
AutoRefreshRecovers ==
    <>[](page = "predictions" /\ autoRefresh)
    => <>[](PredictionsShown /\ Predictions = Newest)

==============================================================================
