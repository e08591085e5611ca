------------------------------- MODULE Dashboard -------------------------------
(***************************************************************************)
(* The dashboard (dashboard/page.tsx): its three queries, the counters on  *)
(* its cards, each counted up or down by useCountUp to the value that the  *)
(* queries give, and the badge of the platform's health.  The number of    *)
(* endpoints has the list of APIs as its query key, so a list that changes *)
(* takes the target through 0.                                             *)
(*                                                                         *)
(* Error rates are in percent, and latencies in steps of 50 ms, so that    *)
(* the thresholds are whole numbers.  A value between two frames is some   *)
(* whole number in between.                                                *)
(***************************************************************************)
EXTENDS Naturals, FiniteSets, FiniteSetsExt

CONSTANTS
    Apis,          \* the APIs there may be
    EndpointsOf,   \* EndpointsOf[a]: how many endpoints a has
    Summaries,     \* the metrics there may be: requests, errors, latency
    Counters,      \* those of the five counters that are looked at
    None,          \* the data of a query that is loading
    Failed         \* and of one that has failed before it had any

VARIABLES
    server,    \* the APIs there are
    list,      \* the data of apisQuery
    count,     \* count[L]: the data of endpointCountQuery for list L
    metrics,   \* the data of metricsQuery
    reduce,    \* reduceMotion
    value,     \* value[c]: what counter c shows
    start,     \* start[c]: startValueRef
    current,   \* current[c]: currentValueRef
    frame,     \* frame[c]: a frame is requested
    lost       \* history: lost[c], why the value is not the target

queryVars == <<server, list, count, metrics>>
counterVars == <<value, start, current, frame, lost>>
vars == <<queryVars, reduce, counterVars>>

NoData == {None, Failed}

\* What the page passes to useCountUp.
Target(c) ==
    IF c \in {"apis", "endpoints"}
    THEN IF list \in NoData THEN 0
         ELSE IF c = "apis" THEN Cardinality(list)
         ELSE IF count[list] \in NoData THEN 0 ELSE count[list]
    ELSE IF metrics \in NoData THEN 0 ELSE metrics[c]

targets == [c \in Counters |-> Target(c)]

Init ==
    /\ server \in SUBSET Apis
    /\ list = None
    /\ count = [L \in SUBSET Apis |-> None]
    /\ metrics = None
    /\ reduce \in BOOLEAN
    /\ value = [c \in Counters |-> 0]
    /\ start = [c \in Counters |-> 0]
    /\ current = [c \in Counters |-> 0]
    /\ frame = [c \in Counters |-> FALSE]
    /\ lost = [c \in Counters |-> FALSE]

------------------------------------------------------------------------------
(* useCountUp *)

\* The effect runs for the counters whose target or reduceMotion changed.
Changed(c) == reduce' # reduce \/ Target(c)' # Target(c)

\* With reduced motion there is no animation, nor if the target is where the last
\* animation ended or, if it was interrupted, began.
Stands(c) == Changed(c) /\ reduce'
Animates(c) == Changed(c) /\ ~reduce' /\ Target(c)' # start[c]

\* It cancels the frame, and requests one if there is an animation.
Restart ==
    /\ start' = [c \in Counters |->
                   IF Stands(c) THEN Target(c)'
                   ELSE IF Animates(c) THEN current[c] ELSE start[c]]
    /\ current' = [c \in Counters |-> IF Stands(c) THEN Target(c)' ELSE current[c]]
    /\ frame' = [c \in Counters |-> IF Changed(c) THEN Animates(c) ELSE frame[c]]
    /\ lost' = [c \in Counters |->
                  IF Changed(c)
                  THEN /\ ~Animates(c)
                       /\ value[c] # Target(c)'
                       /\ frame[c] \/ lost[c] \/ reduce'
                  ELSE lost[c]]
    /\ UNCHANGED value

\* The whole numbers on the way from i to j, short of j.
Between(i, j) == IF i = j THEN {i} ELSE IF i < j THEN i..(j - 1) ELSE (j + 1)..i

\* A frame before the duration is over.
Frame(c) ==
    /\ frame[c]
    /\ \E v \in Between(start[c], Target(c)) :
          /\ value' = [value EXCEPT ![c] = v]
          /\ current' = [current EXCEPT ![c] = v]
    /\ UNCHANGED <<queryVars, reduce, start, frame, lost>>

\* Slip: the end of an animation is not noted.
LastFrameUnnoted(c) ==
    /\ frame[c]
    /\ value' = [value EXCEPT ![c] = Target(c)]
    /\ current' = [current EXCEPT ![c] = Target(c)]
    /\ frame' = [frame EXCEPT ![c] = FALSE]
    /\ UNCHANGED <<queryVars, reduce, start, lost>>

\* The frame after it.
LastFrame(c) ==
    /\ frame[c]
    /\ value' = [value EXCEPT ![c] = Target(c)]
    /\ start' = [start EXCEPT ![c] = Target(c)]
    /\ current' = [current EXCEPT ![c] = Target(c)]
    /\ frame' = [frame EXCEPT ![c] = FALSE]
    /\ UNCHANGED <<queryVars, reduce, lost>>

\* usePrefersReducedMotion: the preference of the system changes.
SwitchMotion ==
    /\ reduce' = ~reduce
    /\ UNCHANGED queryVars
    /\ Restart

------------------------------------------------------------------------------
(* The queries *)

Retarget ==
    /\ UNCHANGED <<server, reduce>>
    /\ Restart

\* apisQuery: a new list is a new key of the endpoint count.
ListArrives ==
    /\ list' = server
    /\ UNCHANGED <<count, metrics>>
    /\ Retarget

\* metricsQuery: the summary of the last day.
MetricsArrive ==
    /\ metrics' \in Summaries
    /\ UNCHANGED <<list, count>>
    /\ Retarget

\* endpointCountQuery of the list that is shown: an API whose request failed
\* counts 0.
CountArrives ==
    /\ list \notin NoData
    /\ \E answered \in SUBSET list :
          count' = [count EXCEPT ![list] =
                      MapThenSumSet(LAMBDA a : EndpointsOf[a], answered)]
    /\ UNCHANGED <<list, metrics>>
    /\ Retarget

\* A query that has no data fails.  One that has data keeps it; the count of
\* endpoints does not fail.
QueryFails ==
    /\ \/ list = None /\ list' = Failed /\ UNCHANGED metrics
       \/ metrics = None /\ metrics' = Failed /\ UNCHANGED list
    /\ UNCHANGED count
    /\ Retarget

\* It is asked again.
QueryRetries ==
    /\ \/ list = Failed /\ list' = None /\ UNCHANGED metrics
       \/ metrics = Failed /\ metrics' = None /\ UNCHANGED list
    /\ UNCHANGED count
    /\ Retarget

\* APIs are added and removed.
Change ==
    /\ server' \in SUBSET Apis
    /\ UNCHANGED <<list, count, metrics, reduce, counterVars>>

\* The page is left and opened again, with what is cached: the counters start at
\* their targets.
Reopen ==
    /\ value' = targets /\ start' = targets /\ current' = targets
    /\ frame' = [c \in Counters |-> ~reduce /\ Target(c) # 0]
    /\ lost' = [c \in Counters |-> FALSE]
    /\ UNCHANGED <<queryVars, reduce>>

Next ==
    \/ \E c \in Counters : Frame(c) \/ LastFrame(c)
    \/ SwitchMotion
    \/ ListArrives \/ CountArrives \/ MetricsArrive
    \/ QueryFails \/ QueryRetries
    \/ Change \/ Reopen

Spec == Init /\ [][Next]_vars

------------------------------------------------------------------------------

\* The skeleton in place of the page; and the number on a card.
Loading ==
    \/ metrics = None \/ list = None
    \/ list # Failed /\ count[list] = None

Shown(c) == IF reduce THEN Target(c) ELSE value[c]

\* liveStatus, of an error rate and a latency.
Health(errors, latency) ==
    IF errors > 4 \/ latency > 14 THEN "Degraded"
    ELSE IF errors > 2 \/ latency > 9 THEN "Warning" ELSE "Healthy"

\* The badge is no counter: it shows what the metrics say at once.
Badge == IF metrics \in NoData THEN Health(0, 0)
         ELSE Health(metrics.errors, metrics.latency)

AtRest(c) == c \in Counters /\ ~frame[c] /\ ~lost[c]

\* A counter at rest shows its target, however targets follow one another, unless
\* the target went back to where the interrupted animation had begun, or motion was
\* reduced before (the early return of the effect in useCountUp).  The badge then
\* is that of the error rate and the latency on the cards.
CountSettles ==
    ~Loading =>
        /\ \A c \in Counters : AtRest(c) => Shown(c) = Target(c)
        /\ AtRest("errors") /\ AtRest("latency")
             => Badge = Health(Shown("errors"), Shown("latency"))

==============================================================================
