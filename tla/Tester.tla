--------------------------------- MODULE Tester --------------------------------
(***************************************************************************)
(* The API tester (testing/page.tsx): a form for one request, its header   *)
(* rows, the collections the form is filled from, the requests that were   *)
(* sent and the response of the last.                                      *)
(*                                                                         *)
(* The form is filled, in this order, from the page's own defaults, from   *)
(* the link that led to the page and from what was saved in the browser.   *)
(* Body, body mode and token are left out; of a header row there is its    *)
(* id, under which it is rendered, changed and removed.                    *)
(***************************************************************************)
EXTENDS Naturals, Sequences, FiniteSets, SequencesExt

CONSTANTS
    Urls,          \* urls to type, besides the empty one
    Collections,   \* the domains, in order: a sequence
    HistorySize,   \* how many requests the history keeps: 8
    None,
    MaxSends,      \* bound: how many requests are sent
    MaxRows,       \* bound: how many header rows get an id of this page
    MaxSteps       \* bound: changes of the form, toggles, saves and openings

VARIABLES
    form,        \* url, method and protocol
    rows,        \* headerRows: the ids of the header rows, in order
    counter,     \* headerIdCounter
    session,     \* sessionStorage: a form, or None
    local,       \* localStorage, as an older version left it, or None
    expanded,    \* expandedCollections: a function on those that were toggled
    sending,     \* isSending
    flight,      \* the requests of this page that are running
    response,    \* the request the response shown is of, or 0
    history,     \* requestHistory
    sent,        \* history variable: all that this page sent, oldest first
    steps

formVars == <<form, expanded, steps>>
rowVars == <<rows, counter>>
storageVars == <<session, local>>
sendVars == <<sending, flight, response, history, sent>>
vars == <<formVars, rowVars, storageVars, sendVars>>

Blank == "blank"
Methods == {"GET", "POST"}
Protocols == {"http", "graphql", "websocket"}

Form == [url : Urls \union {Blank}, method : Methods, protocol : Protocols]

Default == [url |-> Blank, method |-> "GET", protocol |-> "http"]

\* "Test Request" of the endpoint table: a link with url, method and protocol.
Link == [url : Urls, method : Methods, protocol : {"http"}]

\* What an older version saved: a form, and rows with the ids it gave them; a row
\* that names a secret is not taken over.
Legacy ==
    [form : {Default},
     rows : {<<[id |-> 0, secret |-> FALSE], [id |-> 1, secret |-> FALSE]>>,
             <<[id |-> 2, secret |-> FALSE], [id |-> 1, secret |-> TRUE]>>,
             <<[id |-> 0, secret |-> TRUE]>>}]

\* filter: the elements of s at the positions in I, in their order.
Rank(I, i) == Cardinality({j \in I : j <= i})

Filtered(s, I) ==
    [k \in 1..Cardinality(I) |-> s[CHOOSE i \in I : Rank(I, i) = k]]

\* sanitizeHeaderRows.
Sanitized(rs) ==
    Filtered([i \in DOMAIN rs |-> rs[i].id], {i \in DOMAIN rs : ~rs[i].secret})

------------------------------------------------------------------------------
(* Opening the page *)

\* The form over which a saved one is laid: an empty url is not taken over.
Restored(f, saved) ==
    [saved EXCEPT !.url = IF saved.url = Blank THEN f.url ELSE saved.url]

\* Slip: the rows are taken over and the counter is not.
RestoreRowsOnly(rs) ==
    /\ rows' = IF rs = << >> THEN <<0>> ELSE rs
    /\ counter' = 1

\* The restored rows, with the counter above their ids.
RestoreRows(rs) ==
    IF rs = << >>
    THEN rows' = <<0>> /\ counter' = 1
    ELSE /\ rows' = rs
         /\ counter' = 1 + CHOOSE m \in ToSet(rs) : \A i \in ToSet(rs) : i <= m

\* A fresh page, from a link or without.  getStoredTesterState prefers the session;
\* what an older version left is read once.
Mount(link) ==
    LET linked == IF link = None THEN Default ELSE link
    IN  /\ IF session # None
           THEN /\ form' = Restored(linked, session)
                /\ RestoreRows(<< >>)
                /\ UNCHANGED local
           ELSE IF local # None
           THEN /\ form' = Restored(linked, local.form)
                /\ RestoreRows(Sanitized(local.rows))
                /\ local' = None
           ELSE /\ form' = linked
                /\ RestoreRows(<< >>)
                /\ UNCHANGED local
        /\ expanded' = << >>
        /\ sending' = FALSE /\ flight' = {} /\ response' = 0
        /\ history' = << >> /\ sent' = << >>
        /\ UNCHANGED session

Init ==
    /\ form = Default
    /\ rows = <<0>> /\ counter = 1
    /\ session = None
    /\ local \in Legacy \union {None}
    /\ expanded = << >>
    /\ sending = FALSE /\ flight = {} /\ response = 0
    /\ history = << >> /\ sent = << >>
    /\ steps = 0

Step == steps < MaxSteps /\ steps' = steps + 1

Open ==
    /\ Step
    /\ \E link \in Link \union {None} : Mount(link)

------------------------------------------------------------------------------
(* The form *)

SetForm(f) ==
    /\ Step
    /\ form' = f
    /\ UNCHANGED <<expanded, rowVars, storageVars, sendVars>>

\* The protocol select: GraphQL sets the method.
ChooseProtocol(p) ==
    SetForm([form EXCEPT !.protocol = p,
                         !.method = IF p = "graphql" THEN "POST" ELSE @])

\* The method select, disabled for a websocket.
ChooseMethod(m) ==
    /\ form.protocol # "websocket"
    /\ SetForm([form EXCEPT !.method = m])

TypeUrl(u) == SetForm([form EXCEPT !.url = u])

\* The collections that are open: the first, until one was toggled.
Effective ==
    IF DOMAIN expanded # {} THEN {c \in DOMAIN expanded : expanded[c]}
    ELSE IF Collections = << >> THEN {} ELSE {Head(Collections)}

\* toggleCollection goes by what was toggled, not by what is shown.
ToggleCollection(c) ==
    /\ Step
    /\ expanded' = [d \in DOMAIN expanded \union {c} |->
                      IF d # c THEN expanded[d]
                      ELSE IF c \in DOMAIN expanded THEN ~expanded[c] ELSE TRUE]
    /\ UNCHANGED <<form, rowVars, storageVars, sendVars>>

\* selectEndpoint, in a collection that is open.
SelectEndpoint(c, u, m) ==
    /\ c \in Effective
    /\ SetForm([url |-> u, method |-> m, protocol |-> "http"])

\* handleSaveState: header rows are not saved.
SaveState ==
    /\ Step
    /\ session' = form
    /\ local' = None
    /\ UNCHANGED <<form, expanded, rowVars, sendVars>>

------------------------------------------------------------------------------
(* Header rows *)

\* The rows of the headers tab, each with its own remove button.
Rendered == ToSet(rows)

\* addHeaderRow.
AddHeaderRow ==
    /\ counter < MaxRows
    /\ rows' = Append(rows, counter)
    /\ counter' = counter + 1
    /\ UNCHANGED <<formVars, storageVars, sendVars>>

\* removeHeaderRow: there is always one.
RemoveHeaderRow(id) ==
    LET rest == {i \in DOMAIN rows : rows[i] # id}
    IN  /\ rest = {} => counter < MaxRows
        /\ IF rest = {}
           THEN rows' = <<counter>> /\ counter' = counter + 1
           ELSE rows' = Filtered(rows, rest) /\ UNCHANGED counter
        /\ UNCHANGED <<formVars, storageVars, sendVars>>

------------------------------------------------------------------------------
(* Sending *)

SamePair(h, f) == h.url = f.url /\ h.method = f.method

\* Slip: the pair stays where it was in the history.
RememberInPlace(f) ==
    history' = IF \E i \in DOMAIN history : SamePair(history[i], f)
               THEN [i \in DOMAIN history |->
                       IF SamePair(history[i], f) THEN f ELSE history[i]]
               ELSE SubSeq(<<f>> \o history, 1,
                           IF Len(history) < HistorySize THEN Len(history) + 1
                           ELSE HistorySize)

\* The request goes to the front, an older one of the same url and method out.
Remember(f) ==
    LET others == Filtered(history, {i \in DOMAIN history : ~SamePair(history[i], f)})
    IN  history' = SubSeq(<<f>> \o others, 1,
                          IF Len(others) < HistorySize THEN Len(others) + 1
                          ELSE HistorySize)

\* handleSend, to its await; the Send button is disabled while a request runs.
Send ==
    /\ ~sending
    /\ Len(sent) < MaxSends
    /\ sending' = TRUE
    /\ response' = 0
    /\ Remember(form)
    /\ sent' = Append(sent, form)
    /\ flight' = flight \union {Len(sent) + 1}
    /\ UNCHANGED <<formVars, rowVars, storageVars>>

\* handleSend, from its await: a result or an error is a response.
Respond(n) ==
    /\ n \in flight
    /\ response' = n
    /\ sending' = FALSE
    /\ flight' = flight \ {n}
    /\ UNCHANGED <<formVars, rowVars, storageVars, history, sent>>

\* The response panel, in place of "Ready to Send Response".
ResponseShown == response # 0

\* The history menu.
Recall(i) ==
    /\ i \in DOMAIN history
    /\ SetForm(history[i])

------------------------------------------------------------------------------

Next ==
    \/ Open
    \/ \E p \in Protocols : ChooseProtocol(p)
    \/ \E m \in Methods : ChooseMethod(m)
    \/ \E u \in Urls \union {Blank} : TypeUrl(u)
    \/ \E c \in ToSet(Collections) :
          \/ ToggleCollection(c)
          \/ \E u \in Urls, m \in Methods : SelectEndpoint(c, u, m)
    \/ SaveState
    \/ AddHeaderRow
    \/ \E id \in Rendered : RemoveHeaderRow(id)
    \/ Send
    \/ \E n \in 1..MaxSends : Respond(n)
    \/ \E i \in 1..HistorySize : Recall(i)

Spec == Init /\ [][Next]_vars

------------------------------------------------------------------------------
(* Properties *)

\* No two header rows have one id, also when rows of an older version were taken
\* over: a change or a removal is of one row (headerIdCounter in the restore effect).
RowIdsUnique == IsInjective(rows)

\* The history is what a reader of all the requests would make of them: the last
\* HistorySize pairs of url and method, each once and as it was sent last, newest
\* first (setRequestHistory, which sees the shortened list only); and a response
\* that is shown is to the request at its top (setResponse before the await).
HistoryIsRecent ==
    LET last == {i \in DOMAIN sent :
                   ~\E j \in (i + 1)..Len(sent) : SamePair(sent[i], sent[j])}
        rank(i) == Cardinality({j \in last : j >= i})
        kept == {i \in last : rank(i) <= HistorySize}
    IN  /\ Len(history) = Cardinality(kept)
        /\ \A i \in kept : history[rank(i)] = sent[i]
        /\ ResponseShown => history[1] = sent[response]

==============================================================================
