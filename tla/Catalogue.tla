------------------------------- MODULE Catalogue -------------------------------
(***************************************************************************)
(* The pages that show and change APIs and endpoints: the domain list      *)
(* (apis/page.tsx), the endpoints of a domain (apis/[domainId]/page.tsx),  *)
(* and the collections of the tester, which only read.  They share one     *)
(* React Query cache (lib/query-provider.tsx).                             *)
(*                                                                         *)
(* An entry is served from the cache while it is fresh.  A page that       *)
(* changes something invalidates its own key, and no other.  A fetch is    *)
(* answered by the server at one moment, the tester's request by request,  *)
(* and arrives at a later one; an operation likewise.  An API or an        *)
(* endpoint is a number, its version; 0 is one that does not exist.        *)
(***************************************************************************)
EXTENDS Naturals

CONSTANTS
    Apis,        \* the APIs there may be
    Endpoints,   \* the endpoints there may be
    ApiOf,       \* ApiOf[e]: the API endpoint e belongs to
    Tabs,        \* the pages the user opens: "apis", "testing", "other" (a page
                 \* without these queries), members of Apis
    None,
    MaxOps       \* bound: how many operations the user starts, and opens dialogs for

Items == Apis \union Endpoints
Versions == 0..2
Slots == 1..MaxOps

(* Query keys *)
ApisDomains == [query |-> "apis-domains", id |-> None]
TestingDomains == [query |-> "testing-domains", id |-> None]
ApiDomain(a) == [query |-> "api-domain", id |-> a]
ApiDomainEndpoints(a) == [query |-> "api-domain-endpoints", id |-> a]

VARIABLES
    server,     \* server[i]: the version of item i
    tab,        \* the page that is open
    data,       \* data[k]: what the cache holds for k, or None
    fetch,      \* fetch[k]: idle, sent, reading (answered in part), answered
    answer,     \* answer[k]: what the server answered so far, or None
    invalid,    \* keys marked invalid
    dialog,     \* none, form (add or edit), delete, import
    target,     \* the item the dialog is about, or None
    uploading,  \* uploadingOpenApi
    op,         \* op[n]: the n-th operation
    used,       \* how many operations were started
    elsewhere   \* history: keys whose data an operation changed unseen

cacheVars == <<data, fetch, answer, invalid>>
uiVars == <<tab, dialog, target, uploading>>
opVars == <<op, used>>
vars == <<server, cacheVars, uiVars, opVars, elsewhere>>

\* The queries of a page.
KeysOf(p) ==
    CASE p = "apis" -> {ApisDomains}
      [] p = "testing" -> {TestingDomains}
      [] p = "other" -> {}
      [] OTHER -> {ApiDomain(p), ApiDomainEndpoints(p)}

Keys == UNION {KeysOf(p) : p \in Tabs}

\* What a query is about; the endpoint counts of the list are left out, they
\* are 0 when their request fails.
Scope(k) ==
    CASE k.query = "apis-domains" -> Apis
      [] k.query = "testing-domains" -> Items
      [] k.query = "api-domain" -> {k.id}
      [] OTHER -> {e \in Endpoints : ApiOf[e] = k.id}

Read(k) == [i \in Scope(k) |-> server[i]]

\* The keys that an operation invalidates; a domain's own entry and the tester's
\* collections only age.
OwnKeys == {k \in Keys : k.query \in {"apis-domains", "api-domain-endpoints"}}

NoOp == [kind |-> "none", item |-> None, version |-> 0, key |-> None,
         stage |-> "over", here |-> FALSE]

Init ==
    /\ server \in [Items -> {0, 1}]
    /\ \A e \in Endpoints : server[e] = 0 \/ server[ApiOf[e]] # 0
    /\ tab \in Tabs
    /\ data = [k \in Keys |-> None]
    /\ fetch = [k \in Keys |-> IF k \in KeysOf(tab) THEN "sent" ELSE "idle"]
    /\ answer = [k \in Keys |-> None]
    /\ invalid = {}
    /\ dialog = "none" /\ target = None /\ uploading = FALSE
    /\ op = [n \in Slots |-> NoOp]
    /\ used = 0
    /\ elsewhere = {}

------------------------------------------------------------------------------
(* The cache: @tanstack/react-query as the pages configure and call it *)

\* Opening a page fetches what is missing or invalid, and what is older than
\* the staleTime of two minutes, which may be any of its entries.
Open(p) ==
    \E aged \in SUBSET KeysOf(p) :
        LET wanted == {k \in KeysOf(p) :
                         /\ fetch[k] = "idle"
                         /\ data[k] = None \/ k \in invalid \union aged}
        IN  /\ p # tab
            /\ tab' = p
            /\ dialog' = "none" /\ target' = None /\ uploading' = FALSE
            /\ fetch' = [k \in Keys |->
                           IF k \in wanted THEN "sent" ELSE fetch[k]]
            /\ op' = [n \in Slots |-> [op[n] EXCEPT !.here = FALSE]]
            /\ UNCHANGED <<server, data, answer, invalid, used, elsewhere>>

\* What a query function has got so far; it is done when it has all of its scope.
Receive(k, part) ==
    /\ answer' = [answer EXCEPT ![k] = part]
    /\ fetch' = [fetch EXCEPT ![k] = IF DOMAIN part = Scope(k) THEN "answered"
                                     ELSE "reading"]
    /\ UNCHANGED <<server, data, invalid, uiVars, opVars>>

\* The server answers the first request of a query function, for most the only one.
\* The tester asks for the endpoints of each API it was given afterwards.
Answer(k) ==
    /\ fetch[k] = "sent"
    /\ LET asked == {i \in Scope(k) : /\ k.query = "testing-domains"
                                      /\ i \in Endpoints /\ server[ApiOf[i]] # 0}
       IN  Receive(k, [i \in Scope(k) \ asked |-> server[i]])
    /\ elsewhere' = elsewhere \ {k}

\* The answer to the tester's request for the endpoints of API a; an error makes an
\* API without endpoints, and the query goes on.
AnswerEndpoints(a) ==
    LET k == TestingDomains
        mine == {e \in Endpoints : ApiOf[e] = a} \ DOMAIN answer[k]
    IN  /\ k \in Keys
        /\ fetch[k] = "reading"
        /\ mine # {}
        /\ \E failed \in BOOLEAN :
              Receive(k, [i \in DOMAIN answer[k] \union mine |->
                            IF i \notin mine THEN answer[k][i]
                            ELSE IF failed THEN 0 ELSE server[i]])
        /\ UNCHANGED elsewhere

IsImport(o) == o.kind \in {"import", "sync"}

\* The handlers in R, which awaited a refetch, run their last lines: the dialog
\* of their kind that is open by now closes.  Those in W begin to await one; an
\* import closes its dialog before.
Proceed(R, W) ==
    LET here == {op[n].kind : n \in {m \in R : op[m].here}}
        closes == \/ dialog = "form" /\ here \intersect {"create", "edit"} # {}
                  \/ dialog = "delete" /\ "delete" \in here
                  \/ dialog = "import" /\ \E n \in W : IsImport(op[n]) /\ op[n].here
    IN  /\ op' = [n \in Slots |->
                    IF n \in R THEN NoOp
                    ELSE IF n \in W THEN [op[n] EXCEPT !.stage = "refetching"]
                    ELSE op[n]]
        /\ dialog' = IF closes THEN "none" ELSE dialog
        /\ target' = IF closes THEN None ELSE target
        /\ uploading' = (uploading /\ here \intersect {"import", "sync"} = {})

Awaiting(k) == {n \in Slots : op[n].stage = "refetching" /\ op[n].key = k}

Arrive(k) ==
    /\ fetch[k] = "answered"
    /\ data' = [data EXCEPT ![k] = answer[k]]
    /\ fetch' = [fetch EXCEPT ![k] = "idle"]
    /\ answer' = [answer EXCEPT ![k] = None]
    /\ invalid' = invalid \ {k}
    /\ Proceed(Awaiting(k), {})
    /\ UNCHANGED <<server, tab, used, elsewhere>>

\* The retries of the first request are exhausted: the data, if any, stays, but is
\* not fresh.
FetchFails(k) ==
    /\ fetch[k] = "sent"
    /\ fetch' = [fetch EXCEPT ![k] = "idle"]
    /\ answer' = [answer EXCEPT ![k] = None]
    /\ invalid' = invalid \union {k}
    /\ Proceed(Awaiting(k), {})
    /\ UNCHANGED <<server, data, tab, used, elsewhere>>

\* Slip: a fetch in flight is taken for the refetch.
InvalidateJoining(k) ==
    /\ invalid' = invalid \union {k}
    /\ IF k \in KeysOf(tab) /\ fetch[k] = "idle"
       THEN fetch' = [fetch EXCEPT ![k] = "sent"]
       ELSE UNCHANGED fetch
    /\ UNCHANGED <<data, answer>>

\* invalidateQueries: a mounted query with data starts over, whatever it was
\* doing; one without data keeps the fetch it has; others are only marked.
Invalidate(k) ==
    /\ invalid' = invalid \union {k}
    /\ IF k \in KeysOf(tab) /\ (data[k] # None \/ fetch[k] = "idle")
       THEN /\ fetch' = [fetch EXCEPT ![k] = "sent"]
            /\ answer' = [answer EXCEPT ![k] = None]
       ELSE UNCHANGED <<fetch, answer>>
    /\ UNCHANGED data

------------------------------------------------------------------------------
(* What the user does *)

\* isLoading of a page's queries: only a skeleton is shown.
Loading == \E k \in KeysOf(tab) : data[k] = None /\ fetch[k] # "idle"

\* The rows of the page: domains of the list, endpoints of a domain.
Rows ==
    LET k == IF tab = "apis" THEN ApisDomains ELSE ApiDomainEndpoints(tab)
    IN  IF data[k] = None THEN {} ELSE {i \in DOMAIN data[k] : data[k][i] # 0}

\* A page with its table; a domain that was not found has none.
Shown ==
    /\ tab \notin {"testing", "other"}
    /\ ~Loading
    /\ tab \in Apis =>
          /\ data[ApiDomain(tab)] # None
          /\ data[ApiDomain(tab)][tab] # 0

OwnKey == IF tab = "apis" THEN ApisDomains ELSE ApiDomainEndpoints(tab)

\* openAddDomain, openEditDomain, openAddEndpoint, openEditEndpoint.
OpenForm(i) ==
    /\ Shown /\ dialog = "none" /\ used < MaxOps
    /\ i \in Rows \union {None}
    /\ dialog' = "form" /\ target' = i
    /\ UNCHANGED <<server, cacheVars, tab, uploading, opVars, elsewhere>>

\* handleDeleteDomain; endpoints have no such dialog.
OpenDelete(a) ==
    /\ Shown /\ dialog = "none" /\ used < MaxOps
    /\ tab = "apis" /\ a \in Rows
    /\ dialog' = "delete" /\ target' = a
    /\ UNCHANGED <<server, cacheVars, tab, uploading, opVars, elsewhere>>

\* openOpenApiImport, with the target chosen in the dialog.
OpenImport(a) ==
    /\ Shown /\ dialog = "none" /\ used < MaxOps
    /\ tab = "apis" /\ a \in Rows \union {None}
    /\ dialog' = "import" /\ target' = a
    /\ UNCHANGED <<server, cacheVars, tab, uploading, opVars, elsewhere>>

Cancel ==
    /\ dialog # "none" /\ ~Loading
    /\ dialog' = "none" /\ target' = None
    /\ UNCHANGED <<server, cacheVars, tab, uploading, opVars, elsewhere>>

\* An operation is sent; its closure keeps the item and the page's key.
Start(kind, i, v) ==
    /\ used < MaxOps
    /\ used' = used + 1
    /\ op' = [op EXCEPT ![used + 1] =
                [kind |-> kind, item |-> i, version |-> v, key |-> OwnKey,
                 stage |-> "sent", here |-> TRUE]]
    /\ UNCHANGED <<server, cacheVars, tab, dialog, target, elsewhere>>

\* The ids the server may give to something new on this page.
Unborn ==
    {i \in IF tab = "apis" THEN Apis ELSE Scope(ApiDomainEndpoints(tab)) :
        server[i] = 0 /\ \A n \in Slots : op[n].item # i}

\* The three dialogs, on the page that is not just a skeleton; the button of the
\* import is disabled while one runs, the others are always enabled.
FormShown == dialog = "form" /\ ~Loading
DeleteShown == dialog = "delete" /\ ~Loading
ImportShown == dialog = "import" /\ ~Loading

\* handleSaveDomain, handleSaveEndpoint: the dialog stays open and its button
\* enabled while the request runs.
Save ==
    /\ FormShown
    /\ UNCHANGED uploading
    /\ \/ target = None /\ \E i \in Unborn : Start("create", i, 1)
       \/ target # None /\ \E v \in Versions \ {0} : Start("edit", target, v)

\* confirmDeleteDomain.
ConfirmDelete ==
    /\ DeleteShown
    /\ UNCHANGED uploading
    /\ Start("delete", target, 0)

\* handleImportOpenApi: a new domain, or new endpoints for an existing one.
Import ==
    /\ ImportShown
    /\ ~uploading
    /\ uploading' = TRUE
    /\ \/ target = None /\ \E a \in Unborn : Start("import", a, 1)
       \/ target # None /\ Start("sync", target, 1)

\* handleDeleteEndpoint and handleSetTrackingState, from the row's menu.
RowAction ==
    /\ Shown /\ dialog = "none" /\ tab \in Apis
    /\ UNCHANGED uploading
    /\ \E e \in Rows :
          \/ Start("delete", e, 0)
          \/ Start("track", e, 3 - data[ApiDomainEndpoints(tab)][e])

------------------------------------------------------------------------------
(* The operations *)

\* An endpoint goes with its API, and comes with an import into it.
Affected(o) ==
    {i \in Items : \/ i = o.item
                   \/ /\ i \in Endpoints /\ ApiOf[i] = o.item
                      /\ o.kind = "delete" \/ IsImport(o)}

\* What the control plane makes of operation o.
Applied(o) ==
    [i \in Items |-> IF i \notin Affected(o) THEN server[i]
                     ELSE IF IsImport(o) /\ server[i] # 0 THEN server[i]
                     ELSE o.version]

\* What an operation is about is there; something new needs its API only.
Possible(o) ==
    IF o.kind \in {"create", "import"}
    THEN o.item \in Endpoints => server[ApiOf[o.item]] # 0
    ELSE server[o.item] # 0

\* Keys of a page's own that have data, or will have some that was read already.
Held == {k \in OwnKeys : data[k] # None \/ fetch[k] = "answered"}

Execute(n) ==
    /\ op[n].stage = "sent"
    /\ Possible(op[n])
    /\ server' = Applied(op[n])
    /\ op' = [op EXCEPT ![n].stage = "done"]
    /\ elsewhere' = elsewhere \union
          {k \in Held \ {op[n].key} :
              \E i \in Scope(k) : server'[i] # server[i]}
    /\ UNCHANGED <<cacheVars, uiVars, used>>

\* The answer arrives: the page's key is invalidated and its refetch awaited,
\* unless the page is gone.  Who awaits a refetch that is started over goes on.  A
\* fetch that is not started over, but was read before, makes the key valid again.
Succeed(n) ==
    LET k == op[n].key
        open == k \in KeysOf(tab)
    IN  /\ op[n].stage = "done"
        /\ Invalidate(k)
        /\ Proceed(IF ~open THEN {n} ELSE IF data[k] = None THEN {} ELSE Awaiting(k),
                   IF open THEN {n} ELSE {})
        /\ elsewhere' = IF (~open \/ data[k] = None) /\ fetch[k] = "answered"
                        THEN elsewhere \union {k} ELSE elsewhere
        /\ UNCHANGED <<server, tab, used>>

\* An error, or an answer that is lost: a toast, and nothing is invalidated.
Fail(n) ==
    /\ op[n].stage \in {"sent", "done"}
    /\ op' = [op EXCEPT ![n] = NoOp]
    /\ uploading' = (uploading /\ ~(op[n].here /\ IsImport(op[n])))
    /\ elsewhere' = IF op[n].stage = "done"
                    THEN elsewhere \union ({op[n].key} \intersect Held)
                    ELSE elsewhere
    /\ UNCHANGED <<server, cacheVars, tab, dialog, target, used>>

------------------------------------------------------------------------------

Next ==
    \/ \E p \in Tabs : Open(p)
    \/ \E k \in Keys : Answer(k) \/ Arrive(k) \/ FetchFails(k)
    \/ \E a \in Apis : AnswerEndpoints(a)
    \/ \E i \in Items \union {None} : OpenForm(i)
    \/ \E a \in Apis \union {None} : OpenDelete(a) \/ OpenImport(a)
    \/ Cancel \/ Save \/ ConfirmDelete \/ Import \/ RowAction
    \/ \E n \in Slots : Execute(n) \/ Succeed(n) \/ Fail(n)

Spec == Init /\ [][Next]_vars

------------------------------------------------------------------------------
(* Properties *)

\* Every variable has its type.
TypeOK ==
    /\ server \in [Items -> Versions]
    /\ tab \in Tabs
    /\ \A k \in Keys :
          /\ data[k] = None \/ DOMAIN data[k] = Scope(k)
          /\ (fetch[k] \in {"reading", "answered"}) <=> (answer[k] # None)
    /\ fetch \in [Keys -> {"idle", "sent", "reading", "answered"}]
    /\ invalid \subseteq Keys
    /\ elsewhere \subseteq OwnKeys
    /\ dialog \in {"none", "form", "delete", "import"}
    /\ target \in Items \union {None}
    /\ uploading \in BOOLEAN
    /\ used \in 0..MaxOps

\* A page shows what its own operations did: once their answers are in and no
\* refetch runs, the entry of the key they invalidate equals the server's
\* state, in whatever order fetches and operations overlap
\* (invalidateQueries after every change in both pages).  Nothing is said of
\* the keys that no operation invalidates.
ShowsOwnWrites ==
    \A k \in OwnKeys \ (invalid \union elsewhere) :
        /\ data[k] # None
        /\ fetch[k] = "idle"
        /\ \A n \in Slots : op[n].key = k => op[n].stage \notin {"sent", "done"}
        => data[k] = Read(k)

==============================================================================
