-------------------------------- MODULE Console --------------------------------
(***************************************************************************)
(* What the user of the console does, and what the control plane and the   *)
(* ingest service make of it: the ingest key, the alerts, the tester, the  *)
(* pages of APIs and endpoints, the pages of the account, the dashboard,   *)
(* and the frame around all of them.                                       *)
(*                                                                         *)
(* The modules share no state; a behaviour is one of part, and the         *)
(* variables of the others are 0.  Some parts look at the same module with *)
(* other pages, items or data: PagesOf, ItemsOf and the bounds of the      *)
(* dashboard say which.                                                    *)
(***************************************************************************)
EXTENDS IngestKey

CONSTANTS
    MaxAlerts, MaxStarts,                        \* AlertSubscriber
    Urls, Collections, HistorySize,              \* Tester
    MaxSends, MaxRows, MaxSteps,
    Apis, Endpoints, ApiOf, MaxOps,              \* Catalogue, and Frame
    Members, MaxRequests,                        \* Account
    Counted, EndpointsOf, Summaries, Quiet, Failed,  \* Dashboard
    Texts, MaxBack, MaxRenames                   \* Frame

ASSUME ConsoleAssumption ==
    /\ HistorySize \in Nat \ {0} /\ MaxRequests \in Nat
    /\ Members \intersect {"profile", "org"} = {}

VARIABLES
    part,
    log, committed, thread, position, table, starts, dropped, unseen,
    form, rows, counter, session, local, expanded, sending, flight, response,
    history, sent, steps,
    server, tab, data, fetch, answer, invalid, dialog, target, uploading, op, used,
    elsewhere,
    stored, acTab, acData, acFetch, acAnswer, acInvalid, acShown, busy, acOp,
    acUsed, doubtful,
    apis, list, count, metrics, reduce, value, start, counting, frame, lost,
    path, been, collapsed, grown, sheet, text, theme, names, identity, asked

alertVars == <<log, committed, thread, position, table, starts, dropped, unseen>>
testerVars == <<form, rows, counter, session, local, expanded, sending, flight,
                response, history, sent, steps>>
catalogueVars == <<server, tab, data, fetch, answer, invalid, dialog, target,
                   uploading, op, used, elsewhere>>
accountVars == <<stored, acTab, acData, acFetch, acAnswer, acInvalid, acShown, busy,
                 acOp, acUsed, doubtful>>
boardVars == <<apis, list, count, metrics, reduce, value, start, counting, frame,
               lost>>
frameVars == <<path, been, collapsed, grown, sheet, text, theme, names, identity,
               asked>>

Alerts == INSTANCE AlertSubscriber

Tester == INSTANCE Tester

Catalogue == INSTANCE Catalogue WITH
    Tabs <- Apis \union {"apis", "testing", "other"}

Account == INSTANCE Account WITH
    Profile <- "profile", Org <- "org", Forms <- {"profile", "org"},
    Tabs <- {"settings", "profile", "other"}, MaxOps <- MaxRequests,
    server <- stored, tab <- acTab, data <- acData, fetch <- acFetch,
    answer <- acAnswer, invalid <- acInvalid, shown <- acShown, op <- acOp,
    used <- acUsed

Dashboard == INSTANCE Dashboard WITH
    Apis <- Counted, Counters <- {"apis", "endpoints", "errors", "latency"},
    server <- apis, current <- counting

Frame == INSTANCE Frame WITH Domains <- Apis

(* The domain list with the tester's collections, and a domain's page; the *)
(* members and the organisation, and the profile on both pages.            *)
PagesOf ==
    [domains |-> {"apis", "testing", "other"}, domain |-> Apis \union {"other"},
     team |-> {"settings", "other"}, person |-> {"settings", "profile"}]

ItemsOf == [team |-> Members \union {"org"}, person |-> {"profile"}]

AlertRests ==
    /\ log = 0 /\ committed = 0 /\ thread = 0 /\ position = 0 /\ table = 0
    /\ starts = 0 /\ dropped = 0 /\ unseen = 0

TesterRests ==
    /\ form = 0 /\ rows = 0 /\ counter = 0 /\ session = 0 /\ local = 0
    /\ expanded = 0 /\ sending = 0 /\ flight = 0 /\ response = 0 /\ history = 0
    /\ sent = 0 /\ steps = 0

CatalogueRests ==
    /\ server = 0 /\ tab = 0 /\ data = 0 /\ fetch = 0 /\ answer = 0
    /\ invalid = 0 /\ dialog = 0 /\ target = 0 /\ uploading = 0 /\ op = 0
    /\ used = 0 /\ elsewhere = 0

AccountRests ==
    /\ stored = 0 /\ acTab = 0 /\ acData = 0 /\ acFetch = 0 /\ acAnswer = 0
    /\ acInvalid = 0 /\ acShown = 0 /\ busy = 0 /\ acOp = 0 /\ acUsed = 0
    /\ doubtful = 0

BoardRests ==
    /\ apis = 0 /\ list = 0 /\ count = 0 /\ metrics = 0 /\ reduce = 0
    /\ value = 0 /\ start = 0 /\ counting = 0 /\ frame = 0 /\ lost = 0

FrameRests ==
    /\ path = 0 /\ been = 0 /\ collapsed = 0 /\ grown = 0 /\ sheet = 0
    /\ text = 0 /\ theme = 0 /\ names = 0 /\ identity = 0 /\ asked = 0

ConsoleInit ==
    /\ part \in {"key", "alerts", "tester", "domains", "domain", "team", "person",
                 "counts", "health", "frame"}
    /\ Init
    /\ IF part = "alerts" THEN Alerts!Init ELSE AlertRests
    /\ IF part = "tester" THEN Tester!Init ELSE TesterRests
    /\ IF part \in {"domains", "domain"}
       THEN Catalogue!Init /\ tab \in PagesOf[part]
       ELSE CatalogueRests
    /\ IF part \in {"team", "person"} THEN Account!Init ELSE AccountRests
    /\ IF part \in {"counts", "health"} THEN Dashboard!Init ELSE BoardRests
    /\ part = "health" => apis = {}
    /\ IF part = "frame" THEN Frame!Init ELSE FrameRests

(* A step of each part, within its bounds.  On the part domains the user   *)
(* does one thing at most once the tester was opened, on the part counts   *)
(* the metrics are quiet and arrive first, on health there are no APIs.    *)
KeyStep ==
    /\ part = "key" /\ Next
    /\ UNCHANGED <<alertVars, testerVars, catalogueVars, accountVars, boardVars,
                   frameVars>>

AlertStep ==
    /\ part = "alerts" /\ Alerts!Next
    /\ UNCHANGED <<vars, testerVars, catalogueVars, accountVars, boardVars, frameVars>>

TesterStep ==
    /\ part = "tester" /\ Tester!Next
    /\ UNCHANGED <<vars, alertVars, catalogueVars, accountVars, boardVars, frameVars>>

CatalogueStep ==
    /\ part \in {"domains", "domain"} /\ Catalogue!Next
    /\ tab' \in PagesOf[part]
    /\ part = "domains" /\ used' > 1 =>
          /\ data'[Catalogue!TestingDomains] = None
          /\ fetch'[Catalogue!TestingDomains] = "idle"
    /\ UNCHANGED <<vars, alertVars, testerVars, accountVars, boardVars, frameVars>>

AccountStep ==
    /\ part \in {"team", "person"} /\ Account!Next
    /\ acTab' \in PagesOf[part]
    /\ \A n \in 1..MaxRequests : acOp'[n].item \in ItemsOf[part] \union {None}
    /\ UNCHANGED <<vars, alertVars, testerVars, catalogueVars, boardVars, frameVars>>

BoardStep ==
    /\ part \in {"counts", "health"} /\ Dashboard!Next
    /\ part = "counts" => metrics' \in {None, Quiet} /\ (list # None => metrics' = Quiet)
    /\ part = "health" => apis' = {}
    /\ UNCHANGED <<vars, alertVars, testerVars, catalogueVars, accountVars, frameVars>>

FrameStep ==
    /\ part = "frame" /\ Frame!Next
    /\ UNCHANGED <<vars, alertVars, testerVars, catalogueVars, accountVars, boardVars>>

ConsoleNext ==
    /\ UNCHANGED part
    /\ \/ KeyStep \/ AlertStep \/ TesterStep
       \/ CatalogueStep \/ AccountStep \/ BoardStep \/ FrameStep

consoleVars == <<part, vars, alertVars, testerVars, catalogueVars, accountVars,
                 boardVars, frameVars>>

ConsoleSpec == ConsoleInit /\ [][ConsoleNext]_consoleVars

------------------------------------------------------------------------------
(* The properties of the parts, by the names their modules give them. *)

\* AlertSubscriber: the group's offset passes no alert whose insert was not tried,
\* save what was raised before its first commit.
AlertsAreNotSkipped == part = "alerts" => Alerts!AlertsAreNotSkipped

\* Tester: no two header rows have one id.
RowIdsUnique == part = "tester" => Tester!RowIdsUnique

\* Tester: the history is the newest pairs of url and method.
HistoryIsRecent == part = "tester" => Tester!HistoryIsRecent

\* Catalogue: a page shows what its own operations did.
ShowsOwnWrites == part \in {"domains", "domain"} => Catalogue!ShowsOwnWrites

\* Account: changes of several members and forms do not undo each other.
ShowsWhatIsStored == part \in {"team", "person"} => Account!ShowsWhatIsStored

\* Dashboard: a counter that stands still shows the count, and the badge agrees.
CountSettles == part \in {"counts", "health"} => Dashboard!CountSettles

==============================================================================
