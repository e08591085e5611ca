-------------------------------- MODULE Account --------------------------------
(***************************************************************************)
(* The settings page, with the profile, the organisation and its members   *)
(* (settings/page.tsx), and the profile page (profile/page.tsx), against   *)
(* the control plane (routers/orgs.py, routers/auth.py).                   *)
(*                                                                         *)
(* Each page copies what its query gives into state of its own and makes   *)
(* the changes that succeed there, not in the cache.  An item is a form,   *)
(* whose value is what is saved, or a member, whose value is the role; 0   *)
(* is a member that is not one.                                            *)
(***************************************************************************)
EXTENDS Naturals

CONSTANTS
    Members,
    Profile, Org,   \* the two forms
    Forms,          \* bound: the forms that are filled in
    Tabs,           \* the pages the user opens: settings, profile, other
    None,
    MaxOps          \* bound: how many requests the user makes

VARIABLES
    server,    \* server[i]: the value of item i
    tab,       \* the page that is open: settings, profile, other
    data,      \* data[p]: what the cache holds for page p, or None
    fetch,     \* fetch[p]: idle, sent, reading (answered in part), answered
    answer,    \* answer[p]: what the server answered so far, or None
    invalid,   \* pages whose data are marked invalid
    shown,     \* shown[i]: profile, org, members of the open page
    busy,      \* the disabled buttons: forms, Invite, Refresh
    op,        \* op[n]: the n-th request of the user
    used,      \* how many were made
    doubtful   \* history: items of which the page cannot know

cacheVars == <<data, fetch, answer, invalid>>
pageVars == <<tab, shown, busy>>
opVars == <<op, used>>
vars == <<server, cacheVars, pageVars, opVars, doubtful>>

Pages == {"settings", "profile"}
Items == Members \union Forms
Slots == 1..MaxOps
Values == {1, 2}

Invite == "invite"
Refresh == "refresh"

\* What the query of page p reads.
ItemsOf(p) ==
    IF p = "settings" THEN Items ELSE IF p = "profile" THEN Forms \ {Org} ELSE {}

\* What it has read so far.
Got(p) == IF fetch[p] \in {"reading", "answered"} THEN DOMAIN answer[p] ELSE {}

Free == [kind |-> "none", item |-> None, value |-> 0, stage |-> "over",
         here |-> FALSE]

Init ==
    /\ server = [i \in Items |-> 1]
    /\ tab = "settings"
    /\ data = [p \in Pages |-> None]
    /\ fetch = [p \in Pages |-> IF p = tab THEN "sent" ELSE "idle"]
    /\ answer = [p \in Pages |-> None]
    /\ invalid = {}
    /\ shown = [i \in Items |-> 0]
    /\ busy = {}
    /\ op = [n \in Slots |-> Free]
    /\ used = 0
    /\ doubtful = {}

InFlight(i) == {n \in Slots : op[n].item = i /\ op[n].stage \in {"sent", "done"}}

\* The effect that copies d, and what of it is wrong by then or soon.
Copy(p, d) ==
    /\ shown' = [i \in Items |-> IF i \in ItemsOf(p) THEN d[i] ELSE 0]
    /\ doubtful' = {i \in ItemsOf(p) :
                      d[i] # server[i] \/ (i \in doubtful /\ InFlight(i) # {})}

------------------------------------------------------------------------------
(* The queries *)

\* A page is opened: what is cached is copied, and fetched again if it is invalid
\* or older than two minutes, which it may be.
Open(p) ==
    /\ p # tab
    /\ tab' = p
    /\ busy' = {}
    /\ op' = [n \in Slots |-> [op[n] EXCEPT !.here = FALSE]]
    /\ IF p \in Pages /\ data[p] # None
       THEN Copy(p, data[p])
       ELSE shown' = [i \in Items |-> 0] /\ doubtful' = {}
    /\ \E aged \in BOOLEAN :
          fetch' = [q \in Pages |->
                      IF /\ q = p /\ fetch[q] = "idle"
                         /\ aged \/ data[q] = None \/ q \in invalid
                      THEN "sent" ELSE fetch[q]]
    /\ UNCHANGED <<server, data, answer, invalid, used>>

\* The server answers one of the requests of a query: a form's, in any order, or
\* then that of the members, all at once.
Answer(p) ==
    /\ fetch[p] \in {"sent", "reading"}
    /\ \E I \in {{f} : f \in Forms} \union {Members} :
          /\ I \subseteq ItemsOf(p) \ Got(p)
          /\ I = Members => Forms \subseteq Got(p)
          /\ answer' = [answer EXCEPT ![p] =
                          [i \in Got(p) \union I |-> IF i \in I THEN server[i] ELSE @[i]]]
          /\ fetch' = [fetch EXCEPT ![p] = IF Got(p) \union I = ItemsOf(p)
                                          THEN "answered" ELSE "reading"]
    /\ UNCHANGED <<server, data, invalid, pageVars, opVars, doubtful>>

\* The handlers that awaited the refetch of p, an invitation or a refresh, end.
Settle(p) ==
    /\ fetch' = [fetch EXCEPT ![p] = "idle"]
    /\ answer' = [answer EXCEPT ![p] = None]
    /\ op' = [n \in Slots |-> IF op[n].stage = "refetching" /\ p = "settings"
                              THEN Free ELSE op[n]]
    /\ busy' = IF p = tab THEN busy \ {IF p = "settings" THEN Invite ELSE Refresh}
               ELSE busy

\* The answer is cached.  If it equals what was cached before, the effect does not
\* run, and the page keeps what it made of that; the members may have changed their
\* order, which makes them unequal.
Arrive(p) ==
    /\ fetch[p] = "answered"
    /\ data' = [data EXCEPT ![p] = answer[p]]
    /\ invalid' = invalid \ {p}
    /\ Settle(p)
    /\ \/ p = tab /\ (answer[p] # data[p] \/ p = "settings") /\ Copy(p, answer[p])
       \/ p = tab /\ answer[p] = data[p]
          /\ UNCHANGED shown
          /\ doubtful' = doubtful \union {i \in ItemsOf(p) : shown[i] # answer[p][i]}
       \/ p # tab /\ UNCHANGED <<shown, doubtful>>
    /\ UNCHANGED <<server, tab, used>>

\* The retries are exhausted.
FetchFails(p) ==
    /\ fetch[p] # "idle"
    /\ invalid' = invalid \union {p}
    /\ Settle(p)
    /\ UNCHANGED <<server, data, tab, shown, used, doubtful>>

\* invalidateQueries of the page that is open, which has data or is not fetching
\* any: the query starts over.
Invalidate(p) ==
    /\ invalid' = invalid \union {p}
    /\ fetch' = [fetch EXCEPT ![p] = "sent"]
    /\ answer' = [answer EXCEPT ![p] = None]
    /\ UNCHANGED data

------------------------------------------------------------------------------
(* The user *)

\* isLoading: the skeleton.
Loading == data[tab] = None /\ fetch[tab] # "idle"

\* The cards of the profile page.
ProfileShown == tab = "profile" /\ ~Loading

\* The cards of the page, once its skeleton is gone; all but the profile's need the
\* organisation, which came with the data.
Editable(i) ==
    /\ tab \in Pages
    /\ ~Loading
    /\ i \in ItemsOf(tab)
    /\ i = Profile \/ data[tab] # None

\* A request about an item of the page.
Start(kind, i, v) ==
    /\ Editable(i)
    /\ used < MaxOps
    /\ used' = used + 1
    /\ op' = [op EXCEPT ![used + 1] =
                [kind |-> kind, item |-> i, value |-> v, stage |-> "sent",
                 here |-> TRUE]]
    /\ UNCHANGED <<server, cacheVars, tab, shown, doubtful>>

\* saveProfile, saveOrganization.
Save(f) ==
    /\ f \notin busy
    /\ busy' = busy \union {f}
    /\ \E v \in Values : Start("save", f, v)

\* inviteMember.
InviteMember(m) ==
    /\ tab = "settings"
    /\ Invite \notin busy
    /\ busy' = busy \union {Invite}
    /\ \E v \in Values : Start("invite", m, v)

\* The role select of a listed member.
UpdateRole(m) ==
    /\ shown[m] # 0
    /\ \E v \in Values \ {shown[m]} : Start("role", m, v)
    /\ UNCHANGED busy

\* The button beside it; both stay enabled while a request runs.
RemoveMember(m) ==
    /\ shown[m] # 0
    /\ Start("remove", m, 0)
    /\ UNCHANGED busy

\* The refresh button of the profile page.
RefreshIdentity ==
    /\ ProfileShown
    /\ Refresh \notin busy
    /\ busy' = busy \union {Refresh}
    /\ Invalidate(tab)
    /\ UNCHANGED <<server, tab, shown, opVars, doubtful>>

------------------------------------------------------------------------------
(* The requests *)

\* add_member, update_member_role, remove_member, update_profile, update_org.  Two
\* requests about one member may be answered in another order; nobody waits for one
\* whose page is gone.
Execute(n) ==
    LET i == op[n].item
    IN  /\ op[n].stage = "sent"
        /\ op[n].kind \in {"role", "remove"} => server[i] # 0
        /\ server' = [server EXCEPT ![i] = op[n].value]
        /\ op' = [op EXCEPT ![n].stage = "done"]
        /\ doubtful' = IF ~op[n].here \/ (i \in Members /\ InFlight(i) # {n})
                       THEN doubtful \union {i} ELSE doubtful
        /\ UNCHANGED <<cacheVars, pageVars, used>>

\* Slip: setMembers is given the list of the query, changed, and not a function of
\* the list that is shown.
PatchedFromData(o) ==
    [i \in Items |-> IF i = o.item THEN o.value
                     ELSE IF i \in Members /\ data["settings"] # None
                     THEN data["settings"][i] ELSE shown[i]]

\* The page's own state with the change: setProfile, setOrg, setMembers.  A role is
\* of a member that is listed.
Patched(o) ==
    [shown EXCEPT ![o.item] = IF o.kind = "role" /\ @ = 0 THEN 0 ELSE o.value]

\* The answer.  A page that was left ignores it, but marks its query after an
\* invitation.
Succeed(n) ==
    /\ op[n].stage = "done"
    /\ IF op[n].kind = "invite"
       THEN /\ op' = [op EXCEPT ![n] =
                        IF tab = "settings" THEN [@ EXCEPT !.stage = "refetching"]
                        ELSE Free]
            /\ IF tab = "settings" THEN Invalidate("settings")
               ELSE invalid' = invalid \union {"settings"}
                    /\ UNCHANGED <<data, fetch, answer>>
            /\ UNCHANGED <<shown, busy>>
       ELSE /\ op' = [op EXCEPT ![n] = Free]
            /\ shown' = IF op[n].here THEN Patched(op[n]) ELSE shown
            /\ busy' = IF op[n].here THEN busy \ {op[n].item} ELSE busy
            /\ UNCHANGED cacheVars
    /\ UNCHANGED <<server, tab, used, doubtful>>

\* An error, or an answer that is lost: a toast.
Fail(n) ==
    LET i == op[n].item
    IN  /\ op[n].stage \in {"sent", "done"}
        /\ op' = [op EXCEPT ![n] = Free]
        /\ busy' = IF ~op[n].here THEN busy
                   ELSE busy \ {IF op[n].kind = "invite" THEN Invite ELSE i}
        /\ doubtful' = IF op[n].stage = "done" THEN doubtful \union {i} ELSE doubtful
        /\ UNCHANGED <<server, cacheVars, tab, shown, used>>

------------------------------------------------------------------------------

Next ==
    \/ \E p \in Tabs : Open(p)
    \/ \E p \in Pages : Answer(p) \/ Arrive(p) \/ FetchFails(p)
    \/ \E f \in Forms : Save(f)
    \/ \E m \in Members : InviteMember(m) \/ UpdateRole(m) \/ RemoveMember(m)
    \/ RefreshIdentity
    \/ \E n \in Slots : Execute(n) \/ Succeed(n) \/ Fail(n)

Spec == Init /\ [][Next]_vars

------------------------------------------------------------------------------
(* Properties *)

\* Changes of several members and forms never undo each other on the page: what it
\* shows of an item without a request in flight is what is stored, while its query
\* is valid, except after overlapping changes of one member, a lost answer, or data
\* read too early (the functional setMembers of updateRole and removeMember, the
\* disabled save buttons).
ShowsWhatIsStored ==
    tab \in Pages /\ tab \notin invalid /\ data[tab] # None
    => \A i \in ItemsOf(tab) \ doubtful :
          InFlight(i) = {} => shown[i] = server[i]

==============================================================================
