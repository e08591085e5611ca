--------------------------------- MODULE Frame ---------------------------------
(***************************************************************************)
(* The frame around the pages of the dashboard, and the ways from page to  *)
(* page: the side bar, the sheet that replaces it on a small screen, the   *)
(* search field, the theme, the user menu and the identity of the top bar, *)
(* the breadcrumb (components/layout), and the links of the pages.         *)
(*                                                                         *)
(* A path is a sequence of segments.  The frame is mounted as long as the  *)
(* page is one of the dashboard's; what it keeps is lost when it is left.  *)
(* The notifications of the top bar are in TopBar.                         *)
(***************************************************************************)
EXTENDS Naturals, Sequences

CONSTANTS
    Domains,       \* the API domains: each has a page of its own
    Texts,         \* what may be typed to search: sets of the words in it
    MaxBack,       \* bound: how many pages the history keeps
    MaxRenames,    \* bound: how often a name is changed on another page
    None

VARIABLES
    path,        \* the page that is shown
    been,        \* the pages before it in the browser's history, the last one last
    collapsed,   \* isCollapsed
    grown,       \* barAnimated
    sheet,       \* mobileOpen
    text,        \* searchText
    theme,       \* resolvedTheme, which the browser keeps
    names,       \* the version of user, organisation and role on the server
    identity,    \* profile, organization and session: a version, or None, for
                 \* which "User", "No Organization" and "Member" are shown
    asked        \* loadIdentity: its stage, and the version it was answered

layoutVars == <<collapsed, grown, sheet, text>>
identityVars == <<names, identity, asked>>
vars == <<path, been, layoutVars, theme, identityVars>>

Login == <<"login">>

\* navItems and mobileNavItems.
Items == {<<"dashboard">>, <<"testing">>, <<"apis">>, <<"telemetry">>,
          <<"predictions">>, <<"profile">>, <<"settings">>}

Pages == Items \union {<<"apis", d>> : d \in Domains}

Idle == [stage |-> "idle", names |-> None]

\* What the frame starts from whenever it is mounted: loadIdentity is on its way.
Mounted(C, G, S, T, I, A) ==
    /\ C = FALSE /\ G = FALSE /\ S = FALSE /\ T = {} /\ I = None
    /\ A = [stage |-> "sent", names |-> None]

Init ==
    /\ path \in Pages
    /\ been = << >>
    /\ Mounted(collapsed, grown, sheet, text, identity, asked)
    /\ theme = "dark"
    /\ names = 0

------------------------------------------------------------------------------
(* Navigation *)

\* The history with the page that is left.
History ==
    LET h == Append(been, path)
    IN  IF Len(h) <= MaxBack THEN h ELSE Tail(h)

\* A link or router.push: the frame stays as it is around another page.
Go(to) ==
    /\ path # Login
    /\ path' = to
    /\ been' = History
    /\ UNCHANGED <<theme, identityVars>>

\* The side bar's entries.
Follow(item) == Go(item) /\ UNCHANGED layoutVars

\* The entries of the sheet close it, and so does a click beside it.
FollowFromSheet(item) ==
    /\ sheet
    /\ Go(item)
    /\ sheet' = FALSE
    /\ UNCHANGED <<collapsed, grown, text>>

\* Breadcrumb: nothing on a page of the first level; else the way to the page,
\* each part but the last a link, with the dashboard before it.
Crumbs == IF Len(path) <= 1 THEN {}
          ELSE {<<"dashboard">>} \union {SubSeq(path, 1, n) : n \in 1..(Len(path) - 1)}

FollowCrumb == \E c \in Crumbs : Go(c) /\ UNCHANGED layoutVars

\* The dashboard's modules, the profile's quick actions, the tester's "Edit in
\* Settings".
LinksOf(p) ==
    IF p = <<"dashboard">> THEN {<<"predictions">>, <<"telemetry">>, <<"settings">>}
    ELSE IF p = <<"profile">> THEN {<<"settings">>, <<"testing">>, <<"apis">>}
    ELSE IF p = <<"testing">> THEN {<<"settings">>}
    ELSE {}

\* The list of domains leads to their pages; each of these back to the list, and
\* with an endpoint to the tester.
RoutesOf(p) ==
    IF p = <<"apis">> THEN {<<"apis", d>> : d \in Domains}
    ELSE IF Len(p) = 2 THEN {<<"apis">>, <<"testing">>}
    ELSE {}

FollowLink == \E p \in LinksOf(path) \union RoutesOf(path) :
                  Go(p) /\ UNCHANGED layoutVars

\* The user menu: Profile and Settings.
FollowUserMenu == \E p \in {<<"profile">>, <<"settings">>} :
                      Go(p) /\ UNCHANGED layoutVars

\* The browser's back button; a sheet that is open stays so.
Back ==
    /\ path # Login
    /\ been # << >>
    /\ path' = been[Len(been)]
    /\ been' = SubSeq(been, 1, Len(been) - 1)
    /\ UNCHANGED <<layoutVars, theme, identityVars>>

------------------------------------------------------------------------------
(* The search field *)

\* handleSearch: the first row with a word that is in the text decides.
Routes == << [words |-> {"api", "domain"}, page |-> <<"apis">>],
             [words |-> {"test"}, page |-> <<"testing">>],
             [words |-> {"pred"}, page |-> <<"predictions">>],
             [words |-> {"tele", "metric"}, page |-> <<"telemetry">>],
             [words |-> {"set"}, page |-> <<"settings">>],
             [words |-> {"profil"}, page |-> <<"profile">>] >>

Hits(t) == {i \in DOMAIN Routes : Routes[i].words \intersect t # {}}

SearchPage(t) ==
    IF Hits(t) = {} THEN <<"dashboard">>
    ELSE Routes[CHOOSE i \in Hits(t) : \A j \in Hits(t) : i <= j].page

Type(t) ==
    /\ path # Login
    /\ ~sheet
    /\ text' = t
    /\ UNCHANGED <<path, been, collapsed, grown, sheet, theme, identityVars>>

\* Enter: a blank text does nothing; the text stays in the field.
Search ==
    /\ ~sheet
    /\ text # {}
    /\ Go(SearchPage(text))
    /\ UNCHANGED layoutVars

------------------------------------------------------------------------------
(* The layout *)

SetSheet ==
    /\ path # Login
    /\ sheet' = ~sheet
    /\ UNCHANGED <<path, been, collapsed, grown, text, theme, identityVars>>

SetCollapsed ==
    /\ path # Login
    /\ collapsed' = ~collapsed
    /\ UNCHANGED <<path, been, grown, sheet, text, theme, identityVars>>

\* The side bar's timer, 600 ms after it was mounted.
Grow ==
    /\ path # Login
    /\ grown' = TRUE
    /\ UNCHANGED <<path, been, collapsed, sheet, text, theme, identityVars>>

SwitchTheme ==
    /\ path # Login
    /\ theme' = IF theme = "dark" THEN "light" ELSE "dark"
    /\ UNCHANGED <<path, been, layoutVars, identityVars>>

------------------------------------------------------------------------------
(* The identity *)

\* Profile, organisation and session are asked for once, all together.
IdentityAnswered ==
    /\ asked.stage = "sent"
    /\ asked' = [stage |-> "answered", names |-> names]
    /\ UNCHANGED <<path, been, layoutVars, theme, names, identity>>

\* An answer; nothing if one of the three failed.  Nobody asks again.
IdentityArrives ==
    /\ \/ asked.stage = "answered" /\ identity' = asked.names
       \/ asked.stage # "idle" /\ identity' = None
    /\ asked' = Idle
    /\ UNCHANGED <<path, been, layoutVars, theme, names>>

\* The name of the user or the organisation is changed.
Rename ==
    /\ names < MaxRenames
    /\ names' = names + 1
    /\ UNCHANGED <<path, been, layoutVars, theme, identity, asked>>

------------------------------------------------------------------------------

\* Log out (Session has the rest of it): the frame goes, and an answer that comes
\* later finds nobody.
Leave ==
    /\ path # Login
    /\ path' = Login
    /\ been' = History
    /\ asked' = Idle
    /\ identity' = None
    /\ UNCHANGED <<layoutVars, theme, names>>

\* Log in; what the history held before is left out.
Enter ==
    /\ path = Login
    /\ path' = <<"dashboard">>
    /\ been' = << >>
    /\ Mounted(collapsed', grown', sheet', text', identity', asked')
    /\ UNCHANGED <<theme, names>>

\* A reload mounts the frame again; the theme stays.
Reload ==
    /\ path # Login
    /\ Mounted(collapsed', grown', sheet', text', identity', asked')
    /\ UNCHANGED <<path, been, theme, names>>

Next ==
    \/ \E item \in Items : Follow(item) \/ FollowFromSheet(item)
    \/ FollowCrumb \/ FollowLink \/ FollowUserMenu \/ Back
    \/ \E t \in Texts : Type(t)
    \/ Search
    \/ SetSheet \/ SetCollapsed \/ Grow \/ SwitchTheme
    \/ IdentityAnswered \/ IdentityArrives \/ Rename
    \/ Leave \/ Enter \/ Reload

Spec == Init /\ [][Next]_vars

==============================================================================
