-------------------------------- MODULE Session --------------------------------
(***************************************************************************)
(* The session of one browser tab: frontend/lib/api-client.ts (the 401     *)
(* handling, the shared refresh, its retries), frontend/proxy.ts (the      *)
(* gate in front of every page), the login page and the logout of the top  *)
(* bar, against the control plane's auth routes.                           *)
(*                                                                         *)
(* The server keeps no session: a session is three cookies.  acx_access    *)
(* and acx_refresh are HttpOnly, so only an answer of the server removes   *)
(* them; acx_csrf is readable by the page.  Cookies change when an answer  *)
(* arrives, so answers of several calls race in the jar.                   *)
(***************************************************************************)
EXTENDS Naturals

CONSTANTS
    Reqs,        \* the requests the dashboard makes, again and again
    Mutating,    \* those that are POST, PUT, PATCH or DELETE
    Logout,      \* POST /auth/logout of the top bar, one of Mutating
    Tokens       \* bound: csrf tokens are 1..Tokens, reused in turn

ASSUME SessionAssumption ==
    /\ Mutating \subseteq Reqs
    /\ Logout \in Mutating
    /\ Tokens \in Nat \ {0}

\* The delays of refreshAuthWithRetry: 0, 200 and 600 ms.
MaxTries == 3

VARIABLES
    access, refresh, csrf,   \* the cookie jar; csrf is 0 when there is none
    member,    \* the server still finds the user's membership
    page,      \* the page that is shown
    leaving,   \* location.href = "/login" was set, the page still runs
    promise,   \* refreshPromise is not null
    calls,     \* POST /auth/refresh calls in flight
    carried,   \* the call in flight carries a refresh cookie
    pc,        \* pc[r]: idle, sent, refreshing (awaits the promise), backoff
    retried,   \* requests with _retry set
    tries,     \* tries[r]: refreshes begun on behalf of r
    bearer,    \* requests in flight whose access cookie is still good
    header,    \* header[r]: the X-CSRF-Token the config of r holds
    sentWith,  \* sentWith[r]: the csrf cookie that went with it
    out        \* history: logged out with no refresh in flight, not in since

jarVars == <<access, refresh, csrf>>
pageVars == <<page, leaving>>
refreshVars == <<promise, calls, carried>>
reqVars == <<pc, retried, tries, bearer, header, sentWith>>
vars == <<jarVars, member, pageVars, refreshVars, reqVars, out>>

Pages == {"/", "/login", "/dashboard"}

\* proxy: a page is reached, or another in its place.
Gate(path) ==
    LET token == access \/ refresh
    IN  IF ~token /\ path \notin {"/login", "/"} THEN "/login"
        ELSE IF token /\ path = "/login" THEN "/dashboard"
        ELSE path

Init ==
    /\ access = TRUE /\ refresh = TRUE /\ csrf = 1
    /\ member = TRUE
    /\ page = "/dashboard" /\ leaving = FALSE
    /\ promise = FALSE /\ calls = 0 /\ carried = FALSE
    /\ pc = [r \in Reqs |-> "idle"]
    /\ retried = {}
    /\ tries = [r \in Reqs |-> 0]
    /\ bearer = {}
    /\ header = [r \in Reqs |-> 0]
    /\ sentWith = [r \in Reqs |-> 0]
    /\ out = FALSE

\* A new csrf token.
NextToken == (csrf % Tokens) + 1

------------------------------------------------------------------------------
(* Requests *)

\* A component of the dashboard makes a request; its config is a fresh one, and
\* the interceptor sets the header of a mutating one from the cookie.
Send(r) ==
    /\ page = "/dashboard"
    /\ pc[r] = "idle"
    /\ pc' = [pc EXCEPT ![r] = "sent"]
    /\ header' = [header EXCEPT
                    ![r] = IF r \in Mutating THEN csrf ELSE 0]
    /\ sentWith' = [sentWith EXCEPT ![r] = csrf]
    /\ bearer' = IF access THEN bearer \union {r} ELSE bearer \ {r}
    /\ UNCHANGED <<jarVars, member, pageVars, refreshVars, retried, tries, out>>

\* Nothing of a settled request is used again.
Forget(R) ==
    /\ pc' = [r \in Reqs |-> IF r \in R
                             THEN IF r = Logout THEN "finally" ELSE "idle"
                             ELSE pc[r]]
    /\ retried' = retried \ R
    /\ tries' = [r \in Reqs |-> IF r \in R THEN 0 ELSE tries[r]]
    /\ bearer' = bearer \ R
    /\ header' = [r \in Reqs |-> IF r \in R THEN 0 ELSE header[r]]
    /\ sentWith' = [r \in Reqs |-> IF r \in R THEN 0 ELSE sentWith[r]]

\* CSRFMiddleware: cookie and header are there and equal.
CsrfAccepted(r) ==
    r \in Mutating => sentWith[r] # 0 /\ header[r] = sentWith[r]

\* The answer is a success.
AnswerOk(r) ==
    /\ pc[r] = "sent"
    /\ r # Logout
    /\ r \in bearer
    /\ CsrfAccepted(r)
    /\ Forget({r})
    /\ UNCHANGED <<jarVars, member, pageVars, refreshVars, out>>

\* Slip: the answer to a logout leaves the refresh cookie in the jar.
LogoutOkKeepsRefresh ==
    /\ pc[Logout] = "sent"
    /\ Logout \in bearer
    /\ CsrfAccepted(Logout)
    /\ access' = FALSE /\ csrf' = 0
    /\ out' = (calls = 0)
    /\ Forget({Logout})
    /\ UNCHANGED <<refresh, member, pageVars, refreshVars>>

\* The answer to a logout takes all three cookies away.
LogoutOk ==
    /\ pc[Logout] = "sent"
    /\ Logout \in bearer
    /\ CsrfAccepted(Logout)
    /\ access' = FALSE /\ refresh' = FALSE /\ csrf' = 0
    /\ out' = (calls = 0)
    /\ Forget({Logout})
    /\ UNCHANGED <<member, pageVars, refreshVars>>

\* 403, any other error answer, or none: the caller gets a rejection.
AnswerError(r) ==
    /\ pc[r] = "sent"
    /\ Forget({r})
    /\ UNCHANGED <<jarVars, member, pageVars, refreshVars, out>>

\* clearAuthCookies and location.href = "/login": the page reaches one cookie.
ForceOut ==
    /\ csrf' = 0
    /\ leaving' = TRUE
    /\ UNCHANGED <<access, refresh, page>>

\* Slip: every caller makes a refresh call of its own.
RefreshAuthUnshared(R) ==
    IF R = {} THEN UNCHANGED refreshVars
    ELSE /\ promise' = TRUE
         /\ calls' = calls + 1
         /\ carried' = refresh

\* refreshAuth: join the refresh in flight, or start one.
RefreshAuth(R) ==
    IF R = {} \/ promise THEN UNCHANGED refreshVars
    ELSE /\ promise' = TRUE
         /\ calls' = calls + 1
         /\ carried' = refresh

\* Slip: _retry is neither read nor written.
UnauthorizedAgain(r) ==
    /\ pc[r] = "sent"
    /\ r \notin bearer
    /\ pc' = [pc EXCEPT ![r] = "refreshing"]
    /\ tries' = [tries EXCEPT ![r] = 1]
    /\ RefreshAuth({r})
    /\ UNCHANGED <<jarVars, member, pageVars, retried, bearer, header,
                   sentWith, out>>

\* 401 to a request: refresh on its behalf and await it, once.
Unauthorized(r) ==
    /\ pc[r] = "sent"
    /\ r \notin bearer
    /\ \/ /\ r \notin retried
          /\ retried' = retried \union {r}
          /\ pc' = [pc EXCEPT ![r] = "refreshing"]
          /\ tries' = [tries EXCEPT ![r] = 1]
          /\ RefreshAuth({r})
          /\ UNCHANGED <<jarVars, pageVars, bearer, header, sentWith>>
       \/ /\ r \in retried
          /\ ForceOut
          /\ Forget({r})
          /\ UNCHANGED refreshVars
    /\ UNCHANGED <<member, out>>

\* The delay is over: the next of the three tries.
TryAgain(r) ==
    /\ pc[r] = "backoff"
    /\ pc' = [pc EXCEPT ![r] = "refreshing"]
    /\ tries' = [tries EXCEPT ![r] = @ + 1]
    /\ RefreshAuth({r})
    /\ UNCHANGED <<jarVars, member, pageVars, retried, bearer, header,
                   sentWith, out>>

------------------------------------------------------------------------------
(* The refresh call *)

Waiting == {r \in Reqs : pc[r] = "refreshing"}

\* Slip: the requests are resent past the interceptor, with their old header.
RefreshOkOldHeader ==
    /\ calls > 0
    /\ carried /\ member
    /\ access' = TRUE /\ refresh' = TRUE /\ csrf' = NextToken
    /\ calls' = calls - 1 /\ promise' = FALSE /\ carried' = FALSE
    /\ pc' = [r \in Reqs |-> IF r \in Waiting THEN "sent" ELSE pc[r]]
    /\ tries' = [r \in Reqs |-> IF r \in Waiting THEN 0 ELSE tries[r]]
    /\ sentWith' = [r \in Reqs |->
                      IF r \in Waiting THEN NextToken ELSE sentWith[r]]
    /\ bearer' = bearer \union Waiting
    /\ UNCHANGED <<member, pageVars, retried, header, out>>

\* New cookies arrive; everyone who awaits the promise sends again.
RefreshOk ==
    /\ calls > 0
    /\ carried /\ member
    /\ access' = TRUE /\ refresh' = TRUE /\ csrf' = NextToken
    /\ calls' = calls - 1 /\ promise' = FALSE /\ carried' = FALSE
    /\ pc' = [r \in Reqs |-> IF r \in Waiting THEN "sent" ELSE pc[r]]
    /\ tries' = [r \in Reqs |-> IF r \in Waiting THEN 0 ELSE tries[r]]
    /\ header' = [r \in Reqs |->
                    IF r \in Waiting \intersect Mutating THEN NextToken
                    ELSE header[r]]
    /\ sentWith' = [r \in Reqs |->
                      IF r \in Waiting THEN NextToken ELSE sentWith[r]]
    /\ bearer' = bearer \union Waiting
    /\ UNCHANGED <<member, pageVars, retried, out>>

\* The call fails.  Its own 401 ends the session at once; those who await it
\* wait for their next try, or give up after the third.
RefreshFails ==
    \E status \in {401, 500} :
        LET spent == {r \in Waiting : tries[r] = MaxTries}
        IN  /\ calls > 0
            /\ status = 401 => ~carried
            /\ calls' = calls - 1 /\ promise' = FALSE /\ carried' = FALSE
            /\ IF status = 401 \/ spent # {} THEN ForceOut
               ELSE UNCHANGED <<jarVars, pageVars>>
            /\ pc' = [r \in Reqs |->
                        IF r \in spent
                        THEN IF r = Logout THEN "finally" ELSE "idle"
                        ELSE IF r \in Waiting THEN "backoff" ELSE pc[r]]
            /\ retried' = retried \ spent
            /\ tries' = [r \in Reqs |-> IF r \in spent THEN 0 ELSE tries[r]]
            /\ header' = [r \in Reqs |-> IF r \in spent THEN 0 ELSE header[r]]
            /\ sentWith' = [r \in Reqs |->
                              IF r \in spent THEN 0 ELSE sentWith[r]]
            /\ UNCHANGED <<member, bearer, out>>

------------------------------------------------------------------------------
(* Pages *)

\* handleLogout, once its request settled either way: a client-side
\* navigation, which the gate sees as well.
LogoutFinally ==
    /\ pc[Logout] = "finally"
    /\ pc' = [pc EXCEPT ![Logout] = "idle"]
    /\ csrf' = 0
    /\ page' = Gate("/login")
    /\ UNCHANGED <<access, refresh, member, leaving, refreshVars, retried,
                   tries, bearer, header, sentWith, out>>

\* A document is loaded: nothing of the old one goes on.
Load(path) ==
    /\ page' = Gate(path)
    /\ leaving' = FALSE
    /\ promise' = FALSE /\ calls' = 0 /\ carried' = FALSE
    /\ pc' = [r \in Reqs |-> "idle"]
    /\ retried' = {}
    /\ tries' = [r \in Reqs |-> 0]
    /\ bearer' = {}
    /\ header' = [r \in Reqs |-> 0]
    /\ sentWith' = [r \in Reqs |-> 0]
    /\ UNCHANGED <<jarVars, member, out>>

\* The browser follows location.href.
FollowRedirect == leaving /\ Load("/login")

\* The user opens a page.
Visit(path) == ~leaving /\ Load(path)

\* handleGoogleLogin, handleGithubLogin: the callback sets the cookies, makes
\* sure that there is a membership and sends the browser to the dashboard.
Login ==
    /\ page = "/login"
    /\ ~leaving
    /\ access' = TRUE /\ refresh' = TRUE /\ csrf' = NextToken
    /\ member' = TRUE
    /\ out' = FALSE
    /\ page' = "/dashboard" /\ leaving' = FALSE
    /\ promise' = FALSE /\ calls' = 0 /\ carried' = FALSE
    /\ pc' = [r \in Reqs |-> "idle"]
    /\ retried' = {}
    /\ tries' = [r \in Reqs |-> 0]
    /\ bearer' = {}
    /\ header' = [r \in Reqs |-> 0]
    /\ sentWith' = [r \in Reqs |-> 0]

\* Fifteen minutes: cookie and token expire together.
AccessExpires ==
    /\ access \/ bearer # {}
    /\ access' = FALSE
    /\ bearer' = {}
    /\ UNCHANGED <<refresh, csrf, member, pageVars, refreshVars, pc, retried,
                   tries, header, sentWith, out>>

\* Seven days: the refresh cookie expires, and the csrf cookie with it.
RefreshExpires ==
    /\ refresh
    /\ ~access /\ bearer = {}
    /\ refresh' = FALSE /\ csrf' = 0
    /\ carried' = FALSE
    /\ UNCHANGED <<access, member, pageVars, promise, calls, reqVars, out>>

\* An administrator removes the member: the next refresh is answered with an
\* error, an access token goes on working.
MemberRemoved ==
    /\ member
    /\ member' = FALSE
    /\ UNCHANGED <<jarVars, pageVars, refreshVars, reqVars, out>>

------------------------------------------------------------------------------

Next ==
    \/ \E r \in Reqs :
          \/ Send(r) \/ AnswerOk(r) \/ AnswerError(r)
          \/ Unauthorized(r) \/ TryAgain(r)
    \/ LogoutOk \/ LogoutFinally
    \/ RefreshOk \/ RefreshFails
    \/ FollowRedirect \/ Login
    \/ \E path \in Pages : Visit(path)
    \/ AccessExpires \/ RefreshExpires \/ MemberRemoved

\* Calls are answered or given up, timers fire, a redirect is followed.
Fairness ==
    /\ \A r \in Reqs :
          /\ WF_vars(AnswerError(r) \/ AnswerOk(r) \/ Unauthorized(r))
          /\ WF_vars(TryAgain(r))
    /\ WF_vars(LogoutFinally)
    /\ WF_vars(RefreshOk \/ RefreshFails)
    /\ WF_vars(FollowRedirect)

Spec == Init /\ [][Next]_vars /\ Fairness

------------------------------------------------------------------------------
(* Properties *)

\* Every variable has its type.
TypeOK ==
    /\ access \in BOOLEAN /\ refresh \in BOOLEAN /\ csrf \in 0..Tokens
    /\ member \in BOOLEAN
    /\ page \in Pages /\ leaving \in BOOLEAN
    /\ promise \in BOOLEAN /\ calls \in Nat /\ carried \in BOOLEAN
    /\ pc \in [Reqs -> {"idle", "sent", "refreshing", "backoff", "finally"}]
    /\ retried \subseteq Reqs
    /\ tries \in [Reqs -> 0..MaxTries]
    /\ bearer \subseteq Reqs
    /\ header \in [Reqs -> 0..Tokens]
    /\ sentWith \in [Reqs -> 0..Tokens]
    /\ out \in BOOLEAN

\* However many requests are refused at the same time, one refresh call is in
\* flight, and whoever awaits a refresh awaits one that is in flight
\* (refreshPromise in refreshAuth and its reset in finally).
OneRefresh ==
    /\ calls <= 1
    /\ Waiting # {} => calls = 1

\* A mutating request that leaves with a csrf cookie carries that cookie's
\* token in its header, also when it is sent again after a refresh that
\* replaced the cookie (the request interceptor runs on every resend).
CsrfMatches ==
    \A r \in Mutating :
        pc[r] = "sent" /\ sentWith[r] # 0 => header[r] = sentWith[r]

\* After a logout that was answered while no refresh was in flight, no late
\* answer of another request brings the session's cookies back; only a new
\* login does (handleLogout against the interceptor's refreshes).
LogoutSticks == out => ~access /\ ~refresh

\* Every request settles or its page goes away: a 401 is not answered with a
\* refresh for ever (_retry), and a refresh never waits for itself.
RequestsSettle ==
    \A r \in Reqs : pc[r] = "sent" ~> pc[r] \in {"idle", "finally"}

\* "Invalid sessions are redirected to login after cookies are cleared"
\* (api-client.ts): a user who is no longer a member and is sent to the login
\* page arrives there.
RedirectReachesLogin ==
    [][FollowRedirect /\ ~member => page' = "/login"]_vars

==============================================================================
