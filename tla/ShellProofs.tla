------------------------------ MODULE ShellProofs ------------------------------
(***************************************************************************)
(* Proofs about Shell: the session, for any set of requests and any number *)
(* of tokens, with the number of steps after which a request has settled;  *)
(* the pages that only read, for any ranges and predictions; and why the   *)
(* menu of the top bar settles.                                            *)
(***************************************************************************)
EXTENDS Shell, Integers, FiniteSets, FiniteSetTheorems, TLAPS

------------------------------------------------------------------------------
(* The session *)

\* What the session does, whatever else is granted it.
Moves == Init /\ [][Next]_vars

\* refreshPromise is the call in flight, and nobody awaits a promise that is not
\* there; only a call in flight carries a cookie.
SharedInv ==
    /\ calls = IF promise THEN 1 ELSE 0
    /\ \A r \in Reqs : pc[r] = "refreshing" => promise
    /\ carried => promise

\* Nothing that could bring the session back is under way after a logout.
GoneInv == out => ~access /\ ~refresh /\ ~carried

------------------------------------------------------------------------------
\* A new token is one of the tokens.
LEMMA NextTokenType == ASSUME TypeOK PROVE NextToken \in 1..Tokens
<1>1. csrf \in Nat /\ Tokens \in Nat /\ Tokens > 0
  BY SessionAssumption DEF TypeOK
<1>2. csrf % Tokens \in 0..(Tokens - 1)
  BY <1>1
<1>3. QED BY <1>1, <1>2 DEF NextToken

\* Forget keeps the types of what it changes.
LEMMA ForgetTypes ==
    ASSUME TypeOK, NEW R, Forget(R)
    PROVE  /\ pc' \in [Reqs -> {"idle", "sent", "refreshing", "backoff", "finally"}]
           /\ retried' \subseteq Reqs
           /\ tries' \in [Reqs -> 0..MaxTries]
           /\ bearer' \subseteq Reqs
           /\ header' \in [Reqs -> 0..Tokens]
           /\ sentWith' \in [Reqs -> 0..Tokens]
<1>1. 0 \in 0..MaxTries /\ 0 \in 0..Tokens
  BY SessionAssumption DEF MaxTries
<1>2. pc' \in [Reqs -> {"idle", "sent", "refreshing", "backoff", "finally"}]
  BY DEF Forget, TypeOK
<1>3. retried' \subseteq Reqs /\ bearer' \subseteq Reqs
  BY DEF Forget, TypeOK
<1>4. tries' \in [Reqs -> 0..MaxTries]
  BY <1>1 DEF Forget, TypeOK
<1>5. header' \in [Reqs -> 0..Tokens] /\ sentWith' \in [Reqs -> 0..Tokens]
  BY <1>1 DEF Forget, TypeOK
<1>6. QED BY <1>2, <1>3, <1>4, <1>5

\* RefreshAuth keeps the types of what it changes.
LEMMA RefreshAuthTypes ==
    ASSUME TypeOK, NEW R, RefreshAuth(R)
    PROVE  promise' \in BOOLEAN /\ calls' \in Nat /\ carried' \in BOOLEAN
<1>1. CASE R = {} \/ promise
  BY <1>1 DEF RefreshAuth, refreshVars, TypeOK
<1>2. CASE ~(R = {} \/ promise)
  <2>1. promise' = TRUE /\ calls' = calls + 1 /\ carried' = refresh
    BY <1>2 DEF RefreshAuth
  <2>2. calls' \in Nat
    BY <2>1 DEF TypeOK
  <2>3. QED BY <2>1, <2>2 DEF TypeOK
<1>3. QED BY <1>1, <1>2

\* The gate leads to a page.
LEMMA GateType == ASSUME NEW path \in Pages PROVE Gate(path) \in Pages
BY DEF Gate, Pages

------------------------------------------------------------------------------
\* A delay is followed by another try: it comes after the first two only.
BackoffInv == \A r \in Reqs : pc[r] = "backoff" => tries[r] < MaxTries

\* The variables keep their types; that of tries needs BackoffInv.
LEMMA TypesInductive == Moves => [](TypeOK /\ BackoffInv)
<1> USE SessionAssumption DEF MaxTries, BackoffInv
<1>1. Init => TypeOK /\ BackoffInv
  <2> SUFFICES ASSUME Init PROVE TypeOK /\ BackoffInv
    OBVIOUS
  <2>1. csrf \in 0..Tokens /\ calls \in Nat /\ page \in Pages
    BY DEF Init, Pages
  <2>2. tries \in [Reqs -> 0..MaxTries]
    BY DEF Init
  <2>3. header \in [Reqs -> 0..Tokens] /\ sentWith \in [Reqs -> 0..Tokens]
    BY DEF Init
  <2>4. QED BY <2>1, <2>2, <2>3 DEF Init, TypeOK
<1>2. TypeOK /\ BackoffInv /\ [Next]_vars => TypeOK' /\ BackoffInv'
  <2> SUFFICES ASSUME TypeOK, BackoffInv, [Next]_vars
               PROVE  TypeOK' /\ BackoffInv'
    OBVIOUS
  <2> USE DEF TypeOK, jarVars, pageVars, refreshVars, reqVars
  <2>1. ASSUME NEW r \in Reqs, Send(r) PROVE TypeOK' /\ BackoffInv'
    <3>1. header' \in [Reqs -> 0..Tokens] /\ sentWith' \in [Reqs -> 0..Tokens]
      BY <2>1 DEF Send
    <3>2. bearer' \subseteq Reqs
      BY <2>1 DEF Send
    <3>3. QED BY <2>1, <3>1, <3>2 DEF Send
  <2>2. ASSUME NEW r \in Reqs, AnswerOk(r) PROVE TypeOK' /\ BackoffInv'
    <3>1. BackoffInv'
      BY <2>2 DEF AnswerOk, Forget
    <3>2. Forget({r})
      BY <2>2 DEF AnswerOk
    <3>3. QED BY <2>2, <3>1, <3>2, ForgetTypes DEF AnswerOk
  <2>3. ASSUME NEW r \in Reqs, AnswerError(r) PROVE TypeOK' /\ BackoffInv'
    <3>1. BackoffInv'
      BY <2>3 DEF AnswerError, Forget
    <3>2. Forget({r})
      BY <2>3 DEF AnswerError
    <3>3. QED BY <2>3, <3>1, <3>2, ForgetTypes DEF AnswerError
  <2>4. ASSUME NEW r \in Reqs, Unauthorized(r) PROVE TypeOK' /\ BackoffInv'
    <3>1. CASE r \notin retried
      <4>1. RefreshAuth({r})
        BY <2>4, <3>1 DEF Unauthorized
      <4>2. promise' \in BOOLEAN /\ calls' \in Nat /\ carried' \in BOOLEAN
        BY <4>1, RefreshAuthTypes
      <4>3. /\ retried' = retried \union {r}
            /\ pc' = [pc EXCEPT ![r] = "refreshing"]
            /\ tries' = [tries EXCEPT ![r] = 1]
            /\ UNCHANGED <<jarVars, member, pageVars, bearer, header, sentWith, out>>
        BY <2>4, <3>1 DEF Unauthorized
      <4>4. tries' \in [Reqs -> 0..MaxTries]
        BY <4>3
      <4>5. BackoffInv'
        BY <4>3
      <4>6. QED BY <4>2, <4>3, <4>4, <4>5
    <3>2. CASE r \in retried
      <4>1. Forget({r}) /\ ForceOut /\ UNCHANGED <<refreshVars, member, out>>
        BY <2>4, <3>2 DEF Unauthorized
      <4>2. BackoffInv'
        BY <4>1 DEF Forget
      <4>3. QED BY <4>1, <4>2, ForgetTypes DEF ForceOut
    <3>3. QED BY <3>1, <3>2
  <2>5. ASSUME NEW r \in Reqs, TryAgain(r) PROVE TypeOK' /\ BackoffInv'
    <3>1. RefreshAuth({r})
      BY <2>5 DEF TryAgain
    <3>2. promise' \in BOOLEAN /\ calls' \in Nat /\ carried' \in BOOLEAN
      BY <3>1, RefreshAuthTypes
    <3>3. tries' \in [Reqs -> 0..MaxTries]
      BY <2>5 DEF TryAgain
    <3>4. BackoffInv'
      BY <2>5 DEF TryAgain
    <3>5. QED BY <2>5, <3>2, <3>3, <3>4 DEF TryAgain
  <2>6. CASE LogoutOk
    <3>1. BackoffInv'
      BY <2>6 DEF LogoutOk, Forget
    <3>2. out' \in BOOLEAN
      BY <2>6 DEF LogoutOk
    <3>3. Forget({Logout})
      BY <2>6 DEF LogoutOk
    <3>4. /\ access' = FALSE /\ refresh' = FALSE /\ csrf' = 0
          /\ UNCHANGED <<member, pageVars, refreshVars>>
      BY <2>6 DEF LogoutOk
    <3>5. csrf' \in 0..Tokens
      BY <3>4
    <3>6. QED BY <3>1, <3>2, <3>3, <3>4, <3>5, ForgetTypes
  <2>7. CASE LogoutFinally
    <3>1. page' \in Pages
      BY <2>7, GateType DEF LogoutFinally, Pages
    <3>2. QED BY <2>7, <3>1 DEF LogoutFinally
  <2>8. CASE RefreshOk
    <3>1. csrf' \in 0..Tokens
      BY <2>8, NextTokenType DEF RefreshOk
    <3>2. header' \in [Reqs -> 0..Tokens] /\ sentWith' \in [Reqs -> 0..Tokens]
      BY <2>8, NextTokenType DEF RefreshOk
    <3>3. tries' \in [Reqs -> 0..MaxTries] /\ BackoffInv'
      BY <2>8 DEF RefreshOk
    <3>4. calls' \in Nat /\ bearer' \subseteq Reqs
      BY <2>8 DEF RefreshOk, Waiting
    <3>5. QED BY <2>8, <3>1, <3>2, <3>3, <3>4 DEF RefreshOk
  <2>9. CASE RefreshFails
    <3>1. calls' \in Nat /\ promise' = FALSE /\ carried' = FALSE
      BY <2>9 DEF RefreshFails
    <3>2. /\ pc' \in [Reqs -> {"idle", "sent", "refreshing", "backoff", "finally"}]
          /\ retried' \subseteq Reqs
      BY <2>9 DEF RefreshFails
    <3>3. tries' \in [Reqs -> 0..MaxTries]
      BY <2>9 DEF RefreshFails
    <3>4. header' \in [Reqs -> 0..Tokens] /\ sentWith' \in [Reqs -> 0..Tokens]
      BY <2>9 DEF RefreshFails
    <3>5. BackoffInv'
      BY <2>9 DEF RefreshFails, Waiting
    <3>6. csrf' \in 0..Tokens /\ leaving' \in BOOLEAN /\ UNCHANGED <<access, refresh, page>>
      <4>1. ForceOut \/ UNCHANGED <<jarVars, pageVars>>
        BY <2>9 DEF RefreshFails
      <4>2. CASE ForceOut
        <5>1. csrf' = 0 /\ leaving' = TRUE /\ UNCHANGED <<access, refresh, page>>
          BY <4>2 DEF ForceOut
        <5>2. csrf' \in 0..Tokens
          BY <5>1
        <5>3. QED BY <5>1, <5>2
      <4>3. CASE UNCHANGED <<jarVars, pageVars>>
        BY <4>3
      <4>4. QED BY <4>1, <4>2, <4>3
    <3>7. UNCHANGED <<member, bearer, out>>
      BY <2>9 DEF RefreshFails
    <3>8. QED BY <3>1, <3>2, <3>3, <3>4, <3>5, <3>6, <3>7
  <2>10. ASSUME NEW path \in Pages, Load(path) PROVE TypeOK' /\ BackoffInv'
    <3>1. page' \in Pages
      BY <2>10, GateType DEF Load
    <3>2. /\ tries' \in [Reqs -> 0..MaxTries]
          /\ header' \in [Reqs -> 0..Tokens] /\ sentWith' \in [Reqs -> 0..Tokens]
      BY <2>10 DEF Load
    <3>3. QED BY <2>10, <3>1, <3>2 DEF Load
  <2>11. CASE Login
    <3>1. csrf' \in 0..Tokens /\ page' \in Pages
      BY <2>11, NextTokenType DEF Login, Pages
    <3>2. /\ tries' \in [Reqs -> 0..MaxTries]
          /\ header' \in [Reqs -> 0..Tokens] /\ sentWith' \in [Reqs -> 0..Tokens]
      BY <2>11 DEF Login
    <3>3. QED BY <2>11, <3>1, <3>2 DEF Login
  <2>12. CASE AccessExpires BY <2>12 DEF AccessExpires
  <2>13. CASE RefreshExpires
    <3>1. csrf' \in 0..Tokens /\ refresh' = FALSE /\ carried' = FALSE
      BY <2>13 DEF RefreshExpires
    <3>2. UNCHANGED <<access, member, pageVars, promise, calls, reqVars, out>>
      BY <2>13 DEF RefreshExpires
    <3>3. QED BY <3>1, <3>2
  <2>14. CASE MemberRemoved BY <2>14 DEF MemberRemoved
  <2>15. CASE UNCHANGED vars BY <2>15 DEF vars
  <2>16. "/login" \in Pages
    BY DEF Pages
  <2>17. QED
    BY <2>1, <2>2, <2>3, <2>4, <2>5, <2>6, <2>7, <2>8, <2>9, <2>10, <2>11,
       <2>12, <2>13, <2>14, <2>15, <2>16 DEF Next, FollowRedirect, Visit
<1>3. QED BY <1>1, <1>2, PTL DEF Moves

\* The variables keep their types.
LEMMA TypesKept == Moves => []TypeOK
BY TypesInductive, PTL

------------------------------------------------------------------------------
\* The promise and the call are set and reset together.
LEMMA SharedInductive == Moves => []SharedInv
<1> USE DEF SharedInv
<1>1. Init => SharedInv
  BY DEF Init
<1>2. TypeOK /\ SharedInv /\ [Next]_vars => SharedInv'
  <2> SUFFICES ASSUME TypeOK, SharedInv, [Next]_vars PROVE SharedInv'
    OBVIOUS
  <2> USE DEF TypeOK, jarVars, pageVars, refreshVars, reqVars
  <2>1. ASSUME NEW r \in Reqs, Send(r) PROVE SharedInv'
    BY <2>1 DEF Send
  <2>2. ASSUME NEW r \in Reqs, AnswerOk(r) PROVE SharedInv'
    BY <2>2 DEF AnswerOk, Forget
  <2>3. ASSUME NEW r \in Reqs, AnswerError(r) PROVE SharedInv'
    BY <2>3 DEF AnswerError, Forget
  <2>4. ASSUME NEW r \in Reqs, RefreshAuth({r}),
               pc' = [pc EXCEPT ![r] = "refreshing"]
        PROVE  SharedInv'
    <3>1. CASE promise
      <4>1. UNCHANGED <<promise, calls, carried>>
        BY <2>4, <3>1 DEF RefreshAuth
      <4>2. QED BY <2>4, <3>1, <4>1
    <3>2. CASE ~promise
      <4>1. promise' = TRUE /\ calls' = calls + 1
        BY <2>4, <3>2 DEF RefreshAuth
      <4>2. calls' = 1
        BY <3>2, <4>1
      <4>3. QED BY <4>1, <4>2
    <3>3. QED BY <3>1, <3>2
  <2>5. ASSUME NEW r \in Reqs, Unauthorized(r) PROVE SharedInv'
    <3>1. CASE r \notin retried
      BY <2>4, <2>5, <3>1 DEF Unauthorized
    <3>2. CASE r \in retried
      BY <2>5, <3>2 DEF Unauthorized, Forget
    <3>3. QED BY <3>1, <3>2
  <2>6. ASSUME NEW r \in Reqs, TryAgain(r) PROVE SharedInv'
    BY <2>4, <2>6 DEF TryAgain
  <2>7. CASE LogoutOk BY <2>7 DEF LogoutOk, Forget
  <2>8. CASE LogoutFinally BY <2>8 DEF LogoutFinally
  <2>9. CASE RefreshOk
    <3>1. calls' = 0 /\ promise' = FALSE /\ carried' = FALSE
      BY <2>9 DEF RefreshOk
    <3>2. \A r \in Reqs : pc'[r] # "refreshing"
      BY <2>9 DEF RefreshOk, Waiting
    <3>3. QED BY <3>1, <3>2
  <2>10. CASE RefreshFails
    <3>1. calls' = 0 /\ promise' = FALSE /\ carried' = FALSE
      BY <2>10 DEF RefreshFails
    <3>2. \A r \in Reqs : pc'[r] # "refreshing"
      BY <2>10 DEF RefreshFails, Waiting
    <3>3. QED BY <3>1, <3>2
  <2>11. ASSUME NEW path \in Pages, Load(path) PROVE SharedInv'
    BY <2>11 DEF Load
  <2>12. CASE Login BY <2>12 DEF Login
  <2>13. CASE AccessExpires BY <2>13 DEF AccessExpires
  <2>14. CASE RefreshExpires BY <2>14 DEF RefreshExpires
  <2>15. CASE MemberRemoved BY <2>15 DEF MemberRemoved
  <2>16. CASE UNCHANGED vars BY <2>16 DEF vars
  <2>17. "/login" \in Pages
    BY DEF Pages
  <2>18. QED
    BY <2>1, <2>2, <2>3, <2>5, <2>6, <2>7, <2>8, <2>9, <2>10, <2>11,
       <2>12, <2>13, <2>14, <2>15, <2>16, <2>17
       DEF Next, FollowRedirect, Visit
<1>3. QED BY <1>1, <1>2, TypesKept, PTL DEF Moves

\* The promise of refreshAuth is the one call.
LEMMA SharedIsOne == Moves => []OneRefresh
<1>1. SharedInv => OneRefresh
  BY DEF SharedInv, OneRefresh, Waiting
<1>2. QED BY <1>1, SharedInductive, PTL

------------------------------------------------------------------------------
\* A mutating request carries the token of the cookie that goes with it, also when
\* it is sent again after a refresh (the request interceptor).
LEMMA CsrfInductive == Moves => []CsrfMatches
<1> USE DEF CsrfMatches
<1>1. Init => CsrfMatches
  BY DEF Init
<1>2. TypeOK /\ CsrfMatches /\ [Next]_vars => CsrfMatches'
  <2> SUFFICES ASSUME TypeOK, CsrfMatches, [Next]_vars PROVE CsrfMatches'
    OBVIOUS
  <2> USE SessionAssumption DEF TypeOK, jarVars, pageVars, refreshVars, reqVars
  <2>1. ASSUME NEW r \in Reqs, Send(r) PROVE CsrfMatches'
    BY <2>1 DEF Send
  <2>2. ASSUME NEW r \in Reqs, AnswerOk(r) PROVE CsrfMatches'
    BY <2>2 DEF AnswerOk, Forget
  <2>3. ASSUME NEW r \in Reqs, AnswerError(r) PROVE CsrfMatches'
    BY <2>3 DEF AnswerError, Forget
  <2>4. ASSUME NEW r \in Reqs, Unauthorized(r) PROVE CsrfMatches'
    <3>1. CASE r \notin retried
      BY <2>4, <3>1 DEF Unauthorized
    <3>2. CASE r \in retried
      BY <2>4, <3>2 DEF Unauthorized, Forget
    <3>3. QED BY <3>1, <3>2
  <2>5. ASSUME NEW r \in Reqs, TryAgain(r) PROVE CsrfMatches'
    BY <2>5 DEF TryAgain
  <2>6. CASE LogoutOk BY <2>6 DEF LogoutOk, Forget
  <2>7. CASE LogoutFinally BY <2>7 DEF LogoutFinally
  <2>8. CASE RefreshOk BY <2>8 DEF RefreshOk, Waiting
  <2>9. CASE RefreshFails BY <2>9 DEF RefreshFails, Waiting
  <2>10. ASSUME NEW path \in Pages, Load(path) PROVE CsrfMatches'
    BY <2>10 DEF Load
  <2>11. CASE Login BY <2>11 DEF Login
  <2>12. CASE AccessExpires BY <2>12 DEF AccessExpires
  <2>13. CASE RefreshExpires BY <2>13 DEF RefreshExpires
  <2>14. CASE MemberRemoved BY <2>14 DEF MemberRemoved
  <2>15. CASE UNCHANGED vars BY <2>15 DEF vars
  <2>16. "/login" \in Pages
    BY DEF Pages
  <2>17. QED
    BY <2>1, <2>2, <2>3, <2>4, <2>5, <2>6, <2>7, <2>8, <2>9, <2>10, <2>11,
       <2>12, <2>13, <2>14, <2>15, <2>16 DEF Next, FollowRedirect, Visit
<1>3. QED BY <1>1, <1>2, TypesKept, PTL DEF Moves

------------------------------------------------------------------------------
\* After a logout without a refresh in flight nothing is left that could bring the
\* cookies back.
LEMMA GoneInductive == Moves => []GoneInv
<1> USE DEF GoneInv
<1>1. Init => GoneInv
  BY DEF Init
<1>2. SharedInv /\ GoneInv /\ [Next]_vars => GoneInv'
  <2> SUFFICES ASSUME SharedInv, GoneInv, [Next]_vars PROVE GoneInv'
    OBVIOUS
  <2> USE DEF jarVars, pageVars, refreshVars, reqVars
  <2>1. ASSUME NEW r \in Reqs, Send(r) PROVE GoneInv'
    BY <2>1 DEF Send
  <2>2. ASSUME NEW r \in Reqs, AnswerOk(r) \/ AnswerError(r) PROVE GoneInv'
    BY <2>2 DEF AnswerOk, AnswerError
  <2>3. ASSUME NEW r \in Reqs, RefreshAuth({r}), UNCHANGED <<access, refresh, out>>
        PROVE  GoneInv'
    <3>1. CASE promise
      <4>1. UNCHANGED carried
        BY <2>3, <3>1 DEF RefreshAuth
      <4>2. QED BY <2>3, <4>1
    <3>2. CASE ~promise
      <4>1. carried' = refresh
        BY <2>3, <3>2 DEF RefreshAuth
      <4>2. QED BY <2>3, <4>1
    <3>3. QED BY <3>1, <3>2
  <2>4. ASSUME NEW r \in Reqs, Unauthorized(r) PROVE GoneInv'
    <3>1. CASE r \notin retried
      BY <2>3, <2>4, <3>1 DEF Unauthorized
    <3>2. CASE r \in retried
      BY <2>4, <3>2 DEF Unauthorized, ForceOut
    <3>3. QED BY <3>1, <3>2
  <2>5. ASSUME NEW r \in Reqs, TryAgain(r) PROVE GoneInv'
    BY <2>3, <2>5 DEF TryAgain
  <2>6. CASE LogoutOk
    <3>1. out' => ~promise
      <4>1. promise => ~(calls = 0)
        BY DEF SharedInv
      <4>2. out' = (calls = 0)
        BY <2>6 DEF LogoutOk
      <4>3. QED BY <4>1, <4>2, Zenon
    <3>2. access' = FALSE /\ refresh' = FALSE /\ carried' = carried
      BY <2>6 DEF LogoutOk
    <3>3. QED BY <3>1, <3>2 DEF SharedInv
  <2>7. CASE LogoutFinally BY <2>7 DEF LogoutFinally
  <2>8. CASE RefreshOk BY <2>8 DEF RefreshOk
  <2>9. CASE RefreshFails BY <2>9 DEF RefreshFails, ForceOut
  <2>10. ASSUME NEW path \in Pages, Load(path) PROVE GoneInv'
    BY <2>10 DEF Load
  <2>11. CASE Login BY <2>11 DEF Login
  <2>12. CASE AccessExpires BY <2>12 DEF AccessExpires
  <2>13. CASE RefreshExpires BY <2>13 DEF RefreshExpires
  <2>14. CASE MemberRemoved BY <2>14 DEF MemberRemoved
  <2>15. CASE UNCHANGED vars BY <2>15 DEF vars
  <2>16. "/login" \in Pages
    BY DEF Pages
  <2>17. QED
    BY <2>1, <2>2, <2>4, <2>5, <2>6, <2>7, <2>8, <2>9, <2>10, <2>11,
       <2>12, <2>13, <2>14, <2>15, <2>16 DEF Next, FollowRedirect, Visit
<1>3. QED BY <1>1, <1>2, SharedInductive, PTL DEF Moves

------------------------------------------------------------------------------
(* The session, by itself and in the shell *)

\* Both specifications of the session move as Next does; what they say of fairness
\* is not needed.
LEMMA BothMove == (Spec => Moves) /\ (ShellSpec => Moves)
<1>1. Spec => Moves
  BY PTL DEF Spec, Moves
<1>2. ShellInit => Init
  BY DEF ShellInit
<1>3. [ShellNext]_shellVars => [Next]_vars
  BY DEF ShellNext, shellVars
<1>4. ShellSpec => Moves
  BY <1>2, <1>3, PTL DEF ShellSpec, Moves
<1>5. QED BY <1>1, <1>4

\* The variables keep their types.
THEOREM SessionTypes == Spec => []TypeOK
BY BothMove, TypesKept, PTL

\* However many requests are refused at the same time, one refresh is in flight,
\* and whoever awaits a refresh awaits one that is in flight (refreshAuth).
THEOREM RefreshShared == Spec => []OneRefresh
BY BothMove, SharedIsOne, PTL

\* A mutating request carries the token of the cookie that goes with it, also when
\* it is sent again after a refresh (the request interceptor).
THEOREM CsrfKept == Spec => []CsrfMatches
BY BothMove, CsrfInductive, PTL

\* A logout that was answered while no refresh was in flight is final: no late
\* answer brings the cookies of the session back (handleLogout).
THEOREM LogoutFinal == Spec => []LogoutSticks
<1>1. GoneInv => LogoutSticks
  BY DEF GoneInv, LogoutSticks
<1>2. QED BY <1>1, BothMove, GoneInductive, PTL

\* The shell, which is what is model-checked, keeps the session's invariants.
THEOREM ShellKeepsSession ==
    ShellSpec => [](TypeOK /\ OneRefresh /\ CsrfMatches /\ LogoutSticks)
<1>1. GoneInv => LogoutSticks
  BY DEF GoneInv, LogoutSticks
<1>2. QED BY <1>1, BothMove, TypesKept, SharedIsOne, CsrfInductive, GoneInductive, PTL

------------------------------------------------------------------------------
(* Why requests settle *)

InFlight(r) == pc[r] \in {"sent", "refreshing", "backoff"}

\* How many answers, delays and resends a request is at most away from its end: a
\* first 401 costs it up to three refreshes and one resend, a second one ends it.
Rank(r) ==
    CASE pc[r] = "sent" /\ r \notin retried -> 2 * MaxTries + 2
      [] pc[r] = "refreshing" -> 2 * (MaxTries - tries[r]) + 3
      [] pc[r] = "backoff" -> 2 * (MaxTries - tries[r]) + 2
      [] pc[r] = "sent" /\ r \in retried -> 1
      [] OTHER -> 0

\* It is never further than that.
RankBounded == \A r \in Reqs : InFlight(r) => Rank(r) \in 1..(2 * MaxTries + 2)

\* Whoever awaits a refresh has used up its one retry, and begun to try.
TriesInv ==
    \A r \in Reqs : pc[r] \in {"refreshing", "backoff"} =>
        r \in retried /\ tries[r] \in 1..MaxTries

\* A request that is out only moves towards its end.
RunsDown ==
    \A r \in Reqs : InFlight(r) =>
        \/ pc'[r] = pc[r] /\ tries'[r] = tries[r] /\ (r \in retried' <=> r \in retried)
        \/ Rank(r)' < Rank(r)

\* What a step may do to a request.
Changed(r) ==
    \/ pc'[r] = pc[r] /\ tries'[r] = tries[r] /\ (r \in retried' <=> r \in retried)
    \/ pc'[r] \in {"idle", "finally"}
    \/ pc[r] = "idle" /\ pc'[r] = "sent"
    \/ pc[r] = "sent" /\ r \notin retried
       /\ pc'[r] = "refreshing" /\ tries'[r] = 1 /\ r \in retried'
    \/ pc[r] = "backoff"
       /\ pc'[r] = "refreshing" /\ tries'[r] = tries[r] + 1 /\ r \in retried'
    \/ pc[r] = "refreshing" /\ pc'[r] = "sent" /\ r \in retried'
    \/ pc[r] = "refreshing" /\ tries[r] # MaxTries
       /\ pc'[r] = "backoff" /\ tries'[r] = tries[r] /\ r \in retried'

\* Each of them keeps the count of the tries, and brings a request that is out nearer
\* to its end.
LEMMA ChangeLowers ==
    ASSUME TypeOK, BackoffInv, TriesInv, NEW r \in Reqs, Changed(r)
    PROVE  /\ pc'[r] \in {"refreshing", "backoff"} =>
                r \in retried' /\ tries'[r] \in 1..MaxTries
           /\ InFlight(r) =>
                \/ pc'[r] = pc[r] /\ tries'[r] = tries[r]
                   /\ (r \in retried' <=> r \in retried)
                \/ Rank(r)' < Rank(r)
<1> USE DEF MaxTries
<1>1. /\ tries[r] \in 0..3
      /\ pc[r] \in {"refreshing", "backoff"} => r \in retried /\ tries[r] \in 1..3
      /\ pc[r] = "backoff" => tries[r] < 3
  BY DEF TypeOK, BackoffInv, TriesInv
<1>2. CASE pc'[r] = pc[r] /\ tries'[r] = tries[r] /\ (r \in retried' <=> r \in retried)
  BY <1>1, <1>2
<1>3. CASE pc'[r] \in {"idle", "finally"}
  <2>1. Rank(r)' = 0
    BY <1>3 DEF Rank
  <2>2. InFlight(r) => Rank(r) > 0
    BY <1>1 DEF InFlight, Rank
  <2>3. QED BY <1>3, <2>1, <2>2
<1>4. CASE pc[r] = "idle" /\ pc'[r] = "sent"
  BY <1>4 DEF InFlight
<1>5. CASE pc[r] = "sent" /\ r \notin retried
           /\ pc'[r] = "refreshing" /\ tries'[r] = 1 /\ r \in retried'
  <2>1. Rank(r) = 8 /\ Rank(r)' = 7
    BY <1>5 DEF Rank
  <2>2. QED BY <1>5, <2>1
<1>6. CASE pc[r] = "backoff"
           /\ pc'[r] = "refreshing" /\ tries'[r] = tries[r] + 1 /\ r \in retried'
  <2>1. Rank(r) = 2 * (3 - tries[r]) + 2
    BY <1>6 DEF Rank
  <2>2. Rank(r)' = 2 * (3 - (tries[r] + 1)) + 3
    BY <1>6 DEF Rank
  <2>3. QED BY <1>1, <1>6, <2>1, <2>2
<1>7. CASE pc[r] = "refreshing" /\ pc'[r] = "sent" /\ r \in retried'
  <2>1. Rank(r) = 2 * (3 - tries[r]) + 3
    BY <1>7 DEF Rank
  <2>2. Rank(r)' = 1
    BY <1>7 DEF Rank
  <2>3. QED BY <1>1, <1>7, <2>1, <2>2
<1>8. CASE pc[r] = "refreshing" /\ tries[r] # MaxTries
           /\ pc'[r] = "backoff" /\ tries'[r] = tries[r] /\ r \in retried'
  <2>1. Rank(r) = 2 * (3 - tries[r]) + 3
    BY <1>8 DEF Rank
  <2>2. Rank(r)' = 2 * (3 - tries[r]) + 2
    BY <1>8 DEF Rank
  <2>3. QED BY <1>1, <1>8, <2>1, <2>2
<1>9. QED BY <1>2, <1>3, <1>4, <1>5, <1>6, <1>7, <1>8 DEF Changed

\* No step does anything else to a request.
LEMMA StepChanges ==
    ASSUME TypeOK, TriesInv, [Next]_vars, NEW q \in Reqs
    PROVE  Changed(q)
<1> USE DEF TypeOK, reqVars, Changed
<1>1. ASSUME NEW r \in Reqs, Send(r) PROVE Changed(q)
  BY <1>1 DEF Send
<1>2. ASSUME NEW r, Forget({r}) PROVE Changed(q)
  BY <1>2 DEF Forget
<1>3. ASSUME NEW r \in Reqs, Unauthorized(r) PROVE Changed(q)
  <2>1. CASE r \in retried BY <1>2, <1>3, <2>1 DEF Unauthorized
  <2>2. CASE r \notin retried BY <1>3, <2>2 DEF Unauthorized
  <2>3. QED BY <2>1, <2>2
<1>4. ASSUME NEW r \in Reqs, TryAgain(r) PROVE Changed(q)
  <2>1. r \in retried
    BY <1>4 DEF TryAgain, TriesInv
  <2>2. QED BY <1>4, <2>1 DEF TryAgain
<1>5. CASE LogoutFinally BY <1>5 DEF LogoutFinally
<1>6. CASE RefreshOk
  <2>1. CASE q \in Waiting BY <1>6, <2>1 DEF RefreshOk, Waiting, TriesInv
  <2>2. CASE q \notin Waiting BY <1>6, <2>2 DEF RefreshOk
  <2>3. QED BY <2>1, <2>2
<1>7. CASE RefreshFails
  <2> DEFINE spent == {r \in Waiting : tries[r] = MaxTries}
  <2>1. /\ pc'[q] = IF q \in spent THEN IF q = Logout THEN "finally" ELSE "idle"
                    ELSE IF q \in Waiting THEN "backoff" ELSE pc[q]
        /\ retried' = retried \ spent
        /\ tries'[q] = IF q \in spent THEN 0 ELSE tries[q]
    BY <1>7 DEF RefreshFails
  <2>2. CASE q \in spent BY <2>1, <2>2
  <2>3. CASE q \in Waiting \ spent BY <2>1, <2>3 DEF Waiting, TriesInv
  <2>4. CASE q \notin Waiting BY <2>1, <2>4
  <2>5. QED BY <2>2, <2>3, <2>4
<1>8. ASSUME NEW path \in Pages, Load(path) PROVE Changed(q)
  BY <1>8 DEF Load
<1>9. CASE Login BY <1>9 DEF Login
<1>10. CASE AccessExpires \/ RefreshExpires \/ MemberRemoved \/ UNCHANGED vars
  BY <1>10 DEF AccessExpires, RefreshExpires, MemberRemoved, vars
<1>11. "/login" \in Pages
  BY DEF Pages
<1>12. QED
  BY <1>1, <1>2, <1>3, <1>4, <1>5, <1>6, <1>7, <1>8, <1>9, <1>10, <1>11
     DEF Next, AnswerOk, AnswerError, LogoutOk, FollowRedirect, Visit

\* The tries of whoever awaits a refresh are counted.
LEMMA TriesInductive == Moves => []TriesInv
<1>1. Init => TriesInv
  BY DEF Init, TriesInv
<1>2. TypeOK /\ BackoffInv /\ TriesInv /\ [Next]_vars => TriesInv'
  <2> SUFFICES ASSUME TypeOK, BackoffInv, TriesInv, [Next]_vars, NEW r \in Reqs,
                      pc'[r] \in {"refreshing", "backoff"}
               PROVE  r \in retried' /\ tries'[r] \in 1..MaxTries
    BY DEF TriesInv
  <2>1. Changed(r)
    BY StepChanges
  <2>2. QED BY <2>1, ChangeLowers
<1>3. QED BY <1>1, <1>2, TypesInductive, PTL DEF Moves

\* A request that is out only moves towards its end, in at most eight moves: _retry
\* and the three tries of refreshAuthWithRetry leave no way round.
THEOREM RequestsRunDown == ShellSpec => []RankBounded /\ [][RunsDown]_vars
<1>1. TypeOK /\ TriesInv => RankBounded
  <2> SUFFICES ASSUME TypeOK, TriesInv, NEW r \in Reqs, InFlight(r)
               PROVE  Rank(r) \in 1..(2 * MaxTries + 2)
    BY DEF RankBounded
  <2>1. CASE pc[r] = "sent"
    <3>1. Rank(r) \in {1, 8}
      BY <2>1 DEF Rank, MaxTries
    <3>2. QED BY <3>1 DEF MaxTries
  <2>2. CASE pc[r] \in {"refreshing", "backoff"}
    <3>1. tries[r] \in 1..3
      BY <2>2 DEF TriesInv, MaxTries
    <3>2. Rank(r) \in {2 * (3 - tries[r]) + 3, 2 * (3 - tries[r]) + 2}
      BY <2>2 DEF Rank, MaxTries
    <3>3. QED BY <3>1, <3>2 DEF MaxTries
  <2>3. QED BY <2>1, <2>2 DEF InFlight
<1>2. TypeOK /\ BackoffInv /\ TriesInv /\ [Next]_vars => [RunsDown]_vars
  <2> SUFFICES ASSUME TypeOK, BackoffInv, TriesInv, [Next]_vars, NEW r \in Reqs
               PROVE  InFlight(r) =>
                        \/ pc'[r] = pc[r] /\ tries'[r] = tries[r]
                           /\ (r \in retried' <=> r \in retried)
                        \/ Rank(r)' < Rank(r)
    BY DEF RunsDown
  <2>1. Changed(r)
    BY StepChanges
  <2>2. QED BY <2>1, ChangeLowers
<1>3. QED BY <1>1, <1>2, BothMove, TypesInductive, TriesInductive, PTL DEF Moves

------------------------------------------------------------------------------
(* The pages that only read *)

TelemetryKeys == {Insights!TelemetryKey(r) : r \in Ranges}

\* What is on its way to the cache, and what is there, is what the key says: of a
\* range the telemetry of that range, of the predictions some of them.
Answers(k) ==
    IF k = Insights!PredictionsKey THEN SUBSET (1..Len(Records)) ELSE {k.range}

ViewInv ==
    /\ stored \in 0..Len(Records)
    /\ timeRange \in Ranges
    /\ data = [k \in Insights!Keys |-> data[k]]
    /\ fetch = [k \in Insights!Keys |-> fetch[k]]
    /\ window = [k \in Insights!Keys |-> window[k]]
    /\ answer = [k \in Insights!Keys |-> answer[k]]
    /\ \A k \in Insights!Keys :
         /\ data[k] \in Answers(k) \union {None}
         /\ k # Insights!PredictionsKey /\ fetch[k] # "idle" => window[k] = k.range
         /\ fetch[k] = "answered" => answer[k] \in Answers(k)

\* The keys, and that no range has the key of the predictions.
LEMMA KeyFacts ==
    /\ Insights!Keys = TelemetryKeys \union {Insights!PredictionsKey}
    /\ \A r \in Ranges : /\ Insights!TelemetryKey(r) \in Insights!Keys
                         /\ Insights!TelemetryKey(r) # Insights!PredictionsKey
                         /\ Insights!TelemetryKey(r).range = r
    /\ Insights!PredictionsKey \in Insights!Keys
    /\ \A k \in Insights!Keys : k # Insights!PredictionsKey
         => \E r \in Ranges : k = Insights!TelemetryKey(r)
BY DEF Insights!Keys, TelemetryKeys, Insights!TelemetryKey, Insights!PredictionsKey

\* Fetching asks for the range of the key.
LEMMA FetchKeeps ==
    ASSUME ViewInv, NEW K \in SUBSET Insights!Keys, NEW r, Insights!Fetch(K, r),
           \A k \in K : k # Insights!PredictionsKey => k.range = r,
           stored' = stored, timeRange' \in Ranges
    PROVE  ViewInv'
<1> USE DEF ViewInv, Answers
<1> DEFINE started == {k \in K : data[k] # None \/ fetch[k] = "idle"}
<1>1. /\ fetch' = [k \in Insights!Keys |-> IF k \in started THEN "sent" ELSE fetch[k]]
      /\ window' = [k \in Insights!Keys |-> IF k \in started THEN r ELSE window[k]]
      /\ answer' = [k \in Insights!Keys |-> IF k \in started THEN None ELSE answer[k]]
      /\ data' = data
  BY DEF Insights!Fetch
<1>2. \A k \in Insights!Keys :
        /\ k \in started => fetch'[k] = "sent" /\ window'[k] = r
        /\ k \notin started => /\ fetch'[k] = fetch[k] /\ window'[k] = window[k]
                               /\ answer'[k] = answer[k]
  BY <1>1
<1>3. /\ fetch' = [k \in Insights!Keys |-> fetch'[k]]
      /\ window' = [k \in Insights!Keys |-> window'[k]]
      /\ answer' = [k \in Insights!Keys |-> answer'[k]]
  BY <1>1
<1>4. Insights!Keys' = Insights!Keys /\ Insights!PredictionsKey' = Insights!PredictionsKey
  BY DEF Insights!Keys, Insights!TelemetryKey, Insights!PredictionsKey
<1>5. started \subseteq K
  OBVIOUS
<1> HIDE DEF started
<1>6. ASSUME NEW k \in Insights!Keys
      PROVE  /\ data'[k] \in Answers(k) \union {None}
             /\ k # Insights!PredictionsKey /\ fetch'[k] # "idle" => window'[k] = k.range
             /\ fetch'[k] = "answered" => answer'[k] \in Answers(k)
  <2>1. CASE k \in started BY <1>1, <1>2, <1>5, <2>1
  <2>2. CASE k \notin started BY <1>1, <1>2, <2>2
  <2>3. QED BY <2>1, <2>2
<1>7. QED BY <1>1, <1>3, <1>4, <1>6

\* A page that is shown fetches its own key, for the range that is selected.
LEMMA ObserveKeeps ==
    ASSUME ViewInv, NEW p, NEW r \in Ranges, Insights!Observe(p, r),
           stored' = stored, timeRange' = r
    PROVE  ViewInv'
<1>1. PICK aged \in SUBSET Insights!KeyOf(p, r) :
        Insights!Fetch({k \in Insights!KeyOf(p, r) :
                          /\ fetch[k] = "idle"
                          /\ data[k] = None \/ k \in errored \union aged}, r)
  BY DEF Insights!Observe
<1> DEFINE K == {k \in Insights!KeyOf(p, r) :
                   /\ fetch[k] = "idle"
                   /\ data[k] = None \/ k \in errored \union aged}
<1>2. K \in SUBSET Insights!Keys /\ \A k \in K : k # Insights!PredictionsKey => k.range = r
  BY KeyFacts DEF Insights!KeyOf
<1>3. Insights!Fetch(K, r)
  BY <1>1
<1> HIDE DEF K
<1>4. QED BY <1>2, <1>3, FetchKeeps

\* An answer is of the window that was asked for; a fetch that is over leaves
\* nothing behind.
LEMMA ViewStep == ViewInv /\ [Insights!Next]_viewVars => ViewInv'
<1> SUFFICES ASSUME ViewInv, [Insights!Next]_viewVars PROVE ViewInv'
  OBVIOUS
<1>0. Insights!Keys' = Insights!Keys /\ Insights!PredictionsKey' = Insights!PredictionsKey
  BY DEF Insights!Keys, Insights!TelemetryKey, Insights!PredictionsKey
<1>1. CASE Insights!Predict
  <2>1. /\ stored' = stored + 1 /\ stored < Len(Records)
        /\ UNCHANGED <<timeRange, data, fetch, window, answer>>
    BY <1>1 DEF Insights!Predict, Insights!uiVars, Insights!cacheVars
  <2>2. stored' \in 0..Len(Records)
    BY <2>1, ShellAssumption DEF ViewInv
  <2>3. QED BY <1>0, <2>1, <2>2 DEF ViewInv, Answers
<1>2. ASSUME NEW k \in Insights!Keys, Insights!Answer(k) PROVE ViewInv'
  <2>1. /\ fetch[k] = "sent"
        /\ fetch' = [fetch EXCEPT ![k] = "answered"]
        /\ answer' = [answer EXCEPT ![k] =
                        IF k = Insights!PredictionsKey THEN Insights!Newest ELSE window[k]]
        /\ UNCHANGED <<timeRange, data, window, stored>>
    BY <1>2 DEF Insights!Answer, Insights!uiVars
  <2>2. /\ fetch'[k] = "answered"
        /\ answer'[k] = IF k = Insights!PredictionsKey THEN Insights!Newest ELSE window[k]
        /\ \A l \in Insights!Keys : l # k => fetch'[l] = fetch[l] /\ answer'[l] = answer[l]
        /\ fetch' = [l \in Insights!Keys |-> fetch'[l]]
        /\ answer' = [l \in Insights!Keys |-> answer'[l]]
    BY <2>1 DEF ViewInv
  <2>3. answer'[k] \in Answers(k)
    <3>1. Insights!Newest \in SUBSET (1..Len(Records))
      BY ShellAssumption DEF ViewInv, Insights!Newest
    <3>2. QED BY <2>1, <2>2, <3>1 DEF ViewInv, Answers
  <2>4. QED BY <1>0, <2>1, <2>2, <2>3 DEF ViewInv, Answers
<1>3. ASSUME NEW k \in Insights!Keys, Insights!Arrive(k) \/ Insights!FetchFails(k)
      PROVE  ViewInv'
  <2>1. /\ fetch' = [fetch EXCEPT ![k] = "idle"]
        /\ answer' = [answer EXCEPT ![k] = None]
        /\ window' = [window EXCEPT ![k] = None]
        /\ UNCHANGED <<timeRange, stored>>
        /\ \/ data' = data
           \/ fetch[k] = "answered" /\ data' = [data EXCEPT ![k] = answer[k]]
    BY <1>3 DEF Insights!Arrive, Insights!FetchFails, Insights!Settle, Insights!uiVars
  <2>2. /\ fetch'[k] = "idle"
        /\ \A l \in Insights!Keys : l # k => /\ fetch'[l] = fetch[l]
                                             /\ answer'[l] = answer[l]
                                             /\ window'[l] = window[l]
        /\ fetch' = [l \in Insights!Keys |-> fetch'[l]]
        /\ answer' = [l \in Insights!Keys |-> answer'[l]]
        /\ window' = [l \in Insights!Keys |-> window'[l]]
    BY <2>1 DEF ViewInv
  <2>3. /\ data'[k] \in Answers(k) \union {None}
        /\ \A l \in Insights!Keys : l # k => data'[l] = data[l]
        /\ data' = [l \in Insights!Keys |-> data'[l]]
    <3>1. CASE data' = data BY <3>1 DEF ViewInv
    <3>2. CASE fetch[k] = "answered" /\ data' = [data EXCEPT ![k] = answer[k]]
      BY <3>2 DEF ViewInv
    <3>3. QED BY <2>1, <3>1, <3>2
  <2>4. QED BY <1>0, <2>1, <2>2, <2>3 DEF ViewInv, Answers
<1>4. ASSUME NEW p \in Insights!Pages, Insights!Open(p) PROVE ViewInv'
  BY <1>4, ObserveKeeps, ShellAssumption DEF Insights!Open
<1>5. ASSUME NEW r \in Ranges, Insights!ChooseRange(r) PROVE ViewInv'
  BY <1>5, ObserveKeeps DEF Insights!ChooseRange
<1>6. CASE Insights!Refresh \/ Insights!Tick
  <2>1. /\ Insights!Fetch({Insights!PredictionsKey}, None)
        /\ stored' = stored /\ timeRange' \in Ranges
    BY <1>6 DEF Insights!Refresh, Insights!Tick, Insights!uiVars, ViewInv
  <2>2. QED BY <2>1, KeyFacts, FetchKeeps
<1>7. CASE Insights!ToggleAutoRefresh \/ UNCHANGED viewVars
  <2>1. UNCHANGED <<stored, timeRange, data, fetch, window, answer>>
    BY <1>7 DEF Insights!ToggleAutoRefresh, Insights!cacheVars, viewVars
  <2>2. QED BY <1>0, <2>1 DEF ViewInv, Answers
<1>8. QED BY <1>1, <1>2, <1>3, <1>4, <1>5, <1>6, <1>7 DEF Insights!Next

\* The invariant of the pages, in the shell.
LEMMA ViewInvariant == ShellSpec => []ViewInv
<1>1. ShellInit => ViewInv
  BY KeyFacts, ShellAssumption DEF ShellInit, Insights!Init, ViewInv, Answers
<1>2. [ShellNext]_shellVars => [Insights!Next]_viewVars
  BY DEF ShellNext, shellVars
<1>3. QED BY <1>1, <1>2, ViewStep, PTL DEF ShellSpec

------------------------------------------------------------------------------
(* What they show *)

\* The telemetry that is shown is of the range that is selected.
LEMMA RangeFollows == ViewInv => Insights!RangeIsShown
BY KeyFacts DEF ViewInv, Answers, Insights!RangeIsShown

\* Cardinality is the same from either module.
LEMMA SameCardinality == \A T : Insights!Cardinality(T) = Cardinality(T)
BY DEF Insights!Cardinality, Cardinality

\* A set of scores has a greatest one: in one without, there would be a score by
\* one, two, four, eight, sixteen above any other.
LEMMA GreatestScore ==
    ASSUME NEW S \in SUBSET (0..10), S # {}
    PROVE  \E s \in S : \A other \in S : other <= s
<1> SUFFICES ASSUME \A s \in S : \E other \in S : ~(other <= s) PROVE FALSE
  OBVIOUS
<1>1. \A s \in S : s \in Int /\ 0 <= s /\ s <= 10
  OBVIOUS
<1>2. \A s \in S : \E other \in S : s + 1 <= other
  BY <1>1
<1>3. \A s \in S : \E other \in S : s + 2 <= other
  BY <1>1, <1>2
<1>4. \A s \in S : \E other \in S : s + 4 <= other
  BY <1>1, <1>3
<1>5. \A s \in S : \E other \in S : s + 8 <= other
  BY <1>1, <1>4
<1>6. \A s \in S : \E other \in S : s + 16 <= other
  BY <1>1, <1>5
<1>7. PICK s \in S : TRUE
  OBVIOUS
<1>8. PICK other \in S : s + 16 <= other
  BY <1>6
<1>9. QED BY <1>1, <1>7, <1>8

\* The bands.
Bands == {"critical", "warning", "stable"}

\* The cache holds some of the predictions there may be.
LEMMA PredictionsFact ==
    ASSUME ViewInv
    PROVE  Insights!Predictions \subseteq 1..Len(Records)
<1>1. data[Insights!PredictionsKey] \in Answers(Insights!PredictionsKey) \union {None}
  BY KeyFacts DEF ViewInv
<1>2. data[Insights!PredictionsKey] = None
        \/ data[Insights!PredictionsKey] \in SUBSET (1..Len(Records))
  BY <1>1 DEF Answers
<1>3. QED BY <1>2 DEF Insights!Predictions

\* Every group has events, and the band of the most severe of them.
LEMMA GroupFacts ==
    ASSUME ViewInv, NEW g \in Insights!Groups
    PROVE  /\ Insights!Group(g) # {}
           /\ \A i \in Insights!Group(g) :
                Records[i].score \in 0..10 /\ Records[i].score <= Insights!MaxRisk(g)
           /\ \E i \in Insights!Group(g) : Records[i].score = Insights!MaxRisk(g)
<1> DEFINE scores == {Records[i].score : i \in Insights!Group(g)}
<1>1. Insights!Predictions \subseteq 1..Len(Records)
  BY PredictionsFact, ShellAssumption
<1>2. Insights!Group(g) # {}
  BY DEF Insights!Groups, Insights!Group
<1>3. \A i \in Insights!Group(g) : Records[i].score \in 0..10
  BY <1>1, ShellAssumption DEF Insights!Group
<1>4. scores \in SUBSET (0..10) /\ scores # {}
  BY <1>2, <1>3
<1>5. \E s \in scores : \A other \in scores : other <= s
  BY <1>4, GreatestScore
<1>6. Insights!MaxRisk(g) \in scores /\ \A other \in scores : other <= Insights!MaxRisk(g)
  BY <1>5 DEF Insights!MaxRisk
<1>7. QED BY <1>2, <1>3, <1>6

\* A score is in one band.
LEMMA OneBand ==
    ASSUME NEW s \in 0..10
    PROVE  /\ Insights!Band(s) \in Bands
           /\ Insights!Band(s) = "critical" <=> s >= 8
           /\ Insights!Band(s) = "stable" <=> s < 5
BY DEF Insights!Band, Bands

\* A group is under the filter of its band and under no other.
LEMMA FilterFacts ==
    ASSUME ViewInv
    PROVE  /\ Insights!Filtered("all") = Insights!Groups
           /\ \A b \in Bands :
                Insights!Filtered(b) = {g \in Insights!Groups :
                                          Insights!Band(Insights!MaxRisk(g)) = b}
           /\ \A g \in Insights!Groups : Insights!Band(Insights!MaxRisk(g)) \in Bands
<1>1. ASSUME NEW g \in Insights!Groups
      PROVE  Insights!Band(Insights!MaxRisk(g)) \in Bands
  BY GroupFacts, OneBand
<1>2. QED BY <1>1 DEF Insights!Filtered, Bands

\* The events of a group that is under a filter.
LEMMA EventFacts ==
    ASSUME ViewInv, NEW b \in Bands, NEW g \in Insights!Filtered(b)
    PROVE  /\ Insights!Events(g, b) # {}
           /\ b # "critical" => Insights!Events(g, "critical") = {}
           /\ b = "stable" => Insights!Events(g, b) = Insights!Group(g)
<1>1. g \in Insights!Groups /\ Insights!Band(Insights!MaxRisk(g)) = b
  BY FilterFacts
<1>2. \A i \in Insights!Group(g) :
        Records[i].score \in 0..10 /\ Records[i].score <= Insights!MaxRisk(g)
  BY <1>1, GroupFacts
<1>3. PICK i \in Insights!Group(g) : Records[i].score = Insights!MaxRisk(g)
  BY <1>1, GroupFacts
<1>4. Insights!MaxRisk(g) \in 0..10
  BY <1>2, <1>3
<1>5. CASE b = "critical"
  <2>1. Insights!MaxRisk(g) >= 8
    BY <1>1, <1>4, <1>5, OneBand
  <2>2. QED BY <1>2, <1>3, <1>5, <2>1 DEF Insights!Events
<1>6. CASE b = "warning"
  <2>1. Insights!MaxRisk(g) >= 5 /\ Insights!MaxRisk(g) < 8
    BY <1>1, <1>4, <1>6, OneBand
  <2>2. QED BY <1>2, <1>3, <1>4, <1>6, <2>1 DEF Insights!Events
<1>7. CASE b = "stable"
  <2>1. Insights!MaxRisk(g) < 5
    BY <1>1, <1>4, <1>7, OneBand
  <2>2. QED BY <1>2, <1>3, <1>4, <1>7, <2>1 DEF Insights!Events
<1>8. QED BY <1>5, <1>6, <1>7 DEF Bands

\* Predictions and groups are finitely many.
LEMMA FiniteView ==
    ASSUME ViewInv
    PROVE  IsFiniteSet(Insights!Predictions) /\ IsFiniteSet(Insights!Groups)
<1>1. Insights!Predictions \subseteq 1..Len(Records) /\ Len(Records) \in Int
  BY PredictionsFact, ShellAssumption
<1>2. IsFiniteSet(1..Len(Records))
  BY <1>1, FS_Interval
<1>3. IsFiniteSet(Insights!Predictions)
  BY <1>1, <1>2, FS_Subset
<1>4. [i \in Insights!Predictions |-> Records[i].group]
        \in Surjection(Insights!Predictions, Insights!Groups)
  BY DEF Surjection, Insights!Groups
<1>5. IsFiniteSet(Insights!Groups)
  BY <1>3, <1>4, FS_Surjection
<1>6. QED BY <1>3, <1>5

\* The number of elements of three sets that share none.
LEMMA ThreeParts ==
    ASSUME NEW A, NEW B, NEW C, IsFiniteSet(A), IsFiniteSet(B), IsFiniteSet(C),
           A \intersect B = {}, (A \union B) \intersect C = {}
    PROVE  Cardinality(A) + Cardinality(B) + Cardinality(C)
             = Cardinality(A \union B \union C)
<1>1. /\ IsFiniteSet(A \union B)
      /\ Cardinality(A \union B)
           = Cardinality(A) + Cardinality(B) - Cardinality(A \intersect B)
  BY FS_Union
<1>2. Cardinality((A \union B) \union C)
        = Cardinality(A \union B) + Cardinality(C) - Cardinality((A \union B) \intersect C)
  BY <1>1, FS_Union
<1>3. Cardinality({}) = 0
  BY FS_EmptySet
<1>4. Cardinality(A) \in Nat /\ Cardinality(B) \in Nat /\ Cardinality(C) \in Nat
  BY FS_CardinalityType
<1>5. /\ Cardinality(A \union B) = Cardinality(A) + Cardinality(B)
      /\ Cardinality((A \union B) \union C) = Cardinality(A \union B) + Cardinality(C)
  <2>1. Cardinality(A \intersect B) = 0 /\ Cardinality((A \union B) \intersect C) = 0
    BY <1>3
  <2>2. Cardinality(A \union B) \in Nat
    BY <1>1, FS_CardinalityType
  <2>3. QED BY <1>1, <1>2, <1>4, <2>1, <2>2
<1>6. QED BY <1>5

\* The events under a filter.
Under(b) == UNION {Insights!Group(g) : g \in Insights!Filtered(b)}

\* The counts under the three filters sum up to those under all of them.
LEMMA CountsAddUp ==
    ASSUME ViewInv
    PROVE  /\ Insights!TotalSignals("critical") + Insights!TotalSignals("warning")
                + Insights!TotalSignals("stable") = Insights!TotalSignals("all")
           /\ Insights!CriticalGroups("critical") + Insights!CriticalGroups("warning")
                + Insights!CriticalGroups("stable") = Insights!CriticalGroups("all")
<1>1. \A b \in Bands \union {"all"} : Under(b) \subseteq Insights!Predictions
  BY DEF Under, Insights!Group
<1>2. \A b \in Bands \union {"all"} : IsFiniteSet(Under(b))
  BY <1>1, FiniteView, FS_Subset
<1>3. ASSUME NEW b \in Bands, NEW c \in Bands, b # c PROVE Under(b) \intersect Under(c) = {}
  <2>1. \A g \in Insights!Filtered(b), h \in Insights!Filtered(c) : g # h
    BY <1>3, FilterFacts
  <2>2. QED BY <2>1 DEF Under, Insights!Group
<1>4. Under("critical") \union Under("warning") \union Under("stable") = Under("all")
  BY FilterFacts DEF Under, Bands
<1>5. /\ Under("critical") \intersect Under("warning") = {}
      /\ (Under("critical") \union Under("warning")) \intersect Under("stable") = {}
  BY <1>3 DEF Bands
<1>6. \A b : Insights!TotalSignals(b) = Cardinality(Under(b))
  BY SameCardinality DEF Insights!TotalSignals, Under
<1>7. Insights!TotalSignals("critical") + Insights!TotalSignals("warning")
        + Insights!TotalSignals("stable") = Insights!TotalSignals("all")
  <2>1. /\ IsFiniteSet(Under("critical")) /\ IsFiniteSet(Under("warning"))
        /\ IsFiniteSet(Under("stable"))
    BY <1>2 DEF Bands
  <2>2. Cardinality(Under("critical")) + Cardinality(Under("warning"))
          + Cardinality(Under("stable")) = Cardinality(Under("all"))
    BY <1>4, <1>5, <2>1, ThreeParts
  <2>3. QED BY <1>6, <2>2
<1>8. /\ Insights!Filtered("critical") \in SUBSET Insights!Groups
      /\ Insights!Filtered("all") \intersect Insights!Filtered("critical")
           = Insights!Filtered("critical")
      /\ Insights!Filtered("warning") \intersect Insights!Filtered("critical") = {}
      /\ Insights!Filtered("stable") \intersect Insights!Filtered("critical") = {}
  BY FilterFacts DEF Bands
<1>9. /\ Insights!CriticalGroups("critical") = Cardinality(Insights!Filtered("critical"))
      /\ Insights!CriticalGroups("all") = Cardinality(Insights!Filtered("critical"))
      /\ Insights!CriticalGroups("warning") = 0
      /\ Insights!CriticalGroups("stable") = 0
  BY <1>8, SameCardinality, FS_EmptySet DEF Insights!CriticalGroups
<1>10. Cardinality(Insights!Filtered("critical")) \in Nat
  BY <1>8, FiniteView, FS_Subset, FS_CardinalityType
<1>11. QED BY <1>7, <1>9, <1>10

\* The risk filters divide the groups: the argument is that a group has one most
\* severe event.
LEMMA BandsDivide == ViewInv => Insights!BandsPartition
<1> SUFFICES ASSUME ViewInv PROVE Insights!BandsPartition
  OBVIOUS
<1>1. Insights!View("all") = "groups"
        <=> \E b \in Bands : Insights!View(b) = "groups"
  <2>1. Insights!Predictions # {} <=> Insights!Groups # {}
    BY DEF Insights!Groups
  <2>2. \A f : Insights!View(f) = "groups"
                 <=> Insights!Predictions # {} /\ Insights!Filtered(f) # {}
    BY DEF Insights!View
  <2>3. Insights!Filtered("all") # {} <=> \E b \in Bands : Insights!Filtered(b) # {}
    BY FilterFacts
  <2>4. QED BY <2>1, <2>2, <2>3
<1>2. \A b \in Bands : \A g \in Insights!Filtered(b) :
        /\ Insights!Events(g, b) # {}
        /\ b # "critical" => Insights!Events(g, "critical") = {}
        /\ b = "stable" => Insights!Events(g, b) = Insights!Group(g)
  BY EventFacts
<1>3. QED BY <1>1, <1>2, CountsAddUp DEF Insights!BandsPartition, Bands

\* The pages show what their selects select, for any ranges and any predictions.
THEOREM SelectionIsShown == ShellSpec => []ShowsTheSelection
<1>1. ViewInv => ShowsTheSelection
  BY RangeFollows, BandsDivide DEF ShowsTheSelection, Insights!ShowsTheSelection
<1>2. QED BY <1>1, ViewInvariant, PTL

------------------------------------------------------------------------------
(* Why the menu settles *)

\* Answers on their way that are no longer what the server has.
Stale == {l \in Loads : load[l].stage = "served" /\ load[l].list # TopBar!Newest}

\* Marks that are on their way.
Marking == {m \in Marks : mark[m].stage # "idle"}

\* As long as the server keeps what it has no further answer becomes stale, and one
\* that arrives or fails is stale no more; no further mark sets out by itself.  Without
\* stale answers, marks under way and failures the menu changes only to the newest
\* list, so it keeps it, and any answer that arrives brings it.
MenuSettles ==
    part = "topbar" /\ rows' = rows /\ read' = read =>
        /\ Stale' \subseteq Stale
        /\ \A l \in Stale : load'[l] # load[l] => l \notin Stale'
        /\ marked' = marked => Marking' \subseteq Marking
        /\ Stale = {} /\ Marking = {} /\ lostMarks' = lostMarks =>
             /\ shown' \in {shown, TopBar!Newest}
             /\ \A l \in Loads : load[l].stage = "served" /\ load'[l] # load[l]
                  => shown' = TopBar!Newest

\* A load and a mark have a stage.
Lists == [rows : SUBSET Int, read : SUBSET Int]
StageInv ==
    /\ load \in [Loads -> [stage : {"idle", "sent", "served"}, list : Lists]]
    /\ mark \in [Marks -> [stage : {"idle", "sent", "served"}, target : Int]]
    /\ lostMarks \in Nat /\ marked \in Nat

\* The server's list is a list, and the same as long as the server keeps what it has.
LEMMA NewestFacts ==
    /\ TopBar!Newest \in Lists
    /\ rows' = rows /\ read' = read => TopBar!Newest' = TopBar!Newest
<1>1. TopBar!Newest \in Lists
  BY DEF TopBar!Newest, Lists
<1>2. rows' = rows /\ read' = read => TopBar!Newest' = TopBar!Newest
  BY DEF TopBar!Newest
<1>3. QED BY <1>1, <1>2

\* What a step of the top bar does to the loads and marks.
LEMMA MenuStep ==
    ASSUME StageInv, part = "topbar" => [TopBar!Next]_topVars,
           part # "topbar" => UNCHANGED topVars
    PROVE  StageInv' /\ MenuSettles
<1> USE DEF StageInv, Stale, Marking, topVars
<1>1. CASE UNCHANGED topVars
  <2>1. StageInv'
    BY <1>1
  <2>2. part = "topbar" /\ rows' = rows /\ read' = read => TopBar!Newest' = TopBar!Newest
    BY NewestFacts
  <2>3. QED BY <1>1, <2>1, <2>2 DEF MenuSettles
<1>2. CASE TopBar!Notify
  <2>1. UNCHANGED <<load, mark, lostMarks, marked, shown>>
    BY <1>2 DEF TopBar!Notify
  <2>2. QED BY <2>1, NewestFacts DEF MenuSettles
<1>3. ASSUME NEW l \in Loads,
             TopBar!Load(l) \/ TopBar!LoadServed(l) \/ TopBar!LoadArrives(l)
               \/ TopBar!LoadFails(l)
      PROVE  StageInv' /\ MenuSettles
  <2>1. /\ rows' = rows /\ read' = read /\ UNCHANGED <<mark, marked>>
        /\ TopBar!Newest' = TopBar!Newest /\ TopBar!Newest \in Lists
    BY <1>3, NewestFacts
       DEF TopBar!Load, TopBar!LoadServed, TopBar!LoadArrives, TopBar!LoadFails
  <2>2. \A k \in Loads \ {l} : load'[k] = load[k]
    BY <1>3 DEF TopBar!Load, TopBar!LoadServed, TopBar!LoadArrives, TopBar!LoadFails
  <2>3. CASE TopBar!Load(l)
    <3>1. load'[l].stage = "sent" /\ load[l].stage = "idle" /\ shown' = shown
      BY <2>3 DEF TopBar!Load
    <3>2. StageInv'
      BY <2>1, <2>3 DEF TopBar!Load
    <3>3. QED BY <2>1, <2>2, <3>1, <3>2 DEF MenuSettles
  <2>4. CASE TopBar!LoadServed(l)
    <3>1. /\ load'[l] = [stage |-> "served", list |-> TopBar!Newest]
          /\ load[l].stage = "sent" /\ shown' = shown
      BY <2>4 DEF TopBar!LoadServed
    <3>2. StageInv'
      BY <2>1, <2>4 DEF TopBar!LoadServed
    <3>3. QED BY <2>1, <2>2, <3>1, <3>2 DEF MenuSettles
  <2>5. CASE TopBar!LoadArrives(l)
    <3>1. /\ load'[l].stage = "idle" /\ load[l].stage = "served"
          /\ shown' = load[l].list
      BY <2>5 DEF TopBar!LoadArrives, TopBar!Idle
    <3>2. StageInv'
      BY <2>1, <2>5 DEF TopBar!LoadArrives, TopBar!Idle, TopBar!Empty, Lists
    <3>3. QED BY <2>1, <2>2, <3>1, <3>2 DEF MenuSettles
  <2>6. CASE TopBar!LoadFails(l)
    <3>1. load'[l].stage = "idle" /\ lostMarks' # lostMarks
      BY <2>6 DEF TopBar!LoadFails, TopBar!Idle
    <3>2. StageInv'
      BY <2>1, <2>6 DEF TopBar!LoadFails, TopBar!Idle, TopBar!Empty, Lists
    <3>3. QED BY <2>1, <2>2, <3>1, <3>2 DEF MenuSettles
  <2>7. QED BY <1>3, <2>3, <2>4, <2>5, <2>6
<1>4. ASSUME NEW target \in Int, TopBar!Send(target) PROVE StageInv' /\ MenuSettles
  <2>1. /\ UNCHANGED <<rows, read, shown, load, lostMarks>>
        /\ marked' = marked + 1
    BY <1>4 DEF TopBar!Send
  <2>2. StageInv'
    BY <1>4 DEF TopBar!Send
  <2>3. QED BY <2>1, <2>2, NewestFacts DEF MenuSettles
<1>5. ASSUME NEW m \in Marks,
             TopBar!MarkServed(m) \/ TopBar!MarkArrives(m) \/ TopBar!MarkFails(m)
      PROVE  StageInv' /\ MenuSettles
  <2>1. load' = load /\ marked' = marked /\ mark[m].stage # "idle"
    BY <1>5 DEF TopBar!MarkServed, TopBar!MarkArrives, TopBar!MarkFails
  <2>2. StageInv'
    BY <1>5 DEF TopBar!MarkServed, TopBar!MarkArrives, TopBar!MarkFails, TopBar!NoMark,
                TopBar!All
  <2>3. \A k \in Marks \ {m} : mark'[k] = mark[k]
    BY <1>5 DEF TopBar!MarkServed, TopBar!MarkArrives, TopBar!MarkFails
  <2>4. Marking' \subseteq Marking /\ Marking # {}
    BY <2>1, <2>3
  <2>5. QED BY <2>1, <2>2, <2>4, NewestFacts DEF MenuSettles
<1>6. TopBar!Next => \/ TopBar!Notify
                     \/ \E l \in Loads : TopBar!Load(l) \/ TopBar!LoadServed(l)
                                           \/ TopBar!LoadArrives(l) \/ TopBar!LoadFails(l)
                     \/ \E target \in Int : TopBar!Send(target)
                     \/ \E m \in Marks : TopBar!MarkServed(m) \/ TopBar!MarkArrives(m)
                                           \/ TopBar!MarkFails(m)
  BY DEF TopBar!Next, TopBar!MarkAsRead, TopBar!MarkAllRead, TopBar!All
<1>7. QED BY <1>1, <1>2, <1>3, <1>4, <1>5, <1>6

\* The safety behind ShowsNewest: however loads and marks overtake each other, what can
\* still make the menu wrong is on its way already, and gets less with every arrival.
THEOREM MenuRunsDown == ShellSpec => [][MenuSettles]_shellVars
<1>1. ShellInit => StageInv
  BY DEF ShellInit, TopBar!Init, StageInv, TopBar!Idle, TopBar!Empty, TopBar!NoMark,
         TopBar!All, Lists
<1>2. StageInv /\ [ShellNext]_shellVars => StageInv' /\ MenuSettles
  <2> SUFFICES ASSUME StageInv, [ShellNext]_shellVars PROVE StageInv' /\ MenuSettles
    OBVIOUS
  <2>1. part = "topbar" => [TopBar!Next]_topVars
    BY DEF ShellNext, shellVars
  <2>2. part # "topbar" => UNCHANGED topVars
    BY DEF ShellNext, shellVars
  <2>3. QED BY <2>1, <2>2, MenuStep
<1>3. QED BY <1>1, <1>2, PTL DEF ShellSpec

==============================================================================
