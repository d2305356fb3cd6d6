----------------------------- MODULE ClientSession -----------------------------
(***************************************************************************)
(* The login of one client: the tokens and the user its store keeps, the   *)
(* profile its query cache keeps beside them, the requests it has under    *)
(* way, the refresh that several refused requests share, and the backend's *)
(* side, which holds one refresh token for each account.  An access token  *)
(* is the login it came from and its number; a refresh token is the login  *)
(* it came from, and is never rotated.                                     *)
(***************************************************************************)
EXTENDS Naturals, Sequences, FiniteSets

CONSTANTS
  Accounts,
  Slots,       \* bound: requests under way at once, each in a numbered place
  None,        \* null
  AccountOf,   \* bound: the account the user logs into, login by login
  MaxAccess,   \* bound: access tokens of one login
  MaxFaults    \* bound: network failures, wrong passwords, restarts, other devices

ASSUME SessionAssumption ==
  /\ MaxAccess \in Nat \ {0}
  /\ AccountOf \in Seq(Accounts)
  /\ MaxFaults \in Nat
  /\ Slots \subseteq Nat
  /\ None \notin Accounts \cup Nat \cup [login : Nat, number : Nat]

VARIABLES
  platform,     \* web, desktop or mobile
  accessToken,  \* of the store: [login, number], or None
  refreshToken, \* of the store: a login, or None
  user,         \* of the store: an account, or None
  profile,      \* the data of meQuery in the query cache: an account, or None
  requests,     \* of each slot
  refreshing,   \* refreshPromise: None, or the login it presents and the answer
  logins,       \* the backend: how many logins there were
  sessionOf,    \* the backend: of each account, the login whose refresh token is valid
  minted,       \* the backend: how many access tokens each login has had
  dead,         \* the backend: how many of those have expired
  overtaken,    \* history: a login or a logout came while a refresh was under way
  lingering,    \* history: accounts of sessions that ended without their logout,
                \* or had a profile still to come at it
  faults

store   == <<accessToken, refreshToken, user>>
backend == <<logins, sessionOf, minted, dead>>
history == <<overtaken, lingering>>
vars    == <<platform, store, profile, requests, refreshing, backend, history, faults>>

\* The query asks for "me", the login mutation for the "profile" of its new
\* tokens.  A call is any other request; changing the profile or the password is
\* one.  Nobody waits for the answer of a forgotten one.
Kinds   == {"call", "me", "profile", "forgotten", "login", "logout"}
Answers == {"none", "ok", "401", "error"}
Logins  == DOMAIN AccountOf
Tokens  == [login : Logins, number : 1..MaxAccess]

Request == [kind : Kinds, phase : {"sent", "waiting"}, answer : Answers, retried : BOOLEAN,
            token : Tokens \cup {None}]

IsAuthenticated == accessToken # None

Running(kind) == \E r \in Slots : requests[r] # None /\ requests[r].kind = kind

------------------------------------------------------------------------------
(* The backend.                                                              *)

Valid(t) == t # None /\ t.number > dead[t.login]

Faulty == faults < MaxFaults /\ faults' = faults + 1

\* A bearer is checked by get_current_user; without one it is a 403.
Bearer(t) == IF t = None THEN "error" ELSE IF Valid(t) THEN "ok" ELSE "401"

\* A request that failed is sent again with another token, or not at all.
Answered(r, answer) ==
  requests' = [requests EXCEPT ![r].answer = answer, ![r].token = IF answer = "ok" THEN @ ELSE None]

AnswerCall(r) ==
  /\ requests[r].kind \notin {"login", "logout"}
  /\ Answered(r, Bearer(requests[r].token))
  /\ UNCHANGED <<backend, faults>>

\* A wrong password, of a login or of PUT /auth/password: a 401, whatever the token.
AnswerWrongPassword(r) ==
  /\ requests[r].kind \in {"call", "login"}
  /\ Faulty
  /\ Answered(r, "401")
  /\ UNCHANGED backend

\* login_user: a new pair, whose refresh token takes the account's place.
AnswerLogin(r) ==
  /\ requests[r].kind = "login"
  /\ LET n == logins + 1
     IN /\ logins' = n
        /\ sessionOf' = [sessionOf EXCEPT ![AccountOf[n]] = n]
        /\ minted' = [minted EXCEPT ![n] = 1]
        /\ requests' = [requests EXCEPT ![r].answer = "ok", ![r].token = [login |-> n, number |-> 1]]
  /\ UNCHANGED <<dead, faults>>

\* logout_user: the account's refresh token goes, whichever login's it is.
AnswerLogout(r) ==
  /\ requests[r].kind = "logout"
  /\ LET answer == Bearer(requests[r].token)
     IN /\ Answered(r, answer)
        /\ sessionOf' = IF answer = "ok"
                        THEN [sessionOf EXCEPT ![AccountOf[requests[r].token.login]] = None]
                        ELSE sessionOf
  /\ UNCHANGED <<logins, minted, dead, faults>>

\* No answer, a timeout, a rate limit or a 5xx.
AnswerFails(r) ==
  /\ Faulty
  /\ Answered(r, "error")
  /\ UNCHANGED backend

BackendAnswers(r) ==
  /\ requests[r] # None /\ requests[r].phase = "sent" /\ requests[r].answer = "none"
  /\ \/ AnswerCall(r) \/ AnswerWrongPassword(r)
     \/ AnswerLogin(r) \/ AnswerLogout(r) \/ AnswerFails(r)
  /\ UNCHANGED <<platform, store, profile, refreshing, history>>

\* refresh_token: a new access token if the account still has this login's.
RefreshAnswered ==
  /\ refreshing # None /\ refreshing.answer = "none"
  /\ LET n == refreshing.login
     IN \/ /\ sessionOf[AccountOf[n]] = n
           /\ minted' = [minted EXCEPT ![n] = IF @ < MaxAccess THEN @ + 1 ELSE @]
           /\ refreshing' = [login |-> n, answer |-> "ok"]
           /\ UNCHANGED faults
        \/ /\ sessionOf[AccountOf[n]] # n
           /\ refreshing' = [login |-> n, answer |-> "error"]
           /\ UNCHANGED <<minted, faults>>
        \/ /\ Faulty
           /\ refreshing' = [login |-> n, answer |-> "error"]
           /\ UNCHANGED minted
  /\ UNCHANGED <<platform, store, profile, requests, logins, sessionOf, dead, history>>

TokenExpires ==
  /\ \E n \in 1..logins :
       /\ minted[n] < MaxAccess
       /\ dead[n] < minted[n]
       /\ dead' = [dead EXCEPT ![n] = minted[n]]
  /\ UNCHANGED <<platform, store, profile, requests, refreshing, logins, sessionOf, minted, history,
                 faults>>

\* Another device of the user logs in, or logs out.
OtherDevice ==
  /\ Faulty
  /\ \E a \in Accounts : sessionOf[a] # None /\ sessionOf' = [sessionOf EXCEPT ![a] = None]
  /\ UNCHANGED <<platform, store, profile, requests, refreshing, logins, minted, dead, history>>

------------------------------------------------------------------------------
(* The store.                                                                *)

setTokens(t) == accessToken' = t /\ refreshToken' = t.login /\ UNCHANGED user

setAccessToken(t) == accessToken' = t /\ UNCHANGED <<refreshToken, user>>

setUser(a) == user' = a /\ UNCHANGED <<accessToken, refreshToken>>

clearAuth == accessToken' = None /\ refreshToken' = None /\ user' = None

\* The account of the store's session, if there is one.
Current == IF IsAuthenticated THEN {AccountOf[accessToken.login]} ELSE {}

------------------------------------------------------------------------------
(* The client's requests.                                                    *)

\* The interceptor attaches the token of the store.
Sent(kind, token) ==
  [kind |-> kind, phase |-> "sent", answer |-> "none", retried |-> FALSE, token |-> token]

\* What the screens offer: pages behind the login call and log out (mobile
\* offers no logout), the login page logs in, on web over a session too.  Web and
\* mobile fetch a missing user.
Offered(kind) ==
  CASE kind = "call"   -> IsAuthenticated
    [] kind = "me"     -> IsAuthenticated /\ user = None /\ platform # "desktop" /\ ~Running("me")
    [] kind = "login"  -> /\ ~IsAuthenticated \/ platform = "web"
                          /\ ~Running("login") /\ logins < Len(AccountOf)
    [] kind = "logout" -> IsAuthenticated /\ ~Running("logout") /\ platform # "mobile"
    [] kind \in {"profile", "forgotten"} -> FALSE

\* A new request takes the first place that is free.
Send(r) ==
  /\ requests[r] = None
  /\ \A q \in Slots : requests[q] = None => r <= q
  /\ \E kind \in Kinds :
       /\ Offered(kind)
       /\ requests' = [requests EXCEPT ![r] = Sent(kind, accessToken)]
  /\ UNCHANGED <<platform, store, profile, refreshing, backend, history, faults>>

\* The account whose profile the backend answers with.
Of(x) == AccountOf[x.token.login]

\* The requests in done end.
Ended(done) == [r \in Slots |-> IF r \in done THEN None ELSE requests[r]]

\* The profiles that are still to come, though nobody is logged in.
StillTold ==
  {Of(requests[r]) : r \in
     {r \in Slots : /\ requests[r] # None /\ requests[r].kind \in {"call", "profile"}
                    /\ requests[r].token # None}}

\* The query of the profile is not removed.
LogoutSettledKeepsProfile(done) ==
  /\ clearAuth
  /\ lingering' = StillTold
  /\ requests' = Ended(done)
  /\ UNCHANGED profile

\* logout's onSettled, answer or refusal: the store is cleared and the query of
\* the profile removed; a fetch of it goes on, but sets nothing.
LogoutSettled(done) ==
  /\ clearAuth
  /\ lingering' = StillTold
  /\ profile' = None
  /\ requests' = [r \in Slots |->
       IF r \in done THEN None
       ELSE IF requests[r] # None /\ requests[r].kind = "me"
       THEN [requests[r] EXCEPT !.kind = "forgotten"] ELSE requests[r]]

Rejected(r) ==
  \/ /\ requests[r].kind = "logout"
     /\ LogoutSettled({r})
     /\ overtaken' = (overtaken \/ refreshing # None)
  \/ /\ requests[r].kind # "logout"
     /\ requests' = Ended({r})
     /\ UNCHANGED <<store, profile, history>>

\* The mutation stores the tokens first and fetches the profile with them.  The
\* session before it, if the login page was opened over one, is just replaced.
LoginAnswered(r) ==
  /\ requests[r].kind = "login"
  /\ setTokens(requests[r].token)
  /\ requests' = [requests EXCEPT ![r] = Sent("profile", requests[r].token)]
  /\ overtaken' = (overtaken \/ refreshing # None)
  /\ lingering' = lingering \cup Current
  /\ UNCHANGED profile

\* The query's answer becomes its data, and the user by the effect of a component
\* that is mounted, if it is news to it; the login mutation sets the user itself.
MeAnswered(r) ==
  /\ requests[r].kind \in {"me", "profile"}
  /\ requests' = Ended({r})
  /\ \/ setUser(Of(requests[r]))
     \/ requests[r].kind = "me" /\ UNCHANGED store
  /\ profile' = IF requests[r].kind = "me" THEN Of(requests[r]) ELSE profile
  /\ UNCHANGED history

\* A call that changed the profile sets the user to the answer, and on web and
\* mobile the query's data too.
ProfileUpdated(r) ==
  /\ requests[r].kind = "call"
  /\ requests' = Ended({r})
  /\ setUser(Of(requests[r]))
  /\ profile' = IF platform = "desktop" THEN profile ELSE Of(requests[r])
  /\ UNCHANGED history

OtherAnswered(r) ==
  /\ requests[r].kind \in {"call", "forgotten", "logout"}
  /\ Rejected(r)

Succeeded(r) ==
  /\ requests[r].answer = "ok"
  /\ LoginAnswered(r) \/ MeAnswered(r) \/ ProfileUpdated(r) \/ OtherAnswered(r)
  /\ UNCHANGED refreshing

\* A failure the interceptor passes on: no 401, the retry's, or nothing to
\* refresh with.
NothingToRefresh == refreshing = None /\ refreshToken = None

Failed(r) ==
  /\ \/ requests[r].answer = "error"
     \/ requests[r].answer = "401" /\ (requests[r].retried \/ NothingToRefresh)
  /\ Rejected(r)
  /\ UNCHANGED refreshing

\* The first 401 starts the refresh, the others wait for it too.
Refused(r) ==
  /\ requests[r].answer = "401" /\ ~requests[r].retried
  /\ ~NothingToRefresh
  /\ requests' = [requests EXCEPT ![r].retried = TRUE, ![r].phase = "waiting"]
  /\ refreshing' = IF refreshing = None THEN [login |-> refreshToken, answer |-> "none"] ELSE refreshing
  /\ UNCHANGED <<store, profile, history>>

AnswerReceived(r) ==
  /\ requests[r] # None /\ requests[r].phase = "sent" /\ requests[r].answer # "none"
  /\ Succeeded(r) \/ Failed(r) \/ Refused(r)
  /\ UNCHANGED <<platform, backend, faults>>

\* The refresh ends and its waiters go on in the same turn of the event loop.
Granted ==
  /\ refreshing.answer = "ok"
  /\ LET t == [login |-> refreshing.login, number |-> minted[refreshing.login]]
     IN /\ setAccessToken(t)
        /\ requests' = [r \in Slots |->
             IF requests[r] # None /\ requests[r].phase = "waiting"
             THEN [requests[r] EXCEPT !.phase = "sent", !.answer = "none", !.token = t]
             ELSE requests[r]]
  /\ UNCHANGED <<profile, history>>

Waiters == {r \in Slots : requests[r] # None /\ requests[r].phase = "waiting"}

\* The waiters are forgotten.
NotGrantedSilent ==
  /\ refreshing.answer = "error"
  /\ clearAuth
  /\ lingering' = lingering \cup Current
  /\ UNCHANGED <<profile, requests, overtaken>>

\* The session is kept.
NotGrantedKeeps ==
  /\ refreshing.answer = "error"
  /\ requests' = Ended(Waiters)
  /\ UNCHANGED <<store, profile, history>>

\* Whatever the failure, the user is logged out, and the waiters are rejected, a
\* logout among them.  Without one the query of the profile keeps its data.
NotGranted ==
  /\ refreshing.answer = "error"
  /\ UNCHANGED overtaken
  /\ \/ /\ \E r \in Waiters : requests[r].kind = "logout"
        /\ LogoutSettled(Waiters)
     \/ /\ \A r \in Waiters : requests[r].kind # "logout"
        /\ clearAuth
        /\ requests' = Ended(Waiters)
        /\ lingering' = lingering \cup Current
        /\ UNCHANGED profile

RefreshReceived ==
  /\ refreshing # None /\ refreshing.answer # "none"
  /\ refreshing' = None
  /\ Granted \/ NotGranted
  /\ UNCHANGED <<platform, backend, faults>>

\* A component that uses useAuth is mounted, the login page among them: its
\* effect sets the user to the query's data.  That there is none before the cache
\* drops unused data is Mount's not being taken.
Mount ==
  /\ platform # "desktop" /\ profile # None
  /\ setUser(profile)
  /\ UNCHANGED <<platform, profile, requests, refreshing, backend, history, faults>>

\* The page is reloaded or the app started again: what was under way is gone,
\* and mobile does not keep the user.
Restart ==
  /\ Faulty
  /\ requests' = [r \in Slots |-> None]
  /\ refreshing' = None /\ profile' = None
  /\ user' = IF platform = "mobile" THEN None ELSE user
  /\ UNCHANGED <<platform, accessToken, refreshToken, backend, history>>

Init ==
  /\ platform \in {"web", "desktop", "mobile"}
  /\ accessToken = None /\ refreshToken = None /\ user = None /\ profile = None
  /\ requests = [r \in Slots |-> None] /\ refreshing = None
  /\ logins = 0 /\ sessionOf = [a \in Accounts |-> None]
  /\ minted = [n \in Logins |-> 0] /\ dead = [n \in Logins |-> 0]
  /\ overtaken = FALSE /\ lingering = {}
  /\ faults = 0

Next ==
  \/ \E r \in Slots : Send(r) \/ BackendAnswers(r) \/ AnswerReceived(r)
  \/ RefreshAnswered \/ RefreshReceived
  \/ Mount
  \/ TokenExpires \/ OtherDevice \/ Restart

Spec == Init /\ [][Next]_vars

\* Requests are answered, if only by a timeout, and answers are taken up.
FairSpec ==
  /\ Spec
  /\ \A r \in Slots : WF_vars(BackendAnswers(r)) /\ WF_vars(AnswerReceived(r))
  /\ WF_vars(RefreshAnswered) /\ WF_vars(RefreshReceived)

------------------------------------------------------------------------------
(* Properties.                                                               *)

TypeOK ==
  /\ platform \in {"web", "desktop", "mobile"}
  /\ accessToken \in Tokens \cup {None}
  /\ refreshToken \in (1..logins) \cup {None}
  /\ user \in Accounts \cup {None} /\ profile \in Accounts \cup {None}
  /\ requests \in [Slots -> Request \cup {None}]
  /\ refreshing \in [login : 1..logins, answer : {"none", "ok", "error"}] \cup {None}
  /\ logins \in 0..Len(AccountOf)
  /\ sessionOf \in [Accounts -> (1..logins) \cup {None}]
  /\ minted \in [Logins -> 0..MaxAccess]
  /\ dead \in [Logins -> 0..MaxAccess]
  /\ overtaken \in BOOLEAN /\ lingering \subseteq Accounts
  /\ faults \in 0..MaxFaults

\* The store's two tokens are of one login and its user is that login's, through
\* refreshes, refusals, other devices, restarts and whatever the query cache
\* writes back.  Two exceptions, since nothing in the client ties an answer or
\* a cached profile to the session it was asked in: a login or a logout that
\* overtook a refresh, and the user of a session that ended without a logout
\* (a refused refresh, a login over it), whose profile nothing removes.
StoreAgreesWithLogin ==
  (~overtaken /\ IsAuthenticated) =>
    /\ refreshToken = accessToken.login
    /\ user \in {None, AccountOf[accessToken.login]} \cup lingering

\* Every request settles: none waits on a refresh that has ended, and none is
\* sent a third time.
EveryRequestSettles == \A r \in Slots : requests[r] # None ~> requests[r] = None

\* Another device has taken the session, and the access token is spent.
Superseded ==
  /\ accessToken # None /\ refreshToken # None
  /\ ~Valid(accessToken) /\ sessionOf[AccountOf[refreshToken]] # refreshToken

\* A client whose session another device has taken is logged out by its first
\* refused request, instead of failing from then on.
SupersededLogsOut ==
  (/\ Superseded /\ faults = MaxFaults
   /\ \E r \in Slots :
        requests[r] # None /\ requests[r].answer = "401" /\ ~requests[r].retried) ~> ~Superseded
===============================================================================
