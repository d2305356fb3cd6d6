------------------------- MODULE ClientSession_proofs --------------------------
(***************************************************************************)
(* The login's type invariant and StoreAgreesWithLogin, for any accounts,  *)
(* logins, requests under way and faults.                                  *)
(***************************************************************************)
EXTENDS ClientSession, TLAPS

USE SessionAssumption


\* What a request under way carries: one that was granted a token, a login that
\* was answered its new one, and one that was not its turn; none waits for the
\* refresh that was answered.
RequestOK(x, n) ==
  /\ x.answer = "ok" => x.token # None
  /\ x.kind = "login" /\ x.answer = "ok" => x.token.login \in 1..n
  /\ x.kind = "login" /\ x.answer # "ok" => n < Len(AccountOf)
  /\ x.phase = "waiting" => x.answer # "ok"

RequestsOK ==
  /\ \A r \in Slots : requests[r] # None => RequestOK(requests[r], logins)
  /\ \A q, r \in Slots :
       (/\ requests[q] # None /\ requests[q].kind = "login"
        /\ requests[r] # None /\ requests[r].kind = "login") => q = r

\* Every login so far has had an access token.
LoginsOK == \A n \in 1..logins : minted[n] >= 1

\* The accounts the client may show: the session's, and those the exception of
\* StoreAgreesWithLogin is about.
Shown == Current \cup lingering

\* An answer to x may set the user.
Tells(x) == x # None /\ x.kind \in {"me", "profile", "call"} /\ x.token # None

\* As long as no login or logout overtook a refresh, the two tokens and the
\* refresh are of one login, and all that is or may still be written to the
\* user is an account that may be shown.
OfOneLogin ==
  ~overtaken =>
    /\ accessToken = None <=> refreshToken = None
    /\ accessToken # None => refreshToken = accessToken.login
    /\ refreshing # None => accessToken # None /\ refreshing.login = accessToken.login
    /\ user \in Shown \cup {None} /\ profile \in Shown \cup {None}
    /\ \A r \in Slots : Tells(requests[r]) => Of(requests[r]) \in Shown

IInv == TypeOK /\ RequestsOK /\ LoginsOK /\ OfOneLogin

LEMMA LoginsAre ==
  /\ Logins = 1..Len(AccountOf) /\ Len(AccountOf) \in Nat
  /\ \A n \in Logins : AccountOf[n] \in Accounts
BY DEF Logins

\* A token is not None, and a token's login is one of the user's.
LEMMA TokenOf ==
  /\ \A t \in Tokens : t # None /\ t.login \in Logins /\ t.number \in 1..MaxAccess
  /\ \A n \in Logins, k \in 1..MaxAccess :
       /\ [login |-> n, number |-> k] \in Tokens
       /\ [login |-> n, number |-> k].login = n
<1>1. ASSUME NEW t \in Tokens
      PROVE  t # None /\ t.login \in Logins /\ t.number \in 1..MaxAccess
  <2>1. t \in [login : Nat, number : Nat]
    BY LoginsAre DEF Tokens
  <2>. QED  BY <2>1 DEF Tokens
<1>. QED  BY <1>1 DEF Tokens

\* A request that is sent.
LEMMA SentOf ==
  ASSUME NEW kind \in Kinds, NEW token \in Tokens \cup {None}
  PROVE  /\ Sent(kind, token) \in Request
         /\ Sent(kind, token).kind = kind /\ Sent(kind, token).token = token
         /\ Sent(kind, token).answer = "none" /\ Sent(kind, token).phase = "sent"
BY DEF Sent, Request, Answers

\* Who the store's session and the tokens are of.
LEMMA ShownOf ==
  ASSUME IInv
  PROVE  /\ Current \subseteq Accounts /\ Shown \subseteq Accounts
         /\ accessToken # None => AccountOf[accessToken.login] \in Shown
         /\ \A x \in Request : x.token # None => Of(x) \in Accounts
<1>1. accessToken \in Tokens \cup {None} /\ lingering \subseteq Accounts
  BY DEF IInv, TypeOK
<1>2. accessToken # None => AccountOf[accessToken.login] \in Accounts
  BY <1>1, TokenOf, LoginsAre
<1>3. \A x \in Request : x.token # None => Of(x) \in Accounts
  BY TokenOf, LoginsAre DEF Request, Of
<1>. QED  BY <1>1, <1>2, <1>3 DEF Current, IsAuthenticated, Shown

\* Nobody is logged in at first.
LEMMA InitIInv == Init => IInv
<1>. SUFFICES ASSUME Init PROVE IInv
  OBVIOUS
<1>1. requests = [r \in Slots |-> None] /\ refreshing = None /\ logins = 0
  BY DEF Init
<1>2. accessToken = None /\ refreshToken = None /\ user = None /\ profile = None
  BY DEF Init
<1>3. TypeOK
  <2>1. overtaken \in BOOLEAN /\ lingering \subseteq Accounts /\ platform \in {"web", "desktop", "mobile"}
    BY DEF Init
  <2>2. /\ sessionOf \in [Accounts -> (1..logins) \cup {None}]
        /\ minted \in [Logins -> 0..MaxAccess] /\ dead \in [Logins -> 0..MaxAccess]
        /\ faults \in 0..MaxFaults
    BY DEF Init
  <2>3. requests \in [Slots -> Request \cup {None}] /\ logins \in 0..Len(AccountOf)
    BY <1>1, LoginsAre
  <2>. QED  BY <1>1, <1>2, <2>1, <2>2, <2>3 DEF TypeOK
<1>4. RequestsOK /\ LoginsOK
  BY <1>1 DEF RequestsOK, LoginsOK
<1>5. OfOneLogin
  BY <1>1, <1>2 DEF OfOneLogin, Tells
<1>. QED  BY <1>3, <1>4, <1>5 DEF IInv

\* A request of the client's changes, and the store with it, or nothing else.
LEMMA RequestIInv ==
  ASSUME IInv, NEW r \in Slots, NEW y \in Request \cup {None},
         requests' = [requests EXCEPT ![r] = y],
         UNCHANGED <<platform, logins, minted, dead>>,
         sessionOf' \in [Accounts -> (1..logins) \cup {None}],
         faults' \in 0..MaxFaults,
         overtaken' \in BOOLEAN, lingering' \subseteq Accounts,
         accessToken' \in Tokens \cup {None},
         refreshToken' \in (1..logins) \cup {None},
         user' \in Accounts \cup {None}, profile' \in Accounts \cup {None},
         refreshing' \in [login : 1..logins, answer : {"none", "ok", "error"}] \cup {None},
         y # None => RequestOK(y, logins),
         y # None /\ y.kind = "login" =>
           \A q \in Slots \ {r} : requests[q] # None => requests[q].kind # "login",
         OfOneLogin'
  PROVE  IInv'
<1>1. requests' \in [Slots -> Request \cup {None}]
  BY DEF IInv, TypeOK
<1>2. \A q \in Slots : requests'[q] = IF q = r THEN y ELSE requests[q]
  BY DEF IInv, TypeOK
<1>3. TypeOK'
  BY <1>1 DEF IInv, TypeOK
<1>4. RequestsOK'
  BY <1>2 DEF IInv, RequestsOK, RequestOK
<1>5. LoginsOK'
  BY DEF IInv, LoginsOK
<1>. QED  BY <1>3, <1>4, <1>5 DEF IInv

\* One request of the client's changes and nothing of the store: the new one may
\* set the user to an account that may be shown.
LEMMA StoreKept ==
  ASSUME IInv, NEW r \in Slots, NEW y \in Request \cup {None},
         requests' = [requests EXCEPT ![r] = y],
         UNCHANGED <<accessToken, refreshToken, overtaken, lingering>>,
         ~overtaken => user' \in Shown \cup {None} /\ profile' \in Shown \cup {None},
         ~overtaken /\ refreshing' # None =>
            accessToken # None /\ refreshing'.login = accessToken.login,
         ~overtaken /\ Tells(y) => Of(y) \in Shown
  PROVE  OfOneLogin'
<1>1. Shown' = Shown
  BY DEF Shown, Current, IsAuthenticated
<1>2. \A q \in Slots : requests'[q] = IF q = r THEN y ELSE requests[q]
  BY DEF IInv, TypeOK
<1>3. ASSUME ~overtaken, NEW q \in Slots, Tells(requests'[q])
      PROVE  Of(requests'[q]) \in Shown
  BY <1>2, <1>3 DEF IInv, OfOneLogin
<1>4. \A q \in Slots : Tells(requests[q])' = Tells(requests'[q]) /\ Of(requests[q])' = Of(requests'[q])
  BY DEF Tells, Of
<1>. QED  BY <1>1, <1>3, <1>4 DEF IInv, OfOneLogin

\* The backend answers.
LEMMA AnswerIInv ==
  ASSUME IInv, NEW r \in Slots, BackendAnswers(r)
  PROVE  IInv'
<1>. DEFINE x == requests[r]
<1>1. x # None /\ x \in Request /\ RequestOK(x, logins) /\ x.answer = "none" /\ x.phase = "sent"
  BY DEF BackendAnswers, IInv, TypeOK, RequestsOK
<1>2. UNCHANGED <<platform, accessToken, refreshToken, user, profile, refreshing, overtaken, lingering>>
  BY DEF BackendAnswers, store, history
<1>3. x.kind = "login" => \A q \in Slots \ {r} : requests[q] # None => requests[q].kind # "login"
  BY <1>1 DEF IInv, RequestsOK
<1>4. \A t \in Tokens \cup {None} : Bearer(t) \in {"ok", "401", "error"} /\ (Bearer(t) = "ok" => t # None)
  BY DEF Bearer, Valid
<1>5. x.token \in Tokens \cup {None} /\ x.kind \in Kinds
  BY <1>1 DEF Request
<1>6. /\ overtaken' \in BOOLEAN /\ lingering' \subseteq Accounts
      /\ accessToken' \in Tokens \cup {None} /\ refreshToken' \in (1..logins) \cup {None}
      /\ user' \in Accounts \cup {None} /\ profile' \in Accounts \cup {None}
      /\ refreshing' \in [login : 1..logins, answer : {"none", "ok", "error"}] \cup {None}
  BY <1>2 DEF IInv, TypeOK
<1>. HIDE DEF x
<1>7. ASSUME NEW answer \in {"ok", "401", "error"}, Answered(r, answer),
             answer = "ok" => x.kind # "login" /\ x.token # None,
             UNCHANGED <<logins, minted, dead>>,
             sessionOf' \in [Accounts -> (1..logins) \cup {None}],
             faults' \in 0..MaxFaults
      PROVE  IInv'
  <2>. DEFINE token == IF answer = "ok" THEN x.token ELSE None
              y == [x EXCEPT !.answer = answer, !.token = token]
  <2>1. answer \in Answers /\ token \in Tokens \cup {None}
    BY <1>5 DEF Answers
  <2>2. requests' = [requests EXCEPT ![r] = y]
    BY <1>7 DEF Answered, x
  <2>3. /\ answer = "ok" => token # None /\ token = x.token
        /\ token # None => token = x.token
    BY <1>7
  <2>. HIDE DEF token
  <2>4. y \in Request /\ y.kind = x.kind /\ y.phase = x.phase /\ y.answer = answer /\ y.token = token
    BY <1>1, <2>1 DEF Request
  <2>. HIDE DEF y
  <2>5. RequestOK(y, logins)
    BY <1>1, <1>7, <2>3, <2>4 DEF RequestOK
  <2>6. ~overtaken /\ Tells(y) => Of(y) \in Shown
    BY <1>1, <2>3, <2>4 DEF Tells, Of, IInv, OfOneLogin, x
  <2>7. OfOneLogin'
    BY <1>2, <2>2, <2>4, <2>6, StoreKept DEF IInv, OfOneLogin
  <2>. QED  BY <1>2, <1>3, <1>6, <1>7, <2>2, <2>4, <2>5, <2>7, RequestIInv
<1>8. faults' \in 0..MaxFaults
  BY DEF BackendAnswers, AnswerCall, AnswerWrongPassword, AnswerLogin, AnswerLogout,
         AnswerFails, Faulty, IInv, TypeOK
<1>9. sessionOf \in [Accounts -> (1..logins) \cup {None}] /\ logins \in 0..Len(AccountOf)
  BY DEF IInv, TypeOK
<1>10. CASE AnswerCall(r)
  BY <1>4, <1>5, <1>7, <1>8, <1>9, <1>10 DEF AnswerCall, backend, x
<1>11. CASE AnswerWrongPassword(r)
  BY <1>7, <1>8, <1>9, <1>11 DEF AnswerWrongPassword, backend, x
<1>12. CASE AnswerFails(r)
  BY <1>7, <1>8, <1>9, <1>12 DEF AnswerFails, backend, x
<1>13. CASE AnswerLogout(r)
  <2>1. sessionOf' \in [Accounts -> (1..logins) \cup {None}]
    BY <1>9, <1>13 DEF AnswerLogout
  <2>. QED  BY <1>4, <1>5, <1>7, <1>8, <1>13, <2>1 DEF AnswerLogout, x
<1>14. CASE AnswerLogin(r)
  <2>. DEFINE n == logins + 1
              t == [login |-> n, number |-> 1]
              y == [x EXCEPT !.answer = "ok", !.token = t]
  <2>1. x.kind = "login" /\ logins < Len(AccountOf)
    BY <1>1, <1>14 DEF AnswerLogin, RequestOK, x
  <2>2. n \in Logins /\ logins \in Nat /\ AccountOf[n] \in Accounts /\ t \in Tokens /\ t.login = n
    BY <1>9, <2>1, LoginsAre, TokenOf
  <2>3. /\ requests' = [requests EXCEPT ![r] = y]
        /\ logins' = n /\ UNCHANGED <<dead, faults>>
        /\ sessionOf' = [sessionOf EXCEPT ![AccountOf[n]] = n]
        /\ minted' = [minted EXCEPT ![n] = 1]
    BY <1>14 DEF AnswerLogin, x
  <2>4. y \in Request /\ y.kind = "login" /\ y.answer = "ok" /\ y.token = t /\ y.phase = "sent"
    BY <1>1, <2>1, <2>2 DEF Request, Answers
  <2>. HIDE DEF y, t
  <2>5. \A q \in Slots : requests'[q] = IF q = r THEN y ELSE requests[q]
    BY <2>3 DEF IInv, TypeOK
  <2>6. TypeOK'
    <3>1. requests' \in [Slots -> Request \cup {None}]
      BY <2>3, <2>4 DEF IInv, TypeOK
    <3>2. /\ sessionOf' \in [Accounts -> (1..logins') \cup {None}]
          /\ minted' \in [Logins -> 0..MaxAccess] /\ dead' \in [Logins -> 0..MaxAccess]
      BY <2>2, <2>3 DEF IInv, TypeOK
    <3>3. /\ refreshToken' \in (1..logins') \cup {None}
          /\ refreshing' \in [login : 1..logins', answer : {"none", "ok", "error"}] \cup {None}
          /\ logins' \in 0..Len(AccountOf)
      BY <1>2, <2>1, <2>2, <2>3 DEF IInv, TypeOK
    <3>. QED  BY <1>2, <1>8, <3>1, <3>2, <3>3 DEF IInv, TypeOK
  <2>7. RequestsOK'
    <3>1. \A q \in Slots \ {r} : requests[q] # None => requests[q].kind # "login"
      BY <1>3, <2>1
    <3>2. ASSUME NEW q \in Slots, requests'[q] # None
          PROVE  RequestOK(requests'[q], logins')
      <4>1. CASE q = r
        BY <2>2, <2>3, <2>4, <2>5, <4>1, TokenOf DEF RequestOK
      <4>2. CASE q # r
        <5>1. requests'[q] = requests[q] /\ RequestOK(requests[q], logins) /\ requests[q].kind # "login"
          BY <2>5, <3>1, <3>2, <4>2 DEF IInv, RequestsOK
        <5>. QED  BY <5>1 DEF RequestOK
      <4>. QED  BY <4>1, <4>2
    <3>. QED  BY <2>5, <3>1, <3>2 DEF RequestsOK, RequestOK
  <2>8. LoginsOK'
    BY <2>2, <2>3 DEF IInv, TypeOK, LoginsOK
  <2>9. OfOneLogin'
    <3>1. ~Tells(y)
      BY <2>4 DEF Tells
    <3>. QED  BY <1>2, <2>3, <2>4, <3>1, StoreKept DEF IInv, OfOneLogin
  <2>. QED  BY <2>6, <2>7, <2>8, <2>9 DEF IInv
<1>. QED  BY <1>10, <1>11, <1>12, <1>13, <1>14 DEF BackendAnswers

\* The client sends a request.
LEMMA SendIInv ==
  ASSUME IInv, NEW r \in Slots, Send(r)
  PROVE  IInv'
<1>1. PICK kind \in Kinds : Offered(kind) /\ requests' = [requests EXCEPT ![r] = Sent(kind, accessToken)]
  BY DEF Send
<1>. DEFINE y == Sent(kind, accessToken)
<1>2. UNCHANGED <<platform, accessToken, refreshToken, user, profile, refreshing, logins, sessionOf,
                  minted, dead, overtaken, lingering, faults>>
  BY DEF Send, store, backend, history
<1>3. y \in Request /\ y.kind = kind /\ y.token = accessToken /\ y.answer = "none" /\ y.phase = "sent"
  BY SentOf DEF IInv, TypeOK
<1>8. requests' = [requests EXCEPT ![r] = y]
  BY <1>1
<1>. HIDE DEF y
<1>4. RequestOK(y, logins)
  BY <1>1, <1>3 DEF RequestOK, Offered
<1>5. y.kind = "login" => \A q \in Slots \ {r} : requests[q] # None => requests[q].kind # "login"
  BY <1>1, <1>3 DEF Offered, Running
<1>6. OfOneLogin'
  <2>1. Tells(y) => Of(y) \in Shown
    BY <1>3, ShownOf DEF Tells, Of
  <2>. QED  BY <1>2, <1>3, <1>8, <2>1, StoreKept DEF IInv, OfOneLogin
<1>7. /\ sessionOf' \in [Accounts -> (1..logins) \cup {None}] /\ faults' \in 0..MaxFaults
      /\ overtaken' \in BOOLEAN /\ lingering' \subseteq Accounts
      /\ accessToken' \in Tokens \cup {None} /\ refreshToken' \in (1..logins) \cup {None}
      /\ user' \in Accounts \cup {None} /\ profile' \in Accounts \cup {None}
      /\ refreshing' \in [login : 1..logins, answer : {"none", "ok", "error"}] \cup {None}
  BY <1>2 DEF IInv, TypeOK
<1>. QED  BY <1>2, <1>3, <1>4, <1>5, <1>6, <1>7, <1>8, RequestIInv

\* The logout settles.
LEMMA LogoutIInv ==
  ASSUME IInv, NEW done, LogoutSettled(done),
         UNCHANGED <<platform, logins, sessionOf, minted, dead, faults>>,
         refreshing' \in {refreshing, None},
         overtaken' \in BOOLEAN, ~overtaken' => refreshing' = None
  PROVE  IInv'
<1>. DEFINE forgot(x) == [x EXCEPT !.kind = "forgotten"]
            tells(q) == requests[q] # None /\ requests[q].kind \in {"call", "profile"} /\ requests[q].token # None
<1>1. /\ accessToken' = None /\ refreshToken' = None /\ user' = None /\ profile' = None
      /\ lingering' = {Of(requests[q]) : q \in {q \in Slots : tells(q)}}
  BY DEF LogoutSettled, StillTold, clearAuth
<1>2. requests \in [Slots -> Request \cup {None}]
  BY DEF IInv, TypeOK
<1>3. ASSUME NEW q \in Slots
      PROVE  /\ \/ requests'[q] \in {requests[q], None}
                \/ requests'[q] = forgot(requests[q]) /\ requests[q] # None
             /\ Tells(requests'[q]) => requests'[q] = requests[q] /\ tells(q)
  <2>1. requests'[q] = IF q \in done THEN None
                       ELSE IF requests[q] # None /\ requests[q].kind = "me"
                       THEN forgot(requests[q]) ELSE requests[q]
    BY DEF LogoutSettled
  <2>2. CASE q \notin done /\ requests[q] # None /\ requests[q].kind = "me"
    <3>1. requests[q] \in Request /\ requests'[q] = forgot(requests[q])
      BY <1>2, <2>1, <2>2
    <3>2. requests'[q].kind = "forgotten"
      BY <3>1 DEF Request
    <3>. QED  BY <2>2, <3>1, <3>2 DEF Tells
  <2>3. CASE ~(q \notin done /\ requests[q] # None /\ requests[q].kind = "me")
    BY <2>1, <2>3 DEF Tells
  <2>. QED  BY <2>2, <2>3
<1>4. ASSUME NEW q \in Slots, requests'[q] # None
      PROVE  /\ requests'[q] \in Request /\ requests[q] # None
             /\ RequestOK(requests'[q], logins)
             /\ requests'[q].kind = "login" => requests[q].kind = "login"
  <2>1. requests'[q] = requests[q] \/ (requests'[q] = forgot(requests[q]) /\ requests[q] # None)
    BY <1>3, <1>4
  <2>2. CASE requests'[q] = requests[q]
    BY <1>2, <1>4, <2>2 DEF IInv, RequestsOK
  <2>3. CASE requests'[q] = forgot(requests[q]) /\ requests[q] # None
    <3>1. requests[q] \in Request /\ RequestOK(requests[q], logins)
      BY <1>2, <2>3 DEF IInv, RequestsOK
    <3>2. /\ requests'[q] \in Request /\ requests'[q].kind = "forgotten"
          /\ requests'[q].token = requests[q].token /\ requests'[q].answer = requests[q].answer
          /\ requests'[q].phase = requests[q].phase
      BY <2>3, <3>1 DEF Request, Kinds
    <3>. QED  BY <2>3, <3>1, <3>2 DEF RequestOK
  <2>. QED  BY <2>1, <2>2, <2>3
<1>5. lingering' \subseteq Accounts
  <2>1. \A q \in Slots : tells(q) => Of(requests[q]) \in Accounts
    BY <1>2, ShownOf
  <2>. QED  BY <1>1, <2>1
<1>6. TypeOK'
  <2>1. requests' \in [Slots -> Request \cup {None}]
    BY <1>4 DEF LogoutSettled
  <2>. QED  BY <1>1, <1>5, <2>1 DEF IInv, TypeOK
<1>7. RequestsOK'
  BY <1>4 DEF IInv, RequestsOK
<1>8. LoginsOK'
  BY DEF IInv, LoginsOK
<1>9. OfOneLogin'
  <2>1. ASSUME NEW q \in Slots, Tells(requests'[q])
        PROVE  Of(requests'[q]) \in lingering'
    BY <1>1, <1>3, <2>1
  <2>2. lingering' \subseteq Shown'
    BY DEF Shown
  <2>3. \A q \in Slots : Tells(requests[q])' = Tells(requests'[q]) /\ Of(requests[q])' = Of(requests'[q])
    BY DEF Tells, Of
  <2>. QED  BY <1>1, <2>1, <2>2, <2>3 DEF OfOneLogin
<1>. QED  BY <1>6, <1>7, <1>8, <1>9 DEF IInv

\* The client takes up an answer.
LEMMA ReceivedIInv ==
  ASSUME IInv, NEW r \in Slots, AnswerReceived(r)
  PROVE  IInv'
<1>. DEFINE x == requests[r]
<1>1. x # None /\ x \in Request /\ RequestOK(x, logins)
  BY DEF AnswerReceived, IInv, TypeOK, RequestsOK
<1>2. UNCHANGED <<platform, logins, sessionOf, minted, dead, faults>>
  BY DEF AnswerReceived, backend
<1>3. x.kind = "login" => \A q \in Slots \ {r} : requests[q] # None => requests[q].kind # "login"
  BY <1>1 DEF IInv, RequestsOK
<1>4. /\ sessionOf' \in [Accounts -> (1..logins) \cup {None}] /\ faults' \in 0..MaxFaults
      /\ overtaken \in BOOLEAN /\ lingering \subseteq Accounts
      /\ accessToken \in Tokens \cup {None} /\ refreshToken \in (1..logins) \cup {None}
      /\ user \in Accounts \cup {None} /\ profile \in Accounts \cup {None}
      /\ refreshing \in [login : 1..logins, answer : {"none", "ok", "error"}] \cup {None}
      /\ logins \in 0..Len(AccountOf)
  BY <1>2 DEF IInv, TypeOK
<1>5. x.token \in Tokens \cup {None}
  BY <1>1 DEF Request
<1>6. ASSUME NEW y \in Request \cup {None}, requests' = [requests EXCEPT ![r] = y]
      PROVE  \A q \in Slots : requests'[q] = IF q = r THEN y ELSE requests[q]
  BY <1>6 DEF IInv, TypeOK
<1>12. Ended({r}) = [requests EXCEPT ![r] = None]
  BY DEF Ended, IInv, TypeOK
<1>7. CASE Rejected(r) /\ UNCHANGED refreshing
  <2>1. CASE LogoutSettled({r}) /\ overtaken' = (overtaken \/ refreshing # None)
    BY <1>2, <1>4, <1>7, <2>1, LogoutIInv
  <2>2. CASE requests' = [requests EXCEPT ![r] = None] /\ UNCHANGED <<store, profile, history>>
    <3>1. UNCHANGED <<accessToken, refreshToken, user, profile, overtaken, lingering, refreshing>>
      BY <1>7, <2>2 DEF store, history
    <3>2. ~Tells(None)
      BY DEF Tells
    <3>3. OfOneLogin'
      BY <2>2, <3>1, <3>2, StoreKept DEF IInv, OfOneLogin
    <3>. QED  BY <1>2, <1>4, <2>2, <3>1, <3>3, RequestIInv
  <2>. QED  BY <1>7, <1>12, <2>1, <2>2 DEF Rejected
<1>8. CASE LoginAnswered(r) /\ x.answer = "ok" /\ UNCHANGED refreshing
  <2>. DEFINE t == x.token
              y == Sent("profile", t)
  <2>1. /\ x.kind = "login" /\ accessToken' = t /\ refreshToken' = t.login /\ UNCHANGED <<user, profile>>
        /\ overtaken' = (overtaken \/ refreshing # None) /\ lingering' = lingering \cup Current
        /\ requests' = [requests EXCEPT ![r] = y]
    BY <1>8 DEF LoginAnswered, setTokens
  <2>2. t \in Tokens /\ t # None /\ t.login \in 1..logins
    BY <1>1, <1>5, <1>8, <2>1 DEF RequestOK
  <2>3. y \in Request /\ y.kind = "profile" /\ y.token = t /\ y.answer = "none" /\ y.phase = "sent"
    BY <2>2, SentOf DEF Kinds
  <2>. HIDE DEF y
  <2>4. OfOneLogin'
    <3>1. \A q \in Slots : requests'[q] = IF q = r THEN y ELSE requests[q]
      BY <1>6, <2>1, <2>3
    <3>2. t.login # None
      BY <2>2, <1>4
    <3>3. Shown \subseteq Shown' /\ Of(y) \in Shown'
      BY <2>1, <2>2, <2>3 DEF Shown, Current, IsAuthenticated, Of
    <3>4. \A q \in Slots : Tells(requests[q])' = Tells(requests'[q]) /\ Of(requests[q])' = Of(requests'[q])
      BY DEF Tells, Of
    <3>5. ASSUME ~overtaken, NEW q \in Slots, Tells(requests'[q])
          PROVE  Of(requests'[q]) \in Shown'
      BY <3>1, <3>3, <3>5 DEF IInv, OfOneLogin
    <3>. QED  BY <1>8, <2>1, <2>2, <3>2, <3>3, <3>4, <3>5 DEF IInv, OfOneLogin
  <2>5. RequestOK(y, logins)
    BY <2>2, <2>3 DEF RequestOK
  <2>6. overtaken' \in BOOLEAN /\ lingering' \subseteq Accounts
    BY <1>4, <2>1, ShownOf
  <2>. QED  BY <1>2, <1>4, <1>8, <2>1, <2>2, <2>3, <2>4, <2>5, <2>6, RequestIInv
<1>9. CASE (MeAnswered(r) \/ ProfileUpdated(r)) /\ x.answer = "ok" /\ UNCHANGED refreshing
  <2>1. /\ x.kind \in {"me", "profile", "call"} /\ user' \in {user, Of(x)} /\ profile' \in {profile, Of(x)}
        /\ UNCHANGED <<accessToken, refreshToken, overtaken, lingering>>
        /\ requests' = [requests EXCEPT ![r] = None]
    BY <1>9, <1>12 DEF MeAnswered, ProfileUpdated, setUser, store, history
  <2>2. Tells(x) /\ Of(x) \in Accounts
    BY <1>1, <1>9, <2>1, ShownOf DEF RequestOK, Tells
  <2>3. ~overtaken => Of(x) \in Shown /\ user \in Shown \cup {None} /\ profile \in Shown \cup {None}
    BY <2>2 DEF IInv, OfOneLogin
  <2>4. OfOneLogin'
    <3>1. ~Tells(None)
      BY DEF Tells
    <3>. QED  BY <1>9, <2>1, <2>3, <3>1, StoreKept DEF IInv, OfOneLogin
  <2>. QED  BY <1>2, <1>4, <1>9, <2>1, <2>2, <2>4, RequestIInv
<1>10. CASE Refused(r)
  <2>. DEFINE y == [x EXCEPT !.retried = TRUE, !.phase = "waiting"]
  <2>1. /\ requests' = [requests EXCEPT ![r] = y]
        /\ UNCHANGED <<accessToken, refreshToken, user, profile, overtaken, lingering>>
    BY <1>10 DEF Refused, store, history
  <2>2. y \in Request /\ y.kind = x.kind /\ y.token = x.token /\ y.answer = x.answer
    BY <1>1 DEF Request
  <2>. HIDE DEF y
  <2>3. refreshing' = refreshing \/ (refreshing' = [login |-> refreshToken, answer |-> "none"] /\ refreshToken # None)
    BY <1>10 DEF Refused, NothingToRefresh
  <2>4. RequestOK(y, logins)
    <3>1. x.answer = "401"
      BY <1>10 DEF Refused
    <3>. QED  BY <1>1, <2>2, <3>1 DEF RequestOK
  <2>5. OfOneLogin'
    <3>1. ~overtaken /\ refreshing' # None => accessToken # None /\ refreshing'.login = accessToken.login
      BY <2>3 DEF IInv, OfOneLogin
    <3>2. ~overtaken /\ Tells(y) => Of(y) \in Shown
      BY <1>1, <2>2 DEF Tells, Of, IInv, OfOneLogin
    <3>. QED  BY <2>1, <2>2, <3>1, <3>2, StoreKept DEF IInv, OfOneLogin
  <2>6. refreshing' \in [login : 1..logins, answer : {"none", "ok", "error"}] \cup {None}
    BY <1>4, <2>3
  <2>. QED  BY <1>2, <1>3, <1>4, <2>1, <2>2, <2>4, <2>5, <2>6, RequestIInv
<1>. QED  BY <1>7, <1>8, <1>9, <1>10 DEF AnswerReceived, Succeeded, Failed, OtherAnswered

\* The refresh is answered, and its answer is taken up.
LEMMA RefreshIInv ==
  ASSUME IInv, RefreshAnswered
  PROVE  IInv'
<1>1. UNCHANGED <<platform, accessToken, refreshToken, user, profile, requests, logins, sessionOf,
                  dead, overtaken, lingering>>
  BY DEF RefreshAnswered, store, history
<1>2. refreshing # None /\ refreshing.login \in 1..logins /\ refreshing.login \in Logins
  BY LoginsAre DEF RefreshAnswered, IInv, TypeOK
<1>3. /\ refreshing' \in [login : 1..logins, answer : {"none", "ok", "error"}]
      /\ refreshing'.login = refreshing.login
  BY <1>2 DEF RefreshAnswered
<1>4. \/ minted' = minted
      \/ minted' = [minted EXCEPT ![refreshing.login] = IF @ < MaxAccess THEN @ + 1 ELSE @]
  BY DEF RefreshAnswered
<1>5. minted' \in [Logins -> 0..MaxAccess] /\ \A n \in 1..logins : minted'[n] >= 1
  <2>1. minted \in [Logins -> 0..MaxAccess] /\ 1..logins \subseteq Logins
    BY LoginsAre DEF IInv, TypeOK
  <2>. QED  BY <1>2, <1>4, <2>1 DEF IInv, LoginsOK
<1>6. faults' \in 0..MaxFaults
  BY DEF RefreshAnswered, Faulty, IInv, TypeOK
<1>7. TypeOK'
  BY <1>1, <1>3, <1>5, <1>6 DEF IInv, TypeOK
<1>8. RequestsOK' /\ LoginsOK'
  BY <1>1, <1>5 DEF IInv, RequestsOK, LoginsOK
<1>9. OfOneLogin'
  <2>1. Shown' = Shown /\ \A r \in Slots : Tells(requests[r])' = Tells(requests[r]) /\ Of(requests[r])' = Of(requests[r])
    BY <1>1 DEF Shown, Current, IsAuthenticated, Tells, Of
  <2>. QED  BY <1>1, <1>2, <1>3, <2>1 DEF IInv, OfOneLogin
<1>. QED  BY <1>7, <1>8, <1>9 DEF IInv

LEMMA RefreshedIInv ==
  ASSUME IInv, RefreshReceived
  PROVE  IInv'
<1>1. UNCHANGED <<platform, logins, sessionOf, minted, dead, faults>> /\ refreshing' = None
  BY DEF RefreshReceived, backend
<1>2. refreshing # None /\ refreshing.login \in 1..logins /\ refreshing.login \in Logins
  BY LoginsAre DEF RefreshReceived, IInv, TypeOK
<1>3. logins \in 0..Len(AccountOf) /\ requests \in [Slots -> Request \cup {None}]
  BY DEF IInv, TypeOK
<1>6. \A r \in Slots : Tells(requests[r])' = Tells(requests'[r]) /\ Of(requests[r])' = Of(requests'[r])
  BY DEF Tells, Of
<1>4. CASE Granted
  <2>. DEFINE t == [login |-> refreshing.login, number |-> minted[refreshing.login]]
              y(x) == [x EXCEPT !.phase = "sent", !.answer = "none", !.token = t]
  <2>1. t \in Tokens /\ t.login = refreshing.login
    <3>1. minted[refreshing.login] \in 1..MaxAccess
      BY <1>2 DEF IInv, TypeOK, LoginsOK
    <3>. QED  BY <1>2, <3>1, TokenOf
  <2>2. /\ accessToken' = t /\ UNCHANGED <<refreshToken, user, profile, overtaken, lingering>>
        /\ requests' = [r \in Slots |->
             IF requests[r] # None /\ requests[r].phase = "waiting" THEN y(requests[r]) ELSE requests[r]]
    BY <1>4 DEF Granted, setAccessToken, history
  <2>. HIDE DEF t
  <2>3. \A x \in Request : y(x) \in Request /\ y(x).kind = x.kind /\ y(x).token = t
                           /\ y(x).answer = "none" /\ y(x).phase = "sent"
    BY <2>1 DEF Request, Answers
  <2>. HIDE DEF y
  <2>4. ASSUME NEW r \in Slots
        PROVE  \/ requests'[r] = requests[r]
               \/ /\ requests[r] # None /\ requests[r] \in Request /\ requests'[r] \in Request
                  /\ requests'[r].kind = requests[r].kind
                  /\ requests'[r].token = t /\ requests'[r].answer = "none"
    BY <1>3, <2>2, <2>3
  <2>5. requests' \in [Slots -> Request \cup {None}]
    BY <1>3, <2>2, <2>3
  <2>6. TypeOK'
    BY <1>1, <2>1, <2>2, <2>5 DEF IInv, TypeOK
  <2>7. RequestsOK'
    <3>1. ASSUME NEW r \in Slots, requests'[r] # None
          PROVE  requests[r] # None /\ requests'[r].kind = requests[r].kind /\ RequestOK(requests'[r], logins)
      <4>1. CASE requests'[r] = requests[r]
        BY <3>1, <4>1 DEF IInv, RequestsOK
      <4>2. CASE requests'[r] # requests[r]
        <5>1. /\ requests[r] # None /\ requests'[r].kind = requests[r].kind
              /\ requests'[r].token = t /\ requests'[r].answer = "none"
          BY <2>4, <4>2
        <5>2. requests[r].kind = "login" => logins < Len(AccountOf)
          <6>. SUFFICES ASSUME requests[r].kind = "login", ~(logins < Len(AccountOf))
                        PROVE  FALSE
            OBVIOUS
          <6>1. requests[r].answer = "ok"
            BY <5>1 DEF IInv, RequestsOK, RequestOK
          <6>2. requests[r].phase = "waiting"
            BY <2>2, <4>2
          <6>. QED  BY <5>1, <6>1, <6>2 DEF IInv, RequestsOK, RequestOK
        <5>. QED  BY <2>1, <5>1, <5>2, TokenOf DEF RequestOK
      <4>. QED  BY <4>1, <4>2
    <3>. QED  BY <1>1, <3>1 DEF IInv, RequestsOK
  <2>8. LoginsOK'
    BY <1>1 DEF IInv, LoginsOK
  <2>9. OfOneLogin'
    <3>. SUFFICES ASSUME ~overtaken PROVE OfOneLogin'
      BY <2>2 DEF OfOneLogin
    <3>1. accessToken # None /\ t # None /\ t.login = accessToken.login
      BY <1>2, <2>1, TokenOf DEF IInv, OfOneLogin
    <3>2. Shown' = Shown /\ AccountOf[t.login] \in Shown
      BY <2>2, <3>1 DEF Shown, Current, IsAuthenticated
    <3>3. ASSUME NEW r \in Slots, Tells(requests'[r])
          PROVE  Of(requests'[r]) \in Shown
      <4>1. CASE requests'[r] = requests[r]
        BY <3>3, <4>1 DEF IInv, OfOneLogin
      <4>2. CASE requests'[r] # requests[r]
        BY <2>4, <3>2, <4>2 DEF Of
      <4>. QED  BY <4>1, <4>2
    <3>. QED  BY <1>1, <1>6, <2>2, <3>1, <3>2, <3>3 DEF IInv, OfOneLogin
  <2>. QED  BY <2>6, <2>7, <2>8, <2>9 DEF IInv
<1>5. CASE NotGranted /\ \E r \in Waiters : requests[r].kind = "logout"
  <2>1. LogoutSettled(Waiters) /\ overtaken' = overtaken
    BY <1>5 DEF NotGranted
  <2>2. overtaken \in BOOLEAN
    BY DEF IInv, TypeOK
  <2>. QED  BY <1>1, <2>1, <2>2, LogoutIInv
<1>7. CASE NotGranted /\ \A r \in Waiters : requests[r].kind # "logout"
  <2>1. /\ accessToken' = None /\ refreshToken' = None /\ user' = None /\ profile' = profile
        /\ requests' = [r \in Slots |-> IF r \in Waiters THEN None ELSE requests[r]]
        /\ lingering' = lingering \cup Current /\ overtaken' = overtaken
    BY <1>7 DEF NotGranted, Ended, clearAuth
  <2>2. requests' \in [Slots -> Request \cup {None}] /\ lingering' \subseteq Accounts
    BY <1>3, <2>1, ShownOf DEF IInv, TypeOK
  <2>3. \A r \in Slots : requests'[r] # None => requests'[r] = requests[r]
    BY <1>3, <2>1
  <2>4. TypeOK'
    BY <1>1, <2>1, <2>2 DEF IInv, TypeOK
  <2>5. RequestsOK' /\ LoginsOK'
    BY <1>1, <2>3 DEF IInv, RequestsOK, LoginsOK
  <2>6. OfOneLogin'
    <3>1. Shown \subseteq Shown'
      BY <2>1 DEF Shown
    <3>2. ASSUME ~overtaken, NEW r \in Slots, Tells(requests'[r])
          PROVE  Of(requests'[r]) \in Shown
      BY <2>3, <3>2 DEF Tells, IInv, OfOneLogin
    <3>. QED  BY <1>1, <1>6, <2>1, <3>1, <3>2 DEF IInv, OfOneLogin
  <2>. QED  BY <2>4, <2>5, <2>6 DEF IInv
<1>. QED  BY <1>4, <1>5, <1>7 DEF RefreshReceived, NotGranted

\* What happens outside the client, its restart, and the query cache's effect.
LEMMA OutsideIInv ==
  ASSUME IInv, TokenExpires \/ OtherDevice \/ Restart \/ Mount
  PROVE  IInv'
<1>1. UNCHANGED <<platform, accessToken, refreshToken, logins, minted, overtaken, lingering>>
  BY DEF TokenExpires, OtherDevice, Restart, Mount, setUser, store, backend, history
<1>2. /\ user' \in {user, profile, None} /\ profile' \in {profile, None}
      /\ refreshing' \in {refreshing, None}
  BY DEF TokenExpires, OtherDevice, Restart, Mount, setUser, store, backend
<1>3. /\ sessionOf' \in [Accounts -> (1..logins) \cup {None}]
      /\ dead' \in [Logins -> 0..MaxAccess] /\ faults' \in 0..MaxFaults
  <2>1. CASE TokenExpires
    <3>1. PICK n \in 1..logins : dead' = [dead EXCEPT ![n] = minted[n]]
      BY <2>1 DEF TokenExpires
    <3>2. n \in Logins
      BY LoginsAre DEF IInv, TypeOK
    <3>. QED  BY <2>1, <3>1, <3>2 DEF TokenExpires, IInv, TypeOK
  <2>2. CASE OtherDevice
    BY <2>2 DEF OtherDevice, Faulty, IInv, TypeOK
  <2>3. CASE Restart
    BY <2>3 DEF Restart, Faulty, backend, IInv, TypeOK
  <2>4. CASE Mount
    BY <2>4 DEF Mount, backend, IInv, TypeOK
  <2>. QED  BY <2>1, <2>2, <2>3, <2>4
<1>4. /\ requests' \in [Slots -> Request \cup {None}]
      /\ \A r \in Slots : requests'[r] \in {requests[r], None}
  BY DEF TokenExpires, OtherDevice, Restart, Mount, IInv, TypeOK
<1>5. TypeOK'
  BY <1>1, <1>2, <1>3, <1>4 DEF IInv, TypeOK
<1>6. RequestsOK'
  BY <1>1, <1>4 DEF IInv, RequestsOK
<1>7. LoginsOK'
  BY <1>1 DEF IInv, LoginsOK
<1>8. OfOneLogin'
  <2>1. Shown' = Shown
    BY <1>1 DEF Shown, Current, IsAuthenticated
  <2>2. \A r \in Slots : Tells(requests[r])' = Tells(requests'[r]) /\ Of(requests[r])' = Of(requests'[r])
    BY DEF Tells, Of
  <2>3. ASSUME ~overtaken, NEW r \in Slots, Tells(requests'[r])
        PROVE  Of(requests'[r]) \in Shown
    BY <1>4, <2>3 DEF Tells, IInv, OfOneLogin
  <2>. QED  BY <1>1, <1>2, <2>1, <2>2, <2>3 DEF IInv, OfOneLogin
<1>. QED  BY <1>5, <1>6, <1>7, <1>8 DEF IInv

\* Every step keeps the inductive invariant.
LEMMA NextIInv == IInv /\ [Next]_vars => IInv'
<1>. SUFFICES ASSUME IInv, [Next]_vars PROVE IInv'
  OBVIOUS
<1>1. CASE UNCHANGED vars
  <2>1. UNCHANGED <<platform, accessToken, refreshToken, user, profile, requests, refreshing, logins,
                    sessionOf, minted, dead, overtaken, lingering, faults>>
    BY <1>1 DEF vars, store, backend, history
  <2>. QED  BY <2>1 DEF IInv, TypeOK, RequestsOK, LoginsOK, OfOneLogin, Shown, Current,
                        IsAuthenticated, Tells, Of
<1>2. CASE Next
  BY <1>2, SendIInv, AnswerIInv, ReceivedIInv, RefreshIInv, RefreshedIInv, OutsideIInv DEF Next
<1>. QED  BY <1>1, <1>2

\* The store, the requests and the backend's sessions keep their types.
THEOREM TypeCorrect == Spec => []TypeOK
<1>1. IInv => TypeOK
  BY DEF IInv
<1>. QED  BY <1>1, InitIInv, NextIInv, PTL DEF Spec

\* As long as no login or logout overtakes a refresh, the store's two tokens are of
\* one login and its user is of it too, or of a session that ended without a
\* logout, or with a profile still to come at it, whatever is refreshed, refused,
\* taken by another device, restarted or written back by the query cache
\* (authStore, apiClient's interceptor, useAuth).
THEOREM StoreAgreesWithLoginHolds == Spec => []StoreAgreesWithLogin
<1>1. IInv => StoreAgreesWithLogin
  BY DEF IInv, OfOneLogin, Shown, Current, StoreAgreesWithLogin, IsAuthenticated
<1>. QED  BY <1>1, InitIInv, NextIInv, PTL DEF Spec
===============================================================================
