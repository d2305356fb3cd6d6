---------------------------- MODULE LiveFeed_proofs ----------------------------
(***************************************************************************)
(* The live feed's type invariant, OneFeed and MobileShowsItsSession, for  *)
(* any drivers, sessions and bounds.                                       *)
(***************************************************************************)
EXTENDS LiveFeed, TLAPS

USE FeedAssumption

\* Mobile's sockets and laps are of the session shown, since the subscriber is
\* replaced with the session; the store's laps are of the session it names.
LapsOfSession ==
  /\ platform = "mobile" =>
       /\ \A s \in sockets : s.url[1] = sessionId
       /\ \A d \in Drivers : laps[d] # None => laps[d][1] = sessionId
  /\ \A d \in Drivers : store.laps[d] # None => store.laps[d][1] = store.sessionId

IInv ==
  /\ TypeOK
  /\ expired => token < MaxTokens
  /\ OneFeed
  /\ LapsOfSession

States == {"connecting", "open", "closed"}
Phases == {"connecting", "open", "waiting"}

\* A socket in another phase, or cancelled, is still to the same address.
LEMMA SocketMoves ==
  ASSUME NEW s \in Sockets, NEW phase \in Phases
  PROVE  /\ [s EXCEPT !.phase = phase] \in Sockets
         /\ [s EXCEPT !.phase = phase].url = s.url
         /\ [s EXCEPT !.phase = phase].cancelled = s.cancelled
BY DEF Sockets, Phases

LEMMA SocketCancelled ==
  ASSUME NEW s \in Sockets
  PROVE  /\ [s EXCEPT !.cancelled = TRUE] \in Sockets
         /\ [s EXCEPT !.cancelled = TRUE].url = s.url
         /\ [s EXCEPT !.cancelled = TRUE].cancelled
BY DEF Sockets

\* The cleanup leaves cancelled sockets to addresses there were before.
LEMMA CleanUpCancels ==
  ASSUME NEW ss \in SUBSET Sockets, NEW s \in CleanUp(ss)
  PROVE  /\ s \in Sockets /\ s.cancelled
         /\ \E t \in ss : s.url = t.url
<1>1. PICK t \in ss : s = [t EXCEPT !.cancelled = TRUE]
  BY DEF CleanUp
<1>. QED  BY <1>1, SocketCancelled

LEMMA FreshConnects ==
  ASSUME NEW u \in Urls \cup {None}, NEW s \in Fresh(u)
  PROVE  s \in Sockets /\ s.url = u /\ ~s.cancelled /\ Fresh(u) = {s}
<1>1. u # None /\ s = [url |-> u, phase |-> "connecting", cancelled |-> FALSE]
  BY DEF Fresh
<1>. QED  BY <1>1 DEF Fresh, Sockets

\* What the client shows and connects to, in a state of the right types.
LEMMA UrlType ==
  ASSUME TypeOK
  PROVE  /\ sessionId \in Sessions \cup {None}
         /\ url \in Urls \cup {None}
         /\ isReplay \in BOOLEAN
         /\ url # None => url[1] = sessionId
<1>1. sessionId \in Sessions \cup {None}
  BY DEF TypeOK, sessionId, WebSession, DesktopSession, MobileSession, ResolvedSession, Sessions
<1>2. isReplay \in BOOLEAN
  BY DEF isReplay
<1>3. url # None => sessionId \in Sessions /\ url = <<sessionId, token>>
  BY <1>1 DEF url
<1>4. token \in 1..MaxTokens
  BY DEF TypeOK
<1>. QED  BY <1>1, <1>2, <1>3, <1>4 DEF Urls

\* The stale effect's state keeps its type.
LEMMA WatchType ==
  ASSUME TypeOK, NEW r \in States, ReadyBecomes(r)
  PROVE  /\ readyState' \in States
         /\ received' \in BOOLEAN /\ timer' \in BOOLEAN /\ stale' \in BOOLEAN
BY DEF ReadyBecomes, watch, TypeOK, States

\* Nothing is connected, collected or stored at first.
LEMMA InitIInv == Init => IInv
<1>. SUFFICES ASSUME Init PROVE IInv
  OBVIOUS
<1>1. laps = NoLaps /\ NoLaps \in [Drivers -> Shown \cup {None}] /\ \A d \in Drivers : NoLaps[d] = None
  BY DEF Init, NoLaps
<1>2. store.sessionId = None /\ store.laps = NoLaps
  BY DEF Init
<1>3. TypeOK
  <2>1. expired \in BOOLEAN /\ online \in BOOLEAN
    BY DEF Init
  <2>2. received \in BOOLEAN /\ timer \in BOOLEAN /\ stale \in BOOLEAN
    BY DEF Init
  <2>3. token \in 1..MaxTokens /\ changes \in 0..MaxChanges
    BY DEF Init
  <2>4. sockets = {}
    BY DEF Init
  <2>. QED  BY <1>1, <1>2, <2>1, <2>2, <2>3, <2>4 DEF Init, TypeOK
<1>4. sockets = {} /\ ~expired
  BY DEF Init
<1>. QED  BY <1>1, <1>2, <1>3, <1>4 DEF IInv, OneFeed, LapsOfSession

\* The effects that follow a change of the component's inputs.
LEMMA RewireIInv ==
  ASSUME IInv, Rewire,
         current' \in {"unknown", "live", "none", "over"},
         fallback' \in Sessions \cup {None},
         replay' \in Sessions \cup {None},
         chosen' \in Sessions \cup {None},
         token' \in 1..MaxTokens,
         expired' \in BOOLEAN, expired' => token' < MaxTokens,
         online' \in BOOLEAN,
         changes' \in 0..MaxChanges
  PROVE  IInv'
<1>1. platform' = platform /\ store' = store
  BY DEF Rewire
<1>2. /\ sessionId \in Sessions \cup {None}
      /\ url \in Urls \cup {None}
      /\ url # None => url[1] = sessionId
  BY UrlType DEF IInv
<1>3. sessionId' \in Sessions \cup {None}
  BY <1>1 DEF IInv, TypeOK, sessionId, WebSession, DesktopSession, MobileSession, ResolvedSession, Sessions
<1>4. url' \in Urls \cup {None} /\ (url' # None => url'[1] = sessionId')
  <2>1. url' # None => sessionId' \in Sessions /\ url' = <<sessionId', token'>>
    BY <1>3 DEF url
  <2>. QED  BY <2>1 DEF Urls
<1>5. NoLaps \in [Drivers -> Shown \cup {None}] /\ \A d \in Drivers : NoLaps[d] = None
  BY DEF NoLaps
<1>6. platform = "mobile" /\ ~Remounted => sessionId' = sessionId
  BY DEF Remounted, SubscriberKey
<1>7. /\ sockets' \subseteq Sockets
      /\ readyState' \in States
      /\ received' \in BOOLEAN /\ timer' \in BOOLEAN /\ stale' \in BOOLEAN
      /\ laps' \in [Drivers -> Shown \cup {None}]
      /\ OneFeed'
      /\ platform = "mobile" =>
           /\ \A s \in sockets' : s.url[1] = sessionId'
           /\ \A d \in Drivers : laps'[d] # None => laps'[d][1] = sessionId'
  <2>1. CASE Remounted
    <3>1. sockets' = Fresh(url') /\ readyState' = "connecting" /\ laps' = NoLaps
      BY <2>1 DEF Rewire
    <3>2. received' \in BOOLEAN /\ timer' \in BOOLEAN /\ stale' \in BOOLEAN
      BY <2>1 DEF Rewire
    <3>3. \A s \in sockets' : s \in Sockets /\ s.url = url' /\ url' # None /\ sockets' = {s}
      BY <1>4, <3>1, FreshConnects DEF Fresh
    <3>. QED  BY <1>4, <1>5, <3>1, <3>2, <3>3 DEF OneFeed, States
  <2>2. CASE ~Remounted /\ url' # url
    <3>1. sockets' = CleanUp(sockets) \cup Fresh(url') /\ laps' = laps
      BY <2>2 DEF Rewire
    <3>2. readyState' \in States /\ received' \in BOOLEAN /\ timer' \in BOOLEAN /\ stale' \in BOOLEAN
      <4>1. PICK r \in States : ReadyBecomes(r)
        BY <2>2 DEF Rewire, IInv, TypeOK, States
      <4>. QED  BY <4>1, WatchType DEF IInv
    <3>3. sockets \in SUBSET Sockets
      BY DEF IInv, TypeOK
    <3>4. \A s \in CleanUp(sockets) : s \in Sockets /\ s.cancelled /\ \E t \in sockets : s.url = t.url
      BY <3>3, CleanUpCancels
    <3>5. \A s \in Fresh(url') : s \in Sockets /\ s.url = url' /\ url' # None /\ Fresh(url') = {s}
      BY <1>4, FreshConnects DEF Fresh
    <3>6. OneFeed'
      BY <3>1, <3>4, <3>5 DEF OneFeed
    <3>7. platform = "mobile" => \A s \in sockets' : s.url[1] = sessionId'
      BY <1>4, <1>6, <2>2, <3>1, <3>4, <3>5 DEF IInv, LapsOfSession
    <3>8. platform = "mobile" => \A d \in Drivers : laps'[d] # None => laps'[d][1] = sessionId'
      BY <1>6, <2>2, <3>1 DEF IInv, LapsOfSession
    <3>9. sockets' \subseteq Sockets /\ laps' \in [Drivers -> Shown \cup {None}]
      BY <3>1, <3>4, <3>5 DEF IInv, TypeOK
    <3>. QED  BY <3>2, <3>6, <3>7, <3>8, <3>9
  <2>3. CASE ~Remounted /\ url' = url
    <3>1. UNCHANGED <<sockets, readyState, laps, received, timer, stale>>
      BY <2>3 DEF Rewire, watch
    <3>2. OneFeed'
      BY <2>3, <3>1 DEF IInv, OneFeed
    <3>. QED  BY <1>6, <2>3, <3>1, <3>2 DEF IInv, LapsOfSession, TypeOK, States
  <2>. QED  BY <2>1, <2>2, <2>3
<1>8. TypeOK'
  BY <1>1, <1>7 DEF IInv, TypeOK, States
<1>9. LapsOfSession'
  BY <1>1, <1>7 DEF IInv, LapsOfSession
<1>. QED  BY <1>7, <1>8, <1>9 DEF IInv

\* Whatever the component is given.
LEMMA InputsIInv ==
  ASSUME IInv, Inputs
  PROVE  IInv'
<1>. USE DEF IInv, TypeOK
<1>1. CASE CurrentRaceAnswered
  BY <1>1, RewireIInv DEF CurrentRaceAnswered
<1>2. CASE FallbackAnswered
  BY <1>2, RewireIInv DEF FallbackAnswered, Sessions
<1>3. CASE ReplayStatusAnswered
  BY <1>3, RewireIInv DEF ReplayStatusAnswered, Sessions
<1>4. CASE ReplayStarted
  BY <1>4, RewireIInv DEF ReplayStarted, Sessions
<1>5. CASE Choose
  BY <1>5, RewireIInv DEF Choose
<1>6. CASE TokenExpires
  <2>1. UNCHANGED <<platform, current, fallback, replay, chosen, token, online, sockets, readyState,
                    laps, received, timer, stale, store, changes>>
    BY <1>6 DEF TokenExpires, feed, watch
  <2>2. expired' = TRUE /\ token < MaxTokens
    BY <1>6 DEF TokenExpires
  <2>3. UNCHANGED <<sessionId, url>>
    BY <2>1 DEF sessionId, url, WebSession, DesktopSession, MobileSession, ResolvedSession
  <2>. QED  BY <2>1, <2>2, <2>3 DEF OneFeed, LapsOfSession
<1>7. CASE TokenRefreshed
  <2>1. token' \in 1..MaxTokens
    BY <1>7 DEF TokenRefreshed
  <2>2. expired' = FALSE /\ Rewire
    BY <1>7 DEF TokenRefreshed
  <2>. QED  BY <1>7, <2>1, <2>2, RewireIInv DEF TokenRefreshed
<1>8. CASE NetworkChanges
  BY <1>8, RewireIInv DEF NetworkChanges
<1>. QED  BY <1>1, <1>2, <1>3, <1>4, <1>5, <1>6, <1>7, <1>8 DEF Inputs

\* A socket's events change its phase or remove it.
LEMMA EventIInv ==
  ASSUME IInv, NEW s \in sockets, Opened(s) \/ Closed(s) \/ Reconnect(s) \/ ClosedLate(s)
  PROVE  IInv'
<1>1. UNCHANGED <<platform, current, fallback, replay, chosen, token, expired, online, laps, store>>
  BY DEF Opened, Closed, Reconnect, ClosedLate, inputs
<1>2. UNCHANGED <<sessionId, url>>
  BY <1>1 DEF sessionId, url, WebSession, DesktopSession, MobileSession, ResolvedSession
<1>3. changes' \in 0..MaxChanges
  BY DEF Opened, Closed, Reconnect, ClosedLate, IInv, TypeOK
<1>4. readyState' \in States /\ received' \in BOOLEAN /\ timer' \in BOOLEAN /\ stale' \in BOOLEAN
  <2>1. PICK r \in States : ReadyBecomes(r)
    BY DEF Opened, Closed, Reconnect, ClosedLate, IInv, TypeOK, States
  <2>. QED  BY <2>1, WatchType DEF IInv
<1>5. s \in Sockets
  BY DEF IInv, TypeOK
<1>6. \A t \in sockets' : t \in sockets \/ (t \in Sockets /\ t.url = s.url /\ t.cancelled = s.cancelled)
  <2>1. \/ sockets' = sockets \ {s}
        \/ \E phase \in Phases : sockets' = (sockets \ {s}) \cup {[s EXCEPT !.phase = phase]}
    BY DEF Opened, Closed, Reconnect, ClosedLate, Phases
  <2>2. ASSUME NEW phase \in Phases, sockets' = (sockets \ {s}) \cup {[s EXCEPT !.phase = phase]},
               NEW t \in sockets'
        PROVE  t \in sockets \/ (t \in Sockets /\ t.url = s.url /\ t.cancelled = s.cancelled)
    BY <1>5, <2>2, SocketMoves
  <2>. QED  BY <2>1, <2>2
<1>7. TypeOK'
  BY <1>1, <1>3, <1>4, <1>6 DEF IInv, TypeOK, States
<1>8. OneFeed'
  <2>1. \/ sockets' = sockets \ {s}
        \/ \E phase \in Phases : sockets' = (sockets \ {s}) \cup {[s EXCEPT !.phase = phase]}
    BY DEF Opened, Closed, Reconnect, ClosedLate, Phases
  <2>2. CASE sockets' = sockets \ {s}
    BY <1>2, <2>2 DEF IInv, OneFeed
  <2>3. ASSUME NEW phase \in Phases, sockets' = (sockets \ {s}) \cup {[s EXCEPT !.phase = phase]}
        PROVE  OneFeed'
    <3>. DEFINE m == [s EXCEPT !.phase = phase]
    <3>1. m.url = s.url /\ m.cancelled = s.cancelled
      BY <1>5, SocketMoves
    <3>. HIDE DEF m
    <3>2. \A t \in sockets \ {s} : ~t.cancelled => t.url = url /\ s.cancelled /\ \A v \in sockets \ {t} : v.cancelled
      BY DEF IInv, OneFeed
    <3>3. ~s.cancelled => s.url = url /\ \A v \in sockets \ {s} : v.cancelled
      BY DEF IInv, OneFeed
    <3>. QED  BY <1>2, <2>3, <3>1, <3>2, <3>3 DEF OneFeed, m
  <2>. QED  BY <2>1, <2>2, <2>3
<1>9. LapsOfSession'
  BY <1>1, <1>2, <1>6 DEF IInv, LapsOfSession
<1>. QED  BY <1>1, <1>7, <1>8, <1>9 DEF IInv

\* A lap arrives.
LEMMA LapIInv ==
  ASSUME IInv, NEW s \in sockets, NEW d \in Drivers, handleMessage(s, d)
  PROVE  IInv'
<1>1. UNCHANGED <<platform, current, fallback, replay, chosen, token, expired, online,
                  sockets, readyState, timer, store, changes>>
  BY DEF handleMessage, inputs
<1>2. UNCHANGED <<sessionId, url>>
  BY <1>1 DEF sessionId, url, WebSession, DesktopSession, MobileSession, ResolvedSession
<1>3. /\ laps' = [laps EXCEPT ![d] = <<s.url[1], isReplay>>]
      /\ <<s.url[1], isReplay>> \in Shown
      /\ <<s.url[1], isReplay>>[1] = s.url[1]
  <2>1. s.url[1] \in Sessions
    BY DEF IInv, TypeOK, Sockets, Urls
  <2>. QED  BY <2>1, UrlType DEF handleMessage, Shown, IInv
<1>4. received' \in BOOLEAN /\ stale' \in BOOLEAN
  BY DEF handleMessage
<1>5. TypeOK'
  BY <1>1, <1>3, <1>4 DEF IInv, TypeOK
<1>6. OneFeed'
  BY <1>1, <1>2 DEF IInv, OneFeed
<1>7. LapsOfSession'
  <2>1. ASSUME platform = "mobile", NEW c \in Drivers, laps'[c] # None
        PROVE  laps'[c][1] = sessionId
    <3>1. s.url[1] = sessionId /\ (laps[c] # None => laps[c][1] = sessionId)
      BY <2>1 DEF IInv, LapsOfSession
    <3>2. laps'[c] = IF c = d THEN <<s.url[1], isReplay>> ELSE laps[c]
      BY <1>3 DEF IInv, TypeOK
    <3>. QED  BY <1>3, <2>1, <3>1, <3>2
  <2>. QED  BY <1>1, <1>2, <2>1 DEF IInv, LapsOfSession
<1>. QED  BY <1>1, <1>5, <1>6, <1>7 DEF IInv

\* The timer and the publication.
LEMMA EffectIInv ==
  ASSUME IInv, StaleTimer \/ Publish
  PROVE  IInv'
<1>1. UNCHANGED <<platform, current, fallback, replay, chosen, token, expired, online,
                  sockets, readyState, laps, received, changes>>
  BY DEF StaleTimer, Publish, inputs, watch
<1>2. UNCHANGED <<sessionId, url>>
  BY <1>1 DEF sessionId, url, WebSession, DesktopSession, MobileSession, ResolvedSession
<1>3. timer' \in BOOLEAN /\ stale' \in BOOLEAN
  BY DEF StaleTimer, Publish, watch, IInv, TypeOK
<1>4. /\ store'.sessionId \in Sessions \cup {None}
      /\ store'.laps \in [Drivers -> Shown \cup {None}]
      /\ \A d \in Drivers : store'.laps[d] # None => store'.laps[d][1] = store'.sessionId
  <2>1. CASE StaleTimer
    BY <2>1 DEF StaleTimer, IInv, TypeOK, LapsOfSession
  <2>2. CASE Publish
    <3>1. store'.sessionId = sessionId /\ store'.laps = laps /\ platform = "mobile"
      BY <2>2 DEF Publish
    <3>. QED  BY <3>1, UrlType DEF IInv, TypeOK, LapsOfSession
  <2>. QED  BY <2>1, <2>2
<1>5. TypeOK'
  BY <1>1, <1>3, <1>4 DEF IInv, TypeOK
<1>6. OneFeed' /\ LapsOfSession'
  BY <1>1, <1>2, <1>4 DEF IInv, OneFeed, LapsOfSession
<1>. QED  BY <1>1, <1>5, <1>6 DEF IInv

\* Every step keeps the inductive invariant.
LEMMA NextIInv == IInv /\ [Next]_vars => IInv'
<1>. SUFFICES ASSUME IInv, [Next]_vars PROVE IInv'
  OBVIOUS
<1>1. CASE UNCHANGED vars
  <2>1. UNCHANGED <<platform, current, fallback, replay, chosen, token, expired, online,
                    sockets, readyState, laps, received, timer, stale, store, changes>>
    BY <1>1 DEF vars, inputs, feed, watch
  <2>2. UNCHANGED <<sessionId, url>>
    BY <2>1 DEF sessionId, url, WebSession, DesktopSession, MobileSession, ResolvedSession
  <2>. QED  BY <2>1, <2>2 DEF IInv, TypeOK, OneFeed, LapsOfSession
<1>2. CASE Next
  BY <1>2, InputsIInv, EventIInv, LapIInv, EffectIInv DEF Next, SocketEvent
<1>. QED  BY <1>1, <1>2

\* The connection, the laps and the store keep their types for any sessions,
\* tokens and changes.
THEOREM TypeCorrect == Spec => []TypeOK
<1>1. IInv => TypeOK
  BY DEF IInv
<1>. QED  BY <1>1, InitIInv, NextIInv, PTL DEF Spec

\* However the session, the token and the network change, a component keeps at
\* most one connection that speaks or is retried, to the address of now
\* (connect and the effect's cleanup).
THEOREM OneFeedHolds == Spec => []OneFeed
<1>1. IInv => OneFeed
  BY DEF IInv
<1>. QED  BY <1>1, InitIInv, NextIInv, PTL DEF Spec

\* Mobile's screens show the laps of their session only, though a closed socket
\* may still deliver and the store is written late (useSharedLiveTelemetry).
THEOREM MobileShows == Spec => []MobileShowsItsSession
<1>1. IInv => MobileShowsItsSession
  <2>. SUFFICES ASSUME IInv, platform = "mobile", NEW d \in Drivers, lapsByDriver[d] # None
                PROVE  lapsByDriver[d][1] = sessionId
    BY DEF MobileShowsItsSession
  <2>1. lapsByDriver = SharedLaps
    BY DEF lapsByDriver
  <2>2. store.sessionId = sessionId /\ SharedLaps = store.laps
    BY <2>1 DEF SharedLaps, NoLaps
  <2>. QED  BY <2>1, <2>2 DEF IInv, LapsOfSession
<1>. QED  BY <1>1, InitIInv, NextIInv, PTL DEF Spec
===============================================================================
