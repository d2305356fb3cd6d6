------------------------------- MODULE LiveFeed -------------------------------
(***************************************************************************)
(* One live timing component of a client: which session it shows, the      *)
(* WebSocket it keeps for that session, the laps it collects from it, and  *)
(* what the charts and the strategy panels make of them.  Web and desktop  *)
(* give each component a socket; mobile has one, in a subscriber keyed by  *)
(* the session and the replay, which publishes to a store.  React's        *)
(* effects run in the commit of the change they depend on, but the         *)
(* publication is an action of its own.  The user is logged in.  Lap       *)
(* numbers are left out.                                                   *)
(***************************************************************************)
EXTENDS Naturals, FiniteSets

CONSTANTS
  Drivers,
  Live,        \* the current race's session
  Past,        \* the race completed before it
  Replayed,    \* the session of the Demo Replay, which may be Past
  None,        \* null or undefined
  MaxTokens,   \* bound: access tokens one visit sees
  MaxChanges   \* bound: changes of the replay, the choice and the network, and lost connections

ASSUME FeedAssumption ==
  /\ MaxTokens \in Nat \ {0}
  /\ MaxChanges \in Nat
  /\ None \notin {Live, Past, Replayed}

VARIABLES
  platform,   \* web, desktop or mobile
  current,    \* /races/current as answered: unknown, live, none, or over
  fallback,   \* the most recent completed race's session, or None
  replay,     \* the running replay's session as polled, or None
  chosen,     \* web's URL parameter, desktop's override
  token,      \* the client's access token
  expired,    \* the backend refuses that token
  online,     \* there is a network (mobile: NetInfo's isConnected)
  sockets,    \* of the mounted component, the cancelled ones still closing
  readyState,
  laps,       \* lapsByDriver: what was shown when the driver's lap arrived
  received,   \* hasReceivedDataRef
  timer,      \* the 30 s timer is armed
  stale,      \* staleConnection
  store,      \* mobile: liveTelemetryStore
  changes

inputs == <<current, fallback, replay, chosen, token, expired, online>>
watch  == <<received, timer, stale>>
feed   == <<sockets, readyState, laps, watch, store>>
vars   == <<platform, inputs, feed, changes>>

Sessions == {Live, Past, Replayed}
Shown    == (Sessions \cup {None}) \X BOOLEAN
Urls     == Sessions \X (1..MaxTokens)
Sockets  == [url : Urls, phase : {"connecting", "open", "waiting"}, cancelled : BOOLEAN]
NoLaps   == [d \in Drivers |-> None]

------------------------------------------------------------------------------
(* Which session is shown.                                                   *)

\* The live race if it has begun, otherwise the last completed one.
ResolvedSession == IF current = "live" THEN Live ELSE fallback

\* The page's parameter wins.  Web does not follow a replay: it navigates.
WebSession == IF chosen # None THEN chosen ELSE ResolvedSession

\* The Dashboard's override, then the replay.
DesktopSession ==
  CASE chosen # None                   -> chosen
    [] chosen = None /\ replay # None -> replay
    [] OTHER                           -> ResolvedSession

\* The replay, then the automatic session.
MobileSession == IF replay # None THEN replay ELSE ResolvedSession

sessionId ==
  CASE platform = "web"     -> WebSession
    [] platform = "desktop" -> DesktopSession
    [] platform = "mobile"  -> MobileSession

\* The session shown is the running replay's.
isReplay == replay # None /\ sessionId = replay

isLive == current = "live" /\ sessionId = Live

\* Without the replay.
SubscriberKeyBySession == <<sessionId, FALSE>>

\* The key of mobile's subscriber.
SubscriberKey == <<sessionId, replay # None>>

\* What the component is to be connected to.  Mobile waits for a network.
url ==
  IF sessionId = None \/ (platform = "mobile" /\ ~online)
  THEN None
  ELSE <<sessionId, token>>

------------------------------------------------------------------------------
(* The connection.                                                           *)

Fresh(u) ==
  IF u = None THEN {} ELSE {[url |-> u, phase |-> "connecting", cancelled |-> FALSE]}

\* The cleanup leaves the reconnection timer.
CleanUpKeepsTimer(ss) == {[s EXCEPT !.cancelled = (s.phase # "waiting")] : s \in ss}

\* The cleanup of the effect: its reconnection timer is cleared, its socket
\* closed, and the close event of that socket is still to come.
CleanUp(ss) == {[s EXCEPT !.cancelled = TRUE] : s \in {t \in ss : t.phase # "waiting"}}

\* The timer is armed for the first connection only.
ReadyBecomesOnce(r) ==
  /\ readyState' = r
  /\ IF r = readyState \/ platform = "mobile"
     THEN UNCHANGED watch
     ELSE IF r = "open"
     THEN received' = FALSE /\ timer' = (readyState = "connecting") /\ UNCHANGED stale
     ELSE timer' = FALSE /\ stale' = FALSE /\ UNCHANGED received

\* The stale effect, which mobile does not have, runs when readyState changes.
ReadyBecomes(r) ==
  /\ readyState' = r
  /\ IF r = readyState \/ platform = "mobile"
     THEN UNCHANGED watch
     ELSE IF r = "open"
     THEN received' = FALSE /\ timer' = TRUE /\ UNCHANGED stale
     ELSE timer' = FALSE /\ stale' = FALSE /\ UNCHANGED received

\* Mobile's subscriber is replaced when its key changes, web's components are
\* on the page only while there is a session, desktop's stay.  The events of
\* what was unmounted no longer reach anything.
Remounted ==
  \/ platform = "mobile" /\ SubscriberKey' # SubscriberKey
  \/ platform = "web" /\ (sessionId = None) # (sessionId' = None)

\* The component re-renders after a change of its inputs.
Rewire ==
  /\ UNCHANGED <<platform, store>>
  /\ IF Remounted
     THEN /\ sockets' = Fresh(url')
          /\ readyState' = "connecting"
          /\ laps' = NoLaps
          /\ received' = FALSE /\ timer' = FALSE /\ stale' = FALSE
     ELSE IF url' # url
     THEN /\ sockets' = CleanUp(sockets) \cup Fresh(url')
          /\ ReadyBecomes(IF url' = None THEN readyState ELSE "connecting")
          /\ UNCHANGED laps
     ELSE UNCHANGED <<sockets, readyState, laps, watch>>

Refused(s) == ~online \/ s.url[2] # token \/ expired

Opened(s) ==
  /\ s.phase = "connecting" /\ ~s.cancelled
  /\ ~Refused(s)
  /\ sockets' = (sockets \ {s}) \cup {[s EXCEPT !.phase = "open"]}
  /\ ReadyBecomes("open")
  /\ UNCHANGED <<platform, inputs, laps, store, changes>>

\* A refused connection is given up.
ClosedForGood(s) ==
  /\ s.phase = "connecting" /\ ~s.cancelled
  /\ Refused(s)
  /\ sockets' = sockets \ {s}
  /\ ReadyBecomes("closed")
  /\ UNCHANGED <<platform, inputs, laps, store, changes>>

\* Desktop and mobile schedule connect(), web's library retries by itself.
Closed(s) ==
  /\ s.phase # "waiting" /\ ~s.cancelled
  /\ \/ /\ ~online \/ (s.phase = "connecting" /\ Refused(s))
        /\ UNCHANGED changes
     \/ changes < MaxChanges /\ changes' = changes + 1
  /\ sockets' = (sockets \ {s}) \cup {[s EXCEPT !.phase = "waiting"]}
  /\ ReadyBecomes("closed")
  /\ UNCHANGED <<platform, inputs, laps, store>>

\* The retry timer.  Web does not go back to "connecting".
Reconnect(s) ==
  /\ s.phase = "waiting"
  /\ sockets' = (sockets \ {s}) \cup {[s EXCEPT !.phase = "connecting"]}
  /\ ReadyBecomes(IF platform = "web" THEN readyState ELSE "connecting")
  /\ UNCHANGED <<platform, inputs, laps, store, changes>>

\* The close event of a socket that the cleanup closed.  Nothing removed its
\* listener, and desktop and mobile set readyState before they test cancelled.
ClosedLate(s) ==
  /\ s.cancelled
  /\ sockets' = sockets \ {s}
  /\ ReadyBecomes("closed")
  /\ UNCHANGED <<platform, inputs, laps, store, changes>>

------------------------------------------------------------------------------
(* The laps.                                                                 *)

\* A browser delivers nothing after close(); React Native may.
Delivers(s) == s.phase = "open" /\ online /\ (s.cancelled => platform = "mobile")

handleMessage(s, d) ==
  /\ Delivers(s)
  /\ laps' = [laps EXCEPT ![d] = <<s.url[1], isReplay>>]
  /\ received' = (platform # "mobile")
  /\ stale' = FALSE
  /\ UNCHANGED <<platform, inputs, sockets, readyState, timer, store, changes>>

\* Connected and silent for 30 s.
StaleTimer ==
  /\ timer
  /\ timer' = FALSE
  /\ stale' = (stale \/ ~received)
  /\ UNCHANGED <<platform, inputs, sockets, readyState, laps, received, store, changes>>

\* Mobile: the subscriber's passive effect writes to the store.
Publish ==
  /\ platform = "mobile"
  /\ store' = [sessionId |-> sessionId, laps |-> laps]
  /\ store' # store
  /\ UNCHANGED <<platform, inputs, sockets, readyState, laps, watch, changes>>

\* Whatever the store holds.
SharedLapsOfAny == store.laps

\* useSharedLiveTelemetry: nothing while the store is on another session.
SharedLaps ==
  IF sessionId # None /\ store.sessionId = sessionId THEN store.laps ELSE NoLaps

lapsByDriver == IF platform = "mobile" THEN SharedLaps ELSE laps

\* The panels take the stored predictions of the lap, the charts the laps up
\* to it; otherwise the pit window of now, and all the laps.
isReplayActive(d) == lapsByDriver[d] # None

------------------------------------------------------------------------------
(* What the component is given.                                              *)

CurrentRaceAnswered ==
  /\ current' \in CASE current = "unknown" -> {"live", "none"}
                    [] current = "none"    -> {"live"}
                    [] current = "live"    -> {"over"}
                    [] current = "over"    -> {}
  /\ UNCHANGED <<fallback, replay, chosen, token, expired, online, changes>>
  /\ Rewire

\* Asked once there is known to be no live race.
FallbackAnswered ==
  /\ current \in {"none", "over"}
  /\ fallback' = IF current = "over" THEN Live ELSE Past
  /\ UNCHANGED <<current, replay, chosen, token, expired, online, changes>>
  /\ Rewire

\* The status poll: a replay was started or has stopped, here or elsewhere.
ReplayStatusAnswered ==
  /\ changes < MaxChanges
  /\ changes' = changes + 1
  /\ replay' = IF replay = None THEN Replayed ELSE None
  /\ UNCHANGED <<current, fallback, chosen, token, expired, online>>
  /\ Rewire

\* Start Replay is accepted: web navigates to the replay's session.
ReplayStarted ==
  /\ platform = "web" /\ ~isLive /\ replay = None
  /\ changes < MaxChanges
  /\ changes' = changes + 1
  /\ chosen' = Replayed
  /\ UNCHANGED <<current, fallback, replay, token, expired, online>>
  /\ Rewire

\* Another page of the web client, or the Dashboard's field on desktop.
Choose ==
  /\ platform # "mobile"
  /\ changes < MaxChanges
  /\ changes' = changes + 1
  /\ chosen' \in (Sessions \cup {None}) \ {chosen}
  /\ UNCHANGED <<current, fallback, replay, token, expired, online>>
  /\ Rewire

TokenExpires ==
  /\ token < MaxTokens /\ ~expired
  /\ expired' = TRUE
  /\ UNCHANGED <<platform, current, fallback, replay, chosen, token, online, feed, changes>>

\* A request's 401 made the client refresh.
TokenRefreshed ==
  /\ expired
  /\ token' = token + 1
  /\ expired' = FALSE
  /\ UNCHANGED <<current, fallback, replay, chosen, online, changes>>
  /\ Rewire

NetworkChanges ==
  /\ changes < MaxChanges
  /\ changes' = changes + 1
  /\ online' = ~online
  /\ UNCHANGED <<current, fallback, replay, chosen, token, expired>>
  /\ Rewire

Init ==
  /\ platform \in {"web", "desktop", "mobile"}
  /\ current = "unknown" /\ fallback = None /\ replay = None /\ chosen = None
  /\ token = 1 /\ expired = FALSE /\ online = TRUE
  /\ sockets = {} /\ readyState = "connecting"
  /\ laps = NoLaps
  /\ received = FALSE /\ timer = FALSE /\ stale = FALSE
  /\ store = [sessionId |-> None, laps |-> NoLaps]
  /\ changes = 0

Inputs ==
  \/ CurrentRaceAnswered \/ FallbackAnswered \/ ReplayStatusAnswered \/ ReplayStarted
  \/ Choose \/ TokenExpires \/ TokenRefreshed \/ NetworkChanges

SocketEvent ==
  \E s \in sockets : Opened(s) \/ Closed(s) \/ Reconnect(s) \/ ClosedLate(s)

Next ==
  \/ Inputs
  \/ SocketEvent
  \/ \E s \in sockets, d \in Drivers : handleMessage(s, d)
  \/ StaleTimer
  \/ Publish

Spec == Init /\ [][Next]_vars

\* Sockets open, close and are retried, timers fire and effects run; nobody
\* promises a lap, a network, or a request whose 401 brings a new token.
FairSpec == Spec /\ WF_vars(SocketEvent) /\ WF_vars(StaleTimer) /\ WF_vars(Publish)

------------------------------------------------------------------------------
(* Properties.                                                               *)

TypeOK ==
  /\ platform \in {"web", "desktop", "mobile"}
  /\ current \in {"unknown", "live", "none", "over"}
  /\ fallback \in Sessions \cup {None}
  /\ replay \in Sessions \cup {None}
  /\ chosen \in Sessions \cup {None}
  /\ token \in 1..MaxTokens
  /\ expired \in BOOLEAN /\ online \in BOOLEAN
  /\ received \in BOOLEAN /\ timer \in BOOLEAN /\ stale \in BOOLEAN
  /\ sockets \subseteq Sockets
  /\ readyState \in {"connecting", "open", "closed"}
  /\ laps \in [Drivers -> Shown \cup {None}]
  /\ store.sessionId \in Sessions \cup {None}
  /\ store.laps \in [Drivers -> Shown \cup {None}]
  /\ changes \in 0..MaxChanges

\* The effect keeps one connection at most that can still speak or be retried,
\* and it is for the session and the token of now, however the session, the
\* token and the network changed under it.
OneFeed ==
  \A s \in sockets :
    ~s.cancelled => s.url = url /\ (\A t \in sockets \ {s} : t.cancelled)

\* Mobile's screens never show another session's laps, though the laps go
\* through a store that is written an effect later.
MobileShowsItsSession ==
  platform = "mobile" =>
    \A d \in Drivers : lapsByDriver[d] # None => lapsByDriver[d][1] = sessionId

\* Once a replay stops on the race the app falls back to, the laps it left
\* behind go, and the panels return to what is true of the completed race.
ReplayLapsGoAway ==
  \A d \in Drivers :
    (platform = "mobile" /\ isReplayActive(d) /\ lapsByDriver[d][2] /\ replay = None)
      ~> (~isReplayActive(d) \/ ~lapsByDriver[d][2] \/ replay # None)

\* A connection that opens, the first time or again, and stays silent is
\* reported as stale.
SilenceIsNoticed ==
  (platform # "mobile" /\ readyState = "open" /\ ~received)
    ~> (stale \/ received \/ readyState # "open")

\* While there is a session, a network and a token the backend takes, the
\* component ends up connected to it and stays so: after refusals with the
\* old token, a drop, or time offline.
FeedComesBack ==
  <>[](sessionId # None /\ online /\ ~expired)
    => <>[](\E s \in sockets : ~s.cancelled /\ s.phase = "open" /\ s.url = url)
===============================================================================
