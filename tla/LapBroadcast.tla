----------------------------- MODULE LapBroadcast -----------------------------
(***************************************************************************)
(* apis/v1/telemetry.py's fan-out of one session's completed laps to its   *)
(* viewers.  The first viewer's handler creates the session's broadcaster  *)
(* and the last one's tears it down, both under _registry_lock; between    *)
(* them the broadcaster's listen task reads the Redis channel and sends to *)
(* whoever is connected.  Everything runs in one event loop, so a step     *)
(* ends where the code awaits.                                             *)
(***************************************************************************)
EXTENDS Integers, Sequences, FiniteSets

CONSTANTS
  Viewers,      \* connections, each opened once
  Broadcasters, \* instances, enough for every viewer to create one
  None,
  MaxLaps       \* bound on the laps published

ASSUME BroadcastAssumption ==
  /\ None \notin Viewers \cup Broadcasters /\ None \notin Nat
  /\ IsFiniteSet(Viewers)
  /\ MaxLaps \in Nat

VARIABLES
  redisMayFail, \* subscribing, unsubscribing and listening may raise
  at,        \* where each connection's handler is
  lock,      \* the viewer whose handler holds _registry_lock, or None
  registry,  \* _broadcasters' entry for the session, or None
  mine,      \* the broadcaster a handler is starting or stopping
  conns,     \* per broadcaster, its connections
  listener,  \* its listen task
  inbox,     \* what its subscription has received; None when not subscribed
  lap,       \* the lap it is sending, 0 for none
  todo,      \* the connections it has still to send it to
  published, \* laps published on the channel
  got,       \* laps each viewer received
  joined,    \* history: laps published before the viewer was registered
  gauge      \* f1_active_websocket_connections

handlerVars   == <<at, lock, registry, mine>>
broadcastVars == <<listener, lap, todo>>
vars == <<redisMayFail, handlerVars, conns, broadcastVars, inbox, published, got, joined, gauge>>

Subscribed(b) == inbox[b] # <<None>>
Goto(v, where) == at' = [at EXCEPT ![v] = where]

\* Handlers between their inc() and their dec().
Counted == {"accepted", "starting", "watching", "leaving", "stopping", "unsubscribing"}

Init ==
  /\ redisMayFail \in BOOLEAN
  /\ at = [v \in Viewers |-> "away"]
  /\ lock = None /\ registry = None
  /\ mine = [v \in Viewers |-> None]
  /\ conns = [b \in Broadcasters |-> {}]
  /\ listener = [b \in Broadcasters |-> "none"]
  /\ inbox = [b \in Broadcasters |-> <<None>>]
  /\ lap = [b \in Broadcasters |-> 0]
  /\ todo = [b \in Broadcasters |-> {}]
  /\ published = 0
  /\ got = [v \in Viewers |-> <<>>]
  /\ joined = [v \in Viewers |-> 0]
  /\ gauge = 0

------------------------------------------------------------------------------
(* A connection's handler: websocket_telemetry.                            *)

\* No valid token, or no such session.
Reject(v) ==
  /\ at[v] = "away"
  /\ Goto(v, "rejected")
  /\ UNCHANGED <<redisMayFail, lock, registry, mine, conns, broadcastVars, inbox, published, got,
                 joined, gauge>>

Accept(v) ==
  /\ at[v] = "away"
  /\ Goto(v, "accepted")
  /\ gauge' = gauge + 1
  /\ UNCHANGED <<redisMayFail, lock, registry, mine, conns, broadcastVars, inbox, published, got, joined>>

\* The connection is registered on b and its handler waits for it to close.
Register(v, b) ==
  /\ conns' = [conns EXCEPT ![b] = @ \cup {v}]
  /\ joined' = [joined EXCEPT ![v] = published]
  /\ Goto(v, "watching")

\* _acquire_broadcaster, once the lock is free.
Acquire(v) ==
  /\ at[v] = "accepted"
  /\ lock = None
  /\ \/ /\ registry # None
        /\ Register(v, registry)
        /\ UNCHANGED <<lock, mine>>
     \/ /\ registry = None
        /\ \E b \in Broadcasters :
             /\ listener[b] = "none"
             /\ \A w \in Viewers : mine[w] # b
             /\ mine' = [mine EXCEPT ![v] = b]
        /\ lock' = v
        /\ Goto(v, "starting")
        /\ UNCHANGED <<conns, joined>>
  /\ UNCHANGED <<redisMayFail, registry, broadcastVars, inbox, published, got, gauge>>

\* start() returns: subscribed, listening, registered.
Started(v) ==
  /\ at[v] = "starting"
  /\ LET b == mine[v] IN
       /\ inbox' = [inbox EXCEPT ![b] = <<>>]
       /\ listener' = [listener EXCEPT ![b] = "listening"]
       /\ registry' = b
       /\ Register(v, b)
  /\ mine' = [mine EXCEPT ![v] = None]
  /\ lock' = None
  /\ UNCHANGED <<redisMayFail, lap, todo, published, got, gauge>>

\* subscribe() raises: the handler ends before its try block.
StartRaises(v) ==
  /\ redisMayFail
  /\ at[v] = "starting"
  /\ Goto(v, "errored")
  /\ mine' = [mine EXCEPT ![v] = None]
  /\ lock' = None
  /\ UNCHANGED <<redisMayFail, registry, conns, broadcastVars, inbox, published, got, joined, gauge>>

\* The client closes: _watch_for_disconnect raises.
Disconnect(v) ==
  /\ at[v] = "watching"
  /\ Goto(v, "leaving")
  /\ UNCHANGED <<redisMayFail, lock, registry, mine, conns, broadcastVars, inbox, published, got,
                 joined, gauge>>

\* Mutant of Release: torn down after the lock is released.
ReleaseUnlocked(v) ==
  /\ at[v] = "leaving"
  /\ lock = None
  /\ registry # None
  /\ conns' = [conns EXCEPT ![registry] = @ \ {v}]
  /\ IF conns[registry] = {v}
       THEN /\ registry' = None
            /\ mine' = [mine EXCEPT ![v] = registry]
            /\ Goto(v, "stopping")
            /\ UNCHANGED gauge
       ELSE /\ Goto(v, "left")
            /\ gauge' = gauge - 1
            /\ UNCHANGED <<registry, mine>>
  /\ UNCHANGED <<redisMayFail, lock, broadcastVars, inbox, published, got, joined>>

\* Mutant of Release: a broadcaster is kept for the next viewer.
ReleaseKeeps(v) ==
  /\ at[v] = "leaving"
  /\ lock = None
  /\ registry # None
  /\ conns' = [conns EXCEPT ![registry] = @ \ {v}]
  /\ Goto(v, "left")
  /\ gauge' = gauge - 1
  /\ UNCHANGED <<redisMayFail, lock, registry, mine, broadcastVars, inbox, published, got, joined>>

\* _release_broadcaster, once the lock is free; the last viewer keeps it.
Release(v) ==
  /\ at[v] = "leaving"
  /\ lock = None
  /\ registry # None
  /\ conns' = [conns EXCEPT ![registry] = @ \ {v}]
  /\ IF conns[registry] = {v}
       THEN /\ registry' = None
            /\ mine' = [mine EXCEPT ![v] = registry]
            /\ lock' = v
            /\ Goto(v, "stopping")
            /\ UNCHANGED gauge
       ELSE /\ Goto(v, "left")
            /\ gauge' = gauge - 1
            /\ UNCHANGED <<lock, registry, mine>>
  /\ UNCHANGED <<redisMayFail, broadcastVars, inbox, published, got, joined>>

\* stop() cancels the listen task, whatever it was doing.
CancelListener(v) ==
  /\ at[v] = "stopping"
  /\ LET b == mine[v] IN
       /\ listener' = [listener EXCEPT ![b] = "cancelled"]
       /\ lap' = [lap EXCEPT ![b] = 0]
       /\ todo' = [todo EXCEPT ![b] = {}]
  /\ Goto(v, "unsubscribing")
  /\ UNCHANGED <<redisMayFail, lock, registry, mine, conns, inbox, published, got, joined, gauge>>

\* stop() unsubscribes, or raises and ends the handler before its dec().
Unsubscribe(v) ==
  /\ at[v] = "unsubscribing"
  /\ inbox' = [inbox EXCEPT ![mine[v]] = <<None>>]
  /\ mine' = [mine EXCEPT ![v] = None]
  /\ lock' = IF lock = v THEN None ELSE lock
  /\ \/ Goto(v, "left") /\ gauge' = gauge - 1
     \/ redisMayFail /\ Goto(v, "errored") /\ UNCHANGED gauge
  /\ UNCHANGED <<redisMayFail, registry, conns, broadcastVars, published, got, joined>>

------------------------------------------------------------------------------
(* The channel and a broadcaster's listen task.                            *)

Publish ==
  /\ published < MaxLaps
  /\ published' = published + 1
  /\ inbox' = [b \in Broadcasters |->
                 IF Subscribed(b) THEN Append(inbox[b], published + 1) ELSE inbox[b]]
  /\ UNCHANGED <<redisMayFail, handlerVars, conns, broadcastVars, got, joined, gauge>>

\* A message is read; the car's live channels are looked up.
Receive(b) ==
  /\ listener[b] = "listening"
  /\ lap[b] = 0
  /\ Subscribed(b) /\ inbox[b] # <<>>
  /\ lap' = [lap EXCEPT ![b] = Head(inbox[b])]
  /\ inbox' = [inbox EXCEPT ![b] = Tail(@)]
  /\ listener' = [listener EXCEPT ![b] = "lookup"]
  /\ UNCHANGED <<redisMayFail, handlerVars, conns, todo, published, got, joined, gauge>>

\* It is sent to everybody connected by now.
Snapshot(b) ==
  /\ listener[b] = "lookup"
  /\ listener' = [listener EXCEPT ![b] = "sending"]
  /\ todo' = [todo EXCEPT ![b] = conns[b]]
  /\ UNCHANGED <<redisMayFail, handlerVars, conns, lap, inbox, published, got, joined, gauge>>

\* Mutant of Send: an exception leaves the loop.
SendOrStop(b) ==
  /\ listener[b] = "sending"
  /\ \E v \in todo[b] :
       IF at[v] = "watching"
         THEN /\ todo' = [todo EXCEPT ![b] = @ \ {v}]
              /\ got' = [got EXCEPT ![v] = Append(@, lap[b])]
         ELSE /\ todo' = [todo EXCEPT ![b] = {}]
              /\ UNCHANGED got
  /\ UNCHANGED <<redisMayFail, handlerVars, conns, listener, lap, inbox, published, joined, gauge>>

\* A connection that has gone raises, which is logged.
Send(b) ==
  /\ listener[b] = "sending"
  /\ \E v \in todo[b] :
       /\ todo' = [todo EXCEPT ![b] = @ \ {v}]
       /\ got' = IF at[v] = "watching" THEN [got EXCEPT ![v] = Append(@, lap[b])] ELSE got
  /\ UNCHANGED <<redisMayFail, handlerVars, conns, listener, lap, inbox, published, joined, gauge>>

Sent(b) ==
  /\ listener[b] = "sending"
  /\ todo[b] = {}
  /\ listener' = [listener EXCEPT ![b] = "listening"]
  /\ lap' = [lap EXCEPT ![b] = 0]
  /\ UNCHANGED <<redisMayFail, handlerVars, conns, todo, inbox, published, got, joined, gauge>>

\* listen() or the decoding of a message raises, which ends the task.
ListenRaises(b) ==
  /\ redisMayFail
  /\ listener[b] \in {"listening", "lookup"}
  /\ listener' = [listener EXCEPT ![b] = "dead"]
  /\ lap' = [lap EXCEPT ![b] = 0]
  /\ UNCHANGED <<redisMayFail, handlerVars, conns, todo, inbox, published, got, joined, gauge>>

Handle(v) ==
  \/ Acquire(v) \/ Started(v) \/ StartRaises(v) \/ Release(v) \/ CancelListener(v)
  \/ Unsubscribe(v)

Listen(b) == Receive(b) \/ Snapshot(b) \/ Send(b) \/ Sent(b)

Next ==
  \/ \E v \in Viewers : Reject(v) \/ Accept(v) \/ Disconnect(v) \/ Handle(v)
  \/ \E b \in Broadcasters : Listen(b) \/ ListenRaises(b)
  \/ Publish

Spec == Init /\ [][Next]_vars

\* The event loop runs every task that can go on; asyncio.Lock queues them.
FairSpec ==
  /\ Spec
  /\ \A v \in Viewers : WF_vars(Handle(v))
  /\ \A b \in Broadcasters : WF_vars(Listen(b))

------------------------------------------------------------------------------
Listening == {"listening", "lookup", "sending"}

TypeOK ==
  /\ redisMayFail \in BOOLEAN
  /\ at \in [Viewers -> Counted \cup {"away", "rejected", "left", "errored"}]
  /\ lock \in Viewers \cup {None}
  /\ registry \in Broadcasters \cup {None}
  /\ mine \in [Viewers -> Broadcasters \cup {None}]
  /\ conns \in [Broadcasters -> SUBSET Viewers]
  /\ listener \in [Broadcasters -> Listening \cup {"none", "dead", "cancelled"}]
  /\ inbox \in [Broadcasters -> {<<None>>} \cup Seq(1..MaxLaps)]
  /\ lap \in [Broadcasters -> 0..MaxLaps]
  /\ todo \in [Broadcasters -> SUBSET Viewers]
  /\ published \in 0..MaxLaps
  /\ got \in [Viewers -> Seq(1..MaxLaps)]
  /\ joined \in [Viewers -> 0..MaxLaps]
  /\ gauge \in 0..Cardinality(Viewers)

\* "Created when the first viewer connects and removed when the last one
\* leaves": whoever joins while the last one leaves ends up on the broadcaster
\* that is registered, and no broadcaster is registered for nobody.
ViewersAreRegistered ==
  /\ \A v \in Viewers : at[v] \in {"watching", "leaving"} =>
       registry # None /\ v \in conns[registry]
  /\ registry # None => conns[registry] # {}

\* A broadcaster is torn down before another one starts: a session never has
\* two listeners.
OneListener ==
  \A b, c \in Broadcasters : listener[b] \in Listening /\ listener[c] \in Listening => b = c

\* "A failed send to one viewer can't interrupt the others": the laps a viewer
\* receives are consecutive, each once and in order, though others come and
\* go while they are sent.
NoLapSkipped ==
  \A v \in Viewers : \A i \in 2..Len(got[v]) : got[v][i] = got[v][i - 1] + 1

Sees(v, n) == \E i \in DOMAIN got[v] : got[v][i] = n
Awaits(v, n) == at[v] = "watching" /\ joined[v] < n /\ n =< published

\* A lap published while a viewer is registered reaches it unless it leaves, as
\* long as Redis answers.
EveryViewerIsSent ==
  \A v \in Viewers, n \in 1..MaxLaps :
    Awaits(v, n) /\ ~redisMayFail ~> at[v] # "watching" \/ Sees(v, n)
==============================================================================
