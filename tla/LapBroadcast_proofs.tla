------------------------- MODULE LapBroadcast_proofs -------------------------
(***************************************************************************)
(* ViewersAreRegistered, OneListener, TypeOK and NoLapSkipped for any      *)
(* number of viewers and any number of laps.                               *)
(***************************************************************************)
EXTENDS LapBroadcast, FiniteSetTheorems, SequenceTheorems, TLAPS

\* What the argument needs of the types.
Shapes ==
  /\ at \in [Viewers -> Counted \cup {"away", "rejected", "left", "errored"}]
  /\ lock \in Viewers \cup {None}
  /\ registry \in Broadcasters \cup {None}
  /\ mine \in [Viewers -> Broadcasters \cup {None}]
  /\ conns \in [Broadcasters -> SUBSET Viewers]
  /\ listener \in [Broadcasters -> Listening \cup {"none", "dead", "cancelled"}]

\* A handler that creates or tears down a broadcaster holds the lock, and the
\* broadcaster it works on is not registered.
HolderWorksAlone ==
  \A v \in Viewers : at[v] \in {"starting", "stopping", "unsubscribing"} =>
    lock = v /\ registry = None /\ mine[v] \in Broadcasters

\* A broadcaster that listens is the registered one, or the one being stopped.
ListenerIsKnown ==
  \A b \in Broadcasters : listener[b] \in Listening =>
    registry = b \/ \E v \in Viewers : at[v] = "stopping" /\ mine[v] = b

\* A broadcaster that is being started does not listen yet.
StartedIsNew ==
  \A v \in Viewers : at[v] = "starting" => listener[mine[v]] = "none"

IInv ==
  /\ Shapes
  /\ HolderWorksAlone
  /\ ListenerIsKnown
  /\ StartedIsNew
  /\ ViewersAreRegistered

\* Init establishes the inductive invariant.
LEMMA InitIInv == Init => IInv
BY BroadcastAssumption
   DEF Init, IInv, Shapes, HolderWorksAlone, ListenerIsKnown, StartedIsNew,
       ViewersAreRegistered, Counted, Listening

\* A handler that only moves between places that hold nothing, with nothing
\* else the invariant speaks of changed.
LEMMA MoveIInv ==
  ASSUME IInv, NEW v \in Viewers,
         NEW there \in {"accepted", "rejected"},
         at[v] = "away", at' = [at EXCEPT ![v] = there],
         UNCHANGED <<lock, registry, mine, conns, listener>>
  PROVE  IInv'
BY DEF IInv, Shapes, HolderWorksAlone, ListenerIsKnown, StartedIsNew,
       ViewersAreRegistered, Counted, Listening

\* Registering, creating and failing to create keep the invariant.
LEMMA AcquireIInv ==
  ASSUME IInv, NEW v \in Viewers, Acquire(v)
  PROVE  IInv'
<1>1. CASE registry # None
  BY <1>1, BroadcastAssumption
     DEF Acquire, Register, Goto, broadcastVars, IInv, Shapes, HolderWorksAlone,
         ListenerIsKnown, StartedIsNew, ViewersAreRegistered, Counted, Listening
<1>2. CASE registry = None
  <2>1. PICK b \in Broadcasters : /\ listener[b] = "none"
                                  /\ mine' = [mine EXCEPT ![v] = b]
    BY <1>2 DEF Acquire
  <2>2. /\ at[v] = "accepted" /\ at' = [at EXCEPT ![v] = "starting"]
        /\ lock = None /\ lock' = v
        /\ UNCHANGED <<registry, conns, listener>>
    BY <1>2 DEF Acquire, Goto, broadcastVars
  <2>3. \A w \in Viewers : at[w] \notin {"starting", "stopping", "unsubscribing"}
    BY <2>2, BroadcastAssumption DEF IInv, HolderWorksAlone
  <2>4. Shapes'
    BY <2>1, <2>2 DEF IInv, Shapes, Counted, Listening
  <2>5. HolderWorksAlone' /\ StartedIsNew'
    BY <1>2, <2>1, <2>2, <2>3, BroadcastAssumption
       DEF IInv, Shapes, HolderWorksAlone, StartedIsNew
  <2>6. ListenerIsKnown'
    BY <1>2, <2>1, <2>2, <2>3, BroadcastAssumption DEF IInv, Shapes, ListenerIsKnown
  <2>7. ViewersAreRegistered'
    BY <1>2, <2>2, BroadcastAssumption DEF IInv, Shapes, ViewersAreRegistered
  <2>. QED  BY <2>4, <2>5, <2>6, <2>7 DEF IInv
<1>. QED  BY <1>1, <1>2

\* A broadcaster that starts finds none registered, and becomes it.
LEMMA StartedIInv ==
  ASSUME IInv, NEW v \in Viewers, Started(v)
  PROVE  IInv'
<1>1. /\ at[v] = "starting" /\ at' = [at EXCEPT ![v] = "watching"]
      /\ lock = v /\ lock' = None
      /\ registry = None /\ registry' = mine[v] /\ mine[v] \in Broadcasters
      /\ mine' = [mine EXCEPT ![v] = None]
      /\ conns' = [conns EXCEPT ![mine[v]] = @ \cup {v}]
      /\ listener' = [listener EXCEPT ![mine[v]] = "listening"]
  BY DEF Started, Register, Goto, IInv, HolderWorksAlone
<1>2. \A w \in Viewers \ {v} : at[w] \notin {"starting", "stopping", "unsubscribing"}
  BY <1>1 DEF IInv, HolderWorksAlone
<1>3. Shapes'
  BY <1>1 DEF IInv, Shapes, Counted, Listening
<1>4. HolderWorksAlone' /\ StartedIsNew'
  BY <1>1, <1>2 DEF IInv, Shapes, HolderWorksAlone, StartedIsNew
<1>5. ListenerIsKnown'
  BY <1>1, <1>2, BroadcastAssumption DEF IInv, Shapes, ListenerIsKnown
<1>6. \A w \in Viewers \ {v} : at[w] \notin {"watching", "leaving"}
  BY <1>1 DEF IInv, ViewersAreRegistered
<1>7. ViewersAreRegistered'
  BY <1>1, <1>6, BroadcastAssumption DEF IInv, Shapes, ViewersAreRegistered
<1>. QED  BY <1>3, <1>4, <1>5, <1>7 DEF IInv

\* A start that fails leaves nothing behind but its handler.
LEMMA StartRaisesIInv ==
  ASSUME IInv, NEW v \in Viewers, StartRaises(v)
  PROVE  IInv'
<1>1. /\ at[v] = "starting" /\ at' = [at EXCEPT ![v] = "errored"]
      /\ lock = v /\ lock' = None /\ registry = None
      /\ mine' = [mine EXCEPT ![v] = None]
      /\ UNCHANGED <<registry, conns, listener>>
  BY DEF StartRaises, Goto, broadcastVars, IInv, HolderWorksAlone
<1>2. \A w \in Viewers \ {v} : at[w] \notin {"starting", "stopping", "unsubscribing"}
  BY <1>1 DEF IInv, HolderWorksAlone
<1>3. Shapes'
  BY <1>1 DEF IInv, Shapes, Counted, Listening
<1>4. HolderWorksAlone' /\ StartedIsNew' /\ ListenerIsKnown'
  BY <1>1, <1>2, BroadcastAssumption
     DEF IInv, Shapes, HolderWorksAlone, StartedIsNew, ListenerIsKnown
<1>5. ViewersAreRegistered'
  BY <1>1 DEF IInv, Shapes, ViewersAreRegistered
<1>. QED  BY <1>3, <1>4, <1>5 DEF IInv

\* The last viewer to leave takes the registered broadcaster with it.
LEMMA ReleaseIInv ==
  ASSUME IInv, NEW v \in Viewers, Release(v)
  PROVE  IInv'
<1>1. /\ at[v] = "leaving" /\ lock = None /\ registry \in Broadcasters
      /\ v \in conns[registry]
      /\ conns' = [conns EXCEPT ![registry] = @ \ {v}]
      /\ UNCHANGED listener
  BY DEF Release, broadcastVars, IInv, Shapes, ViewersAreRegistered
<1>2. \A w \in Viewers : at[w] \notin {"starting", "stopping", "unsubscribing"}
  BY <1>1, BroadcastAssumption DEF IInv, HolderWorksAlone
<1>3. CASE conns[registry] = {v}
  <2>1. /\ registry' = None /\ lock' = v
        /\ mine' = [mine EXCEPT ![v] = registry]
        /\ at' = [at EXCEPT ![v] = "stopping"]
    BY <1>3 DEF Release, Goto
  <2>2. \A w \in Viewers \ {v} : at[w] \notin {"watching", "leaving"}
    BY <1>1, <1>3 DEF IInv, ViewersAreRegistered
  <2>3. Shapes'
    BY <1>1, <2>1 DEF IInv, Shapes, Counted, Listening
  <2>4. HolderWorksAlone' /\ StartedIsNew'
    BY <1>1, <1>2, <2>1 DEF IInv, Shapes, HolderWorksAlone, StartedIsNew
  <2>5. ListenerIsKnown'
    BY <1>1, <1>2, <2>1 DEF IInv, Shapes, ListenerIsKnown
  <2>6. ViewersAreRegistered'
    BY <2>1, <2>2 DEF IInv, Shapes, ViewersAreRegistered
  <2>. QED  BY <2>3, <2>4, <2>5, <2>6 DEF IInv
<1>4. CASE conns[registry] # {v}
  <2>1. /\ UNCHANGED <<lock, registry, mine>>
        /\ at' = [at EXCEPT ![v] = "left"]
    BY <1>4 DEF Release, Goto
  <2>2. conns[registry] \ {v} # {}
    BY <1>1, <1>4
  <2>3. Shapes'
    BY <1>1, <2>1 DEF IInv, Shapes, Counted, Listening
  <2>4. HolderWorksAlone' /\ StartedIsNew' /\ ListenerIsKnown'
    BY <1>1, <1>2, <2>1 DEF IInv, Shapes, HolderWorksAlone, StartedIsNew, ListenerIsKnown
  <2>5. ViewersAreRegistered'
    BY <1>1, <2>1, <2>2, BroadcastAssumption DEF IInv, Shapes, ViewersAreRegistered
  <2>. QED  BY <2>3, <2>4, <2>5 DEF IInv
<1>. QED  BY <1>3, <1>4

\* Cancelling the listener and unsubscribing keep the invariant.
LEMMA StopIInv ==
  ASSUME IInv, NEW v \in Viewers, CancelListener(v) \/ Unsubscribe(v)
  PROVE  IInv'
<1>1. CASE CancelListener(v)
  <2>1. /\ at[v] = "stopping" /\ at' = [at EXCEPT ![v] = "unsubscribing"]
        /\ lock = v /\ registry = None /\ mine[v] \in Broadcasters
        /\ listener' = [listener EXCEPT ![mine[v]] = "cancelled"]
        /\ UNCHANGED <<lock, registry, mine, conns>>
    BY <1>1 DEF CancelListener, Goto, IInv, HolderWorksAlone
  <2>2. \A w \in Viewers \ {v} : at[w] \notin {"starting", "stopping", "unsubscribing"}
    BY <2>1 DEF IInv, HolderWorksAlone
  <2>3. Shapes'
    BY <2>1 DEF IInv, Shapes, Counted, Listening
  <2>4. HolderWorksAlone' /\ StartedIsNew'
    BY <2>1, <2>2 DEF IInv, Shapes, HolderWorksAlone, StartedIsNew
  <2>5. ListenerIsKnown'
    BY <2>1, <2>2, BroadcastAssumption DEF IInv, Shapes, ListenerIsKnown, Listening
  <2>6. ViewersAreRegistered'
    BY <2>1 DEF IInv, Shapes, ViewersAreRegistered
  <2>. QED  BY <2>3, <2>4, <2>5, <2>6 DEF IInv
<1>2. CASE Unsubscribe(v)
  <2>1. /\ at[v] = "unsubscribing" /\ lock = v /\ lock' = None /\ registry = None
        /\ mine' = [mine EXCEPT ![v] = None]
        /\ \/ at' = [at EXCEPT ![v] = "left"]
           \/ at' = [at EXCEPT ![v] = "errored"]
        /\ UNCHANGED <<registry, conns, listener>>
    BY <1>2 DEF Unsubscribe, Goto, broadcastVars, IInv, HolderWorksAlone
  <2>2. \A w \in Viewers \ {v} : at[w] \notin {"starting", "stopping", "unsubscribing"}
    BY <2>1 DEF IInv, HolderWorksAlone
  <2>3. Shapes'
    BY <2>1 DEF IInv, Shapes, Counted, Listening
  <2>4. HolderWorksAlone' /\ StartedIsNew' /\ ListenerIsKnown'
    BY <2>1, <2>2, BroadcastAssumption
       DEF IInv, Shapes, HolderWorksAlone, StartedIsNew, ListenerIsKnown
  <2>5. ViewersAreRegistered'
    BY <2>1 DEF IInv, Shapes, ViewersAreRegistered
  <2>. QED  BY <2>3, <2>4, <2>5 DEF IInv
<1>. QED  BY <1>1, <1>2

\* The listen task touches its own state only, and listens no longer once it
\* has ended.
LEMMA ListenIInv ==
  ASSUME IInv, NEW b \in Broadcasters, Listen(b) \/ ListenRaises(b)
  PROVE  IInv'
<1>1. /\ listener[b] \in Listening
      /\ \/ UNCHANGED listener
         \/ \E s \in Listening \cup {"dead"} : listener' = [listener EXCEPT ![b] = s]
      /\ UNCHANGED <<at, lock, registry, mine, conns>>
  BY DEF Listen, ListenRaises, Receive, Snapshot, Send, Sent, handlerVars, Listening
<1>2. \A v \in Viewers : at[v] = "starting" => mine[v] # b
  BY <1>1 DEF IInv, StartedIsNew, Listening
<1>3. Shapes'
  BY <1>1 DEF IInv, Shapes, Listening
<1>4. HolderWorksAlone' /\ ViewersAreRegistered'
  BY <1>1 DEF IInv, HolderWorksAlone, ViewersAreRegistered
<1>5. StartedIsNew'
  BY <1>1, <1>2 DEF IInv, Shapes, HolderWorksAlone, StartedIsNew
<1>6. ListenerIsKnown'
  BY <1>1 DEF IInv, Shapes, ListenerIsKnown
<1>. QED  BY <1>3, <1>4, <1>5, <1>6 DEF IInv

\* Every step preserves the inductive invariant.
LEMMA NextIInv == IInv /\ [Next]_vars => IInv'
<1>. SUFFICES ASSUME IInv, [Next]_vars PROVE IInv'
  OBVIOUS
<1>1. ASSUME NEW v \in Viewers, Reject(v) \/ Accept(v)
      PROVE  IInv'
  BY <1>1, MoveIInv DEF Reject, Accept, Goto, broadcastVars
<1>2. ASSUME NEW v \in Viewers, Disconnect(v)
      PROVE  IInv'
  BY <1>2 DEF Disconnect, Goto, broadcastVars, IInv, Shapes, HolderWorksAlone,
              ListenerIsKnown, StartedIsNew, ViewersAreRegistered, Counted, Listening
<1>3. ASSUME NEW v \in Viewers, Handle(v)
      PROVE  IInv'
  BY <1>3, AcquireIInv, StartedIInv, StartRaisesIInv, ReleaseIInv, StopIInv DEF Handle
<1>4. ASSUME NEW b \in Broadcasters, Listen(b) \/ ListenRaises(b)
      PROVE  IInv'
  BY <1>4, ListenIInv
<1>5. CASE Publish \/ UNCHANGED vars
  BY <1>5 DEF Publish, vars, handlerVars, broadcastVars, IInv, Shapes, HolderWorksAlone,
              ListenerIsKnown, StartedIsNew, ViewersAreRegistered
<1>. QED  BY <1>1, <1>2, <1>3, <1>4, <1>5 DEF Next

\* The inductive invariant leaves room for one listener: the registered one,
\* or the one that the holder of the lock is stopping.
LEMMA IInvOneListener == IInv => OneListener
<1>. SUFFICES ASSUME IInv,
                     NEW b \in Broadcasters, NEW c \in Broadcasters,
                     listener[b] \in Listening, listener[c] \in Listening
              PROVE  b = c
  BY DEF OneListener
<1>1. CASE registry # None
  BY <1>1 DEF IInv, ListenerIsKnown, HolderWorksAlone
<1>2. CASE registry = None
  <2>1. PICK v \in Viewers : at[v] = "stopping" /\ mine[v] = b
    BY <1>2, BroadcastAssumption DEF IInv, ListenerIsKnown
  <2>2. PICK w \in Viewers : at[w] = "stopping" /\ mine[w] = c
    BY <1>2, BroadcastAssumption DEF IInv, ListenerIsKnown
  <2>3. v = w
    BY <2>1, <2>2 DEF IInv, HolderWorksAlone
  <2>. QED  BY <2>1, <2>2, <2>3
<1>. QED  BY <1>1, <1>2

\* However many viewers come and go, and whatever fails: every connected
\* viewer is on the registered broadcaster and none is registered for nobody
\* (_acquire_broadcaster, _release_broadcaster).
THEOREM RegistrationHolds == Spec => []ViewersAreRegistered
<1>1. IInv => ViewersAreRegistered
  BY DEF IInv
<1>. QED  BY <1>1, InitIInv, NextIInv, PTL DEF Spec

\* However many viewers come and go, and whatever fails: a session never has
\* two listen tasks at work (_SessionBroadcaster.start and stop).
THEOREM ListenersExclude == Spec => []OneListener
BY InitIInv, NextIInv, IInvOneListener, PTL DEF Spec

\* The gauge counts the handlers between inc() and dec(), and those that an
\* error ended between them.
Counting == {v \in Viewers : at[v] \in Counted \cup {"errored"}}

\* A listener that looks up or sends has a lap.
LapAtHand == \A b \in Broadcasters : listener[b] \in {"lookup", "sending"} => lap[b] >= 1

Channels ==
  /\ inbox \in [Broadcasters -> {<<None>>} \cup Seq(1..MaxLaps)]
  /\ lap \in [Broadcasters -> 0..MaxLaps]
  /\ todo \in [Broadcasters -> SUBSET Viewers]
  /\ published \in 0..MaxLaps
  /\ got \in [Viewers -> Seq(1..MaxLaps)]
  /\ joined \in [Viewers -> 0..MaxLaps]

TInv ==
  /\ redisMayFail \in BOOLEAN
  /\ Channels
  /\ LapAtHand
  /\ gauge = Cardinality(Counting)

\* One handler more, or one less, is counted.
LEMMA CountingIsFinite ==
  /\ IsFiniteSet(Counting)
  /\ Cardinality(Counting) \in 0..Cardinality(Viewers)
<1>1. Counting \subseteq Viewers
  BY DEF Counting
<1>2. IsFiniteSet(Counting) /\ Cardinality(Counting) <= Cardinality(Viewers)
  BY <1>1, BroadcastAssumption, FS_Subset
<1>. QED  BY <1>2, BroadcastAssumption, FS_CardinalityType

LEMMA CountedMore ==
  ASSUME NEW v \in Viewers, v \notin Counting, Counting' = Counting \cup {v}
  PROVE  Cardinality(Counting') = Cardinality(Counting) + 1
BY CountingIsFinite, FS_AddElement

LEMMA CountedLess ==
  ASSUME NEW v \in Viewers, v \in Counting, Counting' = Counting \ {v}
  PROVE  Cardinality(Counting') = Cardinality(Counting) - 1
BY CountingIsFinite, FS_RemoveElement

\* A handler's steps.
LEMMA HandlerTInv ==
  ASSUME IInv, TInv, NEW v \in Viewers,
         Reject(v) \/ Accept(v) \/ Disconnect(v) \/ Handle(v)
  PROVE  TInv'
<1>1. redisMayFail' \in BOOLEAN
  BY DEF Reject, Accept, Disconnect, Handle, Acquire, Started, StartRaises, Release, CancelListener,
         Unsubscribe, TInv
<1>2. at \in [Viewers -> Counted \cup {"away", "rejected", "left", "errored"}]
  BY DEF IInv, Shapes
<1>3. CASE Reject(v) \/ Accept(v) \/ Disconnect(v) \/ StartRaises(v)
  <2>1. UNCHANGED <<inbox, lap, todo, published, got, joined, listener>>
    BY <1>3 DEF Reject, Accept, Disconnect, StartRaises, broadcastVars
  <2>2. Channels' /\ LapAtHand'
    BY <2>1 DEF TInv, Channels, LapAtHand
  <2>3. gauge' = Cardinality(Counting')
    <3>1. CASE Accept(v)
      <4>1. v \notin Counting /\ Counting' = Counting \cup {v} /\ gauge' = gauge + 1
        BY <1>2, <3>1 DEF Accept, Goto, Counting, Counted
      <4>. QED  BY <4>1, CountedMore DEF TInv
    <3>2. CASE Reject(v) \/ Disconnect(v) \/ StartRaises(v)
      <4>1. Counting' = Counting /\ gauge' = gauge
        BY <1>2, <3>2 DEF Reject, Disconnect, StartRaises, Goto, Counting, Counted
      <4>. QED  BY <4>1 DEF TInv
    <3>. QED  BY <1>3, <3>1, <3>2
  <2>. QED  BY <1>1, <2>2, <2>3 DEF TInv
<1>4. CASE Acquire(v)
  <2>1. UNCHANGED <<inbox, lap, todo, published, got, listener, gauge>>
    BY <1>4 DEF Acquire, broadcastVars
  <2>2. joined' \in [Viewers -> 0..MaxLaps]
    BY <1>4 DEF Acquire, Register, TInv, Channels
  <2>3. Channels' /\ LapAtHand'
    BY <2>1, <2>2 DEF TInv, Channels, LapAtHand
  <2>4. Counting' = Counting
    BY <1>2, <1>4 DEF Acquire, Register, Goto, Counting, Counted
  <2>. QED  BY <1>1, <2>1, <2>3, <2>4 DEF TInv
<1>5. CASE Started(v)
  <2>1. mine[v] \in Broadcasters
    BY <1>5 DEF Started, IInv, HolderWorksAlone
  <2>2. /\ UNCHANGED <<lap, todo, published, got, gauge>>
        /\ inbox' = [inbox EXCEPT ![mine[v]] = <<>>]
        /\ joined' = [joined EXCEPT ![v] = published]
        /\ listener' = [listener EXCEPT ![mine[v]] = "listening"]
    BY <1>5 DEF Started, Register
  <2>3. Channels'
    <3>1. <<>> \in Seq(1..MaxLaps)
      OBVIOUS
    <3>2. inbox' \in [Broadcasters -> {<<None>>} \cup Seq(1..MaxLaps)]
      BY <2>2, <3>1 DEF TInv, Channels
    <3>. QED  BY <2>2, <3>2 DEF TInv, Channels
  <2>4. LapAtHand'
    BY <2>2 DEF TInv, LapAtHand, IInv, Shapes
  <2>5. Counting' = Counting
    BY <1>2, <1>5 DEF Started, Register, Goto, Counting, Counted
  <2>. QED  BY <1>1, <2>2, <2>3, <2>4, <2>5 DEF TInv
<1>6. CASE Release(v)
  <2>1. UNCHANGED <<inbox, lap, todo, published, got, joined, listener>>
    BY <1>6 DEF Release, broadcastVars
  <2>2. Channels' /\ LapAtHand'
    BY <2>1 DEF TInv, Channels, LapAtHand
  <2>3. \/ at' = [at EXCEPT ![v] = "stopping"] /\ gauge' = gauge
        \/ at' = [at EXCEPT ![v] = "left"] /\ gauge' = gauge - 1
    BY <1>6 DEF Release, Goto
  <2>4. at[v] = "leaving"
    BY <1>6 DEF Release
  <2>5. gauge' = Cardinality(Counting')
    <3>1. CASE at' = [at EXCEPT ![v] = "stopping"] /\ gauge' = gauge
      <4>1. Counting' = Counting
        BY <1>2, <2>4, <3>1 DEF Counting, Counted
      <4>. QED  BY <3>1, <4>1 DEF TInv
    <3>2. CASE at' = [at EXCEPT ![v] = "left"] /\ gauge' = gauge - 1
      <4>1. v \in Counting /\ Counting' = Counting \ {v}
        BY <1>2, <2>4, <3>2 DEF Counting, Counted
      <4>. QED  BY <3>2, <4>1, CountedLess DEF TInv
    <3>. QED  BY <2>3, <3>1, <3>2
  <2>. QED  BY <1>1, <2>2, <2>5 DEF TInv
<1>7. CASE CancelListener(v)
  <2>1. mine[v] \in Broadcasters
    BY <1>7 DEF CancelListener, IInv, HolderWorksAlone
  <2>2. /\ UNCHANGED <<inbox, published, got, joined, gauge>>
        /\ listener' = [listener EXCEPT ![mine[v]] = "cancelled"]
        /\ lap' = [lap EXCEPT ![mine[v]] = 0]
        /\ todo' = [todo EXCEPT ![mine[v]] = {}]
    BY <1>7 DEF CancelListener
  <2>3. Channels'
    <3>1. lap' \in [Broadcasters -> 0..MaxLaps]
      <4>1. lap \in [Broadcasters -> 0..MaxLaps] /\ 0 \in 0..MaxLaps
        BY BroadcastAssumption DEF TInv, Channels
      <4>2. lap' = [lap EXCEPT ![mine[v]] = 0]
        BY <2>2
      <4>. QED  BY <4>1, <4>2
    <3>2. todo' \in [Broadcasters -> SUBSET Viewers]
      BY <2>2 DEF TInv, Channels
    <3>. QED  BY <2>2, <3>1, <3>2 DEF TInv, Channels
  <2>4. LapAtHand'
    BY <2>2 DEF TInv, LapAtHand, Channels, IInv, Shapes
  <2>5. Counting' = Counting
    BY <1>2, <1>7 DEF CancelListener, Goto, Counting, Counted
  <2>. QED  BY <1>1, <2>2, <2>3, <2>4, <2>5 DEF TInv
<1>8. CASE Unsubscribe(v)
  <2>1. /\ UNCHANGED <<lap, todo, listener, published, got, joined>>
        /\ inbox' = [inbox EXCEPT ![mine[v]] = <<None>>]
    BY <1>8 DEF Unsubscribe, broadcastVars
  <2>2. Channels' /\ LapAtHand'
    BY <2>1 DEF TInv, Channels, LapAtHand
  <2>3. \/ at' = [at EXCEPT ![v] = "errored"] /\ gauge' = gauge
        \/ at' = [at EXCEPT ![v] = "left"] /\ gauge' = gauge - 1
    BY <1>8 DEF Unsubscribe, Goto
  <2>4. at[v] = "unsubscribing"
    BY <1>8 DEF Unsubscribe
  <2>5. gauge' = Cardinality(Counting')
    <3>1. CASE at' = [at EXCEPT ![v] = "errored"] /\ gauge' = gauge
      <4>1. Counting' = Counting
        BY <1>2, <2>4, <3>1 DEF Counting, Counted
      <4>. QED  BY <3>1, <4>1 DEF TInv
    <3>2. CASE at' = [at EXCEPT ![v] = "left"] /\ gauge' = gauge - 1
      <4>1. v \in Counting /\ Counting' = Counting \ {v}
        BY <1>2, <2>4, <3>2 DEF Counting, Counted
      <4>. QED  BY <3>2, <4>1, CountedLess DEF TInv
    <3>. QED  BY <2>3, <3>1, <3>2
  <2>. QED  BY <1>1, <2>2, <2>5 DEF TInv
<1>. QED  BY <1>3, <1>4, <1>5, <1>6, <1>7, <1>8 DEF Handle

\* The channel and the listen tasks.
LEMMA ChannelTInv ==
  ASSUME IInv, TInv, Publish \/ \E b \in Broadcasters : Listen(b) \/ ListenRaises(b)
  PROVE  TInv'
<1>1. UNCHANGED <<redisMayFail, at, gauge, joined>>
  BY DEF Publish, Listen, ListenRaises, Receive, Snapshot, Send, Sent, handlerVars
<1>2. Counting' = Counting
  BY <1>1 DEF Counting
<1>3. CASE Publish
  <2>1. /\ published' = published + 1 /\ published < MaxLaps
        /\ inbox' = [b \in Broadcasters |->
                       IF Subscribed(b) THEN Append(inbox[b], published + 1) ELSE inbox[b]]
        /\ UNCHANGED <<lap, todo, got, listener>>
    BY <1>3 DEF Publish, broadcastVars
  <2>2. published' \in 1..MaxLaps
    BY <2>1, BroadcastAssumption DEF TInv, Channels
  <2>3. inbox' \in [Broadcasters -> {<<None>>} \cup Seq(1..MaxLaps)]
    <3>1. ASSUME NEW b \in Broadcasters
          PROVE  inbox'[b] \in {<<None>>} \cup Seq(1..MaxLaps)
      <4>1. CASE Subscribed(b)
        <5>1. inbox[b] \in Seq(1..MaxLaps)
          BY <4>1 DEF Subscribed, TInv, Channels
        <5>. QED  BY <2>1, <2>2, <4>1, <5>1
      <4>2. CASE ~Subscribed(b)
        BY <2>1, <4>2 DEF TInv, Channels
      <4>. QED  BY <4>1, <4>2
    <3>. QED  BY <2>1, <3>1
  <2>. QED  BY <1>1, <1>2, <2>1, <2>2, <2>3 DEF TInv, Channels, LapAtHand
<1>4. ASSUME NEW b \in Broadcasters, Receive(b)
      PROVE  TInv'
  <2>1. /\ inbox[b] \in Seq(1..MaxLaps) /\ inbox[b] # <<>>
        /\ lap' = [lap EXCEPT ![b] = Head(inbox[b])]
        /\ inbox' = [inbox EXCEPT ![b] = Tail(@)]
        /\ listener' = [listener EXCEPT ![b] = "lookup"]
        /\ UNCHANGED <<todo, published, got>>
    BY <1>4 DEF Receive, Subscribed, TInv, Channels
  <2>2. Head(inbox[b]) \in 1..MaxLaps /\ Tail(inbox[b]) \in Seq(1..MaxLaps)
    BY <2>1, HeadTailProperties
  <2>3. Channels'
    BY <1>1, <2>1, <2>2 DEF TInv, Channels
  <2>4. LapAtHand'
    BY <2>1, <2>2 DEF TInv, Channels, LapAtHand, IInv, Shapes
  <2>. QED  BY <1>1, <1>2, <2>3, <2>4 DEF TInv
<1>5. ASSUME NEW b \in Broadcasters, Snapshot(b)
      PROVE  TInv'
  <2>1. /\ listener' = [listener EXCEPT ![b] = "sending"] /\ listener[b] = "lookup"
        /\ todo' = [todo EXCEPT ![b] = conns[b]]
        /\ UNCHANGED <<lap, inbox, published, got>>
    BY <1>5 DEF Snapshot
  <2>2. Channels'
    BY <1>1, <2>1 DEF TInv, Channels, IInv, Shapes
  <2>3. LapAtHand'
    BY <2>1 DEF TInv, LapAtHand, IInv, Shapes
  <2>. QED  BY <1>1, <1>2, <2>2, <2>3 DEF TInv
<1>6. ASSUME NEW b \in Broadcasters, Send(b)
      PROVE  TInv'
  <2>1. PICK v \in todo[b] :
          /\ todo' = [todo EXCEPT ![b] = @ \ {v}]
          /\ got' = IF at[v] = "watching" THEN [got EXCEPT ![v] = Append(@, lap[b])] ELSE got
    BY <1>6 DEF Send
  <2>2. UNCHANGED <<listener, lap, inbox, published>> /\ listener[b] = "sending"
    BY <1>6 DEF Send
  <2>3. v \in Viewers /\ lap[b] \in 1..MaxLaps
    BY <2>1, <2>2 DEF TInv, Channels, LapAtHand
  <2>4. got' \in [Viewers -> Seq(1..MaxLaps)]
    <3>1. got \in [Viewers -> Seq(1..MaxLaps)] /\ Append(got[v], lap[b]) \in Seq(1..MaxLaps)
      BY <2>3 DEF TInv, Channels
    <3>. QED  BY <2>1, <3>1
  <2>5. todo' \in [Broadcasters -> SUBSET Viewers]
    BY <2>1 DEF TInv, Channels
  <2>. QED  BY <1>1, <1>2, <2>2, <2>4, <2>5 DEF TInv, Channels, LapAtHand
<1>7. ASSUME NEW b \in Broadcasters, Sent(b) \/ ListenRaises(b)
      PROVE  TInv'
  <2>1. /\ \E s \in {"listening", "dead"} : listener' = [listener EXCEPT ![b] = s]
        /\ lap' = [lap EXCEPT ![b] = 0]
        /\ UNCHANGED <<todo, inbox, published, got>>
    BY <1>7 DEF Sent, ListenRaises
  <2>2. Channels'
    BY <1>1, <2>1, BroadcastAssumption DEF TInv, Channels
  <2>3. LapAtHand'
    BY <2>1 DEF TInv, Channels, LapAtHand, IInv, Shapes
  <2>. QED  BY <1>1, <1>2, <2>2, <2>3 DEF TInv
<1>. QED  BY <1>3, <1>4, <1>5, <1>6, <1>7 DEF Listen

\* Init: nothing is subscribed to, sent or counted.
LEMMA InitTInv == Init => TInv
<1>. SUFFICES ASSUME Init PROVE TInv
  OBVIOUS
<1>1. redisMayFail \in BOOLEAN /\ Channels
  BY BroadcastAssumption DEF Init, Channels
<1>2. LapAtHand
  BY DEF Init, LapAtHand
<1>3. Counting = {}
  BY DEF Init, Counting, Counted
<1>4. gauge = Cardinality(Counting)
  BY <1>3, FS_EmptySet DEF Init
<1>. QED  BY <1>1, <1>2, <1>4 DEF TInv

LEMMA NextTInv == IInv /\ TInv /\ [Next]_vars => TInv'
<1>. SUFFICES ASSUME IInv, TInv, [Next]_vars PROVE TInv'
  OBVIOUS
<1>1. CASE UNCHANGED vars
  BY <1>1 DEF vars, handlerVars, broadcastVars, TInv, Channels, LapAtHand, Counting
<1>. QED  BY <1>1, HandlerTInv, ChannelTInv DEF Next

\* Every variable keeps its type, however many viewers and laps there are, and
\* the gauge never goes below zero nor above the viewers there are.
THEOREM TypeCorrect == Spec => []TypeOK
<1>1. IInv /\ TInv => TypeOK
  BY CountingIsFinite DEF IInv, Shapes, TInv, Channels, TypeOK
<1>. QED  BY <1>1, InitIInv, NextIInv, InitTInv, NextTInv, PTL DEF Spec

------------------------------------------------------------------------------
(* NoLapSkipped.                                                           *)

\* The last lap a broadcaster's listen task took from its subscription.
Taken(b) == published - Len(inbox[b])

\* What a subscription holds are the laps after the one taken, up to the last
\* published; a listen task sends the one it took, to its snapshot only.
Feeding ==
  \A b \in Broadcasters :
    /\ listener[b] \in Listening => Subscribed(b)
    /\ lap[b] # 0 => listener[b] \in {"lookup", "sending"} /\ lap[b] = Taken(b)
    /\ todo[b] # {} => listener[b] = "sending"
    /\ Subscribed(b) => \A i \in 1..Len(inbox[b]) : inbox[b][i] = Taken(b) + i

\* A viewer that has not been registered.
Newcomer(v) == at[v] \in {"away", "rejected", "accepted", "starting"}

\* A newcomer has received nothing; a viewer that is still there is sent laps
\* by the registered broadcaster only.
Audience ==
  \A v \in Viewers :
    /\ Newcomer(v) => got[v] = <<>>
    /\ \A b \in Broadcasters :
         v \in conns[b] \cup todo[b] => ~Newcomer(v) /\ (at[v] = "watching" => b = registry)

\* A viewer that has received a lap received the one taken last, unless that
\* is still to be sent to it.
CaughtUp ==
  \A v \in Viewers :
    at[v] = "watching" /\ got[v] # <<>> /\ listener[registry] \in Listening =>
      got[v][Len(got[v])] =
        IF listener[registry] = "lookup" \/ v \in todo[registry]
          THEN Taken(registry) - 1 ELSE Taken(registry)

LInv == Feeding /\ Audience /\ CaughtUp /\ NoLapSkipped

\* Init: nobody is registered and nothing was received.
LEMMA InitLInv == Init => LInv
BY DEF Init, LInv, Feeding, Audience, CaughtUp, NoLapSkipped, Listening, Subscribed, Newcomer

\* What the steps below use of the types.
LEMMA ChannelTypes ==
  ASSUME TInv
  PROVE  /\ published \in Nat
         /\ \A b \in Broadcasters :
              /\ lap[b] \in Nat
              /\ Subscribed(b) => inbox[b] \in Seq(1..MaxLaps) /\ Len(inbox[b]) \in Nat
         /\ \A v \in Viewers : got[v] \in Seq(1..MaxLaps) /\ Len(got[v]) \in Nat
<1>1. ASSUME NEW s \in Seq(1..MaxLaps) PROVE Len(s) \in Nat
  OBVIOUS
<1>. QED  BY <1>1, BroadcastAssumption DEF TInv, Channels, Subscribed

\* The channel gains a lap: it is the last of every subscription.
LEMMA PublishLInv ==
  ASSUME IInv, TInv, LInv, Publish
  PROVE  LInv'
<1>1. /\ UNCHANGED <<at, registry, conns, listener, lap, todo, got>>
      /\ published' = published + 1 /\ published \in Nat
      /\ inbox' = [b \in Broadcasters |->
                     IF Subscribed(b) THEN Append(inbox[b], published + 1) ELSE inbox[b]]
  BY ChannelTypes DEF Publish, handlerVars, broadcastVars
<1>2. ASSUME NEW b \in Broadcasters, Subscribed(b)
      PROVE  /\ Subscribed(b)'
             /\ Taken(b)' = Taken(b)
             /\ \A i \in 1..Len(inbox'[b]) : inbox'[b][i] = Taken(b)' + i
  <2>1. inbox[b] \in Seq(1..MaxLaps) /\ Len(inbox[b]) \in Nat
    BY <1>2, ChannelTypes
  <2>2. inbox'[b] = Append(inbox[b], published + 1)
    BY <1>1, <1>2
  <2>3. /\ Len(inbox'[b]) = Len(inbox[b]) + 1
        /\ \A i \in 1..Len(inbox[b]) : inbox'[b][i] = inbox[b][i]
        /\ inbox'[b][Len(inbox[b]) + 1] = published + 1
    BY <1>1, <2>1, <2>2
  <2>4. Taken(b)' = Taken(b) /\ Taken(b) \in Int /\ Taken(b) + Len(inbox[b]) = published
    <3>1. published' = published + 1 /\ published \in Nat
      BY <1>1
    <3>2. Len(inbox'[b]) = Len(inbox[b]) + 1
      BY <2>3
    <3>. QED  BY <2>1, <3>1, <3>2 DEF Taken
  <2>5. \A i \in 1..Len(inbox[b]) : inbox[b][i] = Taken(b) + i
    BY <1>2 DEF LInv, Feeding
  <2>6. \A i \in 1..Len(inbox'[b]) : inbox'[b][i] = Taken(b)' + i
    <3>1. ASSUME NEW i \in 1..Len(inbox'[b]), i # Len(inbox[b]) + 1
          PROVE  i \in 1..Len(inbox[b])
      BY <2>1, <2>3, <3>1
    <3>2. inbox'[b][Len(inbox[b]) + 1] = Taken(b) + (Len(inbox[b]) + 1)
      BY <1>1, <2>1, <2>3, <2>4
    <3>. QED  BY <2>3, <2>4, <2>5, <3>1, <3>2
  <2>7. Subscribed(b)'
    <3>1. inbox'[b] = <<None>> => Len(inbox'[b]) = 1 /\ inbox'[b][1] = None
      OBVIOUS
    <3>2. Len(inbox'[b]) = 1 => inbox'[b][1] = published + 1
      BY <2>1, <2>3
    <3>. QED  BY <1>1, <3>1, <3>2, BroadcastAssumption DEF Subscribed
  <2>. QED  BY <2>4, <2>6, <2>7
<1>3. ASSUME NEW b \in Broadcasters, ~Subscribed(b)
      PROVE  ~Subscribed(b)'
  BY <1>1, <1>3 DEF Subscribed
<1>4. Feeding'
  <2>. SUFFICES ASSUME NEW b \in Broadcasters
                PROVE  /\ listener'[b] \in Listening => Subscribed(b)'
                       /\ lap'[b] # 0 => listener'[b] \in {"lookup", "sending"} /\ lap'[b] = Taken(b)'
                       /\ todo'[b] # {} => listener'[b] = "sending"
                       /\ Subscribed(b)' => \A i \in 1..Len(inbox'[b]) : inbox'[b][i] = Taken(b)' + i
    BY DEF Feeding
  <2>1. lap[b] # 0 => Subscribed(b)
    BY DEF LInv, Feeding, Listening
  <2>. QED  BY <1>1, <1>2, <1>3, <2>1 DEF LInv, Feeding
<1>5. Audience'
  BY <1>1 DEF LInv, Audience, Newcomer
<1>6. CaughtUp'
  <2>1. ASSUME NEW v \in Viewers, at[v] = "watching"
        PROVE  registry \in Broadcasters
    BY <2>1 DEF IInv, ViewersAreRegistered, Shapes
  <2>2. registry \in Broadcasters /\ listener[registry] \in Listening => Taken(registry)' = Taken(registry)
    BY <1>1, <1>2 DEF LInv, Feeding, Taken
  <2>. QED  BY <1>1, <2>1, <2>2 DEF LInv, CaughtUp
<1>7. NoLapSkipped'
  BY <1>1 DEF LInv, NoLapSkipped
<1>. QED  BY <1>4, <1>5, <1>6, <1>7 DEF LInv

\* A handler that moves elsewhere than to its registration, and nothing else.
LEMMA MoveLInv ==
  ASSUME IInv, LInv, NEW v \in Viewers, NEW there,
         at' = [at EXCEPT ![v] = there],
         there # "watching",
         there \in {"away", "rejected", "accepted", "starting"} => Newcomer(v),
         UNCHANGED <<registry, conns, listener, lap, todo, got, inbox, published>>
  PROVE  LInv'
<1>1. Feeding'
  BY DEF LInv, Feeding, Subscribed, Taken
<1>2. Audience'
  BY DEF LInv, Audience, Newcomer, IInv, Shapes
<1>3. CaughtUp'
  BY DEF LInv, CaughtUp, Taken, IInv, Shapes
<1>4. NoLapSkipped'
  BY DEF LInv, NoLapSkipped
<1>. QED  BY <1>1, <1>2, <1>3, <1>4 DEF LInv

\* Joining a broadcaster that is registered.
LEMMA JoinLInv ==
  ASSUME IInv, LInv, NEW v \in Viewers, Acquire(v)
  PROVE  LInv'
<1>1. CASE registry = None
  BY <1>1, MoveLInv DEF Acquire, Goto, broadcastVars, Newcomer
<1>2. CASE registry # None
  <2>1. /\ registry \in Broadcasters
        /\ at[v] = "accepted" /\ at' = [at EXCEPT ![v] = "watching"]
        /\ conns' = [conns EXCEPT ![registry] = @ \cup {v}]
        /\ UNCHANGED <<registry, listener, lap, todo, got, inbox, published>>
    BY <1>2 DEF Acquire, Register, Goto, broadcastVars, IInv, Shapes
  <2>2. Feeding' /\ NoLapSkipped'
    BY <2>1 DEF LInv, Feeding, Subscribed, Taken, NoLapSkipped
  <2>3. Audience'
    BY <2>1 DEF LInv, Audience, Newcomer, IInv, Shapes
  <2>4. CaughtUp'
    BY <2>1 DEF LInv, Audience, Newcomer, CaughtUp, Taken, IInv, Shapes
  <2>. QED  BY <2>2, <2>3, <2>4 DEF LInv
<1>. QED  BY <1>1, <1>2

\* The first viewer's broadcaster is listened to by nobody else.
LEMMA StartedLInv ==
  ASSUME IInv, TInv, LInv, NEW v \in Viewers, Started(v)
  PROVE  LInv'
<1>. DEFINE b == mine[v]
<1>1. /\ b \in Broadcasters /\ registry = None /\ listener[b] = "none"
      /\ at[v] = "starting" /\ at' = [at EXCEPT ![v] = "watching"]
      /\ registry' = b
      /\ inbox' = [inbox EXCEPT ![b] = <<>>]
      /\ listener' = [listener EXCEPT ![b] = "listening"]
      /\ conns' = [conns EXCEPT ![b] = @ \cup {v}]
      /\ UNCHANGED <<lap, todo, got, published>>
  BY DEF Started, Register, Goto, IInv, HolderWorksAlone, StartedIsNew
<1>2. \A w \in Viewers : at[w] # "watching"
  BY <1>1 DEF IInv, ViewersAreRegistered
<1>3. lap[b] = 0 /\ todo[b] = {}
  BY <1>1 DEF LInv, Feeding
<1>4. Feeding'
  <2>1. inbox'[b] = <<>> /\ <<>> # <<None>>
    BY <1>1 DEF TInv, Channels
  <2>2. \A c \in Broadcasters \ {b} : inbox'[c] = inbox[c] /\ listener'[c] = listener[c]
    BY <1>1 DEF TInv, Channels, IInv, Shapes
  <2>3. listener'[b] = "listening"
    BY <1>1 DEF IInv, Shapes
  <2>. QED  BY <1>1, <1>3, <2>1, <2>2, <2>3 DEF LInv, Feeding, Subscribed, Taken
<1>5. Audience'
  <2>1. at'[v] = "watching" /\ \A w \in Viewers \ {v} : at'[w] = at[w]
    BY <1>1 DEF IInv, Shapes
  <2>2. \A c \in Broadcasters : v \notin conns[c] \cup todo[c]
    BY <1>1 DEF LInv, Audience, Newcomer
  <2>3. \A c \in Broadcasters : conns'[c] = IF c = b THEN conns[c] \cup {v} ELSE conns[c]
    BY <1>1 DEF IInv, Shapes
  <2>. QED  BY <1>1, <1>2, <2>1, <2>2, <2>3 DEF LInv, Audience, Newcomer
<1>6. CaughtUp'
  <2>1. got[v] = <<>>
    BY <1>1 DEF LInv, Audience, Newcomer
  <2>. QED  BY <1>1, <1>2, <2>1 DEF CaughtUp, IInv, Shapes
<1>7. NoLapSkipped'
  BY <1>1 DEF LInv, NoLapSkipped
<1>. QED  BY <1>4, <1>5, <1>6, <1>7 DEF LInv

\* A viewer leaves, the last one with the broadcaster.
LEMMA ReleaseLInv ==
  ASSUME IInv, LInv, NEW v \in Viewers, Release(v)
  PROVE  LInv'
<1>1. /\ registry \in Broadcasters /\ at[v] = "leaving"
      /\ conns' = [conns EXCEPT ![registry] = @ \ {v}]
      /\ \E there \in {"stopping", "left"} : at' = [at EXCEPT ![v] = there]
      /\ UNCHANGED <<listener, lap, todo, got, inbox, published>>
  BY DEF Release, Goto, broadcastVars, IInv, Shapes
<1>2. Feeding' /\ NoLapSkipped'
  BY <1>1 DEF LInv, Feeding, Subscribed, Taken, NoLapSkipped
<1>3. CASE registry' = registry
  <2>1. Audience'
    BY <1>1, <1>3 DEF LInv, Audience, Newcomer, IInv, Shapes
  <2>2. CaughtUp'
    BY <1>1, <1>3 DEF LInv, CaughtUp, Taken, IInv, Shapes
  <2>. QED  BY <1>2, <2>1, <2>2 DEF LInv
<1>4. CASE conns[registry] = {v}
  <2>1. \A w \in Viewers : at'[w] # "watching"
    BY <1>1, <1>4 DEF IInv, ViewersAreRegistered, Shapes
  <2>2. Audience'
    BY <1>1, <2>1 DEF LInv, Audience, Newcomer, IInv, Shapes
  <2>3. CaughtUp'
    BY <2>1 DEF CaughtUp
  <2>. QED  BY <1>2, <2>2, <2>3 DEF LInv
<1>. QED  BY <1>3, <1>4 DEF Release

\* Tearing the broadcaster down: it is nobody's any more.
LEMMA StopLInv ==
  ASSUME IInv, TInv, LInv, NEW v \in Viewers, CancelListener(v) \/ Unsubscribe(v)
  PROVE  LInv'
<1>. DEFINE b == mine[v]
<1>1. /\ b \in Broadcasters /\ registry = None /\ lock = v
      /\ \E there \in {"unsubscribing", "left", "errored"} : at' = [at EXCEPT ![v] = there]
      /\ UNCHANGED <<registry, conns, got, published>>
  BY DEF CancelListener, Unsubscribe, Goto, IInv, HolderWorksAlone
<1>2. \A w \in Viewers : at'[w] # "watching" /\ (at[w] # "watching")
  BY <1>1 DEF IInv, ViewersAreRegistered, Shapes
<1>3. CaughtUp' /\ NoLapSkipped'
  BY <1>1, <1>2 DEF CaughtUp, LInv, NoLapSkipped
<1>4. Audience'
  <2>1. \A c \in Broadcasters : todo'[c] \subseteq todo[c]
    BY DEF CancelListener, Unsubscribe, broadcastVars, TInv, Channels
  <2>2. ~Newcomer(v)'
    BY <1>1 DEF IInv, Shapes, Newcomer
  <2>. QED  BY <1>1, <1>2, <2>1, <2>2 DEF LInv, Audience, Newcomer, IInv, Shapes
<1>5. Feeding'
  <2>1. CASE CancelListener(v)
    <3>1. /\ listener' = [listener EXCEPT ![b] = "cancelled"]
          /\ lap' = [lap EXCEPT ![b] = 0]
          /\ todo' = [todo EXCEPT ![b] = {}]
          /\ UNCHANGED inbox
      BY <2>1 DEF CancelListener
    <3>. QED  BY <1>1, <3>1 DEF LInv, Feeding, Subscribed, Taken, Listening, TInv, Channels, IInv, Shapes
  <2>2. CASE Unsubscribe(v)
    <3>1. inbox' = [inbox EXCEPT ![b] = <<None>>] /\ UNCHANGED <<listener, lap, todo>>
      BY <2>2 DEF Unsubscribe, broadcastVars
    <3>2. listener[b] \notin Listening
      <4>1. \A w \in Viewers : at[w] = "stopping" => w = v
        BY <1>1 DEF IInv, HolderWorksAlone
      <4>. QED  BY <1>1, <2>2, <4>1, BroadcastAssumption DEF Unsubscribe, IInv, ListenerIsKnown
    <3>3. lap[b] = 0 /\ todo[b] = {}
      BY <1>1, <3>2 DEF LInv, Feeding, Listening
    <3>4. inbox'[b] = <<None>> /\ \A c \in Broadcasters \ {b} : inbox'[c] = inbox[c]
      BY <1>1, <3>1 DEF TInv, Channels
    <3>. QED  BY <1>1, <3>1, <3>2, <3>3, <3>4 DEF LInv, Feeding, Subscribed, Taken
  <2>. QED  BY <2>1, <2>2
<1>. QED  BY <1>3, <1>4, <1>5 DEF LInv

\* A lap is read from the subscription: it is the one after the last taken.
LEMMA ReceiveLInv ==
  ASSUME IInv, TInv, LInv, NEW b \in Broadcasters, Receive(b)
  PROVE  LInv'
<1>1. /\ listener[b] = "listening" /\ lap[b] = 0 /\ todo[b] = {}
      /\ Subscribed(b) /\ inbox[b] # <<>>
      /\ lap' = [lap EXCEPT ![b] = Head(inbox[b])]
      /\ inbox' = [inbox EXCEPT ![b] = Tail(inbox[b])]
      /\ listener' = [listener EXCEPT ![b] = "lookup"]
      /\ UNCHANGED <<at, registry, conns, todo, published, got>>
  BY DEF Receive, handlerVars, LInv, Feeding
<1>2. inbox[b] \in Seq(1..MaxLaps) /\ Len(inbox[b]) \in Nat /\ Len(inbox[b]) >= 1 /\ published \in Nat
  BY <1>1, ChannelTypes
<1>3. /\ lap'[b] = inbox[b][1] /\ inbox'[b] = Tail(inbox[b]) /\ listener'[b] = "lookup"
      /\ \A c \in Broadcasters \ {b} :
           lap'[c] = lap[c] /\ inbox'[c] = inbox[c] /\ listener'[c] = listener[c]
  BY <1>1, <1>2 DEF TInv, Channels, IInv, Shapes
<1>4. /\ Len(inbox'[b]) = Len(inbox[b]) - 1
      /\ \A i \in 1..Len(inbox'[b]) : inbox'[b][i] = inbox[b][i + 1]
  BY <1>2, <1>3
<1>5. \A i \in 1..Len(inbox[b]) : inbox[b][i] = Taken(b) + i
  BY <1>1 DEF LInv, Feeding
<1>6. Taken(b) \in Int /\ Taken(b)' = Taken(b) + 1 /\ lap'[b] = Taken(b)'
  <2>1. inbox[b][1] = Taken(b) + 1 /\ Taken(b) \in Int
    BY <1>2, <1>5 DEF Taken
  <2>2. Taken(b)' = Taken(b) + 1
    <3>1. published' = published /\ Len(inbox'[b]) = Len(inbox[b]) - 1
      BY <1>1, <1>4
    <3>. QED  BY <1>2, <3>1 DEF Taken
  <2>. QED  BY <1>3, <2>1, <2>2
<1>7. \A i \in 1..Len(inbox'[b]) : inbox'[b][i] = Taken(b)' + i
  <2>1. ASSUME NEW i \in 1..Len(inbox'[b])
        PROVE  i + 1 \in 1..Len(inbox[b]) /\ i \in Int
    BY <1>2, <1>4, <2>1
  <2>2. ASSUME NEW i \in 1..Len(inbox'[b])
        PROVE  inbox'[b][i] = Taken(b) + (i + 1)
    BY <1>4, <1>5, <2>1
  <2>. QED  BY <1>6, <2>1, <2>2
<1>8. Subscribed(b)'
  <2>1. inbox'[b] = <<None>> => Len(inbox'[b]) = 1 /\ inbox'[b][1] = None
    OBVIOUS
  <2>2. Len(inbox'[b]) = 1 => inbox'[b][1] \in Nat
    <3>1. Tail(inbox[b]) \in Seq(1..MaxLaps)
      BY <1>1, <1>2, HeadTailProperties
    <3>2. Len(inbox'[b]) = 1 => inbox'[b][1] \in 1..MaxLaps
      <4>1. inbox'[b] \in Seq(1..MaxLaps)
        BY <1>3, <3>1
      <4>2. Len(inbox'[b]) = 1 => 1 \in 1..Len(inbox'[b])
        OBVIOUS
      <4>. QED  BY <4>1, <4>2, ElementOfSeq
    <3>. QED  BY <3>2, BroadcastAssumption DEF BroadcastAssumption
  <2>. QED  BY <2>1, <2>2, BroadcastAssumption DEF Subscribed
<1>9. Feeding'
  <2>1. ASSUME NEW c \in Broadcasters \ {b}
        PROVE  Taken(c)' = Taken(c) /\ Subscribed(c)' = Subscribed(c)
    BY <1>1, <1>3 DEF Taken, Subscribed
  <2>. QED  BY <1>1, <1>3, <1>6, <1>7, <1>8, <2>1 DEF LInv, Feeding
<1>10. Audience' /\ NoLapSkipped'
  BY <1>1 DEF LInv, Audience, Newcomer, NoLapSkipped
<1>11. CaughtUp'
  <2>. SUFFICES ASSUME NEW v \in Viewers, at[v] = "watching", got[v] # <<>>,
                       listener'[registry] \in Listening
                PROVE  got[v][Len(got[v])] =
                         IF listener'[registry] = "lookup" \/ v \in todo[registry]
                           THEN Taken(registry)' - 1 ELSE Taken(registry)'
    BY <1>1 DEF CaughtUp, Taken
  <2>1. registry \in Broadcasters
    BY DEF IInv, ViewersAreRegistered, Shapes
  <2>2. CASE registry = b
    BY <1>1, <1>3, <1>6, <2>2 DEF LInv, CaughtUp, Listening
  <2>3. CASE registry # b
    BY <1>1, <1>3, <2>1, <2>3 DEF LInv, CaughtUp, Taken
  <2>. QED  BY <2>2, <2>3
<1>. QED  BY <1>9, <1>10, <1>11 DEF LInv

\* The lap is to be sent to everybody who is connected, among them every
\* viewer of the registered broadcaster.
LEMMA SnapshotLInv ==
  ASSUME IInv, TInv, LInv, NEW b \in Broadcasters, Snapshot(b)
  PROVE  LInv'
<1>1. /\ listener[b] = "lookup"
      /\ listener' = [listener EXCEPT ![b] = "sending"]
      /\ todo' = [todo EXCEPT ![b] = conns[b]]
      /\ UNCHANGED <<at, registry, conns, lap, inbox, published, got>>
  BY DEF Snapshot, handlerVars
<1>2. /\ listener'[b] = "sending" /\ todo'[b] = conns[b]
      /\ \A c \in Broadcasters \ {b} : listener'[c] = listener[c] /\ todo'[c] = todo[c]
  BY <1>1 DEF TInv, Channels, IInv, Shapes
<1>3. Feeding'
  BY <1>1, <1>2 DEF LInv, Feeding, Subscribed, Taken, Listening
<1>4. Audience' /\ NoLapSkipped'
  BY <1>1, <1>2 DEF LInv, Audience, Newcomer, NoLapSkipped
<1>5. CaughtUp'
  BY <1>1, <1>2 DEF LInv, CaughtUp, Taken, Listening, IInv, ViewersAreRegistered, Shapes
<1>. QED  BY <1>3, <1>4, <1>5 DEF LInv

\* A viewer that is still there receives the lap taken, the one after its last.
LEMMA SendLInv ==
  ASSUME IInv, TInv, LInv, NEW b \in Broadcasters, Send(b)
  PROVE  LInv'
<1>1. PICK v \in todo[b] :
        /\ todo' = [todo EXCEPT ![b] = @ \ {v}]
        /\ got' = IF at[v] = "watching" THEN [got EXCEPT ![v] = Append(@, lap[b])] ELSE got
  BY DEF Send
<1>2. listener[b] = "sending" /\ UNCHANGED <<at, registry, conns, listener, lap, inbox, published>>
  BY DEF Send, handlerVars
<1>3. v \in Viewers /\ todo'[b] = todo[b] \ {v} /\ \A c \in Broadcasters \ {b} : todo'[c] = todo[c]
  BY <1>1 DEF TInv, Channels
<1>4. Feeding'
  BY <1>2, <1>3 DEF LInv, Feeding, Subscribed, Taken
<1>5. \A w \in Viewers \ {v} : got'[w] = got[w]
  BY <1>1 DEF TInv, Channels
<1>6. ~Newcomer(v)
  BY <1>1, <1>3 DEF LInv, Audience
<1>7. Audience'
  BY <1>2, <1>3, <1>5, <1>6 DEF LInv, Audience, Newcomer
<1>8. CASE at[v] # "watching"
  BY <1>1, <1>2, <1>3, <1>4, <1>7, <1>8 DEF LInv, CaughtUp, NoLapSkipped, Taken
<1>9. CASE at[v] = "watching"
  <2>1. b = registry /\ lap[b] = Taken(b) /\ lap[b] \in Nat /\ got[v] \in Seq(1..MaxLaps) /\ Len(got[v]) \in Nat
    BY <1>1, <1>2, <1>3, <1>9, ChannelTypes DEF LInv, Audience, Feeding, TInv, LapAtHand
  <2>2. got'[v] = Append(got[v], lap[b])
    BY <1>1, <1>3, <1>9 DEF TInv, Channels
  <2>3. /\ Len(got'[v]) = Len(got[v]) + 1
        /\ got'[v][Len(got[v]) + 1] = lap[b]
        /\ \A i \in 1..Len(got[v]) : got'[v][i] = got[v][i]
    BY <2>1, <2>2
  <2>4. got[v] # <<>> => got[v][Len(got[v])] = lap[b] - 1
    BY <1>1, <1>2, <1>3, <1>9, <2>1 DEF LInv, CaughtUp, Listening
  <2>5. NoLapSkipped'
    <3>1. ASSUME NEW i \in 2..Len(got'[v])
          PROVE  got'[v][i] = got'[v][i - 1] + 1
      <4>1. CASE i <= Len(got[v])
        <5>1. i \in 2..Len(got[v]) /\ i \in 1..Len(got[v]) /\ i - 1 \in 1..Len(got[v])
          BY <2>1, <4>1
        <5>. QED  BY <1>3, <2>3, <5>1 DEF LInv, NoLapSkipped
      <4>2. CASE i = Len(got[v]) + 1
        <5>1. Len(got[v]) \in 1..Len(got[v]) /\ i - 1 = Len(got[v])
          BY <2>1, <4>2
        <5>. QED  BY <2>1, <2>3, <2>4, <4>2, <5>1
      <4>. QED  BY <2>1, <2>3, <4>1, <4>2
    <3>. QED  BY <1>5, <3>1 DEF LInv, NoLapSkipped
  <2>6. CaughtUp'
    BY <1>2, <1>3, <1>5, <2>1, <2>3 DEF LInv, CaughtUp, Taken
  <2>. QED  BY <1>4, <1>7, <2>5, <2>6 DEF LInv
<1>. QED  BY <1>8, <1>9

\* The lap was sent to everybody, or the listen task ends.
LEMMA SentLInv ==
  ASSUME IInv, TInv, LInv, NEW b \in Broadcasters, Sent(b) \/ ListenRaises(b)
  PROVE  LInv'
<1>1. PICK s \in {"listening", "dead"} :
        /\ listener' = [listener EXCEPT ![b] = s]
        /\ s = "listening" => listener[b] = "sending"
        /\ lap' = [lap EXCEPT ![b] = 0]
        /\ UNCHANGED <<at, registry, conns, todo, inbox, published, got>>
  BY DEF Sent, ListenRaises, handlerVars
<1>2. todo[b] = {}
  BY DEF Sent, ListenRaises, LInv, Feeding
<1>3. /\ listener'[b] = s /\ lap'[b] = 0
      /\ \A c \in Broadcasters \ {b} : listener'[c] = listener[c] /\ lap'[c] = lap[c]
  BY <1>1 DEF TInv, Channels, IInv, Shapes
<1>4. Feeding'
  BY <1>1, <1>2, <1>3 DEF LInv, Feeding, Subscribed, Taken, Listening
<1>5. Audience' /\ NoLapSkipped'
  BY <1>1 DEF LInv, Audience, Newcomer, NoLapSkipped
<1>6. CaughtUp'
  <2>1. \A v \in Viewers : at[v] = "watching" => registry \in Broadcasters
    BY DEF IInv, ViewersAreRegistered, Shapes
  <2>. QED  BY <1>1, <1>2, <1>3, <2>1 DEF LInv, CaughtUp, Taken, Listening
<1>. QED  BY <1>4, <1>5, <1>6 DEF LInv

\* Every step keeps the broadcasters fed in order and the viewers caught up.
LEMMA NextLInv == IInv /\ TInv /\ LInv /\ [Next]_vars => LInv'
<1>. SUFFICES ASSUME IInv, TInv, LInv, [Next]_vars PROVE LInv'
  OBVIOUS
<1>1. ASSUME NEW v \in Viewers, Reject(v) \/ Accept(v) \/ Disconnect(v) \/ StartRaises(v)
      PROVE  LInv'
  BY <1>1, MoveLInv DEF Reject, Accept, Disconnect, StartRaises, Goto, broadcastVars, Newcomer
<1>2. ASSUME NEW v \in Viewers, Handle(v)
      PROVE  LInv'
  BY <1>1, <1>2, JoinLInv, StartedLInv, ReleaseLInv, StopLInv DEF Handle
<1>3. ASSUME NEW b \in Broadcasters, Listen(b) \/ ListenRaises(b)
      PROVE  LInv'
  BY <1>3, ReceiveLInv, SnapshotLInv, SendLInv, SentLInv DEF Listen
<1>4. CASE UNCHANGED vars
  BY <1>4 DEF vars, handlerVars, broadcastVars, LInv, Feeding, Subscribed, Taken, Audience,
              Newcomer, CaughtUp, NoLapSkipped
<1>. QED  BY <1>1, <1>2, <1>3, <1>4, PublishLInv DEF Next

\* "A failed send to one viewer can't interrupt the others": whoever comes,
\* goes or fails while a lap is sent, the laps a viewer receives are
\* consecutive, each once and in order (_SessionBroadcaster._broadcast).
THEOREM NoLapSkippedHolds == Spec => []NoLapSkipped
<1>1. LInv => NoLapSkipped
  BY DEF LInv
<1>. QED  BY <1>1, InitIInv, NextIInv, InitTInv, NextTInv, InitLInv, NextLInv, PTL DEF Spec
==============================================================================
