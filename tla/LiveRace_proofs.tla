--------------------------- MODULE LiveRace_proofs ----------------------------
(***************************************************************************)
(* The race page's data.  Of the arbitration, who may drive it: the type   *)
(* invariant, SingleReplay, PlayingIsTracked and LiveHasPriority, for any  *)
(* callers, overlaps and failures.  Of the ingestor's standings: the type  *)
(* invariant and OrderSettles, for any field, race distance and stream.    *)
(***************************************************************************)
EXTENDS LiveArbitration, LiveRanking, FiniteSetTheorems, TLAPS

USE ArbitrationAssumption

\* A start between its claim and its last SET, or a replay that has not ended.
Slot(s) ==
  \/ at[s] \in {"launch", "unclaim", "store"}
  \/ proc[s] \in {"booting", "scanned", "loading", "playing"}

StartsAt == {"idle", "scanTrigger", "claim", "launch", "unclaim", "store", "started",
             "refused", "lost"}

PollsAt == {"idle", "force", "kill", "delete", "launchLive", "done", "lost"}

\* Where each kind of call can be; a process exists once its start launched it.
TInv ==
  /\ TypeOK
  /\ \A s \in Starts : /\ at[s] \in StartsAt
                       /\ proc[s] # "none" => at[s] \in {"store", "started", "lost"}
  /\ \A t \in Polls : at[t] \in PollsAt
  /\ \A k \in Stops \cup Watchers : at[k] \in {"idle", "kill", "delete", "probe"}
                                   /\ held[k] \in Starts \cup {NoKey}

\* A pid is stored by the last step of its start; a stop and a probe delete only
\* after the replay they read has ended.
Stored ==
  /\ stateKey \in Starts => at[stateKey] = "started"
  /\ \A c \in Calls : held[c] \in Starts => at[held[c]] = "started"
  /\ \A k \in Stops \cup Watchers : at[k] = "delete" => ~Slot(held[k])

\* Without a trigger no poll is at work and no ingestor of a poll runs.
Unclaimed == \A t \in Polls : at[t] \in {"idle", "done", "lost"} /\ ~Live(t)

\* At most one start holds the slot, and the state key is its own.
Owned ==
  \A s \in Starts : Slot(s) =>
    /\ \A q \in Starts : Slot(q) => q = s
    /\ stateKey = IF at[s] = "started" THEN s ELSE Pending

\* Only replays that the kill-switch missed play.
Disarmed == \A p \in Starts \ missed : ~Playing(p)

\* The kill-switch has read the key of the replay it has to stop, and has stopped
\* it before it deletes that key and launches.
Aimed(t) ==
  /\ at[t] = "kill" => \A p \in Starts \ missed : Playing(p) => held[t] = p
  /\ at[t] \in {"delete", "launchLive"} \/ Live(t) => Disarmed

\* The slot is owned until a poll deletes the key, after which nothing that it did
\* not miss plays until the trigger has expired.
Orderly ==
  /\ SingleReplay
  /\ Owned \/ (trigger /\ Disarmed)
  /\ \A t \in Polls : Aimed(t)

IInv == Stored /\ (~trigger => Unclaimed) /\ (~late => Orderly)

LEMMA CallersApart ==
  /\ Starts \cup Stops \cup Watchers \cup Polls = Calls
  /\ Starts \cap (Stops \cup Watchers \cup Polls) = {}
  /\ Polls \cap (Stops \cup Watchers) = {}
  /\ NoKey \notin Starts /\ Pending \notin Starts /\ NoKey # Pending
BY DEF Calls

LEMMA TInitHolds == Init => TInv
<1>. SUFFICES ASSUME Init PROVE TInv
  OBVIOUS
<1>1. \A c \in Calls : at[c] = "idle" /\ held[c] = NoKey
  BY DEF Init
<1>2. \A c \in Calls : ~Clearing(c)
  BY <1>1 DEF Clearing
<1>3. TypeOK
  BY <1>1, <1>2 DEF Init, TypeOK, Places, ProcStates
<1>4. \A s \in Starts : proc[s] = "none"
  BY DEF Init
<1>. QED  BY <1>1, <1>3, <1>4, CallersApart DEF TInv, StartsAt, PollsAt

\* A signalled process is dead or in its cleanup, or was already past playing.
LEMMA SigtermStops ==
  ASSUME proc \in [Starts -> ProcStates], NEW p \in Starts, Sigterm(p)
  PROVE  \E next \in {"none", "dead", "stopping"} :
           /\ proc' = [proc EXCEPT ![p] = next]
           /\ next = "none" => proc[p] = "none"
           /\ proc[p] = "none" => next = "none"
BY DEF Sigterm, AfterSigterm, ProcStates

LEMMA TNextHolds == TInv /\ [Next]_vars => TInv'
<1>. SUFFICES ASSUME TInv, [Next]_vars PROVE TInv'
  OBVIOUS
<1>. USE CallersApart DEF TInv, TypeOK
<1>1. ASSUME NEW s \in Starts, StartScanGaps(s) PROVE TInv'
  BY <1>1 DEF StartScanGaps, Goto, keys, past, StartsAt, PollsAt, Places, ProcStates, Clearing
<1>2. ASSUME NEW s \in Starts, StartScanTrigger(s) PROVE TInv'
  BY <1>2 DEF StartScanTrigger, Goto, keys, past, StartsAt, PollsAt, Places, ProcStates, Clearing
<1>3. ASSUME NEW s \in Starts, StartClaim(s) PROVE TInv'
  BY <1>3 DEF StartClaim, Goto, keys, past, StartsAt, PollsAt, Places, ProcStates, Clearing
<1>4. ASSUME NEW s \in Starts, StartLaunch(s) PROVE TInv'
  BY <1>4 DEF StartLaunch, Goto, keys, past, StartsAt, PollsAt, Places, ProcStates, Clearing
<1>5. ASSUME NEW s \in Starts, StartUnclaim(s) PROVE TInv'
  BY <1>5 DEF StartUnclaim, Goto, keys, past, StartsAt, PollsAt, Places, ProcStates, Clearing
<1>6. ASSUME NEW s \in Starts, StartStore(s) PROVE TInv'
  BY <1>6 DEF StartStore, Goto, keys, past, StartsAt, PollsAt, Places, ProcStates, Clearing
<1>7. ASSUME NEW s \in Starts, StartLost(s) PROVE TInv'
  BY <1>7 DEF StartLost, Goto, keys, past, StartsAt, PollsAt, Places, ProcStates, Clearing
<1>8. ASSUME NEW k \in Stops, StopRead(k) PROVE TInv'
  BY <1>8 DEF StopRead, Goto, keys, past, StartsAt, PollsAt, Places, ProcStates, Clearing
<1>9. ASSUME NEW k \in Stops, StopKill(k) PROVE TInv'
  <2>1. held[k] \in Starts
    BY <1>9 DEF StopKill, Clearing
  <2>2. PICK next \in {"none", "dead", "stopping"} :
          /\ proc' = [proc EXCEPT ![held[k]] = next]
          /\ proc[held[k]] = "none" => next = "none"
    BY <1>9, <2>1, SigtermStops DEF StopKill
  <2>3. proc' \in [Starts -> ProcStates]
    BY <2>2 DEF ProcStates
  <2>4. \A s \in Starts : proc'[s] # "none" => proc[s] # "none"
    BY <2>1, <2>2
  <2>. QED  BY <1>9, <2>3, <2>4 DEF StopKill, Goto, keys, past, Places, Clearing
<1>10. ASSUME NEW k \in Stops \cup Watchers, ClearKey(k) PROVE TInv'
  BY <1>10 DEF ClearKey, Goto, keys, past, StartsAt, PollsAt, Places, ProcStates, Clearing
<1>11. ASSUME NEW q \in Watchers, StatusRead(q) PROVE TInv'
  BY <1>11 DEF StatusRead, Goto, keys, past, StartsAt, PollsAt, Places, ProcStates, Clearing
<1>12. ASSUME NEW q \in Watchers, StatusProbe(q) PROVE TInv'
  BY <1>12 DEF StatusProbe, Goto, keys, past, StartsAt, PollsAt, Places, ProcStates, Clearing
<1>13. ASSUME NEW t \in Polls, PollClaim(t) PROVE TInv'
  BY <1>13 DEF PollClaim, Goto, keys, past, StartsAt, PollsAt, Places, ProcStates, Clearing
<1>14. ASSUME NEW t \in Polls, ForceRead(t) PROVE TInv'
  BY <1>14 DEF ForceRead, Goto, keys, past, StartsAt, PollsAt, Places, ProcStates, Clearing
<1>15. ASSUME NEW t \in Polls, ForceKill(t) PROVE TInv'
  <2>1. proc' \in [Starts -> ProcStates] /\ \A s \in Starts : proc'[s] # "none" => proc[s] # "none"
    <3>1. CASE held[t] \in Starts /\ Sigterm(held[t])
      <4>1. PICK next \in {"none", "dead", "stopping"} :
              /\ proc' = [proc EXCEPT ![held[t]] = next]
              /\ proc[held[t]] = "none" => next = "none"
        BY <3>1, SigtermStops
      <4>2. proc' \in [Starts -> ProcStates]
        BY <4>1 DEF ProcStates
      <4>. QED  BY <3>1, <4>1, <4>2
    <3>2. CASE UNCHANGED proc
      BY <3>2
    <3>. QED  BY <1>15, <3>1, <3>2 DEF ForceKill
  <2>2. missed' \subseteq Starts
    BY <1>15 DEF ForceKill
  <2>. QED  BY <1>15, <2>1, <2>2 DEF ForceKill, Goto, keys, past, Places, Clearing, PollsAt
<1>16. ASSUME NEW t \in Polls, ForceDelete(t) PROVE TInv'
  BY <1>16 DEF ForceDelete, Goto, keys, past, StartsAt, PollsAt, Places, ProcStates, Clearing
<1>17. ASSUME NEW t \in Polls, LaunchLive(t) PROVE TInv'
  BY <1>17 DEF LaunchLive, Goto, keys, past, StartsAt, PollsAt, Places, ProcStates, Clearing
<1>18. ASSUME NEW t \in Polls, PollLost(t) PROVE TInv'
  BY <1>18 DEF PollLost, Goto, keys, past, StartsAt, PollsAt, Places, ProcStates, Clearing
<1>19. ASSUME NEW t \in Polls, IngestorEnds(t) PROVE TInv'
  BY <1>19 DEF IngestorEnds, Goto, keys, past, StartsAt, PollsAt, Places, ProcStates, Clearing
<1>20. ASSUME NEW p \in Starts, GuardScanGaps(p) PROVE TInv'
  BY <1>20 DEF GuardScanGaps, Goto, keys, past, StartsAt, PollsAt, Places, ProcStates, Clearing
<1>21. ASSUME NEW p \in Starts, GuardScanTrigger(p) PROVE TInv'
  BY <1>21 DEF GuardScanTrigger, Goto, keys, past, StartsAt, PollsAt, Places, ProcStates, Clearing
<1>22. ASSUME NEW p \in Starts, Load(p) PROVE TInv'
  BY <1>22 DEF Load, Goto, keys, past, StartsAt, PollsAt, Places, ProcStates, Clearing
<1>23. ASSUME NEW p \in Starts, PlayEnds(p) PROVE TInv'
  BY <1>23 DEF PlayEnds, Goto, keys, past, StartsAt, PollsAt, Places, ProcStates, Clearing
<1>24. ASSUME NEW p \in Starts, FinallyDelete(p) PROVE TInv'
  BY <1>24 DEF FinallyDelete, Goto, keys, past, StartsAt, PollsAt, Places, ProcStates, Clearing
<1>25. CASE CloseWindow
  BY <1>25 DEF CloseWindow, keys, past, Clearing
<1>26. CASE ExpireState
  BY <1>26 DEF ExpireState, keys, past, Clearing
<1>27. CASE ExpireTrigger
  BY <1>27 DEF ExpireTrigger, keys, past, Clearing
<1>28. CASE UNCHANGED vars
  BY <1>28 DEF vars, keys, past, Clearing
<1>. QED
  BY <1>1, <1>2, <1>3, <1>4, <1>5, <1>6, <1>7, <1>8, <1>9, <1>10, <1>11, <1>12, <1>13, <1>14, <1>15, <1>16, <1>17, <1>18, <1>19, <1>20, <1>21, <1>22, <1>23, <1>24, <1>25, <1>26, <1>27, <1>28,
     Zenon DEF Next, StartStep, PollStep, ReplayStep

\* Every variable has its type, and who holds a payload acts on it.
THEOREM TypeCorrect == Spec => []TypeOK
<1>1. TInv => TypeOK
  BY DEF TInv
<1>. QED  BY <1>1, TInitHolds, TNextHolds, PTL DEF Spec

------------------------------------------------------------------------------
LEMMA IInitHolds == Init => IInv
<1>. SUFFICES ASSUME Init PROVE IInv
  OBVIOUS
<1>1. /\ \A s \in Starts : at[s] = "idle" /\ proc[s] = "none"
      /\ \A c \in Calls : at[c] = "idle" /\ held[c] = NoKey
      /\ \A t \in Polls : at[t] = "idle" /\ ingestor[t] = "none"
      /\ stateKey = NoKey
  BY CallersApart DEF Init
<1>2. \A s \in Starts : ~Slot(s) /\ ~Playing(s)
  BY <1>1 DEF Slot, Playing
<1>. QED
  BY <1>1, <1>2, CallersApart
  DEF IInv, Stored, Unclaimed, Orderly, SingleReplay, Owned, Aimed, Live

\* What every step leaves of a start: it stays started, takes the slot by its claim
\* alone, and plays only if it already did or held the slot while no race was claimed.
Winds ==
  \A s \in Starts :
    /\ at[s] = "started" => at'[s] = "started"
    /\ Slot(s)' => Slot(s) \/ at[s] = "claim"
    /\ Playing(s)' => Playing(s) \/ (~trigger /\ Slot(s))

LEMMA StartsWind ==
  ASSUME TInv, [Next]_vars
  PROVE  Winds
<1>. USE CallersApart DEF TInv, TypeOK
<1>s. ASSUME NEW p \in Starts, Sigterm(p), \A s \in Starts : at'[s] = at[s] PROVE Winds
  <2>1. PICK next \in {"none", "dead", "stopping"} : proc' = [proc EXCEPT ![p] = next]
    BY <1>s, SigtermStops
  <2>. QED  BY <1>s, <2>1 DEF Winds, Slot, Playing
<1>1. ASSUME NEW s \in Starts, StartScanGaps(s) PROVE Winds
  BY <1>1 DEF StartScanGaps, Goto, keys, past, Winds, Slot, Playing
<1>2. ASSUME NEW s \in Starts, StartScanTrigger(s) PROVE Winds
  BY <1>2 DEF StartScanTrigger, Goto, keys, past, Winds, Slot, Playing
<1>3. ASSUME NEW s \in Starts, StartClaim(s) PROVE Winds
  BY <1>3 DEF StartClaim, Goto, keys, past, Winds, Slot, Playing
<1>4. ASSUME NEW s \in Starts, StartLaunch(s) PROVE Winds
  BY <1>4 DEF StartLaunch, Goto, keys, past, Winds, Slot, Playing
<1>5. ASSUME NEW s \in Starts, StartUnclaim(s) PROVE Winds
  BY <1>5 DEF StartUnclaim, Goto, keys, past, Winds, Slot, Playing
<1>6. ASSUME NEW s \in Starts, StartStore(s) PROVE Winds
  BY <1>6 DEF StartStore, Goto, keys, past, Winds, Slot, Playing
<1>7. ASSUME NEW s \in Starts, StartLost(s) PROVE Winds
  BY <1>7 DEF StartLost, Goto, keys, past, Winds, Slot, Playing
<1>8. ASSUME NEW k \in Stops, StopRead(k) PROVE Winds
  BY <1>8 DEF StopRead, Goto, keys, past, Winds, Slot, Playing
<1>9. ASSUME NEW k \in Stops, StopKill(k) PROVE Winds
  <2>1. Sigterm(held[k]) /\ held[k] \in Starts
    BY <1>9 DEF StopKill, Clearing
  <2>2. \A s \in Starts : at'[s] = at[s]
    BY <1>9 DEF StopKill, Goto
  <2>. QED  BY <2>1, <2>2, <1>s
<1>10. ASSUME NEW k \in Stops \cup Watchers, ClearKey(k) PROVE Winds
  BY <1>10 DEF ClearKey, Goto, keys, past, Winds, Slot, Playing
<1>11. ASSUME NEW q \in Watchers, StatusRead(q) PROVE Winds
  BY <1>11 DEF StatusRead, Goto, keys, past, Winds, Slot, Playing
<1>12. ASSUME NEW q \in Watchers, StatusProbe(q) PROVE Winds
  BY <1>12 DEF StatusProbe, Goto, keys, past, Winds, Slot, Playing
<1>13. ASSUME NEW t \in Polls, PollClaim(t) PROVE Winds
  BY <1>13 DEF PollClaim, Goto, keys, past, Winds, Slot, Playing
<1>14. ASSUME NEW t \in Polls, ForceRead(t) PROVE Winds
  BY <1>14 DEF ForceRead, Goto, keys, past, Winds, Slot, Playing
<1>15. ASSUME NEW t \in Polls, ForceKill(t) PROVE Winds
  <2>1. \A s \in Starts : at'[s] = at[s]
    BY <1>15 DEF ForceKill, Goto
  <2>2. CASE held[t] \in Starts /\ Sigterm(held[t])
    BY <2>1, <2>2, <1>s
  <2>3. CASE UNCHANGED proc
    BY <2>1, <2>3 DEF Winds, Slot, Playing
  <2>. QED  BY <1>15, <2>2, <2>3 DEF ForceKill
<1>16. ASSUME NEW t \in Polls, ForceDelete(t) PROVE Winds
  BY <1>16 DEF ForceDelete, Goto, keys, past, Winds, Slot, Playing
<1>17. ASSUME NEW t \in Polls, LaunchLive(t) PROVE Winds
  BY <1>17 DEF LaunchLive, Goto, keys, past, Winds, Slot, Playing
<1>18. ASSUME NEW t \in Polls, PollLost(t) PROVE Winds
  BY <1>18 DEF PollLost, Goto, keys, past, Winds, Slot, Playing
<1>19. ASSUME NEW t \in Polls, IngestorEnds(t) PROVE Winds
  BY <1>19 DEF IngestorEnds, Goto, keys, past, Winds, Slot, Playing
<1>20. ASSUME NEW p \in Starts, GuardScanGaps(p) PROVE Winds
  BY <1>20 DEF GuardScanGaps, Goto, keys, past, Winds, Slot, Playing
<1>21. ASSUME NEW p \in Starts, GuardScanTrigger(p) PROVE Winds
  BY <1>21 DEF GuardScanTrigger, Goto, keys, past, Winds, Slot, Playing
<1>22. ASSUME NEW p \in Starts, Load(p) PROVE Winds
  BY <1>22 DEF Load, Goto, keys, past, Winds, Slot, Playing
<1>23. ASSUME NEW p \in Starts, PlayEnds(p) PROVE Winds
  BY <1>23 DEF PlayEnds, Goto, keys, past, Winds, Slot, Playing
<1>24. ASSUME NEW p \in Starts, FinallyDelete(p) PROVE Winds
  BY <1>24 DEF FinallyDelete, Goto, keys, past, Winds, Slot, Playing
<1>25. CASE CloseWindow
  BY <1>25 DEF CloseWindow, Goto, keys, past, Winds, Slot, Playing
<1>26. CASE ExpireState
  BY <1>26 DEF ExpireState, Goto, keys, past, Winds, Slot, Playing
<1>27. CASE ExpireTrigger
  BY <1>27 DEF ExpireTrigger, Goto, keys, past, Winds, Slot, Playing
<1>28. CASE UNCHANGED vars
  BY <1>28 DEF vars, Goto, keys, past, Winds, Slot, Playing
<1>. QED
  BY <1>1, <1>2, <1>3, <1>4, <1>5, <1>6, <1>7, <1>8, <1>9, <1>10, <1>11, <1>12, <1>13, <1>14, <1>15, <1>16, <1>17, <1>18, <1>19, <1>20, <1>21, <1>22, <1>23, <1>24, <1>25, <1>26, <1>27, <1>28,
     Zenon DEF Next, StartStep, PollStep, ReplayStep

\* A stop or a probe that deletes has seen the end of the replay it read.
LEMMA StoredKept ==
  ASSUME TInv, Stored, [Next]_vars
  PROVE  Stored'
<1>w. Winds
  BY StartsWind
<1>k. ASSUME \/ stateKey' \in {stateKey, NoKey, Pending}
             \/ stateKey' \in Starts /\ at'[stateKey'] = "started",
             \A c \in Calls : held'[c] \in {held[c], NoKey, stateKey},
             \A k \in Stops \cup Watchers : (at[k] = "delete")' =>
               held'[k] = held[k] /\ held[k] \in Starts /\ (at[k] = "delete" \/ ~Slot(held[k])')
      PROVE  Stored'
  <2>1. ASSUME NEW k \in Stops \cup Watchers, (at[k] = "delete")' PROVE ~Slot(held[k])'
    <3>1. PICK p \in Starts : p = held[k] /\ p = held'[k] /\ at[p] = "started"
      BY <1>k, <2>1, CallersApart DEF Stored
    <3>2. at[k] = "delete" => ~Slot(p)
      BY <2>1, <3>1 DEF Stored, Slot
    <3>3. Slot(p)' => Slot(p)
      BY <1>w, <3>1 DEF Winds
    <3>4. CASE at[k] = "delete"
      BY <3>1, <3>2, <3>3, <3>4 DEF Slot
    <3>. QED  BY <1>k, <2>1, <3>4
  <2>2. \A s \in Starts : at[s] = "started" => at'[s] = "started"
    BY <1>w DEF Winds
  <2>3. (stateKey \in Starts => at[stateKey] = "started")'
    BY <1>k, <2>2, CallersApart DEF Stored
  <2>4. \A c \in Calls : held'[c] \in Starts => at'[held'[c]] = "started"
    BY <1>k, <2>2, CallersApart DEF Stored
  <2>. QED  BY <2>1, <2>3, <2>4 DEF Stored
<1>. USE CallersApart DEF TInv, TypeOK
<1>d. \A k \in Stops \cup Watchers : at[k] = "delete" => held[k] \in Starts
  BY DEF Clearing
<1>1. ASSUME NEW s \in Starts, StartScanGaps(s) PROVE Stored'
  BY <1>1, <1>k, <1>d DEF StartScanGaps, Goto, keys, past, Clearing
<1>2. ASSUME NEW s \in Starts, StartScanTrigger(s) PROVE Stored'
  BY <1>2, <1>k, <1>d DEF StartScanTrigger, Goto, keys, past, Clearing
<1>3. ASSUME NEW s \in Starts, StartClaim(s) PROVE Stored'
  BY <1>3, <1>k, <1>d DEF StartClaim, Goto, keys, past, Clearing
<1>4. ASSUME NEW s \in Starts, StartLaunch(s) PROVE Stored'
  BY <1>4, <1>k, <1>d DEF StartLaunch, Goto, keys, past, Clearing
<1>5. ASSUME NEW s \in Starts, StartUnclaim(s) PROVE Stored'
  BY <1>5, <1>k, <1>d DEF StartUnclaim, Goto, keys, past, Clearing
<1>6. ASSUME NEW s \in Starts, StartStore(s) PROVE Stored'
  <2>1. stateKey' = s /\ at'[s] = "started" /\ held' = held
    BY <1>6 DEF StartStore, Goto
  <2>2. \A k \in Stops \cup Watchers : at'[k] = at[k]
    BY <1>6 DEF StartStore, Goto
  <2>. QED  BY <2>1, <2>2, <1>k, <1>w, <1>d DEF Stored
<1>7. ASSUME NEW s \in Starts, StartLost(s) PROVE Stored'
  BY <1>7, <1>k, <1>d DEF StartLost, Goto, keys, past, Clearing
<1>8. ASSUME NEW k \in Stops, StopRead(k) PROVE Stored'
  BY <1>8, <1>k, <1>d DEF StopRead, Goto, keys, past, Clearing
<1>9. ASSUME NEW k \in Stops, StopKill(k) PROVE Stored'
  <2>1. Sigterm(held[k]) /\ held[k] \in Starts /\ at[held[k]] = "started"
    BY <1>9 DEF StopKill, Clearing, Stored
  <2>2. PICK next \in {"none", "dead", "stopping"} : proc' = [proc EXCEPT ![held[k]] = next]
    BY <2>1, SigtermStops
  <2>3. ~Slot(held[k])'
    BY <1>9, <2>1, <2>2 DEF StopKill, Slot, Goto
  <2>. QED  BY <1>9, <1>k, <1>d, <2>1, <2>3 DEF StopKill, Goto, keys, past
<1>10. ASSUME NEW k \in Stops \cup Watchers, ClearKey(k) PROVE Stored'
  BY <1>10, <1>k, <1>d DEF ClearKey, Goto, keys, past, Clearing
<1>11. ASSUME NEW q \in Watchers, StatusRead(q) PROVE Stored'
  BY <1>11, <1>k, <1>d DEF StatusRead, Goto, keys, past, Clearing
<1>12. ASSUME NEW q \in Watchers, StatusProbe(q) PROVE Stored'
  <2>1. ~Alive(held[q]) => ~Slot(held[q])'
    BY <1>12 DEF StatusProbe, Clearing, Stored, Goto, Alive, Slot
  <2>. QED  BY <1>12, <1>k, <1>d, <2>1 DEF StatusProbe, Goto, keys, past, Clearing
<1>13. ASSUME NEW t \in Polls, PollClaim(t) PROVE Stored'
  BY <1>13, <1>k, <1>d DEF PollClaim, Goto, keys, past, Clearing
<1>14. ASSUME NEW t \in Polls, ForceRead(t) PROVE Stored'
  BY <1>14, <1>k, <1>d DEF ForceRead, Goto, keys, past, Clearing
<1>15. ASSUME NEW t \in Polls, ForceKill(t) PROVE Stored'
  BY <1>15, <1>k, <1>d DEF ForceKill, Goto, keys, past, Clearing
<1>16. ASSUME NEW t \in Polls, ForceDelete(t) PROVE Stored'
  BY <1>16, <1>k, <1>d DEF ForceDelete, Goto, keys, past, Clearing
<1>17. ASSUME NEW t \in Polls, LaunchLive(t) PROVE Stored'
  BY <1>17, <1>k, <1>d DEF LaunchLive, Goto, keys, past, Clearing
<1>18. ASSUME NEW t \in Polls, PollLost(t) PROVE Stored'
  BY <1>18, <1>k, <1>d DEF PollLost, Goto, keys, past, Clearing
<1>19. ASSUME NEW t \in Polls, IngestorEnds(t) PROVE Stored'
  BY <1>19, <1>k, <1>d DEF IngestorEnds, Goto, keys, past, Clearing
<1>20. ASSUME NEW p \in Starts, GuardScanGaps(p) PROVE Stored'
  BY <1>20, <1>k, <1>d DEF GuardScanGaps, Goto, keys, past, Clearing
<1>21. ASSUME NEW p \in Starts, GuardScanTrigger(p) PROVE Stored'
  BY <1>21, <1>k, <1>d DEF GuardScanTrigger, Goto, keys, past, Clearing
<1>22. ASSUME NEW p \in Starts, Load(p) PROVE Stored'
  BY <1>22, <1>k, <1>d DEF Load, Goto, keys, past, Clearing
<1>23. ASSUME NEW p \in Starts, PlayEnds(p) PROVE Stored'
  BY <1>23, <1>k, <1>d DEF PlayEnds, Goto, keys, past, Clearing
<1>24. ASSUME NEW p \in Starts, FinallyDelete(p) PROVE Stored'
  BY <1>24, <1>k, <1>d DEF FinallyDelete, Goto, keys, past, Clearing
<1>25. CASE CloseWindow
  BY <1>25, <1>k, <1>d DEF CloseWindow, Goto, keys, past, Clearing
<1>26. CASE ExpireState
  BY <1>26, <1>k, <1>d DEF ExpireState, Goto, keys, past, Clearing
<1>27. CASE ExpireTrigger
  BY <1>27, <1>k, <1>d DEF ExpireTrigger, Goto, keys, past, Clearing
<1>28. CASE UNCHANGED vars
  BY <1>28, <1>k, <1>d DEF vars, keys, past
<1>. QED
  BY <1>1, <1>2, <1>3, <1>4, <1>5, <1>6, <1>7, <1>8, <1>9, <1>10, <1>11, <1>12, <1>13, <1>14, <1>15, <1>16, <1>17, <1>18, <1>19, <1>20, <1>21, <1>22, <1>23, <1>24, <1>25, <1>26, <1>27, <1>28,
     Zenon DEF Next, StartStep, PollStep, ReplayStep

\* The trigger stays until every poll and every poll's ingestor has ended.
LEMMA UnclaimedKept ==
  ASSUME TInv, ~trigger => Unclaimed, [Next]_vars
  PROVE  (~trigger => Unclaimed)'
<1>. USE CallersApart DEF TInv, TypeOK, Unclaimed, Live
<1>u. ASSUME trigger' = trigger, \A t \in Polls : at'[t] = at[t] /\ ingestor'[t] = ingestor[t]
      PROVE  (~trigger => Unclaimed)'
  BY <1>u
<1>1. ASSUME NEW s \in Starts, StartScanGaps(s) PROVE (~trigger => Unclaimed)'
  BY <1>1, <1>u DEF StartScanGaps, Goto, keys, past
<1>2. ASSUME NEW s \in Starts, StartScanTrigger(s) PROVE (~trigger => Unclaimed)'
  BY <1>2, <1>u DEF StartScanTrigger, Goto, keys, past
<1>3. ASSUME NEW s \in Starts, StartClaim(s) PROVE (~trigger => Unclaimed)'
  BY <1>3, <1>u DEF StartClaim, Goto, keys, past
<1>4. ASSUME NEW s \in Starts, StartLaunch(s) PROVE (~trigger => Unclaimed)'
  BY <1>4, <1>u DEF StartLaunch, Goto, keys, past
<1>5. ASSUME NEW s \in Starts, StartUnclaim(s) PROVE (~trigger => Unclaimed)'
  BY <1>5, <1>u DEF StartUnclaim, Goto, keys, past
<1>6. ASSUME NEW s \in Starts, StartStore(s) PROVE (~trigger => Unclaimed)'
  BY <1>6, <1>u DEF StartStore, Goto, keys, past
<1>7. ASSUME NEW s \in Starts, StartLost(s) PROVE (~trigger => Unclaimed)'
  BY <1>7, <1>u DEF StartLost, Goto, keys, past
<1>8. ASSUME NEW k \in Stops, StopRead(k) PROVE (~trigger => Unclaimed)'
  BY <1>8, <1>u DEF StopRead, Goto, keys, past
<1>9. ASSUME NEW k \in Stops, StopKill(k) PROVE (~trigger => Unclaimed)'
  BY <1>9, <1>u DEF StopKill, Goto, keys, past
<1>10. ASSUME NEW k \in Stops \cup Watchers, ClearKey(k) PROVE (~trigger => Unclaimed)'
  BY <1>10, <1>u DEF ClearKey, Goto, keys, past
<1>11. ASSUME NEW q \in Watchers, StatusRead(q) PROVE (~trigger => Unclaimed)'
  BY <1>11, <1>u DEF StatusRead, Goto, keys, past
<1>12. ASSUME NEW q \in Watchers, StatusProbe(q) PROVE (~trigger => Unclaimed)'
  BY <1>12, <1>u DEF StatusProbe, Goto, keys, past
<1>13. ASSUME NEW t \in Polls, PollClaim(t) PROVE (~trigger => Unclaimed)'
  BY <1>13 DEF PollClaim, Goto, keys, past
<1>14. ASSUME NEW t \in Polls, ForceRead(t) PROVE (~trigger => Unclaimed)'
  BY <1>14 DEF ForceRead, Goto, keys, past
<1>15. ASSUME NEW t \in Polls, ForceKill(t) PROVE (~trigger => Unclaimed)'
  BY <1>15 DEF ForceKill, Goto, keys, past
<1>16. ASSUME NEW t \in Polls, ForceDelete(t) PROVE (~trigger => Unclaimed)'
  BY <1>16 DEF ForceDelete, Goto, keys, past
<1>17. ASSUME NEW t \in Polls, LaunchLive(t) PROVE (~trigger => Unclaimed)'
  BY <1>17 DEF LaunchLive, Goto, keys, past
<1>18. ASSUME NEW t \in Polls, PollLost(t) PROVE (~trigger => Unclaimed)'
  BY <1>18 DEF PollLost, Goto, keys, past
<1>19. ASSUME NEW t \in Polls, IngestorEnds(t) PROVE (~trigger => Unclaimed)'
  BY <1>19 DEF IngestorEnds, Goto, keys, past
<1>20. ASSUME NEW p \in Starts, GuardScanGaps(p) PROVE (~trigger => Unclaimed)'
  BY <1>20, <1>u DEF GuardScanGaps, Goto, keys, past
<1>21. ASSUME NEW p \in Starts, GuardScanTrigger(p) PROVE (~trigger => Unclaimed)'
  BY <1>21, <1>u DEF GuardScanTrigger, Goto, keys, past
<1>22. ASSUME NEW p \in Starts, Load(p) PROVE (~trigger => Unclaimed)'
  BY <1>22, <1>u DEF Load, Goto, keys, past
<1>23. ASSUME NEW p \in Starts, PlayEnds(p) PROVE (~trigger => Unclaimed)'
  BY <1>23, <1>u DEF PlayEnds, Goto, keys, past
<1>24. ASSUME NEW p \in Starts, FinallyDelete(p) PROVE (~trigger => Unclaimed)'
  BY <1>24, <1>u DEF FinallyDelete, Goto, keys, past
<1>25. CASE CloseWindow
  BY <1>25 DEF CloseWindow, Goto, keys, past
<1>26. CASE ExpireState
  BY <1>26 DEF ExpireState, Goto, keys, past
<1>27. CASE ExpireTrigger
  BY <1>27 DEF ExpireTrigger, Goto, keys, past
<1>28. CASE UNCHANGED vars
  BY <1>28 DEF vars, Goto, keys, past
<1>. QED
  BY <1>1, <1>2, <1>3, <1>4, <1>5, <1>6, <1>7, <1>8, <1>9, <1>10, <1>11, <1>12, <1>13, <1>14, <1>15, <1>16, <1>17, <1>18, <1>19, <1>20, <1>21, <1>22, <1>23, <1>24, <1>25, <1>26, <1>27, <1>28,
     Zenon DEF Next, StartStep, PollStep, ReplayStep

------------------------------------------------------------------------------
LEMMA PlayingHoldsSlot == \A s \in Starts : Playing(s) => Slot(s)
BY DEF Playing, Slot

\* While the slot is owned: a step that leaves the key and takes no slot.
LEMMA OwnedWinds ==
  ASSUME Owned, stateKey' = stateKey,
         \A s \in Starts : Slot(s)' => Slot(s) /\ (at[s] = "started" <=> at'[s] = "started")
  PROVE  Owned'
BY DEF Owned

LEMMA AimedWinds ==
  ASSUME \A t \in Polls : Aimed(t), missed \subseteq missed',
         \A p \in Starts : Playing(p)' => Playing(p),
         \A t \in Polls : (at[t] = "kill")' => at[t] = "kill" /\ held'[t] = held[t],
         \A t \in Polls : (at[t] \in {"delete", "launchLive"} \/ Live(t))' =>
                            at[t] \in {"delete", "launchLive"} \/ Live(t)
  PROVE  (\A t \in Polls : Aimed(t))'
BY DEF Aimed, Disarmed

\* Once the kill-switch is through, nothing has to be kept but the trigger.
LEMMA DisarmedKept ==
  ASSUME ~late, Orderly, Disarmed, trigger', missed \subseteq missed',
         \A p \in Starts : Playing(p)' => Playing(p)
  PROVE  Orderly'
<1>1. Disarmed'
  BY DEF Disarmed
<1>2. SingleReplay'
  BY DEF Orderly, SingleReplay
<1>3. (\A t \in Polls : Aimed(t))'
  BY <1>1 DEF Aimed, Disarmed
<1>. QED  BY <1>1, <1>2, <1>3 DEF Orderly

LEMMA OrderlyFromOwned ==
  ASSUME Owned', (\A t \in Polls : Aimed(t))'
  PROVE  Orderly'
BY DEF Orderly, Owned, SingleReplay, Playing, Slot

LEMMA OrderlyKept ==
  ASSUME TInv, Stored, ~trigger => Unclaimed, ~late => Orderly, [Next]_vars
  PROVE  (~late => Orderly)'
<1>w. Winds
  BY StartsWind
<1>l. late => late'
  <2>1. \A c \in Calls : ClearKey(c) => (late => late')
    BY DEF ClearKey
  <2>. QED
    BY <2>1, CallersApart
    DEF Next, StartStep, PollStep, ReplayStep, vars, past, StartScanGaps, StartScanTrigger,
        StartClaim, StartLaunch, StartUnclaim, StartStore, StartLost, StopRead, StopKill,
        StatusRead, StatusProbe, PollClaim, ForceRead, ForceKill, ForceDelete, LaunchLive,
        PollLost, IngestorEnds, GuardScanGaps, GuardScanTrigger, Load, PlayEnds,
        FinallyDelete, CloseWindow, ExpireState, ExpireTrigger
<1>m. missed \subseteq missed'
  BY DEF Next, StartStep, PollStep, ReplayStep, vars, past, StartScanGaps, StartScanTrigger,
        StartClaim, StartLaunch, StartUnclaim, StartStore, StartLost, StopRead, StopKill, ClearKey,
        StatusRead, StatusProbe, PollClaim, ForceRead, ForceKill, ForceDelete, LaunchLive,
        PollLost, IngestorEnds, GuardScanGaps, GuardScanTrigger, Load, PlayEnds,
        FinallyDelete, CloseWindow, ExpireState, ExpireTrigger
<1>e. trigger /\ ~ExpireTrigger => trigger'
  BY DEF Next, StartStep, PollStep, ReplayStep, vars, keys, StartScanGaps, StartScanTrigger,
        StartClaim, StartLaunch, StartUnclaim, StartStore, StartLost, StopRead, StopKill, ClearKey,
        StatusRead, StatusProbe, PollClaim, ForceRead, ForceKill, ForceDelete, LaunchLive,
        PollLost, IngestorEnds, GuardScanGaps, GuardScanTrigger, Load, PlayEnds,
        FinallyDelete, CloseWindow, ExpireState
<1>. SUFFICES ASSUME ~late, ~late', Orderly PROVE Orderly'
  BY <1>l
<1>a. \A t \in Polls : Aimed(t)
  BY DEF Orderly
<1>x. CASE ExpireTrigger
  <2>1. \A s \in Starts : ~Slot(s)' /\ UNCHANGED proc
    BY <1>x DEF ExpireTrigger, Slot, Alive
  <2>2. \A t \in Polls : ~(at[t] \in {"kill", "delete", "launchLive"} \/ Live(t))'
    BY <1>x DEF ExpireTrigger, Live
  <2>. QED  BY <2>1, <2>2, OrderlyFromOwned DEF Owned, Aimed
<1>d. CASE trigger /\ Disarmed /\ ~ExpireTrigger
  <2>1. \A p \in Starts : Playing(p)' => Playing(p)
    BY <1>w, <1>d DEF Winds
  <2>. QED  BY <1>d, <1>e, <1>m, <2>1, DisarmedKept
<1>. SUFFICES ASSUME Owned, ~(trigger /\ Disarmed), ~ExpireTrigger PROVE Orderly'
  BY <1>x, <1>d DEF Orderly
<1>q. ASSUME \A t \in Polls : (at[t] = "kill")' => at[t] = "kill" /\ held'[t] = held[t],
             \A t \in Polls : (at[t] \in {"delete", "launchLive"} \/ Live(t))' =>
                                at[t] \in {"delete", "launchLive"} \/ Live(t)
      PROVE  (\A t \in Polls : Aimed(t))'
  <2>1. CASE trigger
    <3>1. \A p \in Starts : Playing(p)' => Playing(p)
      BY <1>w, <2>1 DEF Winds
    <3>. QED  BY <1>a, <1>m, <1>q, <3>1, AimedWinds
  <2>2. CASE ~trigger
    BY <1>q, <2>2 DEF Unclaimed, Aimed
  <2>. QED  BY <2>1, <2>2
<1>r. ASSUME stateKey' = stateKey,
             \A s \in Starts : Slot(s)' => Slot(s) /\ (at[s] = "started" <=> at'[s] = "started"),
             \A t \in Polls : (at[t] = "kill")' => at[t] = "kill" /\ held'[t] = held[t],
             \A t \in Polls : (at[t] \in {"delete", "launchLive"} \/ Live(t))' =>
                                at[t] \in {"delete", "launchLive"} \/ Live(t)
      PROVE  Orderly'
  BY <1>q, <1>r, OwnedWinds, OrderlyFromOwned
<1>n. ASSUME \A s \in Starts : ~Slot(s)', \A t \in Polls : at'[t] = at[t] /\ held'[t] = held[t],
             ingestor' = ingestor
      PROVE  Orderly'
  BY <1>n, <1>q, OrderlyFromOwned DEF Owned, Live
<1>. USE CallersApart DEF TInv, TypeOK
<1>s. ASSUME NEW c \in Calls \ Starts, NEW p \in Starts, held[c] = p, Sigterm(p),
             \A s \in Starts : at'[s] = at[s]
      PROVE  /\ \A s \in Starts : Slot(s)' => Slot(s) /\ (at[s] = "started" <=> at'[s] = "started")
             /\ ~Playing(p)'
             /\ \A s \in Starts : Playing(s)' => Playing(s)
  <2>1. PICK next \in {"none", "dead", "stopping"} : proc' = [proc EXCEPT ![p] = next]
    BY <1>s, SigtermStops
  <2>. QED  BY <1>s, <2>1 DEF Slot, Playing
<1>1. ASSUME NEW s \in Starts, StartScanGaps(s) PROVE Orderly'
  BY <1>1, <1>r DEF StartScanGaps, Goto, keys, Slot, Live, StartsAt
<1>2. ASSUME NEW s \in Starts, StartScanTrigger(s) PROVE Orderly'
  BY <1>2, <1>r DEF StartScanTrigger, Goto, keys, Slot, Live, StartsAt
<1>3. ASSUME NEW s \in Starts, StartClaim(s) PROVE Orderly'
  <2>1. CASE stateKey = NoKey
    <3>1. stateKey' = Pending /\ at' = [at EXCEPT ![s] = "launch"] /\ UNCHANGED <<held, proc, ingestor>>
      BY <1>3, <2>1 DEF StartClaim, Goto
    <3>2. \A r \in Starts : ~Slot(r)
      BY <2>1 DEF Owned
    <3>3. \A r \in Starts : Slot(r)' => r = s
      BY <3>1, <3>2 DEF Slot
    <3>4. Owned'
      BY <3>1, <3>3 DEF Owned
    <3>. QED  BY <3>1, <3>4, <1>q, OrderlyFromOwned DEF Live
  <2>2. CASE stateKey # NoKey
    BY <1>3, <2>2, <1>r DEF StartClaim, Goto, Slot, Live
  <2>. QED  BY <2>1, <2>2
<1>4. ASSUME NEW s \in Starts, StartLaunch(s) PROVE Orderly'
  BY <1>4, <1>r DEF StartLaunch, Goto, keys, Slot, Live, StartsAt
<1>5. ASSUME NEW s \in Starts, StartUnclaim(s) PROVE Orderly'
  <2>1. Slot(s) /\ proc[s] = "none" /\ at' = [at EXCEPT ![s] = "refused"] /\ UNCHANGED <<held, proc, ingestor>>
    BY <1>5 DEF StartUnclaim, Goto, Slot, StartsAt
  <2>2. \A r \in Starts : ~Slot(r)'
    BY <2>1 DEF Owned, Slot
  <2>. QED  BY <2>1, <2>2, <1>n
<1>6. ASSUME NEW s \in Starts, StartStore(s) PROVE Orderly'
  <2>1. /\ Slot(s) /\ stateKey' = s /\ at' = [at EXCEPT ![s] = "started"]
        /\ UNCHANGED <<held, proc, ingestor>>
    BY <1>6 DEF StartStore, Goto, Slot
  <2>2. \A r \in Starts : Slot(r)' => r = s
    BY <2>1 DEF Owned, Slot
  <2>3. Owned'
    BY <2>1, <2>2 DEF Owned
  <2>. QED  BY <2>1, <2>3, <1>q, OrderlyFromOwned DEF Live
<1>7. ASSUME NEW s \in Starts, StartLost(s) PROVE Orderly'
  BY <1>7, <1>r DEF StartLost, Goto, keys, Slot, Live, StartsAt
<1>8. ASSUME NEW k \in Stops, StopRead(k) PROVE Orderly'
  BY <1>8, <1>r DEF StopRead, Goto, keys, Slot, Live, StartsAt
<1>9. ASSUME NEW k \in Stops, StopKill(k) PROVE Orderly'
  <2>1. held[k] \in Starts /\ Sigterm(held[k]) /\ \A s \in Starts : at'[s] = at[s]
    BY <1>9 DEF StopKill, Clearing, Goto
  <2>2. \A s \in Starts : Slot(s)' => Slot(s) /\ (at[s] = "started" <=> at'[s] = "started")
    BY <2>1, <1>s
  <2>. QED  BY <1>9, <2>2, <1>r DEF StopKill, Goto, keys, Live
<1>10. ASSUME NEW k \in Stops \cup Watchers, ClearKey(k) PROVE Orderly'
  <2>1. CASE UNCHANGED stateKey
    BY <1>10, <2>1, <1>r DEF ClearKey, Goto, Slot, Live
  <2>2. CASE stateKey \in {held[k], NoKey}
    <3>1. held[k] \in Starts /\ at[k] = "delete"
      BY <1>10 DEF ClearKey, Clearing
    <3>2. \A s \in Starts : ~Slot(s)
      BY <2>2, <3>1 DEF Stored, Owned
    <3>3. \A s \in Starts : ~Slot(s)'
      BY <1>10, <3>2 DEF ClearKey, Goto, Slot
    <3>. QED  BY <1>10, <3>3, <1>n DEF ClearKey, Goto
  <2>. QED  BY <1>10, <2>1, <2>2 DEF ClearKey
<1>11. ASSUME NEW q \in Watchers, StatusRead(q) PROVE Orderly'
  BY <1>11, <1>r DEF StatusRead, Goto, keys, Slot, Live, StartsAt
<1>12. ASSUME NEW q \in Watchers, StatusProbe(q) PROVE Orderly'
  BY <1>12, <1>r DEF StatusProbe, Goto, keys, Slot, Live, StartsAt
<1>13. ASSUME NEW t \in Polls, PollClaim(t) PROVE Orderly'
  BY <1>13, <1>r DEF PollClaim, Goto, keys, Slot, Live, StartsAt
<1>14. ASSUME NEW t \in Polls, ForceRead(t) PROVE Orderly'
  <2>1. /\ at[t] = "force" /\ held' = [held EXCEPT ![t] = stateKey]
        /\ missed' = missed \cup {p \in Starts : stateKey = Pending /\ Playing(p)}
        /\ at' = [at EXCEPT ![t] = IF stateKey = NoKey THEN "launchLive" ELSE "kill"]
        /\ UNCHANGED <<stateKey, proc, ingestor>>
    BY <1>14 DEF ForceRead, Goto, keys
  <2>2. Owned'
    BY <2>1, OwnedWinds DEF Slot
  <2>3. \A p \in Starts : Playing(p)' <=> Playing(p)
    BY <2>1 DEF Playing
  <2>4. \A p \in Starts \ missed' : Playing(p) => stateKey = p
    BY <2>1, PlayingHoldsSlot DEF Owned
  <2>5. \A u \in Polls \ {t} : Aimed(u)'
    BY <1>a, <2>1, <2>3 DEF Aimed, Disarmed, Live
  <2>6. trigger
    BY <2>1 DEF Unclaimed
  <2>7. ~Live(t)' \/ Disarmed'
    BY <1>a, <2>1, <2>3 DEF Aimed, Disarmed, Live
  <2>8. Aimed(t)'
    BY <2>1, <2>3, <2>4, <2>7 DEF Aimed, Disarmed
  <2>. QED  BY <2>2, <2>5, <2>8, OrderlyFromOwned
<1>15. ASSUME NEW t \in Polls, ForceKill(t) PROVE Orderly'
  <2>1. at[t] = "kill" /\ at' = [at EXCEPT ![t] = "delete"] /\ UNCHANGED <<stateKey, held, ingestor>>
    BY <1>15 DEF ForceKill, Goto, keys
  <2>2. \A p \in Starts \ missed : Playing(p) => held[t] = p
    BY <1>a, <2>1 DEF Aimed
  <2>3. CASE held[t] \in Starts /\ Sigterm(held[t]) /\ UNCHANGED missed
    <3>1. /\ \A s \in Starts : Slot(s)' => Slot(s) /\ (at[s] = "started" <=> at'[s] = "started")
          /\ ~Playing(held[t])' /\ \A s \in Starts : Playing(s)' => Playing(s)
      BY <1>s, <2>1, <2>3
    <3>2. Disarmed'
      BY <2>1, <2>2, <2>3, <3>1 DEF Disarmed, Playing
    <3>3. \A u \in Polls : Aimed(u)'
      BY <2>1, <3>2 DEF Aimed, Disarmed
    <3>4. Owned'
      BY <2>1, <3>1, OwnedWinds
    <3>. QED  BY <3>3, <3>4, OrderlyFromOwned
  <2>4. CASE UNCHANGED proc /\ missed' = missed \cup {p \in Starts : held[t] = p /\ Playing(p)}
    <3>1. Disarmed'
      BY <2>2, <2>4 DEF Disarmed, Playing
    <3>2. Owned'
      BY <2>1, <2>4, OwnedWinds DEF Slot
    <3>3. \A u \in Polls : Aimed(u)'
      BY <2>1, <3>1 DEF Aimed, Disarmed
    <3>. QED  BY <3>2, <3>3, OrderlyFromOwned
  <2>. QED  BY <1>15, <2>3, <2>4 DEF ForceKill
<1>16. ASSUME NEW t \in Polls, ForceDelete(t) PROVE Orderly'
  BY <1>16, <1>a DEF ForceDelete, Aimed, Unclaimed
<1>17. ASSUME NEW t \in Polls, LaunchLive(t) PROVE Orderly'
  BY <1>17, <1>a DEF LaunchLive, Aimed, Unclaimed
<1>18. ASSUME NEW t \in Polls, PollLost(t) PROVE Orderly'
  BY <1>18, <1>r DEF PollLost, Goto, keys, Slot, Live, StartsAt
<1>19. ASSUME NEW t \in Polls, IngestorEnds(t) PROVE Orderly'
  BY <1>19, <1>r DEF IngestorEnds, Goto, keys, Slot, Live, StartsAt
<1>20. ASSUME NEW p \in Starts, GuardScanGaps(p) PROVE Orderly'
  BY <1>20, <1>r DEF GuardScanGaps, Goto, keys, Slot, Live, StartsAt
<1>21. ASSUME NEW p \in Starts, GuardScanTrigger(p) PROVE Orderly'
  BY <1>21, <1>r DEF GuardScanTrigger, Goto, keys, Slot, Live, StartsAt
<1>22. ASSUME NEW p \in Starts, Load(p) PROVE Orderly'
  BY <1>22, <1>r DEF Load, Goto, keys, Slot, Live, StartsAt
<1>23. ASSUME NEW p \in Starts, PlayEnds(p) PROVE Orderly'
  BY <1>23, <1>r DEF PlayEnds, Goto, keys, Slot, Live, StartsAt
<1>24. ASSUME NEW p \in Starts, FinallyDelete(p) PROVE Orderly'
  BY <1>24, <1>r DEF FinallyDelete, Goto, keys, Slot, Live, StartsAt
<1>25. CASE CloseWindow
  BY <1>25, <1>r DEF CloseWindow, Goto, keys, Slot, Live
<1>26. CASE ExpireState
  <2>1. \A s \in Starts : ~Slot(s)'
    BY <1>26 DEF ExpireState, Slot, Alive
  <2>. QED  BY <1>26, <2>1, <1>n DEF ExpireState
<1>27. CASE UNCHANGED vars
  BY <1>27, <1>r DEF vars, keys, Slot, Live
<1>. QED
  BY <1>1, <1>2, <1>3, <1>4, <1>5, <1>6, <1>7, <1>8, <1>9, <1>10, <1>11, <1>12, <1>13, <1>14, <1>15, <1>16, <1>17, <1>18, <1>19, <1>20, <1>21, <1>22, <1>23, <1>24, <1>25, <1>26, <1>27,
     Zenon DEF Next, StartStep, PollStep, ReplayStep

LEMMA IInvHolds == Spec => []IInv
<1>1. TInv /\ IInv /\ [Next]_vars => IInv'
  BY StoredKept, UnclaimedKept, OrderlyKept DEF IInv
<1>. QED  BY <1>1, TInitHolds, TNextHolds, IInitHolds, PTL DEF Spec

\* demo_service.py:5-7: two replays play at once only after a stop or a probe
\* deleted the key of a start that came after its GET, whatever else overlaps,
\* fails or is signalled in vain.
THEOREM SingleReplayHolds == Spec => []SingleReplay
<1>1. IInv => SingleReplay
  BY DEF IInv, Orderly, SingleReplay
<1>. QED  BY <1>1, IInvHolds, PTL

\* demo_service.py:462-466: but for such a DELETE and for replays that a poll's
\* kill-switch missed, the state key stands for the replay that plays.
THEOREM TrackedHolds == Spec => []PlayingIsTracked
<1>1. TInv /\ IInv => PlayingIsTracked
  <2>. SUFFICES ASSUME TInv, IInv, ~late, NEW p \in Starts \ missed, Playing(p)
                PROVE  stateKey = p \/ (stateKey = Pending /\ at[p] \in {"store", "lost"})
    BY DEF PlayingIsTracked
  <2>1. Owned
    BY DEF IInv, Orderly, Disarmed
  <2>2. stateKey = IF at[p] = "started" THEN p ELSE Pending
    BY <2>1, PlayingHoldsSlot DEF Owned
  <2>3. at[p] \in {"store", "started", "lost"}
    BY DEF TInv, Playing
  <2>. QED  BY <2>2, <2>3
<1>. QED  BY <1>1, TInitHolds, TNextHolds, IInvHolds, PTL DEF Spec

\* demo_service.py:10-12: but for a DELETE as above, a replay plays beside an
\* auto-launched ingestor only if the kill-switch found it playing and missed it.
THEOREM LivePriority == Spec => []LiveHasPriority
<1>1. IInv => LiveHasPriority
  BY DEF IInv, Orderly, Aimed, Disarmed, LiveHasPriority
<1>. QED  BY <1>1, IInvHolds, PTL

------------------------------------------------------------------------------
(* The standings.  The operators: ranking by a key.                        *)

HIDE ArbitrationAssumption

N == Cardinality(Cars)

\* In a finite set with a strict total order, given as a set of pairs, counting
\* the predecessors of an element ranks the set from 1 without a tie.
LEMMA CountingRanks ==
  ASSUME NEW S, IsFiniteSet(S), NEW B,
         \A a \in S : <<a, a>> \notin B,
         \A a, b, c \in S : <<a, b>> \in B /\ <<b, c>> \in B => <<a, c>> \in B,
         \A a, b \in S : a # b => <<a, b>> \in B \/ <<b, a>> \in B,
         NEW rank, rank = [c \in S |-> 1 + Cardinality({d \in S : <<d, c>> \in B})]
  PROVE  /\ rank \in [S -> 1..Cardinality(S)]
         /\ \A a, b \in S : rank[a] < rank[b] <=> <<a, b>> \in B
         /\ \A a, b \in S : rank[a] = rank[b] => a = b
<1>. DEFINE P(c) == {d \in S : <<d, c>> \in B}
<1>1. ASSUME NEW c \in S
      PROVE  /\ IsFiniteSet(P(c)) /\ Cardinality(P(c)) \in Nat
             /\ rank[c] = 1 + Cardinality(P(c))
  <2>1. IsFiniteSet(P(c))
    <3>1. P(c) \in SUBSET S
      OBVIOUS
    <3>. QED  BY <3>1, FS_Subset
  <2>2. Cardinality(P(c)) \in Nat
    BY <2>1, FS_CardinalityType
  <2>. QED  BY <2>1, <2>2
<1>2. ASSUME NEW a \in S, NEW b \in S, <<a, b>> \in B
      PROVE  rank[a] < rank[b]
  <2>1. P(a) \in SUBSET P(b) /\ a \in P(b) /\ a \notin P(a)
    BY <1>2
  <2>2. Cardinality(P(a)) <= Cardinality(P(b)) /\ Cardinality(P(a)) # Cardinality(P(b))
    BY <1>1, <2>1, FS_Subset
  <2>3. /\ rank[a] = 1 + Cardinality(P(a)) /\ rank[b] = 1 + Cardinality(P(b))
        /\ Cardinality(P(a)) \in Nat /\ Cardinality(P(b)) \in Nat
    BY <1>1
  <2>. HIDE DEF P
  <2>. QED  BY <2>2, <2>3
<1>3. ASSUME NEW c \in S PROVE Cardinality(P(c)) < Cardinality(S)
  <2>1. P(c) \in SUBSET S /\ c \notin P(c)
    OBVIOUS
  <2>2. Cardinality(P(c)) <= Cardinality(S) /\ Cardinality(P(c)) # Cardinality(S)
    BY <2>1, FS_Subset
  <2>3. Cardinality(S) \in Nat
    BY FS_CardinalityType
  <2>. QED  BY <1>1, <2>2, <2>3
<1>4. rank \in [S -> 1..Cardinality(S)]
  <2>1. ASSUME NEW c \in S PROVE 1 + Cardinality(P(c)) \in 1..Cardinality(S)
    <3>1. Cardinality(S) \in Nat
      BY FS_CardinalityType
    <3>2. Cardinality(P(c)) \in Nat /\ Cardinality(P(c)) < Cardinality(S)
      BY <1>1, <1>3
    <3>. HIDE DEF P
    <3>. QED  BY <3>1, <3>2
  <2>. QED  BY <2>1
<1>5. \A a \in S : rank[a] \in Nat
  <2>1. Cardinality(S) \in Nat
    BY FS_CardinalityType
  <2>. QED  BY <1>4, <2>1
<1>6. ASSUME NEW a \in S, NEW b \in S
      PROVE  (rank[a] < rank[b] <=> <<a, b>> \in B) /\ (rank[a] = rank[b] => a = b)
  <2>1. rank[a] \in Nat /\ rank[b] \in Nat
    BY <1>5
  <2>2. /\ <<a, b>> \in B => rank[a] < rank[b]
        /\ <<b, a>> \in B => rank[b] < rank[a]
    BY <1>2
  <2>3. a # b => <<a, b>> \in B \/ <<b, a>> \in B
    OBVIOUS
  <2>4. <<a, a>> \notin B
    OBVIOUS
  <2>5. CASE a = b
    BY <2>1, <2>4, <2>5
  <2>6. CASE a # b
    BY <2>1, <2>2, <2>3, <2>6
  <2>. QED  BY <2>5, <2>6
<1>. QED  BY <1>4, <1>6

\* Keys of one length, 1 or 5 integers, are ordered: none is before itself, the
\* order is transitive, and two different keys are ordered one way or the other.
Keys(n) == [1..n -> Int]

LEMMA LexIrreflexive ==
  ASSUME NEW n \in {1, 5}, NEW a \in Keys(n)
  PROVE  ~LexLess(a, a)
BY DEF Keys, LexLess

LEMMA LexTransitive ==
  ASSUME NEW n \in {1, 5}, NEW a \in Keys(n), NEW b \in Keys(n), NEW c \in Keys(n),
         LexLess(a, b), LexLess(b, c)
  PROVE  LexLess(a, c)
<1>1. PICK i \in 1..n : a[i] < b[i] /\ \A j \in 1..(i - 1) : a[j] = b[j]
  BY DEF Keys, LexLess
<1>2. PICK k \in 1..n : b[k] < c[k] /\ \A j \in 1..(k - 1) : b[j] = c[j]
  BY DEF Keys, LexLess
<1>3. CASE i <= k
  <2>1. a[i] < c[i] /\ \A j \in 1..(i - 1) : a[j] = c[j]
    BY <1>1, <1>2, <1>3 DEF Keys
  <2>. QED  BY <2>1 DEF LexLess, Keys
<1>4. CASE k < i
  <2>1. a[k] < c[k] /\ \A j \in 1..(k - 1) : a[j] = c[j]
    BY <1>1, <1>2, <1>4 DEF Keys
  <2>. QED  BY <2>1 DEF LexLess, Keys
<1>. QED  BY <1>3, <1>4

LEMMA LexTotal ==
  ASSUME NEW n \in {1, 5}, NEW a \in Keys(n), NEW b \in Keys(n), a # b
  PROVE  LexLess(a, b) \/ LexLess(b, a)
<1>1. ASSUME NEW i \in 1..n, a[i] # b[i], \A j \in 1..(i - 1) : a[j] = b[j]
      PROVE  LexLess(a, b) \/ LexLess(b, a)
  BY <1>1 DEF Keys, LexLess
<1>2. \E i \in 1..n : a[i] # b[i] /\ \A j \in 1..(i - 1) : a[j] = b[j]
  <2>1. CASE n = 1
    <3>1. a[1] # b[1]
      BY <2>1 DEF Keys
    <3>. QED  BY <2>1, <3>1
  <2>2. CASE n = 5
    <3>1. a[1] # b[1] \/ a[2] # b[2] \/ a[3] # b[3] \/ a[4] # b[4] \/ a[5] # b[5]
      <4>1. ASSUME \A i \in {1, 2, 3, 4, 5} : a[i] = b[i] PROVE FALSE
        BY <2>2, <4>1 DEF Keys
      <4>. QED  BY <4>1
    <3>. QED  BY <2>2, <3>1
  <2>. QED  BY <2>1, <2>2
<1>. QED  BY <1>1, <1>2

\* RankBy gives each car a place of its own, by ascending key.
Before(key, a, b) == LexLess(key[a], key[b]) \/ (key[a] = key[b] /\ a < b)

LEMMA RankByOrders ==
  ASSUME NEW n \in {1, 5}, NEW S \in SUBSET Cars, NEW key \in [S -> Keys(n)]
  PROVE  /\ RankBy(key) \in [S -> 1..Cardinality(S)]
         /\ \A a, b \in S : RankBy(key)[a] < RankBy(key)[b] <=> Before(key, a, b)
         /\ \A a, b \in S : RankBy(key)[a] = RankBy(key)[b] => a = b
<1>. DEFINE B == {p \in S \X S : Before(key, p[1], p[2])}
<1>1. IsFiniteSet(S) /\ S \subseteq Nat
  BY RankingAssumption, FS_Subset DEF RankingAssumption
<1>2. \A a, b \in S : <<a, b>> \in B <=> Before(key, a, b)
  OBVIOUS
<1>3. ASSUME NEW a \in S PROVE ~Before(key, a, a)
  BY <1>1, LexIrreflexive DEF Before
<1>4. ASSUME NEW a \in S, NEW b \in S, NEW c \in S, Before(key, a, b), Before(key, b, c)
      PROVE  Before(key, a, c)
  <2>1. key[a] \in Keys(n) /\ key[b] \in Keys(n) /\ key[c] \in Keys(n)
    OBVIOUS
  <2>. QED  BY <1>1, <1>4, <2>1, LexTransitive DEF Before
<1>5. ASSUME NEW a \in S, NEW b \in S, a # b PROVE Before(key, a, b) \/ Before(key, b, a)
  <2>1. key[a] \in Keys(n) /\ key[b] \in Keys(n)
    OBVIOUS
  <2>. QED  BY <1>1, <1>5, <2>1, LexTotal DEF Before
<1>6. DOMAIN key = S
  OBVIOUS
<1>7. RankBy(key) = [c \in S |-> 1 + Cardinality({d \in S : <<d, c>> \in B})]
  <2>1. ASSUME NEW c \in S PROVE {d \in S : Before(key, d, c)} = {d \in S : <<d, c>> \in B}
    BY <1>2
  <2>2. RankBy(key) = [c \in S |-> 1 + Cardinality({d \in S : Before(key, d, c)})]
    BY <1>6 DEF RankBy, Before
  <2>. QED  BY <2>1, <2>2
<1>8. /\ \A a \in S : <<a, a>> \notin B
      /\ \A a, b, c \in S : <<a, b>> \in B /\ <<b, c>> \in B => <<a, c>> \in B
      /\ \A a, b \in S : a # b => <<a, b>> \in B \/ <<b, a>> \in B
  BY <1>2, <1>3, <1>4, <1>5
<1>9. /\ RankBy(key) \in [S -> 1..Cardinality(S)]
      /\ \A a, b \in S : RankBy(key)[a] < RankBy(key)[b] <=> <<a, b>> \in B
      /\ \A a, b \in S : RankBy(key)[a] = RankBy(key)[b] => a = b
  <2>. HIDE DEF B
  <2>. QED  BY <1>1, <1>7, <1>8, CountingRanks
<1>. QED  BY <1>2, <1>9

------------------------------------------------------------------------------
(* What was heard of a car, and what a line of the timing says.            *)

GoodGap(g) == \E m \in 0..N, k \in Spreads : g = m * k

Row(s) ==
  /\ s.f1 \in 0..N /\ GoodGap(s.gap)
  /\ s.down \in 0..TotalLaps /\ s.laps \in 0..TotalLaps /\ s.out \in BOOLEAN

Said(l) ==
  /\ l.position \in 0..N /\ GoodGap(l.gap)
  /\ l.down \in 0..TotalLaps /\ l.laps \in 0..TotalLaps /\ l.out \in BOOLEAN

LEMMA NumberOfCars == N \in Nat \ {0} /\ TotalLaps \in Nat
<1>1. N \in Nat
  BY RankingAssumption, FS_CardinalityType DEF RankingAssumption, N
<1>2. N # 0
  BY RankingAssumption, FS_EmptySet DEF RankingAssumption, N
<1>. QED  BY <1>1, <1>2, RankingAssumption DEF RankingAssumption

LEMMA NoGap == GoodGap(Nothing)
<1>1. PICK k \in Spreads : k \in Nat
  BY RankingAssumption DEF RankingAssumption
<1>2. 0 \in 0..N /\ 0 * k = 0
  BY <1>1, NumberOfCars
<1>. QED  BY <1>2 DEF GoodGap, Nothing

LEMMA GapIsNat ==
  ASSUME NEW g, GoodGap(g) PROVE g \in Nat
<1>1. PICK m \in 0..N, k \in Spreads : g = m * k
  BY DEF GoodGap
<1>2. m \in Nat /\ k \in Nat
  BY NumberOfCars, RankingAssumption DEF RankingAssumption
<1>. QED  BY <1>1, <1>2

\* A line's Position and flags are taken over, a Position only if there is one.
LEMMA UpdateFields ==
  ASSUME NEW s, NEW l
  PROVE  /\ UpdateGapState(s, l).f1 = IF l.position # Nothing THEN l.position ELSE s.f1
         /\ UpdateGapState(s, l).out = l.out
BY DEF UpdateGapState

\* A line updates a row to a row.
LEMMA UpdateKeepsRow ==
  ASSUME NEW s, NEW l, Row(s), Said(l) PROVE Row(UpdateGapState(s, l))
<1>1. UpdateGapState(s, l).gap \in {l.gap, Nothing, s.gap}
  BY DEF UpdateGapState
<1>2. UpdateGapState(s, l).down \in {l.down, 0, s.down}
  BY DEF UpdateGapState
<1>3. GoodGap(UpdateGapState(s, l).gap)
  BY <1>1, NoGap DEF Row, Said
<1>. QED
  BY <1>2, <1>3, NumberOfCars DEF UpdateGapState, Row, Said

\* A running order is an order, and has a leader.
LEMMA RunningOrder ==
  ASSUME place \in Bijection(Cars, 1..N)
  PROVE  /\ place \in [Cars -> 1..N]
         /\ \A c, d \in Cars : place[c] = place[d] => c = d
         /\ Leader \in Cars /\ place[Leader] = 1
<1>1. /\ place \in [Cars -> 1..N] /\ IsInjective(place)
      /\ \A p \in 1..N : \E c \in Cars : place[c] = p
  BY DEF Bijection, Injection, Surjection
<1>2. \E c \in Cars : place[c] = 1
  BY <1>1, NumberOfCars
<1>. QED  BY <1>1, <1>2 DEF Leader, IsInjective

RaceTypes ==
  /\ place \in Bijection(Cars, 1..N)
  /\ spread \in Spreads
  /\ laps \in [Cars -> 0..TotalLaps] /\ down \in [Cars -> 0..TotalLaps]

\* What F1 knows of a car is a line that it can tell.
LEMMA LineIsSaid ==
  ASSUME RaceTypes, NEW c \in Cars
  PROVE  Said(Line(c)) /\ Line(c).position \in 1..N /\ Line(c).position = place[c]
         /\ Line(c).out = (c \in out)
<1>1. place[c] \in 1..N /\ laps[c] \in 0..TotalLaps /\ down[c] \in 0..TotalLaps
  BY RunningOrder DEF RaceTypes
<1>2. place[c] - 1 \in 0..N
  BY <1>1, NumberOfCars
<1>3. GoodGap((place[c] - 1) * spread)
  BY <1>2 DEF GoodGap, RaceTypes
<1>4. GoodGap(Line(c).gap)
  BY <1>3, NoGap DEF Line
<1>. QED  BY <1>1, <1>4, NumberOfCars DEF Line, Said

LEMMA DifferenceIsSaid ==
  ASSUME RaceTypes, NEW c \in Cars
  PROVE  Said(Difference(c)) /\ Difference(c).out = (c \in out)
<1>1. place[c] \in 1..N /\ laps[c] \in 0..TotalLaps /\ down[c] \in 0..TotalLaps
  BY RunningOrder DEF RaceTypes
<1>2. GoodGap(Line(c).gap)
  BY LineIsSaid DEF Said
<1>3. GoodGap(Difference(c).gap)
  BY <1>2, NoGap DEF Difference
<1>. QED  BY <1>1, <1>3, NumberOfCars DEF Difference, Said, Nothing

------------------------------------------------------------------------------
(* The ingestor's operations on its table.                                 *)

Table ==
  /\ \A c \in Cars : Row(heard[c]) /\ lapSeq[c] \in 0..messageSeq
  /\ messageSeq \in 0..(N + 1)

\* Hearing lines keeps rows, and renumbering keeps the messages within bounds.
LEMMA HearKeepsTable ==
  ASSUME Table, NEW lines, DOMAIN lines \subseteq Cars,
         \A c \in DOMAIN lines : Said(lines[c]),
         NEW seq \in Nat, seq >= messageSeq, Hear(lines, seq)
  PROVE  /\ Table'
         /\ \A c \in Cars : heard'[c] = IF c \in DOMAIN lines
                                          THEN UpdateGapState(heard[c], lines[c]) ELSE heard[c]
<1>1. \A c \in Cars : heard'[c] = IF c \in DOMAIN lines
                                    THEN UpdateGapState(heard[c], lines[c]) ELSE heard[c]
  BY DEF Hear
<1>2. \A c \in Cars : Row(heard'[c])
  BY <1>1, UpdateKeepsRow DEF Table
<1>. DEFINE toldAt == [c \in Cars |-> IF heard'[c].laps > heard[c].laps THEN seq ELSE lapSeq[c]]
            Img == {toldAt[c] : c \in Cars}
            used == {0, seq} \cup Img
            below(n) == {m \in used : m < n}
<1>3. /\ lapSeq' = [c \in Cars |-> Cardinality(below(toldAt[c]))]
      /\ messageSeq' = Cardinality(below(seq))
  BY DEF Hear
<1>4. \A c \in Cars : toldAt[c] \in Nat /\ toldAt[c] <= seq
  BY NumberOfCars DEF Table
<1>5. IsFiniteSet(Img) /\ Cardinality(Img) <= N
  <2>1. toldAt \in Surjection(Cars, Img)
    BY DEF Surjection
  <2>2. IsFiniteSet(Cars)
    BY RankingAssumption DEF RankingAssumption
  <2>. HIDE DEF toldAt, Img
  <2>. QED  BY <2>1, <2>2, FS_Surjection DEF N
<1>6. IsFiniteSet(Img \cup {0}) /\ Cardinality(Img \cup {0}) \in Nat
      /\ Cardinality(Img \cup {0}) <= N + 1
  <2>. HIDE DEF Img
  <2>1. Cardinality(Img) \in Nat
    BY <1>5, FS_CardinalityType
  <2>2. IsFiniteSet(Img \cup {0})
        /\ Cardinality(Img \cup {0}) = IF 0 \in Img THEN Cardinality(Img) ELSE Cardinality(Img) + 1
    BY <1>5, FS_AddElement
  <2>. QED  BY <1>5, <2>1, <2>2, NumberOfCars
<1>7. ASSUME NEW n \in Nat, n <= seq
      PROVE  /\ IsFiniteSet(below(n)) /\ Cardinality(below(n)) \in Nat
             /\ Cardinality(below(n)) <= N + 1
  <2>1. below(n) \in SUBSET (Img \cup {0})
    BY <1>7
  <2>2. IsFiniteSet(below(n)) /\ Cardinality(below(n)) <= Cardinality(Img \cup {0})
    <3>. HIDE DEF below, Img
    <3>. QED  BY <1>6, <2>1, FS_Subset
  <2>3. Cardinality(below(n)) \in Nat
    BY <2>2, FS_CardinalityType
  <2>. HIDE DEF below, Img
  <2>. QED  BY <1>6, <2>2, <2>3, NumberOfCars
<1>8. messageSeq' \in 0..(N + 1)
  <2>1. Cardinality(below(seq)) \in Nat /\ Cardinality(below(seq)) <= N + 1
    <3>1. seq <= seq
      OBVIOUS
    <3>. HIDE DEF below
    <3>. QED  BY <1>7, <3>1
  <2>. HIDE DEF below
  <2>. QED  BY <1>3, <2>1, NumberOfCars
<1>9. ASSUME NEW c \in Cars PROVE lapSeq'[c] \in 0..messageSeq'
  <2>1. toldAt[c] \in Nat /\ toldAt[c] <= seq
    BY <1>4
  <2>2. below(toldAt[c]) \in SUBSET below(seq)
    <3>1. ASSUME NEW m \in used PROVE m \in Nat
      BY <1>4
    <3>. HIDE DEF toldAt, used
    <3>2. ASSUME NEW m \in used, m < toldAt[c] PROVE m < seq
      BY <2>1, <3>1, <3>2
    <3>. QED  BY <3>2
  <2>. HIDE DEF below
  <2>3. Cardinality(below(toldAt[c])) <= Cardinality(below(seq))
    BY <1>7, <2>2, FS_Subset
  <2>4. Cardinality(below(toldAt[c])) \in Nat /\ Cardinality(below(seq)) \in Nat
    BY <1>7, <2>1
  <2>. QED  BY <1>3, <2>3, <2>4
<1>. QED  BY <1>1, <1>2, <1>8, <1>9 DEF Table, N

\* A key of the right length.
LEMMA OneTuple ==
  ASSUME NEW x \in Int PROVE <<x>> \in Keys(1)
BY DEF Keys

LEMMA GapKeyIsKey ==
  ASSUME NEW s, Row(s), NEW seq \in Int, NEW p \in Int PROVE GapKey(s, seq, p) \in Keys(5)
<1>1. OrLast(p) \in Int
  BY DEF OrLast
<1>2. s.gap \in Int /\ s.down \in Int /\ -s.laps \in Int /\ s.down >= 0
  BY NumberOfCars, GapIsNat DEF Row
<1>3. ASSUME NEW x1 \in Int, NEW x2 \in Int, NEW x3 \in Int, NEW x4 \in Int, NEW x5 \in Int
      PROVE  <<x1, x2, x3, x4, x5>> \in Keys(5)
  BY DEF Keys
<1>4. {0, 1, 2} \subseteq Int
  OBVIOUS
<1>5. CASE s.down > 0
  <2>1. GapKey(s, seq, p) = <<2, s.down, -s.laps, seq, OrLast(p)>>
    BY <1>5 DEF GapKey
  <2>2. <<2, s.down, -s.laps, seq, OrLast(p)>> \in Keys(5)
    BY <1>1, <1>2, <1>3, <1>4, Zenon
  <2>. QED  BY <2>1, <2>2, Zenon
<1>6. CASE ~(s.down > 0) /\ s.gap # Nothing
  <2>1. s.down = 0
    BY <1>2, <1>6
  <2>2. GapKey(s, seq, p) = <<1, s.gap, 0, 0, 0>>
    BY <1>6, <2>1 DEF GapKey
  <2>3. <<1, s.gap, 0, 0, 0>> \in Keys(5)
    BY <1>2, <1>3, <1>4, Zenon
  <2>. QED  BY <2>2, <2>3, Zenon
<1>7. CASE ~(s.down > 0) /\ s.gap = Nothing
  <2>1. GapKey(s, seq, p) = <<0, OrLast(p), 0, 0, 0>>
    BY <1>7 DEF GapKey
  <2>2. <<0, OrLast(p), 0, 0, 0>> \in Keys(5)
    BY <1>1, <1>3, <1>4, Zenon
  <2>. QED  BY <2>1, <2>2, Zenon
<1>. QED  BY <1>5, <1>6, <1>7

\* What _recompute_positions is given.
Rankable(table, seqs, positions) ==
  \A c \in Cars : Row(table[c]) /\ seqs[c] \in Int /\ positions[c] \in Int

\* The cars in the ranking get a place of their own and the others none; by
\* Position where that can be used.
Ranks(result, table, seen) ==
  /\ result \in [Cars -> 0..N]
  /\ \A c, d \in Cars : result[c] = result[d] /\ result[c] # Nothing => c = d
  /\ \A c \in Cars : ~table[c].out => result[c] # Nothing
  /\ F1Usable(table, {c \in Cars : ~table[c].out}, seen) =>
       \A c, d \in {e \in Cars : ~table[e].out} :
         result[c] < result[d] <=> table[c].f1 < table[d].f1

LEMMA RecomputeRanks ==
  ASSUME NEW table, NEW seqs, NEW positions, NEW seen, Rankable(table, seqs, positions)
  PROVE  Ranks(Recompute(table, seqs, positions, seen), table, seen)
<1>. USE DEF Rankable
<1>. DEFINE R == {c \in Cars : ~table[c].out}
            usable == F1Usable(table, R, seen)
            key == [c \in R |-> IF usable THEN <<table[c].f1>>
                                           ELSE GapKey(table[c], seqs[c], positions[c])]
            n == IF usable THEN 1 ELSE 5
            result == Recompute(table, seqs, positions, seen)
<1>1. R \in SUBSET Cars /\ n \in {1, 5}
  OBVIOUS
<1>2. key \in [R -> Keys(n)]
  <2>1. ASSUME NEW c \in R PROVE key[c] \in Keys(n)
    <3>1. CASE usable
      <4>1. table[c].f1 \in Int
        BY NumberOfCars DEF Row
      <4>2. key[c] = <<table[c].f1>> /\ n = 1
        BY <3>1
      <4>. QED  BY <4>1, <4>2, OneTuple
    <3>2. CASE ~usable
      <4>1. key[c] = GapKey(table[c], seqs[c], positions[c]) /\ n = 5
        BY <3>2
      <4>2. GapKey(table[c], seqs[c], positions[c]) \in Keys(5)
        BY GapKeyIsKey
      <4>. QED  BY <4>1, <4>2
    <3>. QED  BY <3>1, <3>2
  <2>2. key = [c \in R |-> key[c]]
    OBVIOUS
  <2>. HIDE DEF key, R, n
  <2>. QED  BY <2>1, <2>2
<1>3. /\ RankBy(key) \in [R -> 1..Cardinality(R)]
      /\ \A a, b \in R : RankBy(key)[a] < RankBy(key)[b] <=> Before(key, a, b)
      /\ \A a, b \in R : RankBy(key)[a] = RankBy(key)[b] => a = b
  <2>. HIDE DEF key, R, n
  <2>. QED  BY <1>1, <1>2, RankByOrders
<1>4. Cardinality(R) \in Nat /\ Cardinality(R) <= N
  <2>1. IsFiniteSet(Cars)
    BY RankingAssumption DEF RankingAssumption
  <2>. HIDE DEF R
  <2>2. IsFiniteSet(R) /\ Cardinality(R) <= Cardinality(Cars)
    BY <1>1, <2>1, FS_Subset
  <2>. QED  BY <2>2, FS_CardinalityType DEF N
<1>5. result = [c \in Cars |-> IF table[c].out THEN Nothing ELSE RankBy(key)[c]]
  BY DEF Recompute, Ranking
<1>. HIDE DEF result
<1>6. ASSUME NEW c \in R PROVE RankBy(key)[c] \in 1..N /\ result[c] = RankBy(key)[c]
  <2>1. result[c] = RankBy(key)[c]
    BY <1>5
  <2>2. RankBy(key)[c] \in 1..Cardinality(R)
    BY <1>3
  <2>. HIDE DEF key, R
  <2>. QED  BY <1>4, <2>1, <2>2, NumberOfCars
<1>7. ASSUME NEW c \in Cars, c \notin R PROVE result[c] = Nothing
  <2>1. table[c].out
    BY <1>7 DEF Row
  <2>. QED  BY <1>5, <2>1
<1>8. result \in [Cars -> 0..N]
  <2>1. ASSUME NEW c \in Cars PROVE result[c] \in 0..N
    <3>. HIDE DEF key
    <3>1. CASE c \in R
      <4>1. result[c] \in 1..N
        BY <1>6, <3>1
      <4>. QED  BY <4>1, NumberOfCars
    <3>2. CASE c \notin R
      BY <1>7, <3>2, NumberOfCars DEF Nothing
    <3>. QED  BY <3>1, <3>2
  <2>2. result = [c \in Cars |-> result[c]]
    BY <1>5
  <2>. QED  BY <2>1, <2>2
<1>9. \A c, d \in Cars : result[c] = result[d] /\ result[c] # Nothing => c = d
  BY <1>3, <1>6, <1>7
<1>10. \A c \in R : result[c] # Nothing
  <2>1. ASSUME NEW c \in R PROVE result[c] \in 1..N
    <3>. HIDE DEF key, R
    <3>. QED  BY <1>6
  <2>. QED  BY <2>1, NumberOfCars DEF Nothing
<1>11. ASSUME usable, NEW c \in R, NEW d \in R
       PROVE  result[c] < result[d] <=> table[c].f1 < table[d].f1
  <2>1. key[c] = <<table[c].f1>> /\ key[d] = <<table[d].f1>>
    BY <1>11
  <2>2. table[c].f1 \in Int /\ table[d].f1 \in Int /\ (table[c].f1 = table[d].f1 => c = d)
    BY <1>11, NumberOfCars DEF F1Usable, Row
  <2>3. LexLess(<<table[c].f1>>, <<table[d].f1>>) <=> table[c].f1 < table[d].f1
    BY <2>2 DEF LexLess
  <2>4. key[c] = key[d] /\ c < d => FALSE
    <3>1. c \in Nat /\ d \in Nat
      BY RankingAssumption DEF RankingAssumption
    <3>2. key[c] = key[d] => table[c].f1 = table[d].f1
      BY <2>1
    <3>. QED  BY <2>2, <3>1, <3>2
  <2>5. Before(key, c, d) <=> table[c].f1 < table[d].f1
    BY <2>1, <2>3, <2>4 DEF Before
  <2>. QED  BY <1>3, <1>6, <2>5
<1>. QED  BY <1>8, <1>9, <1>10, <1>11 DEF Ranks, result

ListedOf(positions) == {c \in Mapped : positions[c] # Nothing}

StandingsOf(positions) == RankBy([c \in ListedOf(positions) |-> <<positions[c]>>])

\* The standings made of distinct positions: what they list, and in which order.
LEMMA StandingsOrder ==
  ASSUME NEW positions, \A c \in Cars : positions[c] \in 0..N
  PROVE  /\ IsStandings(StandingsOf(positions))
         /\ DOMAIN StandingsOf(positions) = ListedOf(positions)
         /\ \A c, d \in ListedOf(positions) :
              positions[c] # positions[d] =>
                (StandingsOf(positions)[c] < StandingsOf(positions)[d]
                   <=> positions[c] < positions[d])
<1>. DEFINE S == ListedOf(positions)
            key == [c \in S |-> <<positions[c]>>]
<1>1. S \in SUBSET Cars /\ S \subseteq Mapped
  BY RankingAssumption DEF RankingAssumption, ListedOf
<1>2. \A c \in S : positions[c] \in Int
  BY <1>1, NumberOfCars
<1>3. key \in [S -> Keys(1)]
  BY <1>2, OneTuple
<1>4. /\ RankBy(key) \in [S -> 1..Cardinality(S)]
      /\ \A a, b \in S : RankBy(key)[a] < RankBy(key)[b] <=> Before(key, a, b)
      /\ \A a, b \in S : RankBy(key)[a] = RankBy(key)[b] => a = b
  <2>. HIDE DEF key, S
  <2>. QED  BY <1>1, <1>3, RankByOrders
<1>5. StandingsOf(positions) = RankBy(key)
  BY DEF StandingsOf
<1>6. IsStandings(RankBy(key)) /\ DOMAIN RankBy(key) = S
  <2>. HIDE DEF key, S
  <2>. QED  BY <1>1, <1>4 DEF IsStandings, IsInjective
<1>7. ASSUME NEW c \in S, NEW d \in S, positions[c] # positions[d]
      PROVE  RankBy(key)[c] < RankBy(key)[d] <=> positions[c] < positions[d]
  <2>1. key[c] = <<positions[c]>> /\ key[d] = <<positions[d]>>
    OBVIOUS
  <2>2. key[c] # key[d]
    BY <1>7, <2>1
  <2>3. LexLess(<<positions[c]>>, <<positions[d]>>) <=> positions[c] < positions[d]
    BY <1>2 DEF LexLess
  <2>4. Before(key, c, d) <=> positions[c] < positions[d]
    BY <2>1, <2>2, <2>3 DEF Before
  <2>. QED  BY <1>4, <2>4
<1>. QED  BY <1>5, <1>6, <1>7

\* Publishing keeps the published standings standings, and shows the positions.
LEMMA PublishShows ==
  ASSUME NEW positions, \A c \in Cars : positions[c] \in 0..N, NEW seen,
         IsStandings(gaps), IsStandings(final), PublishLiveGaps(positions, seen)
  PROVE  /\ IsStandings(gaps') /\ IsStandings(final')
         /\ ListedOf(positions) # {} => gaps' = StandingsOf(positions)
<1>1. CASE ListedOf(positions) = {}
  <2>1. UNCHANGED <<gaps, final>>
    BY <1>1 DEF PublishLiveGaps, ListedOf, publicVars
  <2>. QED  BY <1>1, <2>1
<1>2. CASE ListedOf(positions) # {}
  <2>1. gaps' = StandingsOf(positions) /\ final' \in {final, StandingsOf(positions)}
    BY <1>2 DEF PublishLiveGaps, ListedOf, StandingsOf
  <2>2. IsStandings(StandingsOf(positions))
    BY StandingsOrder
  <2>. QED  BY <2>1, <2>2
<1>. QED  BY <1>1, <1>2

------------------------------------------------------------------------------
(* The invariant.                                                          *)

Typed ==
  /\ RaceTypes /\ overtakes \in 0..MaxOvertakes
  /\ out \subseteq Cars /\ flagged \subseteq Cars
  /\ streams \in Streams
  /\ link \in BOOLEAN /\ positionDiffSeen \in BOOLEAN /\ leadChanged \in BOOLEAN
  /\ Table
  /\ lapsSeen \in [Cars -> 0..TotalLaps]
  /\ \A c \in Cars : position[c] \in 0..N
  /\ \A c, d \in Cars : position[c] = position[d] /\ position[c] # Nothing => c = d
  /\ IsStandings(gaps) /\ IsStandings(final)

\* While connected, what was heard of a car is what F1 told: its flags, and its
\* Position where that streams; Position counts only where it streams.
HeardAsTold ==
  /\ link => \A c \in Cars : told[c].position \in 1..N /\ told[c].out = heard[c].out
  /\ link /\ streams => \A c \in Cars : heard[c].f1 = told[c].position
  /\ positionDiffSeen => streams

\* The published standings are those of the positions.
Shown == ListedOf(position) # {} => gaps = StandingsOf(position)

Running == {c \in Cars : ~told[c].out}

\* Once Position has streamed, the cars that F1 tells are running are in the
\* order it told, unless it has told the same place of two of them.
ToldOrder ==
  positionDiffSeen /\ link /\ (\A c, d \in Running : told[c].position = told[d].position => c = d)
    => /\ \A c \in Running : position[c] # Nothing
       /\ \A c, d \in Running : position[c] < position[d] <=> told[c].position < told[d].position

RankInv == Typed /\ HeardAsTold /\ Shown /\ ToldOrder

LEMMA TypedIsTypeOK == Typed => RankingTypeOK
<1> SUFFICES ASSUME Typed PROVE RankingTypeOK
  OBVIOUS
<1>1. IsInjective(place) /\ place \in [Cars -> 1..Cardinality(Cars)]
  BY DEF Typed, RaceTypes, Bijection, Injection, N
<1>2. ASSUME NEW c \in Cars
      PROVE  /\ {position[c], heard[c].f1} \subseteq 0..Cardinality(Cars)
             /\ \E n \in 0..Cardinality(Cars), k \in Spreads : heard[c].gap = n * k
             /\ {heard[c].down, heard[c].laps} \subseteq 0..TotalLaps
             /\ heard[c].out \in BOOLEAN /\ lapSeq[c] \in 0..messageSeq
  BY DEF Typed, Table, Row, GoodGap, N
<1>3. messageSeq \in 0..(Cardinality(Cars) + 1)
  BY DEF Typed, Table, N
<1>. QED  BY <1>1, <1>2, <1>3 DEF Typed, RaceTypes, RankingTypeOK

\* It holds at first.
LEMMA InitRankInv == RankingInit => RankInv
<1> SUFFICES ASSUME RankingInit PROVE RankInv
  OBVIOUS
<1>1. RaceTypes
  BY RankingAssumption, NumberOfCars DEF RankingInit, RaceTypes, RankingAssumption, N
<1>2. Table
  <2>1. Row(Unknown)
    BY NoGap, NumberOfCars DEF Row, Unknown, Nothing
  <2>. QED  BY <2>1, NumberOfCars DEF RankingInit, Table
<1>3. IsStandings(Nobody)
  BY DEF IsStandings, Nobody, IsInjective
<1>4. Typed
  <2>1. overtakes \in 0..MaxOvertakes /\ lapsSeen \in [Cars -> 0..TotalLaps]
    BY RankingAssumption, NumberOfCars DEF RankingInit, RankingAssumption
  <2>2. /\ \A c \in Cars : position[c] = Nothing
        /\ \A c \in Cars : position[c] \in 0..N
    BY NumberOfCars DEF RankingInit, Nothing
  <2>3. IsStandings(gaps) /\ IsStandings(final)
    BY <1>3 DEF RankingInit
  <2>4. /\ out \subseteq Cars /\ flagged \subseteq Cars /\ streams \in Streams
        /\ link \in BOOLEAN /\ positionDiffSeen \in BOOLEAN /\ leadChanged \in BOOLEAN
    BY DEF RankingInit
  <2>. QED  BY <1>1, <1>2, <2>1, <2>2, <2>3, <2>4 DEF Typed
<1>5. HeardAsTold /\ ToldOrder
  BY DEF RankingInit, HeardAsTold, ToldOrder
<1>6. Shown
  <2>1. ListedOf(position) = {}
    BY RankingAssumption DEF RankingInit, ListedOf, RankingAssumption
  <2>. QED  BY <2>1 DEF Shown
<1>. QED  BY <1>4, <1>5, <1>6 DEF RankInv

\* The race itself leaves the ingestor's side alone.
LEMMA RaceKeepsRankInv ==
  ASSUME RankInv, UNCHANGED <<feedVars, tableVars, publicVars>>,
         RaceTypes', overtakes' \in 0..MaxOvertakes, out' \subseteq Cars, flagged' \subseteq Cars,
         leadChanged' \in BOOLEAN
  PROVE  RankInv'
<1>1. Typed'
  BY DEF RankInv, Typed, feedVars, tableVars, publicVars, Table
<1>2. HeardAsTold' /\ Shown' /\ ToldOrder'
  BY DEF RankInv, feedVars, tableVars, publicVars, HeardAsTold, Shown, ToldOrder, Running
<1>. QED  BY <1>1, <1>2 DEF RankInv

\* Cars that cross the line stay within the distance.
LEMMA CrossLineKeeps ==
  ASSUME RankInv, NEW c \in Cars, CrossLine(c) PROVE RankInv'
<1>1. RaceTypes /\ flagged \subseteq Cars /\ TotalLaps \in Nat
  BY NumberOfCars DEF RankInv, Typed
<1>2. Leader \in Cars
  BY <1>1, RunningOrder DEF RaceTypes
<1>3. laps[c] < TotalLaps
  <2>1. CASE c = Leader
    BY <2>1 DEF CrossLine, MayCross
  <2>2. CASE c # Leader
    <3>1. laps[Leader] - laps[c] > down[c]
      BY <2>2 DEF CrossLine, MayCross
    <3>. QED  BY <1>1, <1>2, <3>1 DEF RaceTypes
  <2>. QED  BY <2>1, <2>2
<1>4. laps' \in [Cars -> 0..TotalLaps]
  BY <1>1, <1>3 DEF CrossLine, RaceTypes
<1>5. down' \in [Cars -> 0..TotalLaps]
  <2>1. ASSUME NEW d \in Cars
        PROVE  (IF c = Leader /\ laps'[c] - laps[d] - 1 > down[d]
                  THEN laps'[c] - laps[d] - 1 ELSE down[d]) \in 0..TotalLaps
    BY <1>1, <1>4 DEF RaceTypes
  <2>2. down' = [d \in Cars |-> IF c = Leader /\ laps'[c] - laps[d] - 1 > down[d]
                                  THEN laps'[c] - laps[d] - 1 ELSE down[d]]
    BY DEF CrossLine
  <2>. QED  BY <2>1, <2>2
<1>6. RaceTypes'
  <2>1. place' = place /\ spread' \in Spreads
    BY <1>1 DEF CrossLine, RaceTypes
  <2>. QED  BY <1>1, <1>4, <1>5, <2>1 DEF RaceTypes
<1>7. flagged' \subseteq Cars
  BY <1>1 DEF CrossLine
<1>. QED  BY <1>6, <1>7, RaceKeepsRankInv DEF CrossLine, Elsewhere, RankInv, Typed

\* Overtaking swaps two cars.
LEMMA OvertakeKeeps ==
  ASSUME RankInv, NEW c \in Cars, Overtake(c) PROVE RankInv'
<1>1. PICK d \in Cars : /\ place[d] = place[c] - 1
                        /\ place' = [place EXCEPT ![c] = place[d], ![d] = place[c]]
  BY DEF Overtake
<1>2. /\ place \in [Cars -> 1..N]
      /\ \A x, y \in Cars : place[x] = place[y] => x = y
      /\ \A p \in 1..N : \E x \in Cars : place[x] = p
  BY DEF RankInv, Typed, RaceTypes, Bijection, Injection, Surjection, IsInjective
<1>3. c # d
  BY <1>1, <1>2
<1>4. /\ place' \in [Cars -> 1..N]
      /\ place'[c] = place[d] /\ place'[d] = place[c]
      /\ \A x \in Cars \ {c, d} : place'[x] = place[x]
  BY <1>1, <1>2, <1>3
<1>5. \A x, y \in Cars : place'[x] = place'[y] => x = y
  BY <1>2, <1>4
<1>6. ASSUME NEW p \in 1..N PROVE \E x \in Cars : place'[x] = p
  <2>1. PICK x \in Cars : place[x] = p
    BY <1>2
  <2>2. CASE x = c
    BY <1>4, <2>1, <2>2
  <2>3. CASE x = d
    BY <1>4, <2>1, <2>3
  <2>4. CASE x \notin {c, d}
    BY <1>4, <2>1, <2>4
  <2>. QED  BY <2>2, <2>3, <2>4
<1>7. place' \in Bijection(Cars, 1..N)
  BY <1>4, <1>5, <1>6 DEF Bijection, Injection, Surjection, IsInjective
<1>8. RaceTypes'
  BY <1>7 DEF Overtake, RankInv, Typed, RaceTypes
<1>9. overtakes' \in 0..MaxOvertakes
  BY RankingAssumption DEF Overtake, RankInv, Typed, RankingAssumption
<1>10. leadChanged' \in BOOLEAN
  BY DEF Overtake, RankInv, Typed
<1>. QED  BY <1>8, <1>9, <1>10, RaceKeepsRankInv DEF Overtake, Elsewhere, RankInv, Typed

\* The snapshot of a connection: every car is where F1 says.
LEMMA ConnectKeeps ==
  ASSUME RankInv, Connect PROVE RankInv'
<1>1. /\ RaceTypes /\ Table /\ IsStandings(gaps) /\ IsStandings(final)
      /\ told' = [c \in Cars |-> Line(c)]
      /\ Hear(told', messageSeq) /\ position' = Moved(told')
      /\ UNCHANGED <<raceVars, streams, positionDiffSeen, lapsSeen, leadChanged>> /\ link'
  BY DEF Connect, RankInv, Typed
<1>2. \A c \in Cars : /\ Said(told'[c]) /\ told'[c].position \in 1..N
                      /\ told'[c].position = place[c]
  BY <1>1, LineIsSaid
<1>3. /\ Table'
      /\ \A c \in Cars : heard'[c] = UpdateGapState(heard[c], told'[c])
  <2>1. DOMAIN told' = Cars
    BY <1>1
  <2>2. messageSeq \in Nat /\ messageSeq >= messageSeq
    BY <1>1, NumberOfCars DEF Table
  <2>. QED  BY <1>1, <1>2, <2>1, <2>2, HearKeepsTable
<1>4. \A c \in Cars : position'[c] = place[c] /\ position'[c] \in 1..N
  <2>1. \A c \in Cars : told'[c].position # Nothing
    BY <1>2, NumberOfCars DEF Nothing
  <2>. QED  BY <1>1, <1>2, <2>1 DEF Moved
<1>5. \A c, d \in Cars : position'[c] = position'[d] => c = d
  BY <1>1, <1>4, RunningOrder DEF RaceTypes
<1>6. /\ IsStandings(gaps') /\ IsStandings(final')
      /\ Shown'
  <2>1. CASE PublishLiveGaps(position', lapsSeen)
    <3>1. \A c \in Cars : position'[c] \in 0..N
      BY <1>4, NumberOfCars
    <3>. QED  BY <1>1, <2>1, <3>1, PublishShows DEF Shown
  <2>2. CASE UNCHANGED publicVars /\ <<heard', position'>> = <<heard, position>>
    BY <1>1, <2>2 DEF publicVars, RankInv, Shown
  <2>. QED  BY <2>1, <2>2 DEF Connect
<1>7. Typed'
  <2>1. RaceTypes'
    BY <1>1 DEF raceVars, RaceTypes
  <2>2. \A c \in Cars : position'[c] \in 0..N
    BY <1>4, NumberOfCars
  <2>3. /\ overtakes' \in 0..MaxOvertakes /\ out' \subseteq Cars /\ flagged' \subseteq Cars
        /\ streams' \in Streams /\ link' \in BOOLEAN /\ positionDiffSeen' \in BOOLEAN
        /\ leadChanged' \in BOOLEAN /\ lapsSeen' \in [Cars -> 0..TotalLaps]
    BY <1>1 DEF raceVars, RankInv, Typed, Connect
  <2>. QED  BY <1>3, <1>5, <1>6, <2>1, <2>2, <2>3 DEF Typed
<1>8. HeardAsTold'
  <2>1. ASSUME NEW c \in Cars
        PROVE  told'[c].out = heard'[c].out /\ heard'[c].f1 = told'[c].position
    <3>1. told'[c].position # Nothing
      BY <1>2, NumberOfCars DEF Nothing
    <3>. QED  BY <1>3, <3>1, UpdateFields
  <2>. QED  BY <1>1, <1>2, <2>1 DEF HeardAsTold, RankInv
<1>9. ToldOrder'
  BY <1>2, <1>4, NumberOfCars DEF ToldOrder, Running, Nothing
<1>. QED  BY <1>6, <1>7, <1>8, <1>9 DEF RankInv

\* A lost connection leaves the table and the standings.
LEMMA DropKeeps ==
  ASSUME RankInv, Drop PROVE RankInv'
<1>1. Typed'
  BY DEF Drop, RankInv, Typed, RaceTypes, Table, raceVars, tableVars, publicVars
<1>2. HeardAsTold' /\ Shown' /\ ToldOrder'
  BY DEF Drop, RankInv, HeardAsTold, Shown, ToldOrder, tableVars, publicVars
<1>. QED  BY <1>1, <1>2 DEF RankInv

\* A message of differences: the rows it is about are as told again, and the
\* field is ranked by Position where that can be used.
LEMMA TimingDataKeeps ==
  ASSUME RankInv, NEW D \in SUBSET News, TimingData(D) PROVE RankInv'
<1>. DEFINE lines == [c \in D |-> Difference(c)]
            ranked == {c \in Cars : ~heard'[c].out}
<1>1. /\ RaceTypes /\ Table /\ IsStandings(gaps) /\ IsStandings(final)
      /\ \A c \in Cars : position[c] \in 0..N
      /\ lapsSeen \in [Cars -> 0..TotalLaps]
      /\ streams \in BOOLEAN /\ positionDiffSeen \in BOOLEAN
      /\ D \subseteq Cars
  BY RankingAssumption DEF RankInv, Typed, News, RankingAssumption
<1>2. /\ told' = [c \in Cars |-> IF c \in D THEN Line(c) ELSE told[c]]
      /\ Hear(lines, messageSeq + 1)
      /\ positionDiffSeen' = (positionDiffSeen \/ \E c \in D : lines[c].position # Nothing)
      /\ position' = Recompute(heard', lapSeq', Moved(lines), positionDiffSeen')
      /\ lapsSeen' = [c \in Cars |-> IF c \in D /\ lines[c].laps > lapsSeen[c]
                                       THEN lines[c].laps ELSE lapsSeen[c]]
      /\ PublishLiveGaps(position', lapsSeen')
      /\ UNCHANGED <<raceVars, streams, link, leadChanged>> /\ link
  BY DEF TimingData
<1>3. DOMAIN lines = D /\ \A c \in D : lines[c] = Difference(c) /\ Said(lines[c])
                                     /\ lines[c].out = (c \in out)
  BY <1>1, DifferenceIsSaid
<1>. HIDE DEF lines
<1>4. /\ Table'
      /\ \A c \in Cars : heard'[c] = IF c \in D THEN UpdateGapState(heard[c], lines[c])
                                                ELSE heard[c]
  <2>1. messageSeq + 1 \in Nat /\ messageSeq + 1 >= messageSeq
    BY <1>1, NumberOfCars DEF Table
  <2>. QED  BY <1>1, <1>2, <1>3, <2>1, HearKeepsTable
<1>5. HeardAsTold'
  <2>1. ASSUME NEW c \in Cars
        PROVE  told'[c].position \in 1..N /\ told'[c].out = heard'[c].out
    <3>1. CASE c \in D
      BY <1>1, <1>2, <1>3, <1>4, <3>1, LineIsSaid, UpdateFields
    <3>2. CASE c \notin D
      BY <1>2, <1>4, <3>2 DEF RankInv, HeardAsTold
    <3>. QED  BY <3>1, <3>2
  <2>2. ASSUME streams, NEW c \in Cars
        PROVE  heard'[c].f1 = told'[c].position
    <3>1. heard[c].f1 = told[c].position
      BY <1>2, <2>2 DEF RankInv, HeardAsTold
    <3>2. CASE c \in D
      <4>1. told'[c].position = place[c] /\ place[c] \in 1..N
        BY <1>1, <1>2, <3>2, LineIsSaid
      <4>2. lines[c].position = IF place[c] # told[c].position THEN place[c] ELSE Nothing
        BY <1>3, <2>2, <3>2 DEF Difference
      <4>3. place[c] # Nothing
        BY <4>1, NumberOfCars DEF Nothing
      <4>4. heard'[c].f1 = IF lines[c].position # Nothing THEN lines[c].position ELSE heard[c].f1
        BY <1>4, <3>2, UpdateFields
      <4>. QED  BY <3>1, <4>1, <4>2, <4>3, <4>4
    <3>3. CASE c \notin D
      BY <1>2, <1>4, <3>1, <3>3
    <3>. QED  BY <3>2, <3>3
  <2>3. positionDiffSeen' => streams
    <3>1. ASSUME NEW c \in D, lines[c].position # Nothing PROVE streams
      BY <1>3, <3>1 DEF Difference
    <3>. QED  BY <1>2, <3>1 DEF RankInv, HeardAsTold
  <2>. QED  BY <1>2, <2>1, <2>2, <2>3 DEF HeardAsTold
<1>6. /\ position' \in [Cars -> 0..N]
      /\ \A c, d \in Cars : position'[c] = position'[d] /\ position'[c] # Nothing => c = d
      /\ \A c \in Cars : ~heard'[c].out => position'[c] # Nothing
      /\ F1Usable(heard', ranked, positionDiffSeen') =>
           \A c, d \in ranked : position'[c] < position'[d] <=> heard'[c].f1 < heard'[d].f1
  <2>1. \A c \in Cars : Moved(lines)[c] \in Int
    BY <1>1, <1>3, NumberOfCars DEF Moved, Said
  <2>2. Rankable(heard', lapSeq', Moved(lines))
    BY <1>4, <2>1 DEF Table, Rankable
  <2>3. Ranks(position', heard', positionDiffSeen')
    BY <1>2, <2>2, RecomputeRanks
  <2>. QED  BY <2>3 DEF Ranks
<1>7. IsStandings(gaps') /\ IsStandings(final') /\ Shown'
  BY <1>1, <1>2, <1>6, PublishShows DEF Shown
<1>8. Typed'
  <2>1. RaceTypes'
    BY <1>1, <1>2 DEF raceVars, RaceTypes
  <2>2. lapsSeen' \in [Cars -> 0..TotalLaps]
    BY <1>1, <1>2, <1>3 DEF Said
  <2>3. /\ overtakes' \in 0..MaxOvertakes /\ out' \subseteq Cars /\ flagged' \subseteq Cars
        /\ streams' \in Streams /\ link' \in BOOLEAN /\ positionDiffSeen' \in BOOLEAN
        /\ leadChanged' \in BOOLEAN
    BY <1>1, <1>2 DEF raceVars, RankInv, Typed
  <2>. QED  BY <1>4, <1>6, <1>7, <2>1, <2>2, <2>3 DEF Typed
<1>9. ToldOrder'
  <2>1. SUFFICES ASSUME positionDiffSeen',
                        \A c, d \in Running' : told'[c].position = told'[d].position => c = d
                 PROVE  /\ \A c \in Running' : position'[c] # Nothing
                        /\ \A c, d \in Running' :
                             position'[c] < position'[d] <=> told'[c].position < told'[d].position
    BY DEF ToldOrder
  <2>2. Running' = ranked /\ \A c \in Cars : /\ heard'[c].f1 = told'[c].position
                                             /\ told'[c].position \in 1..N
    BY <1>2, <1>5, <2>1 DEF HeardAsTold, Running
  <2>3. \A c \in Cars : heard'[c].f1 # Nothing
    BY <2>2, NumberOfCars DEF Nothing
  <2>4. F1Usable(heard', ranked, positionDiffSeen')
    BY <2>1, <2>2, <2>3 DEF F1Usable
  <2>. QED  BY <1>6, <2>2, <2>4
<1>. QED  BY <1>5, <1>7, <1>8, <1>9 DEF RankInv

\* Every step preserves the invariant.
LEMMA NextRankInv == RankInv /\ [RankingNext]_rankingVars => RankInv'
<1> SUFFICES ASSUME RankInv, [RankingNext]_rankingVars PROVE RankInv'
  OBVIOUS
<1>1. ASSUME NEW c \in Cars, StopOrGoOn(c) PROVE RankInv'
  <2>1. RaceTypes' /\ out' \subseteq Cars
    BY <1>1 DEF StopOrGoOn, RankInv, Typed, RaceTypes
  <2>. QED  BY <1>1, <2>1, RaceKeepsRankInv DEF StopOrGoOn, Elsewhere, RankInv, Typed
<1>2. CASE UNCHANGED rankingVars
  <2>1. RaceTypes'
    BY <1>2 DEF rankingVars, raceVars, RankInv, Typed, RaceTypes
  <2>. QED  BY <1>2, <2>1, RaceKeepsRankInv DEF rankingVars, raceVars, RankInv, Typed
<1>. QED
  BY <1>1, <1>2, CrossLineKeeps, OvertakeKeeps, ConnectKeeps, DropKeeps, TimingDataKeeps
     DEF RankingNext

\* Once F1 has told of everything, the standings are the running order.
LEMMA SettledInOrder == RankInv => OrderSettles
<1> SUFFICES ASSUME RankInv, Settled, positionDiffSeen PROVE InOrder
  BY DEF OrderSettles
<1>1. /\ link /\ \A c \in Cars : told[c] = Line(c)
  BY DEF Settled, News
<1>2. /\ place \in [Cars -> 1..N]
      /\ \A c, d \in Cars : place[c] = place[d] => c = d
  BY RunningOrder DEF RankInv, Typed, RaceTypes
<1>3. \A c \in Cars : told[c].position = place[c] /\ told[c].out = (c \in out)
  BY <1>1, LineIsSaid DEF RankInv, Typed
<1>4. /\ \A c \in Running : position[c] # Nothing
      /\ \A c, d \in Running : position[c] < position[d] <=> place[c] < place[d]
  BY <1>1, <1>2, <1>3 DEF RankInv, ToldOrder, Running
<1>5. InRace \subseteq Running /\ InRace \subseteq Mapped
  BY <1>3, RankingAssumption DEF InRace, Running, RankingAssumption
<1>6. InRace \subseteq ListedOf(position)
  BY <1>4, <1>5 DEF ListedOf
<1>7. CASE InRace = {}
  BY <1>7 DEF InOrder
<1>8. CASE InRace # {}
  <2>1. gaps = StandingsOf(position)
    BY <1>6, <1>8 DEF RankInv, Shown
  <2>2. /\ DOMAIN gaps = ListedOf(position)
        /\ \A c, d \in ListedOf(position) :
             position[c] # position[d] => (gaps[c] < gaps[d] <=> position[c] < position[d])
    BY <2>1, StandingsOrder DEF RankInv, Typed
  <2>3. ASSUME NEW c \in InRace, NEW d \in InRace
        PROVE  gaps[c] < gaps[d] <=> place[c] < place[d]
    <3>1. CASE c = d
      <4>1. gaps[c] \in Nat
        BY <1>6, <2>2, <3>1 DEF RankInv, Typed, IsStandings
      <4>2. place[c] \in Nat
        BY <1>2, <1>5, NumberOfCars DEF Running
      <4>. QED  BY <3>1, <4>1, <4>2
    <3>2. CASE c # d
      <4>1. c \in Cars /\ d \in Cars /\ position[c] # Nothing
        BY <1>4, <1>5 DEF Running
      <4>2. position[c] # position[d]
        BY <3>2, <4>1 DEF RankInv, Typed
      <4>. QED  BY <1>4, <1>5, <1>6, <2>2, <4>2
    <3>. QED  BY <3>1, <3>2
  <2>. QED  BY <1>6, <2>2, <2>3 DEF InOrder
<1>. QED  BY <1>7, <1>8

\* Every variable keeps its type: F1's gaps, laps and positions stay in range in
\* the table, message numbers are bounded, no two cars share a position, and what
\* is published is always a ranking of cars whose driver is known.
THEOREM RankingTypeCorrect == RankingSpec => []RankingTypeOK
<1>1. RankingSpec => []RankInv
  BY InitRankInv, NextRankInv, PTL DEF RankingSpec
<1>2. RankInv => RankingTypeOK
  BY TypedIsTypeOK DEF RankInv
<1>. QED  BY <1>1, <1>2, PTL

\* Whatever the race did, and in whatever order, groups and connections F1 told of
\* it, the standings are the running order once its messages have caught up.
THEOREM OrderSettlesHolds == RankingSpec => []OrderSettles
<1>1. RankingSpec => []RankInv
  BY InitRankInv, NextRankInv, PTL DEF RankingSpec
<1>. QED  BY <1>1, SettledInOrder, PTL
===============================================================================
