--------------------------- MODULE LiveArbitration ---------------------------
(***************************************************************************)
(* Who may drive the race page: a Demo Replay or a real live ingestion.    *)
(* services/demo_service.py starts, watches and stops one global replay    *)
(* through the Redis key f1:demo:replay:state; workers/                    *)
(* race_detection_worker.py claims a starting race, kills the replay and   *)
(* launches the ingestor; scripts/_replay_common.py and replay_playback.py *)
(* are the replay's process; services/live_race_detection.py is the check  *)
(* both sides rely on.  Every Redis round trip and every signal is a step  *)
(* of its own.                                                             *)
(***************************************************************************)
EXTENDS Naturals, FiniteSets

CONSTANTS
  Starts,     \* POST /demo/replay/start calls; each names the process it launches
  Stops,      \* callers of POST /demo/replay/stop
  Watchers,   \* callers of GET /demo/replay/status
  Polls,      \* check_for_live_session executions
  NoKey,      \* the state key is missing
  Pending     \* the claim sentinel "pending"

Calls == Starts \cup Stops \cup Watchers \cup Polls

ASSUME ArbitrationAssumption ==
  /\ Starts \cap (Stops \cup Watchers \cup Polls) = {}
  /\ Polls \cap (Stops \cup Watchers) = {}
  /\ NoKey # Pending
  /\ {NoKey, Pending} \cap Starts = {}

VARIABLES
  stateKey,   \* f1:demo:replay:state: NoKey, Pending or the pid it records
  trigger,    \* f1:{season}:{round}:R:auto_ingestion_triggered is set
  closed,     \* the race's launch window has passed
  at,         \* where each call and each poll is
  held,       \* the value of the state key a call read and acts upon
  proc,       \* each replay process
  ingestor,   \* the live ingestor each poll launches
  late,       \* history: a stop or a status probe deleted a key written after its GET
  missed      \* history: replays a poll's kill-switch found playing and did not stop

keys == <<stateKey, trigger>>
past == <<late, missed>>
vars == <<keys, closed, at, held, proc, ingestor, past>>

Places == {"idle", "scanTrigger", "claim", "launch", "unclaim", "store", "started",
           "refused", "kill", "delete", "probe", "force", "launchLive", "done", "lost"}

ProcStates == {"none", "booting", "scanned", "loading", "playing",
               "stopping", "dead"}

Goto(c, where) == at' = [at EXCEPT ![c] = where]
Alive(p) == proc[p] \notin {"none", "dead"}
Live(t) == ingestor[t] = "running"

\* A call that has read the state key and is about to delete it.
Clearing(c) == at[c] \in {"kill", "delete", "probe"}

\* A replay past its guard: nothing but a signal keeps it from writing the race's keys.
Playing(p) == proc[p] \in {"loading", "playing"}

------------------------------------------------------------------------------
Init ==
  /\ stateKey = NoKey
  /\ trigger = FALSE
  /\ closed = FALSE
  /\ at = [c \in Calls |-> "idle"]
  /\ held = [c \in Calls |-> NoKey]
  /\ proc = [p \in Starts |-> "none"]
  /\ ingestor = [t \in Polls |-> "none"]
  /\ late = FALSE
  /\ missed = {}

(* start_replay: detect_live_race (two scans), SET NX, Popen, SET.  A gaps   *)
(* key whose payload says "live" may be set by any ingestor, a hand-run one   *)
(* included, and lapses (30 s) in any lull of its feed: what the first scan    *)
(* finds is left open.                                                        *)

StartScanGaps(s) ==
  /\ at[s] = "idle"
  /\ \E live \in BOOLEAN : Goto(s, IF live THEN "refused" ELSE "scanTrigger")
  /\ UNCHANGED <<keys, closed, held, proc, ingestor, past>>

StartScanTrigger(s) ==
  /\ at[s] = "scanTrigger"
  /\ Goto(s, IF trigger THEN "refused" ELSE "claim")
  /\ UNCHANGED <<keys, closed, held, proc, ingestor, past>>

\* Mutant: the claim is a plain SET, without NX.
StartClaimNotExclusive(s) ==
  /\ at[s] = "claim"
  /\ stateKey' = Pending
  /\ Goto(s, "launch")
  /\ UNCHANGED <<trigger, closed, held, proc, ingestor, past>>

StartClaim(s) ==
  /\ at[s] = "claim"
  /\ IF stateKey = NoKey
       THEN stateKey' = Pending /\ Goto(s, "launch")
       ELSE UNCHANGED stateKey /\ Goto(s, "refused")
  /\ UNCHANGED <<trigger, closed, held, proc, ingestor, past>>

StartLaunch(s) ==
  /\ at[s] = "launch"
  /\ \/ proc' = [proc EXCEPT ![s] = "booting"] /\ Goto(s, "store")
     \/ UNCHANGED proc /\ Goto(s, "unclaim")  \* Popen raises OSError
  /\ UNCHANGED <<keys, closed, held, ingestor, past>>

StartUnclaim(s) ==
  /\ at[s] = "unclaim"
  /\ stateKey' = NoKey
  /\ Goto(s, "refused")
  /\ UNCHANGED <<trigger, closed, held, proc, ingestor, past>>

\* The payload with the pid is SET unconditionally over whatever is there.
StartStore(s) ==
  /\ at[s] = "store"
  /\ stateKey' = s
  /\ Goto(s, "started")
  /\ UNCHANGED <<trigger, closed, held, proc, ingestor, past>>

\* A Redis call raises, its effect done or not, or the API dies between two
\* steps: a claim stays "pending", and a child that was launched runs on.
StartLost(s) ==
  /\ at[s] \in {"scanTrigger", "claim", "launch", "unclaim", "store"}
  /\ Goto(s, IF at[s] = "store" THEN "lost" ELSE "refused")
  /\ UNCHANGED <<keys, closed, held, proc, ingestor, past>>

(* SIGTERM: the default action kills a process that has not installed its  *)
(* handler, and one still loading its window has nothing to clean up; a    *)
(* playing one starts its finally block; a second one cuts that block      *)
(* short, before or after its DELETE.                                      *)

AfterSigterm(state) ==
  CASE state \in {"booting", "scanned", "loading"} -> {"dead"}
    [] state = "playing" -> {"stopping"}
    [] state = "stopping" -> {"stopping", "dead"}
    [] OTHER -> {state}

Sigterm(p) ==
  \E next \in AfterSigterm(proc[p]) : proc' = [proc EXCEPT ![p] = next]

(* stop_replay: GET, SIGTERM, DELETE *)

StopRead(k) ==
  /\ at[k] = "idle"
  /\ stateKey \in Starts
  /\ held' = [held EXCEPT ![k] = stateKey]
  /\ Goto(k, "kill")
  /\ UNCHANGED <<keys, closed, proc, ingestor, past>>

StopKill(k) ==
  /\ at[k] = "kill"
  /\ Sigterm(held[k])
  /\ Goto(k, "delete")
  /\ UNCHANGED <<keys, closed, held, ingestor, past>>

\* The DELETE both stop_replay and the self-healing status end with, of whatever
\* the key holds by now; it may raise.
ClearKey(c) ==
  /\ at[c] = "delete"
  /\ \/ stateKey' = NoKey /\ late' = (late \/ stateKey \notin {held[c], NoKey})
     \/ UNCHANGED <<stateKey, late>>
  /\ held' = [held EXCEPT ![c] = NoKey]
  /\ Goto(c, "idle")
  /\ UNCHANGED <<trigger, closed, proc, ingestor, missed>>

(* get_replay_status: GET, probe the pid, DELETE when it is gone *)

StatusRead(q) ==
  /\ at[q] = "idle"
  /\ stateKey \in Starts
  /\ held' = [held EXCEPT ![q] = stateKey]
  /\ Goto(q, "probe")
  /\ UNCHANGED <<keys, closed, proc, ingestor, past>>

\* Mutant of StatusProbe: status clears the key of a replay that is still running.
StatusProbeInverted(q) ==
  /\ at[q] = "probe"
  /\ IF ~Alive(held[q])
       THEN held' = [held EXCEPT ![q] = NoKey] /\ Goto(q, "idle")
       ELSE UNCHANGED held /\ Goto(q, "delete")
  /\ UNCHANGED <<keys, closed, proc, ingestor, past>>

StatusProbe(q) ==
  /\ at[q] = "probe"
  /\ IF Alive(held[q])
       THEN held' = [held EXCEPT ![q] = NoKey] /\ Goto(q, "idle")
       ELSE UNCHANGED held /\ Goto(q, "delete")
  /\ UNCHANGED <<keys, closed, proc, ingestor, past>>

(* check_for_live_session: SET NX, GET, SIGTERM, DELETE, Popen *)

CloseWindow ==
  /\ ~closed
  /\ closed' = TRUE
  /\ UNCHANGED <<keys, at, held, proc, ingestor, past>>

PollClaim(t) ==
  /\ at[t] = "idle"
  /\ ~closed
  /\ trigger' = TRUE
  /\ Goto(t, IF trigger THEN "done" ELSE "force")
  /\ UNCHANGED <<stateKey, closed, held, proc, ingestor, past>>

\* Mutant: having no replay to stop ends the whole task.
ForceReadReturns(t) ==
  /\ at[t] = "force"
  /\ held' = [held EXCEPT ![t] = stateKey]
  /\ missed' = missed \cup {p \in Starts : stateKey = Pending /\ Playing(p)}
  /\ Goto(t, IF stateKey = NoKey THEN "done" ELSE "kill")
  /\ UNCHANGED <<keys, closed, proc, ingestor, late>>

\* _force_stop_demo_replay: nothing to do without a key; the sentinel has no pid,
\* so that a replay of a start still at its last SET is missed.
ForceRead(t) ==
  /\ at[t] = "force"
  /\ held' = [held EXCEPT ![t] = stateKey]
  /\ missed' = missed \cup {p \in Starts : stateKey = Pending /\ Playing(p)}
  /\ Goto(t, IF stateKey = NoKey THEN "launchLive" ELSE "kill")
  /\ UNCHANGED <<keys, closed, proc, ingestor, late>>

\* The signal reaches nobody where the worker runs in a container of its own:
\* the stored pid is one of the API's container.
ForceKill(t) ==
  /\ at[t] = "kill"
  /\ \/ held[t] \in Starts /\ Sigterm(held[t]) /\ UNCHANGED missed
     \/ UNCHANGED proc /\ missed' = missed \cup {p \in Starts : held[t] = p /\ Playing(p)}
  /\ Goto(t, "delete")
  /\ UNCHANGED <<keys, closed, held, ingestor, late>>

ForceDelete(t) ==
  /\ at[t] = "delete"
  /\ stateKey' = NoKey
  /\ held' = [held EXCEPT ![t] = NoKey]
  /\ Goto(t, "launchLive")
  /\ UNCHANGED <<trigger, closed, proc, ingestor, past>>

LaunchLive(t) ==
  /\ at[t] = "launchLive"
  /\ ingestor' = [ingestor EXCEPT ![t] = "running"]
  /\ Goto(t, "done")
  /\ UNCHANGED <<keys, closed, held, proc, past>>

\* A Redis call raises, its effect done or not, Popen raises, or the worker dies:
\* nothing retries the task, and a poll that comes after it finds the race claimed.
PollLost(t) ==
  /\ at[t] \in {"force", "kill", "delete", "launchLive"}
  /\ Goto(t, "lost")
  /\ UNCHANGED <<keys, closed, held, proc, ingestor, past>>

IngestorEnds(t) ==
  /\ Live(t)
  /\ ingestor' = [ingestor EXCEPT ![t] = "dead"]
  /\ UNCHANGED <<keys, closed, at, held, proc, past>>

(* The replay process: guard, SIGTERM handler, playback, finally *)

GuardScanGaps(p) ==
  /\ proc[p] = "booting"
  /\ \E next \in {"scanned", "dead"} : proc' = [proc EXCEPT ![p] = next]
  /\ UNCHANGED <<keys, closed, at, held, ingestor, past>>

\* Mutant: the process' guard looks at the gaps keys only.
GuardScanTriggerSkipped(p) ==
  /\ proc[p] = "scanned"
  /\ proc' = [proc EXCEPT ![p] = "loading"]
  /\ UNCHANGED <<keys, closed, at, held, ingestor, past>>

GuardScanTrigger(p) ==
  /\ proc[p] = "scanned"
  /\ proc' = [proc EXCEPT ![p] = IF trigger THEN "dead" ELSE "loading"]
  /\ UNCHANGED <<keys, closed, at, held, ingestor, past>>

\* The window is loaded from the database, or there is nothing to play back.
Load(p) ==
  /\ proc[p] = "loading"
  /\ \E next \in {"playing", "dead"} : proc' = [proc EXCEPT ![p] = next]
  /\ UNCHANGED <<keys, closed, at, held, ingestor, past>>

PlayEnds(p) ==
  /\ proc[p] = "playing"
  /\ proc' = [proc EXCEPT ![p] = "stopping"]
  /\ UNCHANGED <<keys, closed, at, held, ingestor, past>>

FinallyDelete(p) ==
  /\ proc[p] = "stopping"
  /\ proc' = [proc EXCEPT ![p] = "dead"]
  /\ UNCHANGED <<keys, closed, at, held, ingestor, past>>

(* Expiry.  Each TTL outlives what it covers: the state key (2 h) a replay  *)
(* of at most 22 minutes, the trigger (4 h) the launch window, an ingestor  *)
(* of at most 3 h 15 m and every start and replay that began before it.     *)

\* Mutant: the claim is set without an expiry.
ExpireStatePidOnly ==
  /\ stateKey \in Starts
  /\ \A s \in Starts : ~Alive(s) /\ at[s] \notin {"launch", "unclaim", "store"}
  /\ stateKey' = NoKey
  /\ UNCHANGED <<trigger, closed, at, held, proc, ingestor, past>>

ExpireState ==
  /\ stateKey # NoKey
  /\ \A s \in Starts : ~Alive(s) /\ at[s] \notin {"launch", "unclaim", "store"}
  /\ stateKey' = NoKey
  /\ UNCHANGED <<trigger, closed, at, held, proc, ingestor, past>>

ExpireTrigger ==
  /\ trigger
  /\ closed
  /\ \A t \in Polls : at[t] \in {"idle", "done", "lost"} /\ ~Live(t)
  /\ \A s \in Starts : ~Alive(s) /\ at[s] \in {"idle", "started", "refused", "lost"}
  /\ trigger' = FALSE
  /\ UNCHANGED <<stateKey, closed, at, held, proc, ingestor, past>>

------------------------------------------------------------------------------
StartStep(s) ==
  \/ StartScanTrigger(s) \/ StartClaim(s) \/ StartLaunch(s)
  \/ StartUnclaim(s) \/ StartStore(s) \/ StartLost(s)

PollStep(t) == ForceRead(t) \/ ForceKill(t) \/ ForceDelete(t) \/ LaunchLive(t)

ReplayStep(p) ==
  \/ GuardScanGaps(p) \/ GuardScanTrigger(p) \/ Load(p)
  \/ PlayEnds(p) \/ FinallyDelete(p)

Next ==
  \/ \E s \in Starts : StartScanGaps(s) \/ StartStep(s) \/ ReplayStep(s)
  \/ \E k \in Stops : StopRead(k) \/ StopKill(k) \/ ClearKey(k)
  \/ \E q \in Watchers : StatusRead(q) \/ StatusProbe(q) \/ ClearKey(q)
  \/ CloseWindow
  \/ \E t \in Polls : PollClaim(t) \/ PollStep(t) \/ PollLost(t) \/ IngestorEnds(t)
  \/ ExpireState
  \/ ExpireTrigger

Spec == Init /\ [][Next]_vars

\* Requests that were accepted run on, processes run on and Redis expires its
\* keys; nobody has to call start, stop or status, and no race has to begin.
Fairness ==
  /\ \A s \in Starts : WF_vars(StartStep(s)) /\ WF_vars(ReplayStep(s))
  /\ \A k \in Stops : WF_vars(StopKill(k) \/ ClearKey(k))
  /\ \A q \in Watchers : WF_vars(StatusProbe(q) \/ ClearKey(q))
  /\ \A t \in Polls : WF_vars(PollStep(t))
  /\ WF_vars(ExpireState)

FairSpec == Spec /\ Fairness

------------------------------------------------------------------------------
\* Every variable has its type, and a caller of stop or status holds a payload
\* exactly while it acts on one.
TypeOK ==
  /\ stateKey \in Starts \cup {NoKey, Pending}
  /\ {trigger, closed} \subseteq BOOLEAN
  /\ at \in [Calls -> Places]
  /\ held \in [Calls -> Starts \cup {NoKey, Pending}]
  /\ \A c \in Calls \ Polls : held[c] # NoKey <=> Clearing(c)
  /\ proc \in [Starts -> ProcStates]
  /\ ingestor \in [Polls -> {"none", "running", "dead"}]
  /\ late \in BOOLEAN
  /\ missed \subseteq Starts

\* demo_service.py:10-12, race_detection_worker.py:95-103: a replay plays beside an
\* auto-launched ingestor only if the kill-switch found it playing and missed it:
\* its key still said "pending", or its pid is one of another container.  In
\* whichever phase the poll meets the starts, stops and probes under way, no
\* replay begins beside the race, and one that the signal reaches does not play on.
\* (A key deleted late leaves a replay that the kill-switch cannot find.)
LiveHasPriority ==
  ~late /\ (\E t \in Polls : Live(t)) => \A p \in Starts \ missed : ~Playing(p)

\* demo_service.py:5-7: there is a single global replay.  Whatever starts, stops,
\* probes and polls overlap or fail, two play at once only after a stop or a probe
\* deleted the key of a start that came after its GET.
SingleReplay ==
  ~late => \A p, q \in Starts : Playing(p) /\ Playing(q) => p = q

\* demo_service.py:462-466: the state key stands for the replay that plays: it
\* names it, or is still "pending" where the start's last SET is under way or was
\* lost.  The exceptions are a key deleted late and a replay the kill-switch missed,
\* whose key it deletes all the same.
PlayingIsTracked ==
  ~late => \A p \in Starts \ missed :
    Playing(p) => stateKey = p \/ (stateKey = Pending /\ at[p] \in {"store", "lost"})

\* demo_service.py:62-64, 309-314: a state key nobody stands behind does not
\* block the feature for good.
SlotIsFreedAgain == stateKey # NoKey ~> stateKey = NoKey

\* race_detection_worker.py:146-150: a race that a poll has claimed gets its
\* ingestor, whatever the poll finds of a replay, unless one of the poll's calls
\* raises or its worker dies.
ClaimedRaceIsIngested ==
  trigger ~> \E t \in Polls : ingestor[t] # "none" \/ at[t] = "lost"
==============================================================================
