----------------------------- MODULE SimulatorPage -----------------------------
(***************************************************************************)
(* The Strategy Simulator screen of the three clients, and the hooks it is *)
(* built on: which session it is for, the driver's state it fills in, the  *)
(* plan or the scenarios, the run that is asked for, and the wait for its  *)
(* result.  React's effects run in the commit of the change they depend    *)
(* on, so they are part of the action that makes it.  A row's compound and *)
(* label are left out, its lap is within the race or not, and texts and    *)
(* charts are left out.                                                    *)
(***************************************************************************)
EXTENDS Naturals, Sequences, SequencesExt

CONSTANTS
  Drivers,       \* drivers on the current grid
  Live,          \* the current race's session
  LastIngested,  \* the newest race with laps
  Chosen,        \* the session the screen was opened with
  None,          \* null, undefined or the empty string
  MAX_SCENARIOS, \* scenarios one comparison may hold
  MaxStops,      \* bound: pit stops in a plan
  MaxLeft,       \* bound: scenarios left today
  Visits         \* bound: what the user works on, and how often Run is pressed then

Chores == {"race", "plan"}  \* step 1's fields, step 2's plan

ASSUME SimulatorAssumption ==
  /\ MAX_SCENARIOS \in Nat \ {0, 1}
  /\ MaxStops \in Nat \ {0}
  /\ MaxLeft \in Nat
  /\ None \notin Nat \cup Drivers
  /\ DOMAIN Visits \subseteq SUBSET Chores
  /\ \A chores \in DOMAIN Visits : Visits[chores] \in Nat

VARIABLES
  platform,      \* web, desktop or mobile
  chores,        \* bound: what this user edits
  chosen,        \* desktop's override, mobile's route parameter
  answered,      \* of Live (with gaps) and LastIngested, those the queries resolved
  sessionId,     \* the session the screen is for
  driverId,
  fields,        \* lap, compound and tyre age: whose lap they are from, and the user's edit
  remainingOk,   \* remainingLaps > 0
  filledFor,     \* lastAutoFilledDriverRef
  step,
  mode,          \* single or compare
  noFurtherStop,
  pitStops,      \* how many rows
  scenarios,     \* rows, each a stop or "stay"
  left,          \* scenarios left today, as last fetched; None is unlimited
  requests,      \* the presses of Run
  taskId,        \* the accepted request whose task is polled, or None
  status,        \* of taskId, as last polled
  waited,        \* since pendingSinceRef: None, or a phase
  exporting      \* desktop: a CSV export is under way

race  == <<sessionId, answered, driverId, fields, remainingOk, filledFor>>
plan  == <<mode, noFurtherStop, pitStops, scenarios>>
task  == <<taskId, status, waited>>
fixed == <<platform, chores, chosen>>
vars  == <<fixed, race, step, plan, left, requests, task, exporting>>

Sessions  == {Live, LastIngested, Chosen}
Runs      == 1..Visits[chores]
Terminal  == {"SUCCESS", "FAILURE"}
Laps      == [of : {None} \cup (Sessions \X Drivers), edit : {"no", "valid", "blank"}]
Untouched == [of |-> None, edit |-> "no"]

------------------------------------------------------------------------------
(* Which session the screen is for.                                          *)

IsLiveSessionMode(known) == Live \in known

\* Web keeps it in state: two effects overwrite it when a query answers.
WebSession(known) ==
  CASE IsLiveSessionMode(known)   -> Live
    [] LastIngested \in known     -> LastIngested
    [] OTHER                      -> sessionId

\* Desktop derives it: the Dashboard's override wins.
DesktopSession(known) ==
  CASE chosen # None              -> chosen
    [] IsLiveSessionMode(known)   -> Live
    [] LastIngested \in known     -> LastIngested
    [] OTHER                      -> None

\* Mobile derives it: the driver sheet's session wins.
MobileSession(known) ==
  CASE chosen # None              -> chosen
    [] IsLiveSessionMode(known)   -> Live
    [] LastIngested \in known     -> LastIngested
    [] OTHER                      -> None

SessionOf(known) ==
  CASE platform = "web"     -> WebSession(known)
    [] platform = "desktop" -> DesktopSession(known)
    [] platform = "mobile"  -> MobileSession(known)

\* useLastIngestedSession is enabled only when its answer would be used.
LastIngestedEnabled ==
  /\ ~IsLiveSessionMode(answered)
  /\ platform # "web" => chosen = None

\* /races/current and the gaps of its session: the live race appears or ends.
CurrentRaceAnswered ==
  /\ "race" \in chores
  /\ platform # "web" => chosen = None
  /\ answered' = IF Live \in answered THEN answered \ {Live} ELSE answered \cup {Live}
  /\ sessionId' = SessionOf(answered')
  /\ UNCHANGED <<fixed, driverId, fields, remainingOk, filledFor, step, plan, left, requests, task, exporting>>

LastIngestedAnswered ==
  /\ LastIngestedEnabled
  /\ LastIngested \notin answered
  /\ answered' = answered \cup {LastIngested}
  /\ sessionId' = SessionOf(answered')
  /\ UNCHANGED <<fixed, driverId, fields, remainingOk, filledFor, step, plan, left, requests, task, exporting>>

------------------------------------------------------------------------------
(* Step 1: the driver and the state of the race.                             *)

\* Only mobile's picker goes back to no driver.
SelectDriver(d) ==
  /\ step = 1
  /\ d = None => platform = "mobile"
  /\ "race" \in chores \/ driverId = None
  /\ driverId' = d
  /\ UNCHANGED <<fixed, sessionId, answered, fields, remainingOk, filledFor, step, plan, left, requests, task, exporting>>

EditFields(edit) ==
  /\ step = 1
  /\ "race" \in chores
  /\ fields' = [fields EXCEPT !.edit = edit]
  /\ UNCHANGED <<fixed, sessionId, answered, driverId, remainingOk, filledFor, step, plan, left, requests, task, exporting>>

EditRemainingLaps ==
  /\ step = 1
  /\ "race" \in chores
  /\ remainingOk' = ~remainingOk
  /\ UNCHANGED <<fixed, sessionId, answered, driverId, fields, filledFor, step, plan, left, requests, task, exporting>>

UnfilledAlways == TRUE
Unfilled == filledFor # driverId

\* The laps of the driver in the session arrive, by the query or its 10 s
\* poll: the latest fills the fields in, once per driver.
LapsAnswered ==
  /\ Unfilled
  /\ sessionId # None /\ driverId # None
  /\ fields' = [of |-> <<sessionId, driverId>>, edit |-> "no"]
  /\ filledFor' = driverId
  /\ UNCHANGED <<fixed, sessionId, answered, driverId, remainingOk, step, plan, left, requests, task, exporting>>

step1Valid == sessionId # None /\ driverId # None /\ remainingOk

NextStep ==
  /\ step = 1
  /\ step1Valid
  /\ step' = 2
  /\ UNCHANGED <<fixed, race, plan, left, requests, task, exporting>>

------------------------------------------------------------------------------
(* Step 2: one plan, or scenarios to compare.                                *)

Designs == step = 2 /\ "plan" \in chores

SetMode(m) ==
  /\ Designs
  /\ mode' = m
  /\ UNCHANGED <<fixed, race, step, noFurtherStop, pitStops, scenarios, left, requests, task, exporting>>

SetNoFurtherStop ==
  /\ Designs /\ mode = "single"
  /\ noFurtherStop' = ~noFurtherStop
  /\ UNCHANGED <<fixed, race, step, mode, pitStops, scenarios, left, requests, task, exporting>>

AddPitStop ==
  /\ Designs /\ mode = "single" /\ ~noFurtherStop
  /\ pitStops < MaxStops
  /\ pitStops' = pitStops + 1
  /\ UNCHANGED <<fixed, race, step, mode, noFurtherStop, scenarios, left, requests, task, exporting>>

RemovePitStop ==
  /\ Designs /\ mode = "single" /\ ~noFurtherStop
  /\ pitStops > 0
  /\ pitStops' = pitStops - 1
  /\ UNCHANGED <<fixed, race, step, mode, noFurtherStop, scenarios, left, requests, task, exporting>>

MayAdd(row) ==
  /\ Len(scenarios) < MAX_SCENARIOS
  /\ row = "stay" => ~Contains(scenarios, "stay")

\* addScenario and addNoFurtherStopScenario, which adds at most one.
AddScenario(row) ==
  /\ Designs /\ mode = "compare"
  /\ MayAdd(row)
  /\ scenarios' = Append(scenarios, row)
  /\ UNCHANGED <<fixed, race, step, mode, noFurtherStop, pitStops, left, requests, task, exporting>>

RemoveScenario(i) ==
  /\ Designs /\ mode = "compare"
  /\ i \in DOMAIN scenarios
  /\ scenarios' = RemoveAt(scenarios, i)
  /\ UNCHANGED <<fixed, race, step, mode, noFurtherStop, pitStops, left, requests, task, exporting>>

Back ==
  /\ step = 2
  /\ step' = 1
  /\ UNCHANGED <<fixed, race, plan, left, requests, task, exporting>>

------------------------------------------------------------------------------
(* The daily quota, as the screen sees it.                                   *)

\* The lower of the visitor's own and the demo-wide remaining scenarios.
ScenariosLeftToday(user, demo) ==
  CASE user = None /\ demo = None                      -> None
    [] demo # None /\ (user = None \/ demo < user)     -> demo
    [] OTHER                                           -> user

MobileScenariosLeft(user, demo) ==
  LET counts == {user, demo} \ {None}
  IN  IF counts = {} THEN None ELSE CHOOSE n \in counts : \A m \in counts : n <= m

\* The quota is fetched again after every run, by whoever it was spent; the
\* count matters at step 2 only.
QuotaAnswered(user, demo) ==
  /\ step = 2 /\ "plan" \in chores
  /\ left' = IF platform = "mobile" THEN MobileScenariosLeft(user, demo)
                                    ELSE ScenariosLeftToday(user, demo)
  /\ UNCHANGED <<fixed, race, step, plan, requests, task, exporting>>

scenariosNeeded == IF mode = "compare" THEN Len(scenarios) ELSE 1
overQuota       == left # None /\ scenariosNeeded > left
step2Valid      == mode = "single" \/ Len(scenarios) > 0

------------------------------------------------------------------------------
(* Run: what is sent, what the backend makes of it, and the answer.          *)

\* Compare mode sends only scenarios, a single plan only its stops.
Plan ==
  CASE mode = "compare" -> [scenarios |-> scenarios, stops |-> 0, stay |-> FALSE]
    [] mode = "single" /\ noFurtherStop
                        -> [scenarios |-> None, stops |-> 0, stay |-> TRUE]
    [] OTHER            -> [scenarios |-> None, stops |-> pitStops, stay |-> FALSE]

\* Number("") is 0; mobile sends 1 for it.
WebCurrentLap    == IF fields.edit = "blank" THEN 0 ELSE 1
MobileCurrentLap == 1
CurrentLap       == IF platform = "mobile" THEN MobileCurrentLap ELSE WebCurrentLap

HasStops(p) == p.stops > 0 \/ (p.scenarios # None /\ Contains(p.scenarios, "stop"))

\* SimulateStrategyRequest: one kind of plan, as many scenarios as allowed, and
\* every stop after the current lap and within the race.  The form bounds no
\* row's lap, and a new row's (remainingLaps) may well be out of range.
ValidatePitPlan(p, inRange) ==
  /\ p.scenarios # None => /\ Len(p.scenarios) \in 1..MAX_SCENARIOS
                           /\ p.stops = 0 /\ ~p.stay
  /\ p.stay => p.stops = 0
  /\ HasStops(p) => inRange

\* The button stays enabled while an earlier press is in flight.
RunSimulation(r) ==
  /\ step = 2
  /\ step2Valid /\ ~overQuota
  /\ requests[r] = "unsent"
  /\ \A q \in Runs : q < r => requests[q] # "unsent"
  /\ \E inRange \in BOOLEAN :
       requests' = [requests EXCEPT ![r] =
                      IF CurrentLap >= 1 /\ ValidatePitPlan(Plan, inRange) THEN "sent" ELSE "invalid"]
  /\ UNCHANGED <<fixed, race, step, plan, left, task, exporting>>

\* useSimulationResult's effect on [taskId, status].
Pending(t, s) == t # None /\ s \notin Terminal
Timers(t, s)  == IF ~Pending(t, s) THEN None
                 ELSE IF waited = None THEN 0 ELSE waited

\* Each task has a query, and so a status, of its own.
StatusLeftOver == status
StatusAtFirst  == "none"

\* The page polls the new task, wherever the user has gone meanwhile.
Accepted(r) ==
  /\ requests[r] = "sent"
  /\ requests' = [requests EXCEPT ![r] = "answered"]
  /\ taskId' = r
  /\ status' = StatusAtFirst
  /\ waited' = Timers(taskId', status')
  /\ step' = 3
  /\ UNCHANGED <<fixed, race, plan, left, exporting>>

\* A 422, 404, 429, 5xx or a failed connection: the screen stays where it is.
RefusedMovesOn(r) ==
  /\ requests[r] \in {"sent", "invalid"}
  /\ requests' = [requests EXCEPT ![r] = "answered"]
  /\ step' = 3
  /\ UNCHANGED <<fixed, race, plan, left, task, exporting>>
Refused(r) ==
  /\ requests[r] \in {"sent", "invalid"}
  /\ requests' = [requests EXCEPT ![r] = "answered"]
  /\ UNCHANGED <<fixed, race, step, plan, left, task, exporting>>

------------------------------------------------------------------------------
(* Steps 3 and 4: the wait and the results.                                  *)

\* The task is polled every 2 s until it has ended; SUCCESS opens the results.
PollAnswered(s) ==
  /\ Pending(taskId, status)
  /\ status' = s
  /\ waited' = Timers(taskId, s)
  /\ step' = IF s = "SUCCESS" /\ s # status THEN 4 ELSE step
  /\ UNCHANGED <<fixed, race, plan, left, requests, taskId, exporting>>

\* 10 s (slowStart, a text), then 180 s (timedOut) since the first pending task.
Clock ==
  /\ waited \in {0, 1}
  /\ waited' = waited + 1
  /\ UNCHANGED <<fixed, race, step, plan, left, requests, taskId, status, exporting>>

timedOut  == waited = 2

TryAgainOffered == step = 3 /\ (status = "FAILURE" \/ timedOut)

HandleReset ==
  /\ TryAgainOffered \/ step = 4
  /\ step' = 1
  /\ taskId' = None
  /\ status' = "none"
  /\ waited' = None
  /\ UNCHANGED <<fixed, race, plan, left, requests, exporting>>

\* Desktop's Export Results, through a save dialog.
HandleExportCsv ==
  /\ platform = "desktop"
  /\ step = 4 /\ ~exporting
  /\ exporting' = TRUE
  /\ UNCHANGED <<fixed, race, step, plan, left, requests, task>>

ExportEnds ==
  /\ exporting
  /\ exporting' = FALSE
  /\ UNCHANGED <<fixed, race, step, plan, left, requests, task>>

------------------------------------------------------------------------------
DriversAtFirst == IF platform = "web" THEN {None} ELSE {None} \cup Drivers

Init ==
  /\ platform \in {"web", "desktop", "mobile"}
  /\ chores \in DOMAIN Visits
  /\ chosen \in {None, Chosen}
  /\ answered = {}
  /\ sessionId = chosen
  /\ driverId \in DriversAtFirst
  /\ fields = Untouched
  /\ remainingOk = TRUE
  /\ filledFor = None
  /\ step = 1
  /\ mode = "single"
  /\ noFurtherStop = FALSE
  /\ pitStops = 1
  /\ scenarios = <<"stop", "stop">>
  /\ left = None
  /\ requests = [r \in Runs |-> "unsent"]
  /\ taskId = None
  /\ status = "none"
  /\ waited = None
  /\ exporting = FALSE

\* The user leaves the screen, with a request in flight, and opens it again:
\* its state starts over, only the queries' answers are kept, and the answer
\* to the request goes nowhere.
Reopen ==
  /\ \E r \in Runs : requests[r] \in {"sent", "invalid"}
  /\ requests' = [r \in Runs |-> IF requests[r] = "unsent" THEN "unsent" ELSE "answered"]
  /\ sessionId' = CASE platform # "web"          -> sessionId
                    [] Live \in answered         -> Live
                    [] LastIngested \in answered -> LastIngested
                    [] OTHER                     -> None
  /\ driverId' \in DriversAtFirst
  /\ fields' = Untouched
  /\ remainingOk' = TRUE
  /\ filledFor' = None
  /\ step' = 1
  /\ mode' = "single"
  /\ noFurtherStop' = FALSE
  /\ pitStops' = 1
  /\ scenarios' = <<"stop", "stop">>
  /\ taskId' = None
  /\ status' = "none"
  /\ waited' = None
  /\ exporting' = FALSE
  /\ UNCHANGED <<fixed, answered, left>>

Limits == {None} \cup 0..MaxLeft

Next ==
  \/ CurrentRaceAnswered
  \/ LastIngestedAnswered
  \/ \E d \in Drivers \cup {None} : SelectDriver(d)
  \/ \E edit \in {"valid", "blank"} : EditFields(edit)
  \/ EditRemainingLaps
  \/ LapsAnswered
  \/ NextStep
  \/ \E m \in {"single", "compare"} : SetMode(m)
  \/ SetNoFurtherStop
  \/ AddPitStop
  \/ RemovePitStop
  \/ \E row \in {"stop", "stay"} : AddScenario(row)
  \/ \E i \in 1..MAX_SCENARIOS : RemoveScenario(i)
  \/ Back
  \/ \E user, demo \in Limits : QuotaAnswered(user, demo)
  \/ \E r \in Runs : RunSimulation(r) \/ Accepted(r) \/ Refused(r)
  \/ \E s \in {"pending"} \cup Terminal : PollAnswered(s)
  \/ Clock
  \/ HandleReset
  \/ HandleExportCsv
  \/ ExportEnds
  \/ Reopen

Spec == Init /\ [][Next]_vars

\* Timers fire; nothing else is certain: a poll may never be answered.
FairSpec == Spec /\ WF_vars(Clock)

------------------------------------------------------------------------------
\* Type invariant; the rows never outgrow what the backend allows.
TypeOK ==
  /\ platform \in {"web", "desktop", "mobile"}
  /\ chores \in DOMAIN Visits
  /\ chosen \in {None, Chosen}
  /\ answered \subseteq {Live, LastIngested}
  /\ sessionId \in Sessions \cup {None}
  /\ driverId \in Drivers \cup {None}
  /\ fields \in Laps
  /\ remainingOk \in BOOLEAN
  /\ filledFor \in Drivers \cup {None}
  /\ step \in 1..4
  /\ mode \in {"single", "compare"}
  /\ noFurtherStop \in BOOLEAN
  /\ pitStops \in 0..MaxStops
  /\ scenarios \in Seq({"stop", "stay"}) /\ Len(scenarios) <= MAX_SCENARIOS
  /\ left \in Limits
  /\ requests \in [Runs -> {"unsent", "sent", "invalid", "answered"}]
  /\ taskId \in Runs \cup {None}
  /\ status \in {"none", "pending"} \cup Terminal
  /\ waited \in {None, 0, 1, 2}
  /\ exporting \in BOOLEAN

\* handleRunSimulation and handleReset keep the screen and the polled task in
\* step: the spinner and the results have a task whatever requests were in
\* flight when the user pressed Back, Try Again or Run again, and the results
\* shown are those of a task that ended with SUCCESS.
ScreenMatchesTask ==
  /\ step \in {3, 4} <=> taskId # None
  /\ step = 4 => status = "SUCCESS"

\* No user is left on the spinner without a way out: it ends in the results or
\* offers Try Again, even if the worker never starts and no poll is answered.
NobodyStranded == step = 3 ~> (step # 3 \/ TryAgainOffered)

\* The guard against clobbering a manual edit: once a driver's fields have been
\* filled in, what the user types there stays, whatever the 10 s poll and the
\* session queries answer, until another driver is selected.
EditsSurvivePolls ==
  [][ (/\ filledFor = driverId /\ filledFor' = driverId' /\ driverId' = driverId
       /\ fields.edit # "no" /\ driverId # None)
        => fields'.edit # "no" ]_vars

\* "default Current Lap/Compound/Tyre Age from their latest lap in this
\* session": fields that were filled in and not edited are of the session the
\* run will be for.
FilledFromThisSession ==
  (driverId # None /\ filledFor = driverId /\ fields.edit = "no")
    => fields.of = <<sessionId, driverId>>
==============================================================================
