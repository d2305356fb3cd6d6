-------------------------- MODULE Simulation_proofs --------------------------
(***************************************************************************)
(* A simulation from both ends.  The screen that asks for it: the type     *)
(* invariant, ScreenMatchesTask and EditsSurvivePolls, for any drivers,    *)
(* bounds and presses of Run.  The worker that runs it: its type invariant *)
(* and RunsAgainOnlyAfterCrash, for any tasks, timeouts and crashes.       *)
(***************************************************************************)
EXTENDS SimulatorPage, WorkerLifecycle, TLAPS

USE SimulatorAssumption

Unsettled == {"unsent", "sent", "invalid", "answered"}

\* A row added or removed leaves a sequence of rows.
LEMMA RowAppended ==
  ASSUME NEW rows \in Seq({"stop", "stay"}), NEW row \in {"stop", "stay"}
  PROVE  /\ Append(rows, row) \in Seq({"stop", "stay"})
         /\ Len(Append(rows, row)) = Len(rows) + 1
OBVIOUS

LEMMA RowRemoved ==
  ASSUME NEW rows \in Seq({"stop", "stay"}), NEW i \in DOMAIN rows
  PROVE  /\ RemoveAt(rows, i) \in Seq({"stop", "stay"})
         /\ Len(RemoveAt(rows, i)) <= Len(rows)
<1>1. i \in 1..Len(rows)
  OBVIOUS
<1>2. SubSeq(rows, 1, i - 1) \in Seq({"stop", "stay"}) /\ Len(SubSeq(rows, 1, i - 1)) = i - 1
  BY <1>1
<1>3. /\ SubSeq(rows, i + 1, Len(rows)) \in Seq({"stop", "stay"})
      /\ Len(SubSeq(rows, i + 1, Len(rows))) = Len(rows) - i
  BY <1>1
<1>. QED  BY <1>1, <1>2, <1>3 DEF RemoveAt

\* The scenarios left are one of the two counts, or unlimited.
LEMMA LeftIsALimit ==
  ASSUME NEW user \in Limits, NEW demo \in Limits
  PROVE  ScenariosLeftToday(user, demo) \in Limits /\ MobileScenariosLeft(user, demo) \in Limits
<1>1. ScenariosLeftToday(user, demo) \in Limits
  BY DEF ScenariosLeftToday, Limits
<1>2. MobileScenariosLeft(user, demo) \in Limits
  <2>. DEFINE counts == {user, demo} \ {None}
  <2>1. CASE counts = {}
    BY <2>1 DEF MobileScenariosLeft, Limits
  <2>2. CASE counts # {}
    <3>1. \E n \in counts : \A m \in counts : n <= m
      BY <2>2 DEF Limits
    <3>2. (CHOOSE n \in counts : \A m \in counts : n <= m) \in counts
      BY <3>1
    <3>. QED  BY <2>2, <3>2 DEF MobileScenariosLeft
  <2>. QED  BY <2>1, <2>2
<1>. QED  BY <1>1, <1>2

\* The initial screen, for every user and client.
LEMMA InitTypeOK == Init => TypeOK
<1>. SUFFICES ASSUME Init PROVE TypeOK
  OBVIOUS
<1>1. fields \in Laps
  BY DEF Init, Untouched, Laps
<1>2. scenarios \in Seq({"stop", "stay"}) /\ Len(scenarios) <= MAX_SCENARIOS
  BY DEF Init
<1>3. requests \in [Runs -> Unsettled]
  <2>1. requests = [r \in Runs |-> "unsent"]
    BY DEF Init
  <2>. QED  BY <2>1 DEF Unsettled
<1>4. driverId \in Drivers \cup {None} /\ sessionId \in Sessions \cup {None}
  BY DEF Init, DriversAtFirst, Sessions
<1>5. /\ platform \in {"web", "desktop", "mobile"} /\ chores \in DOMAIN Visits
      /\ chosen \in {None, Chosen} /\ answered = {} /\ left = None /\ taskId = None
      /\ filledFor = None /\ waited = None /\ remainingOk = TRUE /\ step = 1 /\ mode = "single"
      /\ noFurtherStop = FALSE /\ pitStops = 1 /\ status = "none" /\ exporting = FALSE
  BY DEF Init
<1>6. remainingOk \in BOOLEAN /\ noFurtherStop \in BOOLEAN /\ exporting \in BOOLEAN
  BY <1>5
<1>7. pitStops \in 0..MaxStops /\ step \in 1..4
  BY <1>5
<1>. QED  BY <1>1, <1>2, <1>3, <1>4, <1>5, <1>6, <1>7 DEF TypeOK, Limits, Unsettled

\* The race's session, the driver and the fields.
LEMMA RaceTypeOK ==
  ASSUME TypeOK,
         \/ CurrentRaceAnswered \/ LastIngestedAnswered \/ EditRemainingLaps \/ LapsAnswered
         \/ \E d \in Drivers \cup {None} : SelectDriver(d)
         \/ \E edit \in {"valid", "blank"} : EditFields(edit)
  PROVE  TypeOK'
<1>1. CASE CurrentRaceAnswered \/ LastIngestedAnswered
  <2>1. sessionId' \in Sessions \cup {None} /\ answered' \subseteq {Live, LastIngested}
    BY <1>1 DEF CurrentRaceAnswered, LastIngestedAnswered, SessionOf, WebSession,
                DesktopSession, MobileSession, Sessions, TypeOK
  <2>. QED  BY <1>1, <2>1 DEF CurrentRaceAnswered, LastIngestedAnswered, TypeOK, fixed, plan, task, Runs, Limits
<1>2. CASE EditRemainingLaps
  BY <1>2 DEF EditRemainingLaps, TypeOK, fixed, plan, task, Runs, Limits
<1>5. ASSUME NEW d \in Drivers \cup {None}, SelectDriver(d)
      PROVE  TypeOK'
  BY <1>5 DEF SelectDriver, TypeOK, fixed, plan, task, Runs, Limits
<1>3. ASSUME NEW edit \in {"valid", "blank"}, EditFields(edit)
      PROVE  TypeOK'
  <2>1. fields' \in Laps
    BY <1>3 DEF EditFields, TypeOK, Laps
  <2>. QED  BY <1>3, <2>1 DEF EditFields, TypeOK, fixed, plan, task, Runs, Limits
<1>4. CASE LapsAnswered
  <2>1. fields' \in Laps
    BY <1>4 DEF LapsAnswered, TypeOK, Laps
  <2>. QED  BY <1>4, <2>1 DEF LapsAnswered, TypeOK, fixed, plan, task, Runs, Limits
<1>. QED  BY <1>1, <1>2, <1>3, <1>4, <1>5

\* The plan and the scenarios.
LEMMA PlanTypeOK ==
  ASSUME TypeOK,
         \/ SetNoFurtherStop \/ AddPitStop \/ RemovePitStop
         \/ \E m \in {"single", "compare"} : SetMode(m)
         \/ \E row \in {"stop", "stay"} : AddScenario(row)
         \/ \E i \in 1..MAX_SCENARIOS : RemoveScenario(i)
  PROVE  TypeOK'
<1>1. CASE SetNoFurtherStop
  BY <1>1 DEF SetNoFurtherStop, TypeOK, fixed, race, task, Runs, Limits
<1>4. CASE AddPitStop
  BY <1>4 DEF AddPitStop, TypeOK, fixed, race, task, Runs, Limits
<1>5. CASE RemovePitStop
  BY <1>5 DEF RemovePitStop, TypeOK, fixed, race, task, Runs, Limits
<1>6. ASSUME NEW m \in {"single", "compare"}, SetMode(m)
      PROVE  TypeOK'
  BY <1>6 DEF SetMode, TypeOK, fixed, race, task, Runs, Limits
<1>2. ASSUME NEW row \in {"stop", "stay"}, AddScenario(row)
      PROVE  TypeOK'
  <2>1. scenarios' \in Seq({"stop", "stay"}) /\ Len(scenarios') <= MAX_SCENARIOS
    BY <1>2, RowAppended DEF AddScenario, MayAdd, TypeOK
  <2>. QED  BY <1>2, <2>1 DEF AddScenario, TypeOK, fixed, race, task, Runs, Limits
<1>3. ASSUME NEW i \in 1..MAX_SCENARIOS, RemoveScenario(i)
      PROVE  TypeOK'
  <2>1. scenarios' \in Seq({"stop", "stay"}) /\ Len(scenarios') <= Len(scenarios)
    BY <1>3, RowRemoved DEF RemoveScenario, TypeOK
  <2>2. Len(scenarios') <= MAX_SCENARIOS
    BY <2>1 DEF TypeOK
  <2>. QED  BY <1>3, <2>1, <2>2 DEF RemoveScenario, TypeOK, fixed, race, task, Runs, Limits
<1>. QED  BY <1>1, <1>2, <1>3, <1>4, <1>5, <1>6

\* The quota, the run and its answer.
LEMMA RunTypeOK ==
  ASSUME TypeOK,
         \/ \E user, demo \in Limits : QuotaAnswered(user, demo)
         \/ \E r \in Runs : RunSimulation(r) \/ Accepted(r) \/ Refused(r)
  PROVE  TypeOK'
<1>1. ASSUME NEW user \in Limits, NEW demo \in Limits, QuotaAnswered(user, demo)
      PROVE  TypeOK'
  <2>1. left' \in Limits
    BY <1>1, LeftIsALimit DEF QuotaAnswered
  <2>. QED  BY <1>1, <2>1 DEF QuotaAnswered, TypeOK, fixed, race, plan, task, Runs, Limits
<1>2. ASSUME NEW r \in Runs, RunSimulation(r) \/ Accepted(r) \/ Refused(r)
      PROVE  TypeOK'
  <2>1. requests' \in [Runs -> Unsettled] /\ UNCHANGED fixed
    BY <1>2 DEF RunSimulation, Accepted, Refused, TypeOK, Unsettled
  <2>2. Runs' = Runs
    BY <2>1 DEF fixed, Runs
  <2>. QED  BY <1>2, <2>1, <2>2
            DEF RunSimulation, Accepted, Refused, StatusAtFirst, Timers, Pending, Terminal,
                TypeOK, fixed, race, plan, task, Limits, Unsettled
<1>. QED  BY <1>1, <1>2

\* Moving between the steps, the wait and the results.
LEMMA WaitTypeOK ==
  ASSUME TypeOK,
         \/ NextStep \/ Back \/ Clock \/ HandleReset \/ HandleExportCsv \/ ExportEnds
         \/ \E s \in {"pending"} \cup Terminal : PollAnswered(s)
  PROVE  TypeOK'
<1>1. CASE NextStep
  BY <1>1 DEF NextStep, TypeOK, fixed, race, plan, task, Runs, Limits
<1>4. CASE Back
  BY <1>4 DEF Back, TypeOK, fixed, race, plan, task, Runs, Limits
<1>5. CASE HandleReset
  BY <1>5 DEF HandleReset, TypeOK, fixed, race, plan, task, Runs, Limits
<1>6. CASE HandleExportCsv
  BY <1>6 DEF HandleExportCsv, TypeOK, fixed, race, plan, task, Runs, Limits
<1>7. CASE ExportEnds
  <2>1. exporting' \in BOOLEAN
    BY <1>7 DEF ExportEnds
  <2>. QED  BY <1>7, <2>1 DEF ExportEnds, TypeOK, fixed, race, plan, task, Runs, Limits
<1>2. CASE Clock
  BY <1>2 DEF Clock, TypeOK, fixed, race, plan, task, Runs, Limits
<1>3. ASSUME NEW s \in {"pending"} \cup Terminal, PollAnswered(s)
      PROVE  TypeOK'
  BY <1>3 DEF PollAnswered, Timers, Pending, Terminal, TypeOK, fixed, race, plan, task, Runs, Limits
<1>. QED  BY <1>1, <1>2, <1>3, <1>4, <1>5, <1>6, <1>7

\* A screen opened again.
LEMMA ReopenTypeOK ==
  ASSUME TypeOK, Reopen
  PROVE  TypeOK'
<1>1. fields' \in Laps
  BY DEF Reopen, Untouched, Laps
<1>2. scenarios' \in Seq({"stop", "stay"}) /\ Len(scenarios') <= MAX_SCENARIOS
  BY DEF Reopen
<1>3. requests' \in [Runs -> Unsettled] /\ Runs' = Runs
  <2>1. requests' = [r \in Runs |-> IF requests[r] = "unsent" THEN "unsent" ELSE "answered"]
    BY DEF Reopen
  <2>2. requests' \in [Runs -> Unsettled]
    BY <2>1 DEF Unsettled
  <2>. QED  BY <2>2 DEF Reopen, fixed, Runs
<1>4. sessionId' \in Sessions \cup {None} /\ driverId' \in Drivers \cup {None}
  BY DEF Reopen, TypeOK, Sessions, DriversAtFirst
<1>5. taskId' = None /\ filledFor' = None /\ waited' = None
  BY DEF Reopen
<1>6. /\ remainingOk' \in BOOLEAN /\ step' \in 1..4 /\ mode' \in {"single", "compare"}
      /\ noFurtherStop' \in BOOLEAN /\ pitStops' \in 0..MaxStops
      /\ status' \in {"none", "pending"} \cup Terminal /\ exporting' \in BOOLEAN
  <2>1. /\ remainingOk' = TRUE /\ step' = 1 /\ mode' = "single" /\ noFurtherStop' = FALSE
        /\ pitStops' = 1 /\ status' = "none" /\ exporting' = FALSE
    BY DEF Reopen
  <2>2. remainingOk' \in BOOLEAN /\ noFurtherStop' \in BOOLEAN /\ exporting' \in BOOLEAN
    BY <2>1
  <2>3. pitStops' \in 0..MaxStops /\ step' \in 1..4
    BY <2>1
  <2>. QED  BY <2>1, <2>2, <2>3
<1>7. UNCHANGED <<platform, chores, chosen, answered, left>>
  BY DEF Reopen, fixed
<1>. QED  BY <1>1, <1>2, <1>3, <1>4, <1>5, <1>6, <1>7 DEF TypeOK, Unsettled, Limits

\* Every step keeps the types.
LEMMA NextTypeOK == TypeOK /\ [Next]_vars => TypeOK'
<1>. SUFFICES ASSUME TypeOK, [Next]_vars PROVE TypeOK'
  OBVIOUS
<1>1. CASE UNCHANGED vars
  BY <1>1 DEF vars, TypeOK, fixed, race, plan, task, Runs, Limits
<1>2. CASE Next
  BY <1>2, RaceTypeOK, PlanTypeOK, RunTypeOK, WaitTypeOK, ReopenTypeOK DEF Next
<1>. QED  BY <1>1, <1>2

\* The screen's state keeps its types; the scenarios never outgrow the backend's
\* limit, whatever is added, removed or opened again.
THEOREM TypeCorrect == Spec => []TypeOK
BY InitTypeOK, NextTypeOK, PTL DEF Spec

\* Every step keeps the screen and the polled task in step.
LEMMA NextScreenMatchesTask == TypeOK /\ ScreenMatchesTask /\ [Next]_vars => ScreenMatchesTask'
<1>. SUFFICES ASSUME TypeOK, ScreenMatchesTask, [Next]_vars PROVE ScreenMatchesTask'
  OBVIOUS
<1>1. CASE UNCHANGED <<step, taskId, status>>
  BY <1>1 DEF ScreenMatchesTask
<1>2. CASE NextStep \/ Back
  BY <1>2 DEF NextStep, Back, ScreenMatchesTask, task
<1>3. ASSUME NEW r \in Runs, Accepted(r)
      PROVE  ScreenMatchesTask'
  BY <1>3 DEF Accepted, ScreenMatchesTask, Runs
<1>4. ASSUME NEW s \in {"pending"} \cup Terminal, PollAnswered(s)
      PROVE  ScreenMatchesTask'
  BY <1>4 DEF PollAnswered, Pending, ScreenMatchesTask, Terminal, TypeOK
<1>5. CASE HandleReset \/ Reopen
  BY <1>5 DEF HandleReset, Reopen, ScreenMatchesTask
<1>6. CASE UNCHANGED vars
  BY <1>1, <1>6 DEF vars, task
<1>7. CASE Next
  <2>1. ASSUME NEW r \in Runs, RunSimulation(r) \/ Refused(r)
        PROVE  UNCHANGED <<step, taskId, status>>
    BY <2>1 DEF RunSimulation, Refused, task
  <2>2. CASE \/ CurrentRaceAnswered \/ LastIngestedAnswered \/ EditRemainingLaps \/ LapsAnswered
             \/ \E d \in Drivers \cup {None} : SelectDriver(d)
             \/ \E edit \in {"valid", "blank"} : EditFields(edit)
    BY <1>1, <2>2 DEF CurrentRaceAnswered, LastIngestedAnswered, EditRemainingLaps, LapsAnswered,
                SelectDriver, EditFields, task
  <2>3. CASE \/ SetNoFurtherStop \/ AddPitStop \/ RemovePitStop
             \/ \E m \in {"single", "compare"} : SetMode(m)
             \/ \E row \in {"stop", "stay"} : AddScenario(row)
             \/ \E i \in 1..MAX_SCENARIOS : RemoveScenario(i)
    BY <1>1, <2>3 DEF SetNoFurtherStop, AddPitStop, RemovePitStop, SetMode, AddScenario,
                RemoveScenario, task
  <2>4. CASE Clock \/ HandleExportCsv \/ ExportEnds \/ \E user, demo \in Limits : QuotaAnswered(user, demo)
    BY <1>1, <2>4 DEF Clock, HandleExportCsv, ExportEnds, QuotaAnswered, task
  <2>. QED  BY <1>1, <1>2, <1>3, <1>4, <1>5, <1>7, <2>1, <2>2, <2>3, <2>4 DEF Next
<1>. QED  BY <1>6, <1>7

\* The spinner and the results have a task, and the results shown are those of
\* a task that succeeded, whatever requests are in flight (handleRunSimulation,
\* handleReset).
THEOREM ScreenMatchesTaskHolds == Spec => []ScreenMatchesTask
<1>1. Init => ScreenMatchesTask
  BY DEF Init, ScreenMatchesTask
<1>. QED  BY <1>1, TypeCorrect, NextScreenMatchesTask, PTL DEF Spec

\* A step that leaves a driver's edited fields filled in for him leaves the edit.
LEMMA EditSurvives ==
  ASSUME TypeOK, [Next]_vars,
         filledFor = driverId, filledFor' = driverId', driverId' = driverId,
         fields.edit # "no", driverId # None
  PROVE  fields'.edit # "no"
<1>1. CASE UNCHANGED fields
  BY <1>1
<1>2. ASSUME NEW edit \in {"valid", "blank"}, EditFields(edit)
      PROVE  fields'.edit # "no"
  BY <1>2 DEF EditFields, TypeOK, Laps
<1>3. ~LapsAnswered /\ ~Reopen
  BY DEF LapsAnswered, Unfilled, Reopen
<1>4. CASE UNCHANGED vars
  BY <1>1, <1>4 DEF vars, race
<1>5. CASE Next
  <2>1. CASE \/ CurrentRaceAnswered \/ LastIngestedAnswered \/ EditRemainingLaps
             \/ \E d \in Drivers \cup {None} : SelectDriver(d)
    BY <1>1, <2>1 DEF CurrentRaceAnswered, LastIngestedAnswered, EditRemainingLaps, SelectDriver
  <2>2. CASE \/ SetNoFurtherStop \/ AddPitStop \/ RemovePitStop
             \/ \E m \in {"single", "compare"} : SetMode(m)
             \/ \E row \in {"stop", "stay"} : AddScenario(row)
             \/ \E i \in 1..MAX_SCENARIOS : RemoveScenario(i)
    BY <1>1, <2>2 DEF SetNoFurtherStop, AddPitStop, RemovePitStop, SetMode, AddScenario,
                RemoveScenario, race
  <2>3. CASE \/ \E user, demo \in Limits : QuotaAnswered(user, demo)
             \/ \E r \in Runs : RunSimulation(r) \/ Accepted(r) \/ Refused(r)
    BY <1>1, <2>3 DEF QuotaAnswered, RunSimulation, Accepted, Refused, race
  <2>4. CASE \/ NextStep \/ Back \/ Clock \/ HandleReset \/ HandleExportCsv \/ ExportEnds
             \/ \E s \in {"pending"} \cup Terminal : PollAnswered(s)
    BY <1>1, <2>4 DEF NextStep, Back, Clock, HandleReset, HandleExportCsv, ExportEnds,
                PollAnswered, race
  <2>. QED  BY <1>2, <1>3, <1>5, <2>1, <2>2, <2>3, <2>4 DEF Next
<1>. QED  BY <1>4, <1>5

\* What the user types into a driver's filled-in fields stays, whatever the
\* poll of the laps and the session queries answer (lastAutoFilledDriverRef).
THEOREM EditsSurvive == Spec => EditsSurvivePolls
<1>1. TypeOK /\ [Next]_vars =>
        [ (/\ filledFor = driverId /\ filledFor' = driverId' /\ driverId' = driverId
           /\ fields.edit # "no" /\ driverId # None)
            => fields'.edit # "no" ]_vars
  BY EditSurvives
<1>. QED  BY <1>1, TypeCorrect, PTL DEF Spec, EditsSurvivePolls

------------------------------------------------------------------------------
(* The worker, for any tasks, timeouts and crashes.                        *)

\* What the worker process holds, of what was delivered to it.
Held == reserved \cup current \cup toAck

\* A task is in the queue or unacked; what the worker holds is unacked, in one
\* place, and young enough that the broker does not give it back.
Custody ==
  /\ queue \cap unacked = {}
  /\ Held \subseteq unacked
  /\ reserved \cap (current \cup toAck) = {}
  /\ \A t \in Held : age[t] < Visibility
  /\ \A t \in Tasks \ unacked : age[t] = 0

\* No process, no held task and no running machine; one task at a time, which
\* the watchdog counts; it fires once, on a worker that is up.
Process ==
  /\ proc \in {"down", "booting"} => Held = {}
  /\ machine \in Startable => proc = "down"
  /\ dog = "firing" => proc = "up"
  /\ proc = "stopping" => dog = "ended"
  /\ busy = IF current = {} THEN 0 ELSE 1
  /\ current # {} => toAck = {}
  /\ \A s, t \in current : s = t
  /\ \A s, t \in toAck : s = t

\* A task that waits for a run has had no more of them than crashes.
RunsCounted ==
  \A t \in Tasks :
    /\ at[t] = "idle" => runs[t] = 0 /\ t \notin queue \cup unacked
    /\ runs[t] <= crashes + 1
    /\ t \in (queue \cup unacked) \ (current \cup toAck) => runs[t] <= crashes

WorkerInv == WorkerTypeOK /\ Custody /\ Process /\ RunsCounted

\* The initial states: nothing is queued, nothing runs.
LEMMA InitWorkerInv ==
  ASSUME WorkerInit
  PROVE  WorkerInv
<1>1. WorkerTypeOK
  BY WorkerAssumption DEF WorkerAssumption, WorkerInit, WorkerTypeOK, Alive
<1>2. Custody
  BY WorkerAssumption DEF WorkerAssumption, WorkerInit, Custody, Held
<1>3. Process
  BY DEF WorkerInit, Process, Held, Startable
<1>4. RunsCounted
  BY DEF WorkerInit, RunsCounted
<1>. QED  BY <1>1, <1>2, <1>3, <1>4 DEF WorkerInv

\* A step preserves the invariant.
LEMMA NextWorkerInv ==
  ASSUME WorkerInv, [WorkerNext]_workerVars
  PROVE  WorkerInv'
<1>. USE WorkerAssumption DEF WorkerAssumption, WorkerInv, outside,
       webVars, brokerVars, machineVars, workVars, dogVars, logVars
<1>1. ASSUME NEW t \in Tasks, Simulate(t) PROVE WorkerInv'
  <2>1. WorkerTypeOK'
    BY <1>1 DEF Simulate, Goto, WorkerTypeOK, Alive, Startable, RunsCounted, Process
  <2>2. Custody'
    BY <1>1 DEF Simulate, Goto, WorkerTypeOK, Custody, Held, RunsCounted
  <2>3. Process'
    BY <1>1 DEF Simulate, Goto, WorkerTypeOK, Alive, Startable, Custody, Process, Held
  <2>4. RunsCounted'
    BY <1>1 DEF Simulate, Goto, WorkerTypeOK, Custody, Held, RunsCounted, Process
  <2>. QED  BY <2>1, <2>2, <2>3, <2>4
<1>2. ASSUME NEW t \in Tasks, StartNotAsked(t) PROVE WorkerInv'
  <2>1. WorkerTypeOK'
    BY <1>2 DEF StartNotAsked, Goto, WorkerTypeOK, Alive, Startable, RunsCounted, Process
  <2>2. Custody'
    BY <1>2 DEF StartNotAsked, Goto, WorkerTypeOK, Custody, Held, Process
  <2>3. Process'
    BY <1>2 DEF StartNotAsked, Goto, WorkerTypeOK, Alive, Startable, Custody, Process, Held
  <2>4. RunsCounted'
    BY <1>2 DEF StartNotAsked, Goto, WorkerTypeOK, Custody, Held, RunsCounted, Process
  <2>. QED  BY <2>1, <2>2, <2>3, <2>4
<1>3. ASSUME NEW t \in Tasks, ListMachines(t) PROVE WorkerInv'
  <2>1. WorkerTypeOK'
    BY <1>3 DEF ListMachines, Goto, Running, WorkerTypeOK, Alive, Startable, RunsCounted, Process
  <2>2. Custody'
    BY <1>3 DEF ListMachines, Goto, Running, WorkerTypeOK, Custody, Held, Process
  <2>3. Process'
    BY <1>3 DEF ListMachines, Goto, Running, WorkerTypeOK, Alive, Startable, Custody, Process, Held
  <2>4. RunsCounted'
    BY <1>3 DEF ListMachines, Goto, Running, WorkerTypeOK, Custody, Held, RunsCounted, Process
  <2>. QED  BY <2>1, <2>2, <2>3, <2>4
<1>4. ASSUME NEW t \in Tasks, StartMachine(t) PROVE WorkerInv'
  <2>1. WorkerTypeOK'
    BY <1>4 DEF StartMachine, Goto, ApiStarts, WorkerTypeOK, Alive, Startable, RunsCounted, Process
  <2>2. Custody'
    BY <1>4 DEF StartMachine, Goto, ApiStarts, WorkerTypeOK, Custody, Held, Process
  <2>3. Process'
    BY <1>4 DEF StartMachine, Goto, ApiStarts, WorkerTypeOK, Alive, Startable, Custody, Process, Held
  <2>4. RunsCounted'
    BY <1>4 DEF StartMachine, Goto, ApiStarts, WorkerTypeOK, Custody, Held, RunsCounted, Process
  <2>. QED  BY <2>1, <2>2, <2>3, <2>4
<1>5. ASSUME NEW t \in Tasks, ApiFails(t) PROVE WorkerInv'
  <2>1. WorkerTypeOK'
    BY <1>5 DEF ApiFails, Goto, ApiStarts, WorkerTypeOK, Alive, Startable, RunsCounted, Process
  <2>2. Custody'
    BY <1>5 DEF ApiFails, Goto, ApiStarts, WorkerTypeOK, Custody, Held, Process
  <2>3. Process'
    BY <1>5 DEF ApiFails, Goto, ApiStarts, WorkerTypeOK, Alive, Startable, Custody, Process, Held
  <2>4. RunsCounted'
    BY <1>5 DEF ApiFails, Goto, ApiStarts, WorkerTypeOK, Custody, Held, RunsCounted, Process
  <2>. QED  BY <2>1, <2>2, <2>3, <2>4
<1>6. ASSUME VisitorLists PROVE WorkerInv'
  <2>1. WorkerTypeOK'
    BY <1>6 DEF VisitorLists, WorkerTypeOK, Alive, Startable, RunsCounted, Process
  <2>2. Custody'
    BY <1>6 DEF VisitorLists, WorkerTypeOK, Custody, Held, Process
  <2>3. Process'
    BY <1>6 DEF VisitorLists, WorkerTypeOK, Alive, Startable, Custody, Process, Held
  <2>4. RunsCounted'
    BY <1>6 DEF VisitorLists, WorkerTypeOK, Custody, Held, RunsCounted, Process
  <2>. QED  BY <2>1, <2>2, <2>3, <2>4
<1>7. ASSUME Boot PROVE WorkerInv'
  <2>1. WorkerTypeOK'
    BY <1>7 DEF Boot, WorkerTypeOK, Alive, Startable, RunsCounted, Process
  <2>2. Custody'
    BY <1>7 DEF Boot, WorkerTypeOK, Custody, Held, Process
  <2>3. Process'
    BY <1>7 DEF Boot, WorkerTypeOK, Alive, Startable, Custody, Process, Held
  <2>4. RunsCounted'
    BY <1>7 DEF Boot, WorkerTypeOK, Custody, Held, RunsCounted, Process
  <2>. QED  BY <2>1, <2>2, <2>3, <2>4
<1>8. ASSUME NEW t \in Tasks, Deliver(t) PROVE WorkerInv'
  <2>1. WorkerTypeOK'
    BY <1>8 DEF Deliver, WorkerTypeOK, Alive, Startable, RunsCounted, Process
  <2>2. Custody'
    BY <1>8 DEF Deliver, WorkerTypeOK, Custody, Held, Process
  <2>3. Process'
    BY <1>8 DEF Deliver, WorkerTypeOK, Alive, Startable, Custody, Process, Held
  <2>4. RunsCounted'
    BY <1>8 DEF Deliver, WorkerTypeOK, Custody, Held, RunsCounted, Process
  <2>. QED  BY <2>1, <2>2, <2>3, <2>4
<1>9. ASSUME NEW t \in Tasks, StartTask(t) PROVE WorkerInv'
  <2>1. RunsCounted'
    BY <1>9 DEF StartTask, WorkerTypeOK, Custody, Held, RunsCounted, Process
  <2>2. Custody'
    BY <1>9 DEF StartTask, WorkerTypeOK, Custody, Held, Process
  <2>3. Process'
    BY <1>9 DEF StartTask, WorkerTypeOK, Alive, Startable, Custody, Process, Held
  <2>4. WorkerTypeOK'
    <3>1. \A s \in Tasks : runs'[s] \in 0..(MaxCrashes + 1)
      BY <1>9, <2>1 DEF StartTask, WorkerTypeOK, RunsCounted
    <3>. QED  BY <1>9, <3>1 DEF StartTask, WorkerTypeOK, Alive, Process
  <2>. QED  BY <2>1, <2>2, <2>3, <2>4
<1>10. ASSUME NEW t \in Tasks, FinishTask(t) PROVE WorkerInv'
  <2>1. WorkerTypeOK'
    BY <1>10 DEF FinishTask, WorkerTypeOK, Alive, Startable, RunsCounted, Process
  <2>2. Custody'
    BY <1>10 DEF FinishTask, WorkerTypeOK, Custody, Held, Process
  <2>3. Process'
    BY <1>10 DEF FinishTask, WorkerTypeOK, Alive, Startable, Custody, Process, Held
  <2>4. RunsCounted'
    BY <1>10 DEF FinishTask, WorkerTypeOK, Custody, Held, RunsCounted, Process
  <2>. QED  BY <2>1, <2>2, <2>3, <2>4
<1>11. ASSUME NEW t \in Tasks, Ack(t) PROVE WorkerInv'
  <2>1. WorkerTypeOK'
    BY <1>11 DEF Ack, WorkerTypeOK, Alive, Startable, RunsCounted, Process
  <2>2. Custody'
    BY <1>11 DEF Ack, WorkerTypeOK, Custody, Held, Process
  <2>3. Process'
    BY <1>11 DEF Ack, WorkerTypeOK, Alive, Startable, Custody, Process, Held
  <2>4. RunsCounted'
    BY <1>11 DEF Ack, WorkerTypeOK, Custody, Held, RunsCounted, Process
  <2>. QED  BY <2>1, <2>2, <2>3, <2>4
<1>12. ASSUME Check PROVE WorkerInv'
  <2>1. WorkerTypeOK'
    BY <1>12 DEF Check, WorkerTypeOK, Alive, Startable, RunsCounted, Process
  <2>2. Custody'
    BY <1>12 DEF Check, WorkerTypeOK, Custody, Held, Process
  <2>3. Process'
    BY <1>12 DEF Check, WorkerTypeOK, Alive, Startable, Custody, Process, Held
  <2>4. RunsCounted'
    BY <1>12 DEF Check, WorkerTypeOK, Custody, Held, RunsCounted, Process
  <2>. QED  BY <2>1, <2>2, <2>3, <2>4
<1>13. ASSUME Sigterm PROVE WorkerInv'
  <2>1. WorkerTypeOK'
    BY <1>13 DEF Sigterm, WorkerTypeOK, Alive, Startable, RunsCounted, Process
  <2>2. Custody'
    BY <1>13 DEF Sigterm, WorkerTypeOK, Custody, Held, Process
  <2>3. Process'
    BY <1>13 DEF Sigterm, WorkerTypeOK, Alive, Startable, Custody, Process, Held
  <2>4. RunsCounted'
    BY <1>13 DEF Sigterm, WorkerTypeOK, Custody, Held, RunsCounted, Process
  <2>. QED  BY <2>1, <2>2, <2>3, <2>4
<1>14. ASSUME WarmExit PROVE WorkerInv'
  <2>1. WorkerTypeOK'
    BY <1>14 DEF WarmExit, WorkerTypeOK, Alive, Startable, RunsCounted, Process
  <2>2. Custody'
    BY <1>14 DEF WarmExit, WorkerTypeOK, Custody, Held, Process
  <2>3. Process'
    BY <1>14 DEF WarmExit, WorkerTypeOK, Alive, Startable, Custody, Process, Held
  <2>4. RunsCounted'
    BY <1>14 DEF WarmExit, WorkerTypeOK, Custody, Held, RunsCounted, Process
  <2>. QED  BY <2>1, <2>2, <2>3, <2>4
<1>15. ASSUME Crash PROVE WorkerInv'
  <2>1. RunsCounted'
    BY <1>15 DEF Crash, WorkerTypeOK, Custody, Held, RunsCounted, Process
  <2>2. Custody'
    BY <1>15 DEF Crash, WorkerTypeOK, Custody, Held, Process
  <2>3. Process'
    BY <1>15 DEF Crash, WorkerTypeOK, Alive, Startable, Custody, Process, Held
  <2>4. WorkerTypeOK'
    <3>1. crashes' \in 0..MaxCrashes
      BY <1>15 DEF Crash, WorkerTypeOK
    <3>2. idle' \in 0..IdleLimit
      BY <1>15 DEF Crash
    <3>. QED  BY <1>15, <3>1, <3>2 DEF Crash, WorkerTypeOK, Alive
  <2>. QED  BY <2>1, <2>2, <2>3, <2>4
<1>16. ASSUME FlySeesExit PROVE WorkerInv'
  <2>1. WorkerTypeOK'
    BY <1>16 DEF FlySeesExit, WorkerTypeOK, Alive, Startable, RunsCounted, Process
  <2>2. Custody'
    BY <1>16 DEF FlySeesExit, WorkerTypeOK, Custody, Held, Process
  <2>3. Process'
    BY <1>16 DEF FlySeesExit, WorkerTypeOK, Alive, Startable, Custody, Process, Held
  <2>4. RunsCounted'
    BY <1>16 DEF FlySeesExit, WorkerTypeOK, Custody, Held, RunsCounted, Process
  <2>. QED  BY <2>1, <2>2, <2>3, <2>4
<1>17. ASSUME NEW t \in Tasks, Restore(t) PROVE WorkerInv'
  <2>1. WorkerTypeOK'
    BY <1>17 DEF Restore, WorkerTypeOK, Alive, Startable, RunsCounted, Process
  <2>2. Custody'
    BY <1>17 DEF Restore, WorkerTypeOK, Custody, Held, Process
  <2>3. Process'
    BY <1>17 DEF Restore, WorkerTypeOK, Alive, Startable, Custody, Process, Held
  <2>4. RunsCounted'
    BY <1>17 DEF Restore, WorkerTypeOK, Custody, Held, RunsCounted, Process
  <2>. QED  BY <2>1, <2>2, <2>3, <2>4
<1>18. ASSUME Tick PROVE WorkerInv'
  <2>1. WorkerTypeOK'
    BY <1>18 DEF Tick, Prompt, WorkerTypeOK, Alive, Startable, RunsCounted, Process
  <2>2. Custody'
    BY <1>18 DEF Tick, Prompt, WorkerTypeOK, Custody, Held, Process
  <2>3. Process'
    BY <1>18 DEF Tick, Prompt, WorkerTypeOK, Alive, Startable, Custody, Process, Held
  <2>4. RunsCounted'
    BY <1>18 DEF Tick, Prompt, WorkerTypeOK, Custody, Held, RunsCounted, Process
  <2>. QED  BY <2>1, <2>2, <2>3, <2>4
<1>19. ASSUME VisitorStarts PROVE WorkerInv'
  <2>1. WorkerTypeOK'
    BY <1>19 DEF VisitorStarts, ApiStarts, WorkerTypeOK, Alive, Startable, RunsCounted, Process
  <2>2. Custody'
    BY <1>19 DEF VisitorStarts, ApiStarts, WorkerTypeOK, Custody, Held, Process
  <2>3. Process'
    BY <1>19 DEF VisitorStarts, ApiStarts, WorkerTypeOK, Alive, Startable, Custody, Process, Held
  <2>4. RunsCounted'
    BY <1>19 DEF VisitorStarts, ApiStarts, WorkerTypeOK, Custody, Held, RunsCounted, Process
  <2>. QED  BY <2>1, <2>2, <2>3, <2>4
<1>20. ASSUME VisitorFails PROVE WorkerInv'
  <2>1. WorkerTypeOK'
    BY <1>20 DEF VisitorFails, ApiStarts, WorkerTypeOK, Alive, Startable, RunsCounted, Process
  <2>2. Custody'
    BY <1>20 DEF VisitorFails, ApiStarts, WorkerTypeOK, Custody, Held, Process
  <2>3. Process'
    BY <1>20 DEF VisitorFails, ApiStarts, WorkerTypeOK, Alive, Startable, Custody, Process, Held
  <2>4. RunsCounted'
    BY <1>20 DEF VisitorFails, ApiStarts, WorkerTypeOK, Custody, Held, RunsCounted, Process
  <2>. QED  BY <2>1, <2>2, <2>3, <2>4
<1>21. CASE UNCHANGED workerVars
  BY <1>21 DEF workerVars, WorkerTypeOK, Custody, Process, RunsCounted, Held
<1>. QED  BY <1>1, <1>2, <1>3, <1>4, <1>5, <1>6, <1>7, <1>8, <1>9, <1>10, <1>11, <1>12, <1>13,
                <1>14, <1>15, <1>16, <1>17, <1>18, <1>19, <1>20, <1>21 DEF WorkerNext, Request, Work

\* The worker's variables keep their types; the watchdog counts at most one task.
THEOREM WorkerTypeCorrect == WorkerSpec => []WorkerTypeOK
<1>. QED  BY InitWorkerInv, NextWorkerInv, PTL DEF WorkerSpec, WorkerInv

\* "A task might run twice" only for a crash (task_acks_late): neither the watchdog,
\* a warm shutdown nor the broker's redelivery makes a second run of a task.
THEOREM RunsAgainOnlyAfterCrashHolds == WorkerSpec => []RunsAgainOnlyAfterCrash
<1>1. WorkerInv => RunsAgainOnlyAfterCrash
  BY DEF WorkerInv, RunsCounted, WorkerTypeOK, RunsAgainOnlyAfterCrash
<1>. QED  BY <1>1, InitWorkerInv, NextWorkerInv, PTL DEF WorkerSpec
==============================================================================
