---------------------------- MODULE WorkerLifecycle ----------------------------
(***************************************************************************)
(* The worker that is started on demand.  The web process queues a         *)
(* simulation and asks Fly to start the worker's machine                   *)
(* (core/fly_machines.py); the worker runs one task at a time, acks it     *)
(* when it has ended (workers/celery_app.py), and a watchdog thread ends   *)
(* the process by a warm shutdown once no task has run for a while         *)
(* (workers/idle_shutdown.py); a clean exit leaves the machine stopped, a  *)
(* crash is restarted (fly.toml).  One machine, as in fly.toml; a tick of  *)
(* the clock is a unit both timeouts are counted in.  The specification's  *)
(* parts carry the worker's name, for the module that extends this one     *)
(* together with the simulator screen's (Simulation_proofs).               *)
(***************************************************************************)
EXTENDS Integers, FiniteSets

CONSTANTS
  Tasks,        \* simulate requests; each queues one task
  IdleLimit,    \* WORKER_IDLE_EXIT_MINUTES
  Visibility,   \* the broker gives back what is not acked for this long
  Prefetch,     \* messages the worker holds that it has not started
  MaxCrashes,   \* bound on the crashes of the worker
  ApiMayFail,   \* the Machines API may answer with an error or not at all
  Later         \* whether somebody may, and will, simulate later on

ASSUME WorkerAssumption ==
  /\ {IdleLimit, Visibility, Prefetch} \subseteq Nat \ {0}
  /\ IdleLimit < Visibility            \* 10 minutes and 1 hour
  /\ MaxCrashes \in Nat
  /\ ApiMayFail \in BOOLEAN
  /\ Later \subseteq BOOLEAN

VARIABLES
  anyoneLater, \* somebody simulates again whenever the machine is stopped
  setting,  \* FLY_WORKER_AUTOSTART with its token: "on", "off", "misconfigured"
  at,       \* where each request is
  visitor,  \* a later visitor's request: "away" or "posting"
  queue,    \* the broker's list
  unacked,  \* delivered, not acked
  age,      \* ticks since a task was delivered
  machine,  \* the state the Machines API reports
  proc,     \* the worker process
  clean,    \* its exit code was 0
  reserved, \* delivered to the worker, not started
  current,  \* the tasks it runs
  toAck,    \* ended, its message not acked yet
  busy,     \* IdleWatchdog._running_tasks
  idle,     \* ticks since IdleWatchdog._last_activity
  dog,      \* the watchdog thread
  stored,   \* tasks with a result
  runs,     \* history: how often each task was started
  crashes   \* history: crashes so far

outside     == <<anyoneLater, setting>>
webVars     == <<outside, at, visitor>>
brokerVars  == <<queue, unacked, age>>
machineVars == <<machine, clean>>
workVars    == <<reserved, current, toAck>>
dogVars     == <<busy, idle, dog>>
logVars     == <<stored, runs, crashes>>
workerVars  == <<webVars, brokerVars, machineVars, proc, workVars, dogVars, logVars>>

Running   == {"started", "starting"}    \* _RUNNING_STATES
Startable == {"stopped", "suspended"}   \* _STARTABLE_STATES
Alive     == {"booting", "up", "stopping"}

Queued(t) == at[t] \in {"queued", "posting", "accepted"}

Goto(t, where) == at' = [at EXCEPT ![t] = where]

WorkerInit ==
  /\ anyoneLater \in Later
  /\ setting \in {"on", "off", "misconfigured"}
  /\ at = [t \in Tasks |-> "idle"] /\ visitor = "away"
  /\ queue = {} /\ unacked = {}
  /\ age = [t \in Tasks |-> 0]
  /\ \/ machine = "stopped" /\ proc = "down"
     \/ machine = "started" /\ proc = "up"
  /\ clean = TRUE
  /\ reserved = {} /\ current = {} /\ toAck = {}
  /\ busy = 0 /\ idle = 0 /\ dog = "polling"
  /\ stored = {}
  /\ runs = [t \in Tasks |-> 0]
  /\ crashes = 0

------------------------------------------------------------------------------
(* POST /strategy/{session_id}/simulate, in the web process.               *)

\* run_race_simulation.delay
Simulate(t) ==
  /\ at[t] = "idle"
  /\ Goto(t, "queued")
  /\ queue' = queue \cup {t}
  /\ UNCHANGED <<outside, visitor, unacked, age, machineVars, proc, workVars, dogVars, logVars>>

\* Nothing is sent when autostart is off or has no token.
StartNotAsked(t) ==
  /\ at[t] = "queued"
  /\ setting # "on"
  /\ Goto(t, "accepted")
  /\ UNCHANGED <<outside, visitor, brokerVars, machineVars, proc, workVars, dogVars, logVars>>

\* GET machines: what to do is decided on the state it lists.
ListMachines(t) ==
  /\ at[t] = "queued"
  /\ setting = "on"
  /\ \/ machine \in Running /\ Goto(t, "accepted")     \* ALREADY_RUNNING
     \/ machine \in Startable /\ Goto(t, "posting")
     \/ machine \notin Running \cup Startable /\ Goto(t, "accepted")  \* NO_WORKER_MACHINE
  /\ UNCHANGED <<outside, visitor, brokerVars, machineVars, proc, workVars, dogVars, logVars>>

\* The API starts a machine that is stopped; one that runs stays as it is.
ApiStarts ==
  IF machine \in Startable
    THEN machine' = "starting" /\ proc' = "booting"
    ELSE UNCHANGED <<machine, proc>>

\* POST machines/{id}/start
StartMachine(t) ==
  /\ at[t] = "posting"
  /\ ApiStarts
  /\ Goto(t, "accepted")
  /\ UNCHANGED <<outside, visitor, brokerVars, clean, workVars, dogVars, logVars>>

\* Unreachable, timed out or refused: logged.  A POST that timed out may have
\* been carried out.
ApiFails(t) ==
  /\ ApiMayFail
  /\ at[t] \in {"queued", "posting"}
  /\ setting = "on"
  /\ \/ at[t] = "posting" /\ ApiStarts
     \/ UNCHANGED <<machine, proc>>
  /\ Goto(t, "accepted")
  /\ UNCHANGED <<outside, visitor, brokerVars, clean, workVars, dogVars, logVars>>

\* A later visitor's simulation finds the machine stopped, asks for its start,
\* and may fail to, like any request; its own task is left out.
VisitorLists ==
  /\ anyoneLater /\ setting = "on" /\ visitor = "away"
  /\ machine \in Startable
  /\ visitor' = "posting"
  /\ UNCHANGED <<outside, at, brokerVars, machineVars, proc, workVars, dogVars, logVars>>

VisitorStarts ==
  /\ visitor = "posting"
  /\ ApiStarts
  /\ visitor' = "away"
  /\ UNCHANGED <<outside, at, brokerVars, clean, workVars, dogVars, logVars>>

VisitorFails ==
  /\ ApiMayFail
  /\ visitor = "posting"
  /\ ApiStarts \/ UNCHANGED <<machine, proc>>
  /\ visitor' = "away"
  /\ UNCHANGED <<outside, at, brokerVars, clean, workVars, dogVars, logVars>>

------------------------------------------------------------------------------
(* The worker process.                                                     *)

\* worker_init starts the watchdog and with it the idle clock.
Boot ==
  /\ proc = "booting"
  /\ proc' = "up"
  /\ machine' = "started"
  /\ busy' = 0 /\ idle' = 0 /\ dog' = "polling"
  /\ UNCHANGED <<webVars, brokerVars, clean, workVars, logVars>>

\* Mutant of Deliver: acked at once, without task_acks_late.
DeliverAcked(t) ==
  /\ proc = "up"
  /\ t \in queue
  /\ Cardinality(reserved) < Prefetch
  /\ queue' = queue \ {t}
  /\ reserved' = reserved \cup {t}
  /\ UNCHANGED <<webVars, unacked, age, machineVars, proc, current, toAck, dogVars, logVars>>

\* The message is kept by the broker until it is acked.
Deliver(t) ==
  /\ proc = "up"
  /\ t \in queue
  /\ Cardinality(reserved) < Prefetch
  /\ queue' = queue \ {t}
  /\ unacked' = unacked \cup {t}
  /\ reserved' = reserved \cup {t}
  /\ UNCHANGED <<webVars, age, machineVars, proc, current, toAck, dogVars, logVars>>

\* task_prerun and the task: one at a time (--pool=solo).
StartTask(t) ==
  /\ proc = "up"
  /\ t \in reserved
  /\ current = {} /\ toAck = {}
  /\ reserved' = reserved \ {t}
  /\ current' = {t}
  /\ busy' = busy + 1 /\ idle' = 0
  /\ runs' = [runs EXCEPT ![t] = @ + 1]
  /\ UNCHANGED <<webVars, brokerVars, machineVars, proc, toAck, dog, stored, crashes>>

\* Mutant of FinishTask: task_postrun reports nothing.
FinishTaskUnseen(t) ==
  /\ t \in current
  /\ current' = {}
  /\ toAck' = {t}
  /\ stored' = stored \cup {t}
  /\ UNCHANGED <<webVars, brokerVars, machineVars, proc, reserved, dogVars, runs, crashes>>

\* The result, or the failure, is stored; task_postrun.
FinishTask(t) ==
  /\ t \in current
  /\ current' = {}
  /\ toAck' = {t}
  /\ stored' = stored \cup {t}
  /\ busy' = IF busy = 0 THEN 0 ELSE busy - 1
  /\ idle' = 0
  /\ UNCHANGED <<webVars, brokerVars, machineVars, proc, reserved, dog, runs, crashes>>

Ack(t) ==
  /\ t \in toAck
  /\ toAck' = {}
  /\ unacked' = unacked \ {t}
  /\ age' = [age EXCEPT ![t] = 0]
  /\ UNCHANGED <<webVars, queue, machineVars, proc, reserved, current, dogVars, logVars>>

------------------------------------------------------------------------------
(* The watchdog thread.                                                    *)

\* IdleWatchdog.check, under the lock.
Check ==
  /\ proc \in {"up", "stopping"}
  /\ dog = "polling"
  /\ busy = 0
  /\ idle = IdleLimit
  /\ dog' = "firing"
  /\ UNCHANGED <<webVars, brokerVars, machineVars, proc, workVars, busy, idle, logVars>>

\* stop_this_worker, after the lock is released: a task may have begun.
Sigterm ==
  /\ dog = "firing"
  /\ dog' = "ended"
  /\ proc' = "stopping"
  /\ UNCHANGED <<webVars, brokerVars, machineVars, workVars, busy, idle, logVars>>

\* Mutant of WarmExit: the running task is not waited for.
ColdExit ==
  /\ proc = "stopping"
  /\ queue' = queue \cup reserved \cup current
  /\ unacked' = unacked \ (reserved \cup current)
  /\ age' = [t \in Tasks |-> IF t \in reserved \cup current THEN 0 ELSE age[t]]
  /\ reserved' = {} /\ current' = {} /\ toAck' = {}
  /\ proc' = "down" /\ clean' = TRUE
  /\ UNCHANGED <<webVars, machine, dogVars, logVars>>

\* The warm shutdown: what runs is finished and acked, what was delivered
\* goes back to the queue.
WarmExit ==
  /\ proc = "stopping"
  /\ current = {} /\ toAck = {}
  /\ queue' = queue \cup reserved
  /\ unacked' = unacked \ reserved
  /\ age' = [t \in Tasks |-> IF t \in reserved THEN 0 ELSE age[t]]
  /\ reserved' = {}
  /\ proc' = "down" /\ clean' = TRUE
  /\ UNCHANGED <<webVars, machine, current, toAck, dogVars, logVars>>

\* Killed, out of memory: what it held stays unacked.
Crash ==
  /\ crashes < MaxCrashes
  /\ proc \in Alive
  /\ crashes' = crashes + 1
  /\ reserved' = {} /\ current' = {} /\ toAck' = {}
  /\ busy' = 0 /\ idle' = 0 /\ dog' = "ended"
  /\ proc' = "down" /\ clean' = FALSE
  /\ UNCHANGED <<webVars, brokerVars, machine, stored, runs>>

------------------------------------------------------------------------------
(* Fly, the broker and the clock.                                          *)

\* The machine is seen to stop, or is restarted after a crash ("on-failure").
FlySeesExit ==
  /\ proc = "down"
  /\ machine \in {"starting", "started", "stopping"}
  /\ IF clean
       THEN /\ machine' \in {"stopping", "stopped"} \ {machine}
            /\ machine = "stopping" => machine' = "stopped"
            /\ UNCHANGED proc
       ELSE machine' = "starting" /\ proc' = "booting"
  /\ UNCHANGED <<webVars, brokerVars, clean, workVars, dogVars, logVars>>

\* A consumer gives back what has not been acked for Visibility.
Restore(t) ==
  /\ proc = "up"
  /\ t \in unacked
  /\ age[t] = Visibility
  /\ unacked' = unacked \ {t}
  /\ queue' = queue \cup {t}
  /\ age' = [age EXCEPT ![t] = 0]
  /\ UNCHANGED <<webVars, machineVars, proc, workVars, dogVars, logVars>>

\* Everything but a simulation is quick against a tick, and a simulation is
\* quick against Visibility.
Prompt ==
  /\ proc = "up" => queue = {} \/ Cardinality(reserved) = Prefetch
  /\ proc = "up" /\ current = {} => reserved = {} /\ toAck = {}
  /\ proc = "up" => \A t \in unacked : age[t] < Visibility
  /\ \A t \in reserved \cup current \cup toAck : age[t] + 1 < Visibility

Tick ==
  /\ Prompt
  /\ idle' = IF idle < IdleLimit /\ proc \in {"up", "stopping"} THEN idle + 1 ELSE idle
  /\ age' = [t \in Tasks |-> IF t \in unacked /\ age[t] < Visibility THEN age[t] + 1 ELSE age[t]]
  /\ <<idle, age>>' # <<idle, age>>
  /\ UNCHANGED <<webVars, queue, unacked, machineVars, proc, workVars, busy, dog, logVars>>

Request(t) == StartNotAsked(t) \/ ListMachines(t) \/ StartMachine(t) \/ ApiFails(t)
Work(t)    == Deliver(t) \/ StartTask(t) \/ FinishTask(t) \/ Ack(t) \/ Restore(t)

WorkerNext ==
  \/ \E t \in Tasks : Simulate(t) \/ Request(t) \/ Work(t)
  \/ VisitorLists \/ VisitorStarts \/ VisitorFails \/ Boot \/ Check \/ Sigterm \/ WarmExit \/ Crash
  \/ FlySeesExit \/ Tick

WorkerSpec == WorkerInit /\ [][WorkerNext]_workerVars

\* Both threads, Fly and the clock go on, and a request that queued its task
\* goes through.  Nobody has to simulate, nothing has to fail; later visitors
\* keep coming, if any are assumed, and the Machines API does not fail them all.
Fairness ==
  /\ \A t \in Tasks : WF_workerVars(Request(t)) /\ WF_workerVars(Work(t))
  /\ WF_workerVars(Boot) /\ WF_workerVars(Check) /\ WF_workerVars(Sigterm) /\ WF_workerVars(WarmExit)
  /\ WF_workerVars(FlySeesExit) /\ WF_workerVars(Tick)
  /\ WF_workerVars(VisitorLists) /\ SF_workerVars(VisitorStarts)

WorkerFairSpec == WorkerSpec /\ Fairness

------------------------------------------------------------------------------
\* Every variable has its type; the watchdog counts at most one running task,
\* which is what makes it see the worker idle again.
WorkerTypeOK ==
  /\ anyoneLater \in Later
  /\ setting \in {"on", "off", "misconfigured"}
  /\ at \in [Tasks -> {"idle", "queued", "posting", "accepted"}]
  /\ visitor \in {"away", "posting"}
  /\ queue \subseteq Tasks /\ unacked \subseteq Tasks
  /\ age \in [Tasks -> 0..Visibility]
  /\ machine \in {"stopped", "starting", "started", "stopping"}
  /\ proc \in Alive \cup {"down"}
  /\ clean \in BOOLEAN
  /\ reserved \subseteq Tasks /\ current \subseteq Tasks /\ toAck \subseteq Tasks
  /\ busy \in {0, 1} /\ idle \in 0..IdleLimit
  /\ dog \in {"polling", "firing", "ended"}
  /\ stored \subseteq Tasks
  /\ runs \in [Tasks -> 0..(MaxCrashes + 1)]
  /\ crashes \in 0..MaxCrashes

\* "A task might run twice" only for a crash: neither the watchdog, a warm
\* shutdown nor the broker's redelivery makes a second run of a task.
RunsAgainOnlyAfterCrash == \A t \in Tasks : runs[t] =< 1 + crashes

\* idle_shutdown.py:3-8: when nobody simulates any more the machine ends up
\* stopped: a worker that has nothing to do is not left running, and billed.
IdleWorkerStops == <>[](~anyoneLater => machine = "stopped" /\ proc = "down")

\* "The queued task is not lost: it runs when a worker next starts"
\* (runbook.md): with later visitors a queued simulation is run, whatever
\* crashed, was shut down or failed in between.  (Without one, a task queued while
\* the machine is listed as started and its worker is about to stop stays there.)
QueuedTaskRuns ==
  \A t \in Tasks : anyoneLater /\ Queued(t) /\ setting = "on" ~> t \in stored
==============================================================================
