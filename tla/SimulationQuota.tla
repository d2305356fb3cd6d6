--------------------------- MODULE SimulationQuota ---------------------------
(***************************************************************************)
(* The daily Strategy Simulator quota and the POST .../simulate handler    *)
(* that takes it: services/simulation_quota_service.py and                 *)
(* apis/v1/strategy.py:simulate_strategy.                                  *)
(*                                                                         *)
(* Each request runs reserve() as a Redis optimistic transaction, WATCH,   *)
(* GET, GET, MULTI/EXEC, one round trip per step, so the steps of several  *)
(* requests interleave.  It then publishes the task and gives the quota    *)
(* back when the publish call raises.                                      *)
(***************************************************************************)
EXTENDS Integers, FiniteSets

CONSTANTS
  Users,           \* accounts
  Requests,        \* simulate calls; each runs once
  MaxDay,          \* bound on the number of midnights, days are 0..MaxDay
  MaxScenarios,    \* most scenarios in one request (4 in the request schema)
  UserLimit,       \* AppSettings.sim_daily_scenarios_per_user
  GlobalLimit,     \* AppSettings.sim_daily_scenarios_global
  MaxAttempts      \* _MAX_ATTEMPTS

ASSUME QuotaAssumption ==
  /\ IsFiniteSet(Requests)
  /\ MaxDay \in Nat
  /\ MaxScenarios \in Nat \ {0}
  /\ UserLimit \in Int
  /\ GlobalLimit \in Int
  /\ MaxAttempts \in Nat \ {0}

VARIABLES
  userUsed,   \* f1:sim_quota:user:{user}:{day}, 0 when the key is missing
  globalUsed, \* f1:sim_quota:global:{day}, 0 when the key is missing
  expired,    \* days whose keys have expired
  today,      \* datetime.now(UTC).date()
  pc,         \* where each request is
  req,        \* the caller, day and scenario count of each request
  seen,       \* the counters an open transaction has read since its WATCH
  dirty,      \* a key an open transaction watches has changed
  attempts,   \* passes of reserve()'s loop
  queued      \* requests whose task reached the Celery queue

quotaVars == <<userUsed, globalUsed, expired>>
txVars    == <<seen, dirty, attempts>>
vars      == <<quotaVars, today, pc, req, txVars, queued>>

Days == 0..MaxDay

\* A request inside reserve(), and one that holds a reservation.
Watching  == {"readUser", "readGlobal", "exec"}
Reserving == Watching \cup {"watch"}
Holding   == {"publish", "refund"}
InFlight  == Reserving \cup Holding
Charged   == Holding \cup {"accepted", "leaked"}
Ended     == {"accepted", "refused", "conflict", "dropped", "refunded", "leaked"}

NothingSeen == [user |-> 0, site |-> 0]

NoRequest == [user |-> "nobody"]
Request   == [user : Users, day : Days, scenarios : 1..MaxScenarios]

Unlimited == UserLimit <= 0 /\ GlobalLimit <= 0

Fits(limit, used, scenarios) == limit > 0 => used + scenarios <= limit

UserCount(r)   == userUsed[req[r].user][req[r].day]
GlobalCount(r) == globalUsed[req[r].day]

Goto(r, where) == pc' = [pc EXCEPT ![r] = where]

------------------------------------------------------------------------------
Init ==
  /\ userUsed = [u \in Users |-> [d \in Days |-> 0]]
  /\ globalUsed = [d \in Days |-> 0]
  /\ expired = {}
  /\ today = 0
  /\ pc = [r \in Requests |-> "idle"]
  /\ req = [r \in Requests |-> NoRequest]
  /\ seen = [r \in Requests |-> NothingSeen]
  /\ dirty = [r \in Requests |-> FALSE]
  /\ attempts = [r \in Requests |-> 0]
  /\ queued = {}

\* A validated simulate call enters reserve(), which fixes its day.  With no
\* limit configured reserve() returns None and nothing is counted.
Arrive(r, u, n) ==
  /\ pc[r] = "idle"
  /\ req' = [req EXCEPT ![r] = [user |-> u, day |-> today, scenarios |-> n]]
  /\ Goto(r, IF Unlimited THEN "publish" ELSE "watch")
  /\ UNCHANGED <<quotaVars, today, txVars, queued>>

WatchKeys(r) ==
  /\ pc[r] = "watch"
  /\ attempts' = [attempts EXCEPT ![r] = @ + 1]
  /\ Goto(r, "readUser")
  /\ UNCHANGED <<quotaVars, today, req, seen, dirty, queued>>

ReadUser(r) ==
  /\ pc[r] = "readUser"
  /\ seen' = [seen EXCEPT ![r].user = UserCount(r)]
  /\ Goto(r, "readGlobal")
  /\ UNCHANGED <<quotaVars, today, req, dirty, attempts, queued>>

\* Mutant of ReadGlobal: the last scenario is refused (>= for >).
ReadGlobalOffByOne(r) ==
  LET fits == /\ Fits(UserLimit, seen[r].user, req[r].scenarios)
              /\ Fits(GlobalLimit, GlobalCount(r), req[r].scenarios + 1)
  IN /\ pc[r] = "readGlobal"
     /\ seen' = [seen EXCEPT ![r] =
                   IF fits THEN [@ EXCEPT !.site = GlobalCount(r)] ELSE NothingSeen]
     /\ dirty' = [dirty EXCEPT ![r] = @ /\ fits]
     /\ Goto(r, IF fits THEN "exec" ELSE "refused")
     /\ UNCHANGED <<quotaVars, today, req, attempts, queued>>

\* Both limits are checked after the second GET, against the values read; a
\* refusal leaves the pipeline, which unwatches.
ReadGlobal(r) ==
  LET fits == /\ Fits(UserLimit, seen[r].user, req[r].scenarios)
              /\ Fits(GlobalLimit, GlobalCount(r), req[r].scenarios)
  IN /\ pc[r] = "readGlobal"
     /\ seen' = [seen EXCEPT ![r] =
                   IF fits THEN [@ EXCEPT !.site = GlobalCount(r)] ELSE NothingSeen]
     /\ dirty' = [dirty EXCEPT ![r] = @ /\ fits]
     /\ Goto(r, IF fits THEN "exec" ELSE "refused")
     /\ UNCHANGED <<quotaVars, today, req, attempts, queued>>

\* Both counters move together, and every transaction that watches one of them
\* is dirty: the site's counter of a day is watched by every request of it.
Charge(r, n) ==
  /\ userUsed' = [userUsed EXCEPT ![req[r].user][req[r].day] = @ + n]
  /\ globalUsed' = [globalUsed EXCEPT ![req[r].day] = @ + n]
  /\ dirty' = [s \in Requests |->
                 \/ dirty[s]
                 \/ s # r /\ pc[s] \in Watching /\ req[s].day = req[r].day]
  /\ UNCHANGED expired

\* Mutant of Exec: the keys are not watched.
ExecUnwatched(r) ==
  /\ pc[r] = "exec"
  /\ Charge(r, req[r].scenarios)
  /\ seen' = [seen EXCEPT ![r] = NothingSeen]
  /\ Goto(r, "publish")
  /\ UNCHANGED <<today, req, attempts, queued>>

\* EXEC of MULTI: applied whole because no watched key changed.  The reply may
\* be lost, and then the scenarios stay counted for a request that failed.
Exec(r) ==
  /\ pc[r] = "exec"
  /\ ~dirty[r]
  /\ Charge(r, req[r].scenarios)
  /\ seen' = [seen EXCEPT ![r] = NothingSeen]
  /\ \/ Goto(r, "publish")
     \/ Goto(r, "leaked")
  /\ UNCHANGED <<today, req, attempts, queued>>

\* EXEC unwatches and returns nil, WatchError: another pass, or ConflictError
\* after the last.
ExecAborted(r) ==
  /\ pc[r] = "exec"
  /\ dirty[r]
  /\ dirty' = [dirty EXCEPT ![r] = FALSE]
  /\ seen' = [seen EXCEPT ![r] = NothingSeen]
  /\ Goto(r, IF attempts[r] < MaxAttempts THEN "watch" ELSE "conflict")
  /\ UNCHANGED <<quotaVars, today, req, attempts, queued>>

\* run_race_simulation.delay succeeds.
Publish(r) ==
  /\ pc[r] = "publish"
  /\ queued' = queued \cup {r}
  /\ Goto(r, "accepted")
  /\ UNCHANGED <<quotaVars, today, req, txVars>>

\* It raises KombuOperationalError or RedisError.  The handler takes that for
\* "not queued"; when the reply was lost the task is in the queue all the same.
PublishRaises(r) ==
  /\ pc[r] = "publish"
  /\ \/ UNCHANGED queued
     \/ queued' = queued \cup {r}
  /\ Goto(r, "refund")
  /\ UNCHANGED <<quotaVars, today, req, txVars>>

\* Mutant of Refund: on today's counters.
RefundToday(r) ==
  /\ pc[r] = "refund"
  /\ LET n == req[r].scenarios IN
     /\ userUsed' = [userUsed EXCEPT ![req[r].user][today] = @ - n]
     /\ globalUsed' = [globalUsed EXCEPT ![today] = @ - n]
  /\ Goto(r, "refunded")
  /\ UNCHANGED <<expired, dirty, today, req, seen, attempts, queued>>

\* refund() on the day the reservation was made on; None is a no-op.
Refund(r) ==
  /\ pc[r] = "refund"
  /\ IF Unlimited THEN UNCHANGED <<quotaVars, dirty>>
                  ELSE Charge(r, -req[r].scenarios)
  /\ Goto(r, "refunded")
  /\ UNCHANGED <<today, req, seen, attempts, queued>>

\* refund() itself raises (Redis, the broker, is what just failed).
RefundRaises(r) ==
  /\ pc[r] = "refund"
  /\ Goto(r, "leaked")
  /\ UNCHANGED <<quotaVars, today, req, txVars, queued>>

\* The API process dies: every request it serves ends where it stands.
Crash ==
  /\ \E r \in Requests : pc[r] \in InFlight
  /\ pc' = [r \in Requests |->
              CASE pc[r] \in Reserving -> "dropped"
                [] pc[r] \in Holding -> "leaked"
                [] OTHER -> pc[r]]
  /\ seen' = [r \in Requests |-> NothingSeen]
  /\ dirty' = [r \in Requests |-> FALSE]
  /\ UNCHANGED <<quotaVars, today, req, attempts, queued>>

Midnight ==
  /\ today < MaxDay
  /\ today' = today + 1
  /\ UNCHANGED <<quotaVars, pc, req, txVars, queued>>

\* Mutant of ExpireDay: the keys do not outlive their day.
ExpireDayEarly(d) ==
  /\ d <= today
  /\ d \notin expired
  /\ \A r \in Requests : pc[r] \in InFlight => req[r].day # d
  /\ userUsed' = [u \in Users |-> [userUsed[u] EXCEPT ![d] = 0]]
  /\ globalUsed' = [globalUsed EXCEPT ![d] = 0]
  /\ expired' = expired \cup {d}
  /\ UNCHANGED <<today, pc, req, txVars, queued>>

\* QUOTA_KEY_TTL_SECONDS is a day and two hours from the last reservation: the
\* keys of a day outlive it, and outlive every request that began on it.
ExpireDay(d) ==
  /\ d < today
  /\ d \notin expired
  /\ \A r \in Requests : pc[r] \in InFlight => req[r].day # d
  /\ userUsed' = [u \in Users |-> [userUsed[u] EXCEPT ![d] = 0]]
  /\ globalUsed' = [globalUsed EXCEPT ![d] = 0]
  /\ expired' = expired \cup {d}
  /\ UNCHANGED <<today, pc, req, txVars, queued>>

Reserve(r) == WatchKeys(r) \/ ReadUser(r) \/ ReadGlobal(r) \/ Exec(r) \/ ExecAborted(r)
Enqueue(r) == Publish(r) \/ PublishRaises(r) \/ Refund(r) \/ RefundRaises(r)

Next ==
  \/ \E r \in Requests, u \in Users, n \in 1..MaxScenarios : Arrive(r, u, n)
  \/ \E r \in Requests : Reserve(r) \/ Enqueue(r)
  \/ Crash
  \/ Midnight
  \/ \E d \in Days : ExpireDay(d)

Spec == Init /\ [][Next]_vars

------------------------------------------------------------------------------
\* Every variable has its type; a request that is running has its parameters.
TypeOK ==
  /\ userUsed \in [Users -> [Days -> Int]]
  /\ globalUsed \in [Days -> Int]
  /\ expired \subseteq Days
  /\ today \in Days
  /\ pc \in [Requests -> {"idle"} \cup InFlight \cup Ended]
  /\ req \in [Requests -> Request \cup {NoRequest}]
  /\ seen \in [Requests -> [user : Int, site : Int]]
  /\ dirty \in [Requests -> BOOLEAN]
  /\ attempts \in [Requests -> 0..MaxAttempts]
  /\ queued \subseteq Requests
  /\ \A r \in Requests : pc[r] # "idle" => req[r] \in Request

\* simulation_quota_service.py:12-15: however the transactions of concurrent
\* requests interleave, no counter ever passes its limit.
WithinLimits ==
  \A d \in Days :
    /\ GlobalLimit > 0 => globalUsed[d] <= GlobalLimit
    /\ UserLimit > 0 => \A u \in Users : userUsed[u][d] <= UserLimit

\* How many scenarios the requests R ask for together: each is one of a request.
Scenarios(R) ==
  Cardinality({s \in R \X (1..MaxScenarios) : s[2] <= req[s[1]].scenarios})

ChargedOn(d) == {r \in Requests : pc[r] \in Charged /\ req[r].day = d}

\* simulation_quota_service.py:14-15: a request is counted against both limits
\* or neither, on the day it was reserved on, also when its refund comes after
\* midnight or other requests of the account commit in between.
CountersMatchReservations ==
  ~Unlimited =>
    \A d \in Days \ expired :
      /\ globalUsed[d] = Scenarios(ChargedOn(d))
      /\ \A u \in Users :
           userUsed[u][d] = Scenarios({r \in ChargedOn(d) : req[r].user = u})

QueuedOn(d) == {r \in queued : pc[r] # "refunded" /\ req[r].day = d}

\* simulation_quota_service.py:3-6: the simulations really queued on a day stay
\* within the account's and the site's limit, past the expiry of the counters;
\* all but those that were given back because the broker's reply was lost.
QueuedWithinLimits ==
  \A d \in Days :
    /\ Fits(GlobalLimit, Scenarios(QueuedOn(d)), 0)
    /\ \A u \in Users :
         Fits(UserLimit, Scenarios({r \in QueuedOn(d) : req[r].user = u}), 0)

------------------------------------------------------------------------------
(***************************************************************************)
(* Refinement.  A refusal takes effect when the counter that causes it is  *)
(* read: the request is refused from then on, one step before it notices   *)
(* when that was the user's counter.                                       *)
(***************************************************************************)
Doomed(r) == pc[r] = "readGlobal" /\ ~Fits(UserLimit, seen[r].user, req[r].scenarios)

Answer(r) ==
  CASE pc[r] = "idle" -> "none"
    [] pc[r] = "refused" \/ Doomed(r) -> "refused"
    [] pc[r] \in Reserving /\ ~Doomed(r) -> "asked"
    [] pc[r] \in Charged -> IF req[r].day \in expired THEN "settled" ELSE "granted"
    [] pc[r] \in {"conflict", "dropped"} -> "gaveUp"
    [] pc[r] = "refunded" -> "returned"

Ledger == INSTANCE QuotaLedger WITH
  userTaken <- userUsed,
  siteTaken <- globalUsed,
  answer <- [r \in Requests |-> Answer(r)],
  ask <- req

\* reserve() and refund() behave as one atomic check-and-take and give-back.
ImplementsLedger == Ledger!Spec
==============================================================================
