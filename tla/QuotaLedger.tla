----------------------------- MODULE QuotaLedger -----------------------------
(***************************************************************************)
(* What the daily simulation quota promises, with every decision taken in  *)
(* one indivisible step: a request is granted its scenarios from the       *)
(* caller's and the site's allowance together, or it is turned down and    *)
(* takes nothing, and a grant may later be given back.  SimulationQuota    *)
(* refines this ledger with the WATCH/GET/MULTI/EXEC transaction of        *)
(* services/simulation_quota_service.py.                                   *)
(***************************************************************************)
EXTENDS Integers

CONSTANTS
  Users,        \* accounts
  Requests,     \* POST .../simulate calls
  Days,         \* UTC days
  MaxScenarios, \* most scenarios one request may ask for
  UserLimit,    \* sim_daily_scenarios_per_user, not positive: unlimited
  GlobalLimit   \* sim_daily_scenarios_global, not positive: unlimited

VARIABLES
  userTaken,    \* userTaken[u][d]: scenarios of account u on day d
  siteTaken,    \* siteTaken[d]: scenarios of everybody on day d
  answer,       \* answer[r]: what the quota told request r
  ask           \* ask[r]: who asks for how much, and on which day

ledgerVars == <<userTaken, siteTaken, answer, ask>>

Answers == {"none", "asked", "granted", "refused", "gaveUp", "returned", "settled"}

NoAsk == [user |-> "nobody"]

\* A limit that is not positive never refuses.
Allows(limit, used, scenarios) == limit > 0 => used + scenarios <= limit

UserRefuses(r) ==
  ~Allows(UserLimit, userTaken[ask[r].user][ask[r].day], ask[r].scenarios)

SiteRefuses(r) ==
  ~Allows(GlobalLimit, siteTaken[ask[r].day], ask[r].scenarios)

Init ==
  /\ userTaken = [u \in Users |-> [d \in Days |-> 0]]
  /\ siteTaken = [d \in Days |-> 0]
  /\ answer = [r \in Requests |-> "none"]
  /\ ask = [r \in Requests |-> NoAsk]

Ask(r, u, d, n) ==
  /\ answer[r] = "none"
  /\ answer' = [answer EXCEPT ![r] = "asked"]
  /\ ask' = [ask EXCEPT ![r] = [user |-> u, day |-> d, scenarios |-> n]]
  /\ UNCHANGED <<userTaken, siteTaken>>

Charge(u, d, n) ==
  /\ userTaken' = [userTaken EXCEPT ![u][d] = @ + n]
  /\ siteTaken' = [siteTaken EXCEPT ![d] = @ + n]

Grant(r) ==
  /\ answer[r] = "asked"
  /\ ~UserRefuses(r)
  /\ ~SiteRefuses(r)
  /\ answer' = [answer EXCEPT ![r] = "granted"]
  /\ Charge(ask[r].user, ask[r].day, ask[r].scenarios)
  /\ UNCHANGED ask

Refuse(r) ==
  /\ answer[r] = "asked"
  /\ UserRefuses(r) \/ SiteRefuses(r)
  /\ answer' = [answer EXCEPT ![r] = "refused"]
  /\ UNCHANGED <<userTaken, siteTaken, ask>>

\* Too much contention, or the server died before it answered: nothing is taken.
GiveUp(R) ==
  /\ \A r \in R : answer[r] \in {"asked", "refused"}
  /\ answer' = [r \in Requests |-> IF r \in R THEN "gaveUp" ELSE answer[r]]
  /\ UNCHANGED <<userTaken, siteTaken, ask>>

GiveBack(r) ==
  /\ answer[r] = "granted"
  /\ answer' = [answer EXCEPT ![r] = "returned"]
  /\ Charge(ask[r].user, ask[r].day, -ask[r].scenarios)
  /\ UNCHANGED ask

\* A past day's counts are forgotten once no request about it is open; the
\* grants made on it can no longer be given back.
Forget(d) ==
  /\ \A r \in Requests : answer[r] = "asked" => ask[r].day # d
  /\ userTaken' = [u \in Users |-> [userTaken[u] EXCEPT ![d] = 0]]
  /\ siteTaken' = [siteTaken EXCEPT ![d] = 0]
  /\ answer' = [r \in Requests |->
                  IF answer[r] = "granted" /\ ask[r].day = d THEN "settled" ELSE answer[r]]
  /\ UNCHANGED ask

Next ==
  \/ \E r \in Requests :
       \/ \E u \in Users, d \in Days, n \in 1..MaxScenarios : Ask(r, u, d, n)
       \/ Grant(r)
       \/ Refuse(r)
       \/ GiveBack(r)
  \/ \E R \in SUBSET Requests : GiveUp(R)
  \/ \E d \in Days : Forget(d)

Spec == Init /\ [][Next]_ledgerVars
==============================================================================
