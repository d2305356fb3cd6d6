---------------------------- MODULE UndercutAlerts ----------------------------
(***************************************************************************)
(* services/alert_service.py's evaluate_threats and dispatch_alert, run by *)
(* the prediction workers (workers/prediction_worker.py) after every       *)
(* prediction they commit.  Each run judges every pair of neighbouring     *)
(* cars, so the workers meet on the same pairs all the time; a claim in    *)
(* Redis that expires after a minute (UNDERCUT_ALERT_DEDUP_TTL_SECONDS)    *)
(* lets one of them alert a pair.  Every database transaction and every    *)
(* Redis command is a step.  The specification's parts carry its name, for *)
(* the module that extends this one and the alerts screen (Alerts_proofs). *)
(***************************************************************************)
EXTENDS Naturals, Sequences, FiniteSets

CONSTANTS
  Drivers,
  Grid,          \* the running order at the start, leader first
  Users,
  SubscribersTo, \* per driver, the users subscribed to its undercut threats
  Workers,
  NoCar,
  MaxFailures,   \* bound on crashed tasks and failed commits or publishes
  ClaimOutlives  \* a claim is dispatched within its minute

Pairs == {p \in Drivers \X Drivers : p[1] # p[2]}   \* <<trailing, ahead>>

ASSUME UndercutAssumption ==
  /\ NoCar \notin Drivers
  /\ Grid \in Seq(Drivers)
  /\ \A i, j \in DOMAIN Grid : Grid[i] = Grid[j] => i = j
  /\ SubscribersTo \in [Drivers -> SUBSET Users]
  /\ MaxFailures \in Nat
  /\ ClaimOutlives \in BOOLEAN

VARIABLES
  standing,  \* the running order F1 reports (the gaps key, source "live")
  dbOrder,   \* the order of the drivers' latest lap_data rows
  suppressed, \* drivers for whom _alert_suppression_reason gives a reason
  scoredOn,  \* the car a driver's latest prediction threatens, or NoCar
  claims,    \* the dedup keys that exist
  rows,      \* pairs and users with an Alert row
  at,        \* where each worker is
  read,      \* the suppression reasons and scores it read
  threats,   \* the threats it has still to handle
  failures,
  alerted,   \* history: pairs alerted while their threat lasts
  fresh      \* history: pairs with no alert since their last claim expired

raceVars  == <<standing, dbOrder, suppressed>>
storeVars == <<claims, rows>>
undercutVars == <<raceVars, scoredOn, storeVars, at, read, threats, failures, alerted, fresh>>

NothingRead == [suppressed |-> {}, scoredOn |-> [d \in Drivers |-> NoCar]]
Goto(w, where) == at' = [at EXCEPT ![w] = where]

Neighbours(order, p) ==
  \E i \in 1..(Len(order) - 1) : p = <<order[i + 1], order[i]>>

\* The car ahead, which a prediction's undercut score is computed against.
Ahead(d) ==
  IF \E a \in Drivers : Neighbours(standing, <<d, a>>)
    THEN CHOOSE a \in Drivers : Neighbours(standing, <<d, a>>)
    ELSE NoCar

\* A threat that nothing suppresses and somebody wants to hear of.
Threatens(p) ==
  /\ Neighbours(standing, p) /\ Neighbours(dbOrder, p)
  /\ scoredOn[p[1]] # NoCar
  /\ p[1] \notin suppressed
  /\ SubscribersTo[p[1]] # {}

\* Once the threat is over, a new one is owed an alert of its own.
Noted == alerted' = {p \in alerted : Threatens(p)'}

UndercutInit ==
  /\ standing = Grid /\ dbOrder = Grid
  /\ suppressed \in SUBSET Drivers
  /\ scoredOn = [d \in Drivers |-> NoCar]
  /\ claims = {} /\ rows = {}
  /\ at = [w \in Workers |-> "idle"]
  /\ read = [w \in Workers |-> NothingRead]
  /\ threats = [w \in Workers |-> <<>>]
  /\ failures = 0
  /\ alerted = {}
  /\ fresh = Pairs

------------------------------------------------------------------------------
(* The race.                                                               *)

Overtake(i) ==
  /\ i + 1 =< Len(standing)
  /\ standing' = [standing EXCEPT ![i] = standing[i + 1], ![i + 1] = standing[i]]
  /\ UNCHANGED <<dbOrder, suppressed, scoredOn, storeVars, at, read, threats, failures, fresh>>
  /\ Noted

\* A lap of d is stored: the stored order catches up, and tyres that have aged or
\* were changed, or the laps that remain, begin or cease to suppress its threats.
StoreLap(d) ==
  /\ dbOrder' \in {dbOrder, standing}
  /\ suppressed' \in {suppressed \cup {d}, suppressed \ {d}}
  /\ UNCHANGED <<standing, scoredOn, storeVars, at, read, threats, failures, fresh>>
  /\ Noted

------------------------------------------------------------------------------
(* A worker: _persist_and_publish, then evaluate_threats.                  *)

\* The prediction is committed; its score is high, against the car ahead, or
\* it is not.
Predict(w, d) ==
  /\ at[w] = "idle"
  /\ scoredOn' \in {[scoredOn EXCEPT ![d] = a] : a \in {NoCar, Ahead(d)}}
  /\ Goto(w, "database")
  /\ UNCHANGED <<raceVars, storeVars, read, threats, failures, fresh>>
  /\ Noted

\* rank_undercut_threats over the order, with what was read before: a pair whose
\* score is not high is passed over when it comes up (NextThreat).
RankThreats(order, known) ==
  [i \in 1..(Len(order) - 1) |->
     [pair       |-> <<order[i + 1], order[i]>>,
      high       |-> known.scoredOn[order[i + 1]] # NoCar,
      suppressed |-> order[i + 1] \in known.suppressed]]

\* _latest_positions and _latest_undercut_scores.  Where there will be no live
\* order, or its key has lapsed, the pairs are those of the order just read.
ReadDatabase(w) ==
  /\ at[w] = "database"
  /\ LET known == [suppressed |-> suppressed, scoredOn |-> scoredOn] IN
       \/ /\ read' = [read EXCEPT ![w] = known]
          /\ Goto(w, "order")
          /\ UNCHANGED threats
       \/ /\ threats' = [threats EXCEPT ![w] = RankThreats(dbOrder, known)]
          /\ Goto(w, "next")
          /\ UNCHANGED read
  /\ UNCHANGED <<raceVars, scoredOn, storeVars, failures, alerted, fresh>>

\* _live_standing_order
ReadOrder(w) ==
  /\ at[w] = "order"
  /\ threats' = [threats EXCEPT ![w] = RankThreats(standing, read[w])]
  /\ read' = [read EXCEPT ![w] = NothingRead]
  /\ Goto(w, "next")
  /\ UNCHANGED <<raceVars, scoredOn, storeVars, failures, alerted, fresh>>

Skip(w) ==
  /\ threats' = [threats EXCEPT ![w] = Tail(@)]
  /\ Goto(w, "next")

\* The next pair: skipped if it is no threat, suppressed, or of no interest to
\* anybody.
NextThreat(w) ==
  /\ at[w] = "next"
  /\ IF threats[w] = <<>>
       THEN Goto(w, "idle") /\ UNCHANGED threats
       ELSE LET t == Head(threats[w]) IN
            IF ~t.high \/ t.suppressed \/ SubscribersTo[t.pair[1]] = {}
              THEN Skip(w)
              ELSE Goto(w, "claim") /\ UNCHANGED threats
  /\ UNCHANGED <<raceVars, scoredOn, storeVars, read, failures, alerted, fresh>>

\* Mutant of Claim: SET without NX.
ClaimAlways(w) ==
  /\ at[w] = "claim"
  /\ claims' = claims \cup {Head(threats[w]).pair}
  /\ Goto(w, "commit")
  /\ UNCHANGED <<raceVars, scoredOn, rows, read, threats, failures, alerted, fresh>>

\* SET f1:alerts:dedup:... NX EX 60
Claim(w) ==
  /\ at[w] = "claim"
  /\ LET p == Head(threats[w]).pair IN
       IF p \in claims THEN Skip(w) /\ UNCHANGED claims
                       ELSE Goto(w, "commit") /\ claims' = claims \cup {p} /\ UNCHANGED threats
  /\ UNCHANGED <<raceVars, scoredOn, rows, read, failures, alerted, fresh>>

\* dispatch_alert: a row per subscribed user, one commit.
CommitAlerts(w) ==
  /\ at[w] = "commit"
  /\ LET p == Head(threats[w]).pair IN
       /\ rows' = rows \cup ({p} \X SubscribersTo[p[1]])
       /\ alerted' = IF Threatens(p) THEN alerted \cup {p} ELSE alerted
       /\ fresh' = fresh \ {p}
  /\ Goto(w, "publish")
  /\ UNCHANGED <<raceVars, scoredOn, claims, read, threats, failures>>

\* The committed alerts are published one after the other on a channel nobody
\* reads yet.
PublishAlert(w) ==
  /\ at[w] = "publish"
  /\ Skip(w)
  /\ UNCHANGED <<raceVars, scoredOn, storeVars, read, failures, alerted, fresh>>

\* Mutant of Fail: the error is handled inside the loop, its threats are gone.
FailContinues(w) ==
  /\ failures < MaxFailures
  /\ at[w] # "idle"
  /\ failures' = failures + 1
  /\ threats' = [threats EXCEPT ![w] = <<>>]
  /\ UNCHANGED <<raceVars, scoredOn, storeVars, at, read, alerted, fresh>>

\* A command raises, which ends this evaluation, or the worker dies and its
\* task is redelivered as a prediction of its own.
Fail(w) ==
  /\ failures < MaxFailures
  /\ at[w] # "idle"
  /\ failures' = failures + 1
  /\ read' = [read EXCEPT ![w] = NothingRead]
  /\ threats' = [threats EXCEPT ![w] = <<>>]
  /\ Goto(w, "idle")
  /\ UNCHANGED <<raceVars, scoredOn, storeVars, alerted, fresh>>

\* A worker between its claim and its commit.
Dispatching(p) ==
  \E w \in Workers : at[w] = "commit" /\ Head(threats[w]).pair = p

\* Mutant of Expire: SET without EX.
NeverExpires(p) == FALSE /\ UNCHANGED undercutVars

Expire(p) ==
  /\ p \in claims
  /\ ClaimOutlives => ~Dispatching(p)
  /\ claims' = claims \ {p}
  /\ fresh' = fresh \cup {p}
  /\ UNCHANGED <<raceVars, scoredOn, rows, at, read, threats, failures, alerted>>

Step(w) ==
  \/ \E d \in Drivers : Predict(w, d)
  \/ ReadDatabase(w) \/ ReadOrder(w) \/ NextThreat(w) \/ Claim(w) \/ CommitAlerts(w)
  \/ PublishAlert(w)

UndercutNext ==
  \/ \E i \in DOMAIN Grid : Overtake(i)
  \/ \E d \in Drivers : StoreLap(d)
  \/ \E w \in Workers : Step(w) \/ Fail(w)
  \/ \E p \in Pairs : Expire(p)

UndercutSpec == UndercutInit /\ [][UndercutNext]_undercutVars

\* The workers go on: while the race does, every driver's next lap brings a
\* prediction.  Claims expire.
UndercutFairSpec ==
  /\ UndercutSpec
  /\ \A w \in Workers : WF_undercutVars(Step(w))
  /\ \A p \in Pairs : WF_undercutVars(Expire(p))

------------------------------------------------------------------------------
Orders == {s \in [DOMAIN Grid -> Drivers] : \A i, j \in DOMAIN Grid : s[i] = s[j] => i = j}

Threats == [pair : Pairs, high : BOOLEAN, suppressed : BOOLEAN]

\* Every variable has its type, and a worker that claims, commits or publishes has
\* a threat at hand.
UndercutTypeOK ==
  /\ standing \in Orders /\ dbOrder \in Orders
  /\ suppressed \subseteq Drivers
  /\ scoredOn \in [Drivers -> Drivers \cup {NoCar}]
  /\ claims \subseteq Pairs /\ fresh \subseteq Pairs /\ alerted \subseteq Pairs
  /\ rows \subseteq Pairs \X Users
  /\ at \in [Workers -> {"idle", "database", "order", "next", "claim", "commit", "publish"}]
  /\ read \in [Workers -> [suppressed : SUBSET Drivers, scoredOn : [Drivers -> Drivers \cup {NoCar}]]]
  /\ threats \in [Workers -> Seq(Threats)]
  /\ \A w \in Workers : at[w] \in {"claim", "commit", "publish"} => threats[w] # <<>>
  /\ failures \in 0..MaxFailures

\* However many workers judge a pair at once and however often, it is alerted
\* at most once between two expiries of its claim.
OneAlertPerClaim ==
  [][\A w \in Workers : at[w] = "commit" /\ at'[w] = "publish"
       => Head(threats[w]).pair \in fresh]_undercutVars

\* A threat that lasts is alerted: neither a claim lost to a crash nor the
\* other workers' claims nor a suppression that has ended silence it for good.
ThreatIsAlerted == \A p \in Pairs : Threatens(p) ~> p \in alerted \/ ~Threatens(p)
==============================================================================
