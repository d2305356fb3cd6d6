---------------------------- MODULE Alerts_proofs ----------------------------
(***************************************************************************)
(* Alerts from both ends.  The screen that shows them: TypeOK and          *)
(* ShownReadIsRead, for any number of alerts and of failing requests.  The *)
(* workers that decide on them: their type invariant and OneAlertPerClaim, *)
(* for any drivers, running order, subscribers, workers and failures.      *)
(***************************************************************************)
EXTENDS AlertsScreen, UndercutAlerts, SequenceTheorems, TLAPS

\* A list that tells nothing the backend does not have.
Known(l) == l.ids \subseteq server.ids /\ l.read \subseteq server.read

\* What the store shows and what is on its way to it is known on the backend:
\* the cached list, the answer of the list query, the PUTs and those answered.
AnswersAreTrue ==
  /\ Known(store)
  /\ cache \in Lists => Known(cache)
  /\ fetch.phase = "answered" => Known(fetch.list)
  /\ \A way \in Ways, a \in Alerts :
       /\ puts[way][a] # "none" => a \in server.ids
       /\ puts[way][a] = "done" => a \in server.read

IInv == TypeOK /\ AnswersAreTrue

USE AlertsAssumption

\* A list is its two sets, and grows into a list.
LEMMA ListOf ==
  ASSUME NEW ids \in SUBSET Alerts, NEW seen \in SUBSET ids
  PROVE  [ids |-> ids, read |-> seen] \in Lists
BY DEF Lists

LEMMA ListGrows ==
  ASSUME NEW l \in Lists, NEW as \in SUBSET Alerts
  PROVE  /\ l.read \subseteq l.ids /\ l.ids \subseteq Alerts
         /\ [l EXCEPT !.ids = @ \cup as] \in Lists
         /\ [l EXCEPT !.ids = @ \cup as].read = l.read
         /\ l.ids \subseteq [l EXCEPT !.ids = @ \cup as].ids
BY DEF Lists

LEMMA ListIsRead ==
  ASSUME NEW l \in Lists, NEW as \in SUBSET l.ids
  PROVE  /\ [l EXCEPT !.read = @ \cup as] \in Lists
         /\ [l EXCEPT !.read = @ \cup as].read = l.read \cup as
         /\ [l EXCEPT !.read = @ \cup as].ids = l.ids
BY DEF Lists

\* The states of the list query.
LEMMA FetchOf ==
  /\ Idle \in Fetches /\ Idle.phase = "idle"
  /\ Asked \in Fetches /\ Asked.phase = "asked"
  /\ [phase |-> "failed", list |-> None] \in Fetches
  /\ \A l \in Lists : [phase |-> "answered", list |-> l] \in Fetches
BY DEF Fetches, Idle, Asked

\* Init establishes the inductive invariant.
LEMMA InitIInv == Init => IInv
<1>. SUFFICES ASSUME Init PROVE IInv
  OBVIOUS
<1>1. Empty \in Lists /\ Empty.ids = {} /\ Empty.read = {}
  BY ListOf DEF Empty
<1>2. puts \in [Ways -> [Alerts -> {"none", "sent", "done", "failed"}]]
  BY DEF Init
<1>3. TypeOK
  <2>1. server \in Lists /\ store \in Lists /\ cache \in Lists \cup {None}
    BY <1>1 DEF Init
  <2>2. fetch \in Fetches /\ fetch.phase # "answered"
    BY FetchOf DEF Init
  <2>3. faults \in 0..MaxFaults
    BY DEF Init
  <2>. QED  BY <1>2, <2>1, <2>2, <2>3 DEF Init, TypeOK
<1>4. AnswersAreTrue
  <2>1. cache \notin Lists
    BY DEF Init, Lists
  <2>. QED  BY <1>1, <2>1, FetchOf DEF Init, AnswersAreTrue, Known
<1>. QED  BY <1>3, <1>4 DEF IInv

\* Steps that change neither the backend nor the store nor an answer.
LEMMA QuietIInv ==
  ASSUME IInv,
         UNCHANGED <<platform, server, cache, store, faults>>,
         page' \in {"alerts", "dashboard", "other"},
         fetch' \in {fetch, Asked, Idle},
         unapplied' \in BOOLEAN, unapplied' => cache \in Lists,
         puts' \in [Ways -> [Alerts -> {"none", "sent", "done", "failed"}]],
         \A way \in Ways, a \in Alerts :
           /\ puts'[way][a] # "none" => a \in server.ids
           /\ puts'[way][a] = "done" => a \in server.read,
         selectionMode' \in BOOLEAN, bulkBusy' \in BOOLEAN,
         selectedIds' \subseteq Alerts,
         filter' \in {"all", "unread"} \cup Types
  PROVE  IInv'
<1>1. TypeOK'
  BY FetchOf DEF IInv, TypeOK
<1>2. AnswersAreTrue'
  BY FetchOf DEF IInv, AnswersAreTrue, Known
<1>. QED  BY <1>1, <1>2 DEF IInv

\* The list query: asking, answering and taking up.
LEMMA QueryIInv ==
  ASSUME IInv,
         (\E p \in {"alerts", "dashboard", "other"} : Open(p))
           \/ Focus \/ Refresh \/ ListAnswered \/ ListReceived \/ setAlerts
  PROVE  IInv'
<1>1. ASSUME NEW p \in {"alerts", "dashboard", "other"}, Open(p)
      PROVE  IInv'
  BY <1>1, QuietIInv DEF Open, Joined, IInv, TypeOK, AnswersAreTrue, selection
<1>2. CASE Focus \/ Refresh
  BY <1>2, QuietIInv DEF Focus, Refresh, IInv, TypeOK, AnswersAreTrue, selection
<1>3. CASE ListAnswered
  <2>1. TypeOK'
    BY <1>3, FetchOf DEF ListAnswered, Faulty, IInv, TypeOK, selection
  <2>2. AnswersAreTrue'
    BY <1>3 DEF ListAnswered, IInv, AnswersAreTrue, Known
  <2>. QED  BY <2>1, <2>2 DEF IInv
<1>4. CASE ListReceived
  <2>1. cache' \in Lists \cup {None} /\ unapplied' \in BOOLEAN /\ (unapplied' => cache' \in Lists)
    <3>1. CASE fetch.phase = "answered"
      BY <1>4, <3>1 DEF ListReceived, IInv, TypeOK
    <3>2. CASE fetch.phase # "answered"
      BY <1>4, <3>2 DEF ListReceived, IInv, TypeOK
    <3>. QED  BY <3>1, <3>2
  <2>3. TypeOK'
    BY <1>4, <2>1, FetchOf DEF ListReceived, IInv, TypeOK, selection
  <2>2. AnswersAreTrue'
    BY <1>4, FetchOf DEF ListReceived, IInv, TypeOK, AnswersAreTrue, Known
  <2>. QED  BY <2>2, <2>3 DEF IInv
<1>5. CASE setAlerts
  <2>1. cache \in Lists
    BY <1>5 DEF setAlerts, IInv, TypeOK, selection
  <2>2. TypeOK'
    BY <1>5, <2>1 DEF setAlerts, IInv, TypeOK, selection
  <2>4. AnswersAreTrue'
    BY <1>5, <2>1 DEF setAlerts, IInv, AnswersAreTrue, Known
  <2>. QED  BY <2>2, <2>4 DEF IInv
<1>. QED  BY <1>1, <1>2, <1>3, <1>4, <1>5

\* The backend's list only grows, and so do the alerts read on it.
LEMMA ServerIInv ==
  ASSUME IInv, NewAlert \/ ReadElsewhere
  PROVE  IInv'
<1>1. server' \in Lists /\ server.ids \subseteq server'.ids /\ server.read \subseteq server'.read
  <2>1. CASE NewAlert
    <3>1. PICK a \in Alerts \ server.ids : server' = [server EXCEPT !.ids = @ \cup {a}]
      BY <2>1 DEF NewAlert
    <3>2. server \in Lists /\ {a} \in SUBSET Alerts
      BY <3>1 DEF IInv, TypeOK
    <3>. QED  BY <3>1, <3>2, ListGrows
  <2>2. CASE ReadElsewhere
    <3>1. PICK a \in Unread(server) : server' = [server EXCEPT !.read = @ \cup {a}]
      BY <2>2 DEF ReadElsewhere
    <3>2. server \in Lists
      BY DEF IInv, TypeOK
    <3>3. {a} \in SUBSET server.ids
      BY DEF Unread
    <3>. QED  BY <3>1, <3>2, <3>3, ListIsRead
  <2>. QED  BY <2>1, <2>2
<1>2. UNCHANGED <<platform, page, query, store, puts, selection, bulkBusy, faults>>
  BY DEF NewAlert, ReadElsewhere
<1>3. TypeOK'
  BY <1>1, <1>2 DEF IInv, TypeOK, query, selection
<1>4. AnswersAreTrue'
  BY <1>1, <1>2 DEF IInv, AnswersAreTrue, Known, query
<1>. QED  BY <1>3, <1>4 DEF IInv

\* A PUT is answered: what is marked done is read on the backend.
LEMMA PutIInv ==
  ASSUME IInv, NEW a \in Alerts, NEW way \in Ways, PutAnswered(a, way)
  PROVE  IInv'
<1>1. PICK marked \in BOOLEAN, phase \in {"done", "failed"} :
        /\ phase = "done" => marked
        /\ IF phase = "failed" THEN Faulty ELSE UNCHANGED faults
        /\ puts' = [puts EXCEPT ![way][a] = phase]
        /\ server' = IF marked THEN [server EXCEPT !.read = @ \cup {a}] ELSE server
  BY DEF PutAnswered
<1>2. a \in server.ids
  BY DEF PutAnswered, IInv, AnswersAreTrue
<1>3. /\ server' \in Lists /\ server'.ids = server.ids /\ server.read \subseteq server'.read
      /\ marked => a \in server'.read
  <2>1. server \in Lists /\ {a} \in SUBSET server.ids
    BY <1>2 DEF IInv, TypeOK
  <2>2. CASE marked
    BY <1>1, <2>1, <2>2, ListIsRead
  <2>3. CASE ~marked
    BY <1>1, <2>1, <2>3
  <2>. QED  BY <2>2, <2>3
<1>4. UNCHANGED <<platform, page, query, store, selection, bulkBusy>>
  BY DEF PutAnswered
<1>5. TypeOK'
  <2>1. puts' \in [Ways -> [Alerts -> {"none", "sent", "done", "failed"}]]
    BY <1>1 DEF IInv, TypeOK
  <2>2. faults' \in 0..MaxFaults
    BY <1>1 DEF Faulty, IInv, TypeOK
  <2>. QED  BY <1>3, <1>4, <2>1, <2>2 DEF IInv, TypeOK, query, selection
<1>6. AnswersAreTrue'
  <2>1. /\ Known(store)'
        /\ (cache \in Lists => Known(cache))'
        /\ (fetch.phase = "answered" => Known(fetch.list))'
    BY <1>3, <1>4 DEF IInv, AnswersAreTrue, Known, query
  <2>2. ASSUME NEW w \in Ways, NEW b \in Alerts
        PROVE  /\ puts'[w][b] # "none" => b \in server'.ids
               /\ puts'[w][b] = "done" => b \in server'.read
    <3>1. /\ puts[w][b] # "none" => b \in server.ids
          /\ puts[w][b] = "done" => b \in server.read
      BY DEF IInv, AnswersAreTrue
    <3>2. CASE w = way /\ b = a
      <4>1. puts'[w][b] = phase
        BY <1>1, <3>2 DEF IInv, TypeOK
      <4>. QED  BY <1>1, <1>2, <1>3, <3>2, <4>1
    <3>3. CASE ~(w = way /\ b = a)
      <4>1. puts'[w][b] = puts[w][b]
        BY <1>1, <3>3 DEF IInv, TypeOK
      <4>. QED  BY <1>3, <3>1, <4>1
    <3>. QED  BY <3>2, <3>3
  <2>. QED  BY <2>1, <2>2 DEF AnswersAreTrue
<1>. QED  BY <1>5, <1>6 DEF IInv

\* The end of one PUT, or of a bulk: the store learns of marks the backend has.
LEMMA MarkIInv ==
  ASSUME IInv, NEW as \in SUBSET server.read, markRead(as),
         UNCHANGED <<platform, page, server, cache, unapplied, filter, faults>>,
         fetch' \in {fetch, Asked},
         puts' \in [Ways -> [Alerts -> {"none", "sent", "done", "failed"}]],
         \A way \in Ways, a \in Alerts : puts'[way][a] \in {puts[way][a], "none"},
         selectionMode' \in BOOLEAN, bulkBusy' \in BOOLEAN, selectedIds' \subseteq Alerts
  PROVE  IInv'
<1>1. store \in Lists /\ as \cap store.ids \in SUBSET store.ids
  BY DEF IInv, TypeOK
<1>2. store' \in Lists /\ store'.ids = store.ids /\ store'.read = store.read \cup (as \cap store.ids)
  BY <1>1, ListIsRead DEF markRead
<1>3. TypeOK'
  BY <1>2, FetchOf DEF IInv, TypeOK
<1>4. AnswersAreTrue'
  BY <1>2, FetchOf DEF IInv, AnswersAreTrue, Known
<1>. QED  BY <1>3, <1>4 DEF IInv

\* Reading one alert.
LEMMA RowIInv ==
  ASSUME IInv, NEW a \in Alerts, MarkRead(a) \/ MarkedRead(a)
  PROVE  IInv'
<1>1. CASE MarkRead(a)
  <2>1. a \in server.ids
    BY <1>1 DEF MarkRead, Unread, IInv, AnswersAreTrue, Known
  <2>. QED  BY <1>1, <2>1, QuietIInv
            DEF MarkRead, IInv, TypeOK, AnswersAreTrue, query, selection, Ways
<1>2. CASE MarkedRead(a) /\ puts["row"][a] = "done"
  <2>1. {a} \in SUBSET server.read
    BY <1>2 DEF IInv, AnswersAreTrue, Ways
  <2>. QED  BY <1>2, <2>1, MarkIInv
            DEF MarkedRead, Invalidate, IInv, TypeOK, selection, Ways
<1>3. CASE MarkedRead(a) /\ puts["row"][a] # "done"
  BY <1>3, QuietIInv DEF MarkedRead, IInv, TypeOK, AnswersAreTrue, selection, Ways
<1>. QED  BY <1>1, <1>2, <1>3

\* The selection, which only a bulk ends outside the screen.
LEMMA SelectIInv ==
  ASSUME IInv, Select
  PROVE  IInv'
<1>1. ASSUME NEW a \in Alerts, startSelection(a) \/ toggleSelected(a)
      PROVE  IInv'
  <2>1. /\ UNCHANGED <<platform, page, server, query, store, puts, filter, bulkBusy, faults>>
        /\ selectionMode' \in BOOLEAN /\ selectedIds' \subseteq Alerts
    <3>1. CASE startSelection(a)
      BY <3>1 DEF startSelection
    <3>2. CASE toggleSelected(a)
      BY <3>2 DEF toggleSelected, IInv, TypeOK
    <3>. QED  BY <1>1, <3>1, <3>2
  <2>. QED  BY <2>1, QuietIInv DEF IInv, TypeOK, AnswersAreTrue, query
<1>2. CASE toggleAll
  <2>1. visibleUnreadIds \subseteq Alerts
    BY ListGrows DEF visibleUnreadIds, Unread, IInv, TypeOK
  <2>. QED  BY <1>2, <2>1, QuietIInv
            DEF toggleAll, exitSelection, IInv, TypeOK, AnswersAreTrue, query
<1>3. CASE CancelSelection
  BY <1>3, QuietIInv DEF CancelSelection, exitSelection, IInv, TypeOK, AnswersAreTrue, query
<1>4. ASSUME NEW next \in {"all", "unread"} \cup Types, changeFilter(next)
      PROVE  IInv'
  BY <1>4, QuietIInv DEF changeFilter, exitSelection, IInv, TypeOK, AnswersAreTrue, query
<1>5. CASE markSelectedRead
  <2>1. effectiveSelection \subseteq server.ids
    BY DEF effectiveSelection, Unread, IInv, AnswersAreTrue, Known
  <2>2. puts' = [puts EXCEPT !["bulk"] =
                   [a \in Alerts |-> IF a \in effectiveSelection THEN "sent" ELSE "none"]]
    BY <1>5 DEF markSelectedRead
  <2>3. puts' \in [Ways -> [Alerts -> {"none", "sent", "done", "failed"}]]
    BY <2>2 DEF IInv, TypeOK
  <2>4. \A way \in Ways, a \in Alerts :
          /\ puts'[way][a] # "none" => a \in server.ids
          /\ puts'[way][a] = "done" => a \in server.read
    BY <2>1, <2>2 DEF IInv, TypeOK, AnswersAreTrue
  <2>. QED  BY <1>5, <2>3, <2>4, QuietIInv
            DEF markSelectedRead, IInv, TypeOK, query, selection
<1>. QED  BY <1>1, <1>2, <1>3, <1>4, <1>5 DEF Select

\* The end of a bulk marks what the backend has marked.
LEMMA BulkIInv ==
  ASSUME IInv, MarkedSelectedRead
  PROVE  IInv'
<1>1. BulkPuts("done") \in SUBSET server.read
  BY DEF BulkPuts, IInv, AnswersAreTrue, Ways
<1>2. puts' = [puts EXCEPT !["bulk"] = [a \in Alerts |-> "none"]]
  BY DEF MarkedSelectedRead
<1>3. /\ puts' \in [Ways -> [Alerts -> {"none", "sent", "done", "failed"}]]
      /\ \A way \in Ways, a \in Alerts : puts'[way][a] \in {puts[way][a], "none"}
  BY <1>2 DEF IInv, TypeOK
<1>. QED  BY <1>1, <1>3, MarkIInv
          DEF MarkedSelectedRead, MarkedByBulk, Invalidate, exitSelection

\* Every step keeps the inductive invariant.
LEMMA NextIInv == IInv /\ [Next]_vars => IInv'
<1>. SUFFICES ASSUME IInv, [Next]_vars PROVE IInv'
  OBVIOUS
<1>1. CASE UNCHANGED vars
  BY <1>1, QuietIInv DEF vars, query, selection, IInv, TypeOK, AnswersAreTrue
<1>2. CASE Next
  BY <1>2, QueryIInv, ServerIInv, PutIInv, RowIInv, SelectIInv, BulkIInv
     DEF Next, Answer, Receive
<1>. QED  BY <1>1, <1>2

\* The queries, the store, the requests and the selection keep their types,
\* for any alerts and any number of failures.
THEOREM TypeCorrect == Spec => []TypeOK
<1>1. IInv => TypeOK
  BY DEF IInv
<1>. QED  BY <1>1, InitIInv, NextIInv, PTL DEF Spec

\* However marks, lists, bulks and failures interleave, no screen shows as read
\* an alert the backend still has unread (markRead, setAlerts).
THEOREM ShownReadHolds == Spec => []ShownReadIsRead
<1>1. IInv => ShownReadIsRead
  BY DEF IInv, AnswersAreTrue, Known, ShownReadIsRead
<1>. QED  BY <1>1, InitIInv, NextIInv, PTL DEF Spec

------------------------------------------------------------------------------
(* The workers that judge undercut threats, for any drivers and workers.   *)

\* The pair a worker is about.
Judged(w) == Head(threats[w]).pair

\* A worker about to commit holds its pair's claim, alone, and the pair has had
\* no alert under it; a pair without a claim is owed an alert.
ClaimInv ==
  /\ \A w \in Workers : at[w] = "commit" => Judged(w) \in claims \cap fresh
  /\ \A v, w \in Workers :
       at[v] = "commit" /\ at[w] = "commit" /\ Judged(v) = Judged(w) => v = w
  /\ Pairs \ claims \subseteq fresh

\* A swap of two neighbours is an order of the same cars.
LEMMA SwapIsAnOrder ==
  ASSUME NEW s \in Orders, NEW i \in DOMAIN Grid, i + 1 <= Len(s)
  PROVE  [s EXCEPT ![i] = s[i + 1], ![i + 1] = s[i]] \in Orders
<1>1. s \in [1..Len(Grid) -> Drivers] /\ Len(Grid) \in Nat /\ DOMAIN Grid = 1..Len(Grid)
  BY UndercutAssumption DEF Orders, UndercutAssumption
<1>2. Len(s) = Len(Grid)
  BY <1>1
<1>3. i \in 1..Len(Grid) /\ i + 1 \in 1..Len(Grid) /\ i # i + 1
  BY <1>1, <1>2
<1>. QED  BY <1>1, <1>3 DEF Orders

\* What an order yields is about pairs of different cars.
LEMMA RankingIsOfPairs ==
  ASSUME NEW order \in Orders, NEW known,
         known \in [suppressed : SUBSET Drivers, scoredOn : [Drivers -> Drivers \cup {NoCar}]]
  PROVE  RankThreats(order, known) \in Seq(Threats)
<1>1. order \in [1..Len(Grid) -> Drivers] /\ Len(Grid) \in Nat /\ DOMAIN Grid = 1..Len(Grid)
  BY UndercutAssumption DEF Orders, UndercutAssumption
<1>2. Len(order) = Len(Grid)
  BY <1>1
<1>3. ASSUME NEW i \in 1..(Len(order) - 1)
      PROVE  [pair       |-> <<order[i + 1], order[i]>>,
              high       |-> known.scoredOn[order[i + 1]] # NoCar,
              suppressed |-> order[i + 1] \in known.suppressed] \in Threats
  <2>1. i \in 1..Len(Grid) /\ i + 1 \in 1..Len(Grid) /\ i # i + 1
    BY <1>1, <1>2
  <2>2. order[i + 1] \in Drivers /\ order[i] \in Drivers /\ order[i + 1] # order[i]
    BY <1>1, <2>1 DEF Orders
  <2>. QED  BY <2>2 DEF Threats, Pairs
<1>4. CASE Len(Grid) = 0
  <2>1. 1..(Len(order) - 1) = 1..0
    BY <1>2, <1>4
  <2>2. RankThreats(order, known) \in [1..0 -> Threats]
    BY <1>3, <2>1 DEF RankThreats
  <2>. QED  BY <2>2
<1>5. CASE Len(Grid) # 0
  <2>1. Len(order) - 1 \in Nat
    BY <1>1, <1>2, <1>5
  <2>2. RankThreats(order, known) \in [1..(Len(order) - 1) -> Threats]
    BY <1>3 DEF RankThreats
  <2>. QED  BY <2>1, <2>2
<1>. QED  BY <1>4, <1>5

\* The car ahead is a car, or none.
LEMMA AheadIsACar ==
  ASSUME NEW d \in Drivers
  PROVE  Ahead(d) \in Drivers \cup {NoCar}
BY DEF Ahead

\* The initial states: every pair is owed an alert.
LEMMA InitUndercutTypeOK == UndercutInit => UndercutTypeOK /\ ClaimInv
<1>. SUFFICES ASSUME UndercutInit PROVE UndercutTypeOK /\ ClaimInv
  OBVIOUS
<1>1. Grid \in Orders
  BY UndercutAssumption DEF UndercutAssumption, Orders
<1>2. threats \in [Workers -> Seq(Threats)]
  BY DEF UndercutInit
<1>. QED  BY <1>1, <1>2, UndercutAssumption
          DEF UndercutInit, UndercutTypeOK, ClaimInv, UndercutAssumption, NothingRead

\* A threat handled, the rest is left.
LEMMA RestIsThreats ==
  ASSUME UndercutTypeOK, NEW w \in Workers, threats[w] # <<>>
  PROVE  /\ Tail(threats[w]) \in Seq(Threats)
         /\ Head(threats[w]) \in Threats
         /\ Judged(w) \in Pairs
<1>1. threats[w] \in Seq(Threats)
  BY DEF UndercutTypeOK
<1>2. Tail(threats[w]) \in Seq(Threats) /\ Head(threats[w]) \in Threats
  BY <1>1, HeadTailProperties
<1>. QED  BY <1>2 DEF Judged, Threats

\* A step preserves the types.
LEMMA NextUndercutTypeOK == UndercutTypeOK /\ [UndercutNext]_undercutVars => UndercutTypeOK'
<1>. SUFFICES ASSUME UndercutTypeOK, [UndercutNext]_undercutVars PROVE UndercutTypeOK'
  OBVIOUS
<1>. USE DEF raceVars, storeVars
<1>1. ASSUME Noted PROVE alerted' \subseteq Pairs
  BY <1>1 DEF Noted, UndercutTypeOK
<1>2. ASSUME NEW i \in DOMAIN Grid, Overtake(i) PROVE UndercutTypeOK'
  BY <1>1, <1>2, SwapIsAnOrder DEF Overtake, UndercutTypeOK
<1>3. ASSUME NEW d \in Drivers, StoreLap(d) PROVE UndercutTypeOK'
  BY <1>1, <1>3 DEF StoreLap, UndercutTypeOK
<1>4. ASSUME NEW w \in Workers, NEW d \in Drivers, Predict(w, d) PROVE UndercutTypeOK'
  <2>1. PICK a \in {NoCar, Ahead(d)} : scoredOn' = [scoredOn EXCEPT ![d] = a]
    BY <1>4 DEF Predict
  <2>2. scoredOn' \in [Drivers -> Drivers \cup {NoCar}]
    BY <2>1, AheadIsACar DEF UndercutTypeOK
  <2>. QED  BY <1>1, <1>4, <2>2 DEF Predict, Goto, UndercutTypeOK
<1>5. ASSUME NEW w \in Workers, ReadDatabase(w) PROVE UndercutTypeOK'
  <2>1. PICK known \in [suppressed : SUBSET Drivers, scoredOn : [Drivers -> Drivers \cup {NoCar}]] :
          \/ threats' = threats /\ read' = [read EXCEPT ![w] = known] /\ Goto(w, "order")
          \/ /\ threats' = [threats EXCEPT ![w] = RankThreats(dbOrder, known)]
             /\ read' = read /\ Goto(w, "next")
    BY <1>5 DEF ReadDatabase, UndercutTypeOK
  <2>2. RankThreats(dbOrder, known) \in Seq(Threats)
    BY RankingIsOfPairs DEF UndercutTypeOK
  <2>3. UNCHANGED <<raceVars, scoredOn, storeVars, failures, alerted, fresh>>
    BY <1>5 DEF ReadDatabase
  <2>4. CASE threats' = threats /\ read' = [read EXCEPT ![w] = known] /\ Goto(w, "order")
    BY <2>3, <2>4 DEF Goto, UndercutTypeOK
  <2>5. CASE /\ threats' = [threats EXCEPT ![w] = RankThreats(dbOrder, known)]
             /\ read' = read /\ Goto(w, "next")
    BY <2>2, <2>3, <2>5 DEF Goto, UndercutTypeOK
  <2>. QED  BY <2>1, <2>4, <2>5
<1>6. ASSUME NEW w \in Workers, ReadOrder(w) PROVE UndercutTypeOK'
  <2>1. RankThreats(standing, read[w]) \in Seq(Threats)
    BY RankingIsOfPairs DEF UndercutTypeOK
  <2>. QED  BY <1>6, <2>1 DEF ReadOrder, Goto, UndercutTypeOK, NothingRead
<1>7. ASSUME NEW w \in Workers, NextThreat(w) PROVE UndercutTypeOK'
  <2>1. threats[w] # <<>> => Tail(threats[w]) \in Seq(Threats)
    BY RestIsThreats
  <2>2. UNCHANGED <<raceVars, scoredOn, storeVars, read, failures, alerted, fresh>>
    BY <1>7 DEF NextThreat
  <2>3. CASE threats[w] = <<>>
    BY <1>7, <2>2, <2>3 DEF NextThreat, Goto, UndercutTypeOK
  <2>4. CASE threats[w] # <<>> /\ Skip(w)
    <3>1. threats' = [threats EXCEPT ![w] = Tail(threats[w])] /\ at' = [at EXCEPT ![w] = "next"]
      BY <2>4 DEF Skip, Goto
    <3>. QED  BY <2>1, <2>2, <2>4, <3>1 DEF UndercutTypeOK
  <2>5. CASE threats[w] # <<>> /\ Goto(w, "claim") /\ UNCHANGED threats
    BY <2>2, <2>5 DEF Goto, UndercutTypeOK
  <2>. QED  BY <1>7, <2>3, <2>4, <2>5 DEF NextThreat
<1>8. ASSUME NEW w \in Workers, Claim(w) PROVE UndercutTypeOK'
  <2>1. threats[w] # <<>>
    BY <1>8 DEF Claim, UndercutTypeOK
  <2>2. Tail(threats[w]) \in Seq(Threats) /\ Head(threats[w]).pair \in Pairs
    BY <2>1, RestIsThreats DEF Judged
  <2>. QED  BY <1>8, <2>1, <2>2 DEF Claim, Skip, Goto, UndercutTypeOK
<1>9. ASSUME NEW w \in Workers, CommitAlerts(w) PROVE UndercutTypeOK'
  <2>1. threats[w] # <<>>
    BY <1>9 DEF CommitAlerts, UndercutTypeOK
  <2>2. Head(threats[w]).pair \in Pairs
    BY <2>1, RestIsThreats DEF Judged
  <2>3. {Head(threats[w]).pair} \X SubscribersTo[Head(threats[w]).pair[1]] \subseteq Pairs \X Users
    BY <2>2, UndercutAssumption DEF UndercutAssumption, Pairs
  <2>. QED  BY <1>9, <2>1, <2>2, <2>3 DEF CommitAlerts, Goto, UndercutTypeOK
<1>10. ASSUME NEW w \in Workers, PublishAlert(w) PROVE UndercutTypeOK'
  <2>1. threats[w] # <<>>
    BY <1>10 DEF PublishAlert, UndercutTypeOK
  <2>2. Tail(threats[w]) \in Seq(Threats)
    BY <2>1, RestIsThreats
  <2>. QED  BY <1>10, <2>2 DEF PublishAlert, Skip, Goto, UndercutTypeOK
<1>11. ASSUME NEW w \in Workers, Fail(w) PROVE UndercutTypeOK'
  BY <1>11, UndercutAssumption DEF Fail, Goto, UndercutTypeOK, NothingRead, UndercutAssumption
<1>12. ASSUME NEW p \in Pairs, Expire(p) PROVE UndercutTypeOK'
  BY <1>12 DEF Expire, UndercutTypeOK
<1>13. CASE UNCHANGED undercutVars
  BY <1>13 DEF undercutVars, UndercutTypeOK
<1>. QED  BY <1>2, <1>3, <1>4, <1>5, <1>6, <1>7, <1>8, <1>9, <1>10, <1>11, <1>12, <1>13
          DEF UndercutNext, Step

\* Every variable keeps its type, and a worker that claims, commits or publishes
\* has a threat at hand (evaluate_threats).
THEOREM UndercutTypeCorrect == UndercutSpec => []UndercutTypeOK
BY InitUndercutTypeOK, NextUndercutTypeOK, PTL DEF UndercutSpec

\* A worker's own step outside its claim and its commit.
LEMMA ElsewhereClaimInv ==
  ASSUME UndercutTypeOK, ClaimInv, NEW w \in Workers, NEW there,
         at[w] # "commit", there # "commit",
         at' = [at EXCEPT ![w] = there],
         \A v \in Workers \ {w} : threats'[v] = threats[v],
         UNCHANGED <<claims, fresh>>
  PROVE  ClaimInv'
BY DEF ClaimInv, Judged, UndercutTypeOK

\* A step preserves the claims, if a claim outlives its dispatch.
LEMMA NextClaimInv ==
  ASSUME ClaimOutlives, UndercutTypeOK, ClaimInv, [UndercutNext]_undercutVars
  PROVE  ClaimInv'
<1>. USE DEF raceVars, storeVars
<1>1. ASSUME NEW w \in Workers,
             \/ ReadDatabase(w) \/ ReadOrder(w) \/ NextThreat(w) \/ PublishAlert(w)
             \/ \E d \in Drivers : Predict(w, d)
      PROVE  ClaimInv'
  <2>1. \A v \in Workers \ {w} : threats'[v] = threats[v]
    BY <1>1 DEF ReadDatabase, ReadOrder, NextThreat, PublishAlert, Predict, Skip, UndercutTypeOK
  <2>. QED  BY <1>1, <2>1, ElsewhereClaimInv
            DEF ReadDatabase, ReadOrder, NextThreat, PublishAlert, Predict, Skip, Goto
<1>2. ASSUME NEW w \in Workers, Claim(w) PROVE ClaimInv'
  <2>. DEFINE p == Head(threats[w]).pair
  <2>1. p \in Pairs
    BY <1>2, RestIsThreats DEF Claim, Judged, UndercutTypeOK
  <2>2. CASE p \in claims
    <3>1. \A v \in Workers \ {w} : threats'[v] = threats[v]
      BY <1>2, <2>2 DEF Claim, Skip, UndercutTypeOK
    <3>. QED  BY <1>2, <2>2, <3>1, ElsewhereClaimInv DEF Claim, Skip, Goto
  <2>3. CASE p \notin claims
    <3>1. /\ at' = [at EXCEPT ![w] = "commit"] /\ claims' = claims \cup {p}
          /\ UNCHANGED <<threats, fresh>>
      BY <1>2, <2>3 DEF Claim, Goto
    <3>2. p \in fresh
      BY <2>1, <2>3 DEF ClaimInv
    <3>3. \A v \in Workers : at[v] = "commit" => Judged(v) # p
      BY <2>3 DEF ClaimInv
    <3>. QED  BY <3>1, <3>2, <3>3 DEF ClaimInv, Judged, UndercutTypeOK
  <2>. QED  BY <2>2, <2>3
<1>3. ASSUME NEW w \in Workers, CommitAlerts(w) PROVE ClaimInv'
  <2>1. /\ at[w] = "commit" /\ at' = [at EXCEPT ![w] = "publish"]
        /\ fresh' = fresh \ {Judged(w)}
        /\ UNCHANGED <<threats, claims>>
    BY <1>3 DEF CommitAlerts, Goto, Judged
  <2>2. Judged(w) \in claims
    BY <2>1 DEF ClaimInv
  <2>3. \A v \in Workers : at'[v] = "commit" => at[v] = "commit" /\ v # w
    BY <2>1 DEF UndercutTypeOK
  <2>4. \A v \in Workers : Judged(v)' = Judged(v)
    BY <2>1 DEF Judged
  <2>. QED  BY <2>1, <2>2, <2>3, <2>4 DEF ClaimInv
<1>4. ASSUME NEW w \in Workers, Fail(w) PROVE ClaimInv'
  BY <1>4 DEF Fail, Goto, ClaimInv, Judged, UndercutTypeOK
<1>5. ASSUME NEW p \in Pairs, Expire(p) PROVE ClaimInv'
  BY <1>5 DEF Expire, Dispatching, ClaimInv, Judged
<1>6. CASE \/ \E i \in DOMAIN Grid : Overtake(i)
           \/ \E d \in Drivers : StoreLap(d)
           \/ UNCHANGED undercutVars
  BY <1>6 DEF Overtake, StoreLap, undercutVars, ClaimInv, Judged
<1>. QED  BY <1>1, <1>2, <1>3, <1>4, <1>5, <1>6 DEF UndercutNext, Step

\* However many workers judge a pair at once, however the race goes and whatever
\* fails, a pair is alerted at most once between two expiries of its claim, as
\* long as a claim outlives the dispatch it is taken for (evaluate_threats).
THEOREM OneAlertPerClaimHolds ==
  ASSUME ClaimOutlives
  PROVE  UndercutSpec => OneAlertPerClaim
<1>1. ClaimInv => [\A w \in Workers : at[w] = "commit" /\ at'[w] = "publish"
                     => Head(threats[w]).pair \in fresh]_undercutVars
  BY DEF ClaimInv, Judged
<1>. QED  BY <1>1, InitUndercutTypeOK, NextUndercutTypeOK, NextClaimInv, PTL
          DEF UndercutSpec, OneAlertPerClaim
==============================================================================
