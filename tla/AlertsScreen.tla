----------------------------- MODULE AlertsScreen ------------------------------
(***************************************************************************)
(* The Alerts screen of the three clients: the list as the backend has it, *)
(* as the query cache last got it, and as the store shows it; the reads    *)
(* one by one, and mobile's selection that is marked read together.  An    *)
(* effect copies the cache to the store some time after it changed.  An    *)
(* alert's text, race and driver are left out.                             *)
(***************************************************************************)
EXTENDS Naturals

CONSTANTS
  Alerts,
  Types,
  TypeOf,     \* of each alert
  None,       \* undefined
  MaxFaults   \* bound: requests that fail, or whose answer is lost

ASSUME AlertsAssumption ==
  /\ TypeOf \in [Alerts -> Types]
  /\ Types \cap {"all", "unread"} = {}
  /\ None \notin [ids : SUBSET Alerts, read : SUBSET Alerts]
  /\ MaxFaults \in Nat

VARIABLES
  platform,      \* web, desktop or mobile
  page,          \* alerts, dashboard (Home on mobile) or other
  server,        \* the user's alerts and which are read
  cache,         \* the list query's data, or None
  fetch,         \* the list query's request
  unapplied,     \* the data changed and the screen's effect is still to run
  store,         \* alertStore: what the screen and the badge show
  puts,          \* PUT /alerts/{id}/read, of a row or of the bulk
  selectionMode,
  selectedIds,
  filter,
  bulkBusy,
  faults

query     == <<cache, fetch, unapplied>>
selection == <<selectionMode, selectedIds, filter>>
vars      == <<platform, page, server, query, store, puts, selection, bulkBusy, faults>>

Lists == {l \in [ids : SUBSET Alerts, read : SUBSET Alerts] : l.read \subseteq l.ids}
Empty == [ids |-> {}, read |-> {}]
Ways  == {"row", "bulk"}
Idle  == [phase |-> "idle", list |-> None]
Asked == [phase |-> "asked", list |-> None]

Fetches == [phase : {"idle", "asked", "answered", "failed"}, list : Lists \cup {None}]

Unread(l) == l.ids \ l.read
Faulty    == faults < MaxFaults /\ faults' = faults + 1

------------------------------------------------------------------------------
(* The list query.                                                           *)

Mounted == page = "alerts"

\* The Dashboard's and mobile Home's RecentAlertsFeed observes the query too,
\* and mobile's tabs stay mounted.
Active(p) == p = "alerts" \/ (p = "dashboard" /\ platform # "desktop") \/ platform = "mobile"

\* A refetch that finds one under way joins it.
Joined == fetch' = IF fetch.phase = "idle" THEN Asked ELSE fetch

\* invalidateQueries leaves the request under way to finish.
InvalidateJoins == IF Active(page) THEN Joined ELSE UNCHANGED fetch

\* invalidateQueries cancels the request under way and asks again, if anything
\* observes the query.
Invalidate == IF Active(page) THEN fetch' = Asked ELSE UNCHANGED fetch

\* Mounting an observer refetches, since nothing stays fresh, and the screen's
\* effect runs on the cached data.
Open(p) ==
  /\ p # page
  /\ platform = "mobile" => p = "alerts"
  /\ page' = p
  /\ IF Active(p) THEN Joined ELSE UNCHANGED fetch
  /\ unapplied' = (p = "alerts" /\ cache # None)
  /\ UNCHANGED <<platform, server, cache, store, puts, selection, bulkBusy, faults>>

\* The window gains focus.
Focus ==
  /\ platform # "mobile" /\ Active(page)
  /\ fetch.phase = "idle"
  /\ fetch' = Asked
  /\ UNCHANGED <<platform, page, server, cache, unapplied, store, puts, selection, bulkBusy, faults>>

\* Mobile's pull to refresh, which the empty list does not have.
Refresh ==
  /\ platform = "mobile" /\ Mounted
  /\ store.ids # {} /\ fetch.phase = "idle"
  /\ fetch' = Asked
  /\ UNCHANGED <<platform, page, server, cache, unapplied, store, puts, selection, bulkBusy, faults>>

\* get_user_alerts, or no answer once the retries are spent.
ListAnswered ==
  /\ fetch.phase = "asked"
  /\ \/ fetch' = [phase |-> "answered", list |-> server] /\ UNCHANGED faults
     \/ fetch' = [phase |-> "failed", list |-> None] /\ Faulty
  /\ UNCHANGED <<platform, page, server, cache, unapplied, store, puts, selection, bulkBusy>>

\* A list equal to the cached one keeps its identity, and no effect runs.
ListReceived ==
  /\ fetch.phase \in {"answered", "failed"}
  /\ cache' = IF fetch.phase = "answered" THEN fetch.list ELSE cache
  /\ unapplied' = (unapplied \/ (Mounted /\ cache' # cache))
  /\ fetch' = Idle
  /\ UNCHANGED <<platform, page, server, store, puts, selection, bulkBusy, faults>>

setAlerts ==
  /\ unapplied
  /\ store' = cache
  /\ unapplied' = FALSE
  /\ UNCHANGED <<platform, page, server, cache, fetch, puts, selection, bulkBusy, faults>>

------------------------------------------------------------------------------
(* The backend.                                                              *)

NewAlert ==
  /\ \E a \in Alerts \ server.ids : server' = [server EXCEPT !.ids = @ \cup {a}]
  /\ UNCHANGED <<platform, page, query, store, puts, selection, bulkBusy, faults>>

\* Another client of the user's.
ReadElsewhere ==
  /\ \E a \in Unread(server) : server' = [server EXCEPT !.read = @ \cup {a}]
  /\ UNCHANGED <<platform, page, query, store, puts, selection, bulkBusy, faults>>

\* mark_alert_read; it may fail, and its answer may be lost.
PutAnswered(a, way) ==
  /\ puts[way][a] = "sent"
  /\ \E marked \in BOOLEAN, phase \in {"done", "failed"} :
       /\ phase = "done" => marked
       /\ IF phase = "failed" THEN Faulty ELSE UNCHANGED faults
       /\ puts' = [puts EXCEPT ![way][a] = phase]
       /\ server' = IF marked THEN [server EXCEPT !.read = @ \cup {a}] ELSE server
  /\ UNCHANGED <<platform, page, query, store, selection, bulkBusy>>

------------------------------------------------------------------------------
(* Reading one alert.                                                        *)

\* alertStore.markRead.
markRead(as) == store' = [store EXCEPT !.read = @ \cup (as \cap store.ids)]

\* A press on web and desktop; on mobile a swipe or a tap that also opens the
\* Live tab, neither in selection mode.  Bound: one such PUT at once.
MarkRead(a) ==
  /\ Mounted /\ a \in Unread(store)
  /\ ~selectionMode
  /\ \A b \in Alerts : puts["row"][b] = "none"
  /\ puts' = [puts EXCEPT !["row"][a] = "sent"]
  /\ UNCHANGED <<platform, page, server, query, store, selection, bulkBusy, faults>>

MarkedRead(a) ==
  /\ puts["row"][a] \in {"done", "failed"}
  /\ puts' = [puts EXCEPT !["row"][a] = "none"]
  /\ IF puts["row"][a] = "done" THEN markRead({a}) /\ Invalidate ELSE UNCHANGED <<store, fetch>>
  /\ UNCHANGED <<platform, page, server, cache, unapplied, selection, bulkBusy, faults>>

------------------------------------------------------------------------------
(* Mobile's filters and selection.                                           *)

filterChips  == {"all", "unread"} \cup {TypeOf[a] : a \in store.ids}
activeFilter == IF filter \in filterChips THEN filter ELSE "all"

visibleAlerts ==
  CASE activeFilter = "all"    -> store.ids
    [] activeFilter = "unread" -> Unread(store)
    [] OTHER                   -> {a \in store.ids : TypeOf[a] = activeFilter}

visibleUnreadIds == visibleAlerts \cap Unread(store)

\* An alert read elsewhere drops out of the selection.
effectiveSelection == selectedIds \cap Unread(store)

allSelected == visibleUnreadIds # {} /\ visibleUnreadIds \subseteq selectedIds

\* The screen with rows on it.
Shown == platform = "mobile" /\ Mounted /\ store.ids # {}

exitSelection == selectionMode' = FALSE /\ selectedIds' = {}

\* A long press on an unread row.
startSelection(a) ==
  /\ Shown /\ a \in visibleUnreadIds /\ ~selectionMode
  /\ selectionMode' = TRUE
  /\ selectedIds' = {a}
  /\ UNCHANGED <<platform, page, server, query, store, puts, filter, bulkBusy, faults>>

\* A tap on an unread row in selection mode; the last one out ends it.
toggleSelected(a) ==
  /\ Shown /\ a \in visibleUnreadIds /\ selectionMode
  /\ selectedIds' = IF a \in selectedIds THEN selectedIds \ {a} ELSE selectedIds \cup {a}
  /\ selectionMode' = (selectedIds' # {})
  /\ UNCHANGED <<platform, page, server, query, store, puts, filter, bulkBusy, faults>>

\* "Select all unread" takes the alerts the filter shows.
toggleAll ==
  /\ Shown /\ selectionMode /\ ~bulkBusy
  /\ IF allSelected THEN exitSelection ELSE selectedIds' = visibleUnreadIds /\ UNCHANGED selectionMode
  /\ UNCHANGED <<platform, page, server, query, store, puts, filter, bulkBusy, faults>>

CancelSelection ==
  /\ Shown /\ selectionMode
  /\ exitSelection
  /\ UNCHANGED <<platform, page, server, query, store, puts, filter, bulkBusy, faults>>

\* The selection bar covers the chips; an empty list offers "Show all alerts".
changeFilter(next) ==
  /\ Shown /\ next \in filterChips
  /\ ~selectionMode \/ (visibleAlerts = {} /\ next = "all")
  /\ filter' = next
  /\ exitSelection
  /\ UNCHANGED <<platform, page, server, query, store, puts, bulkBusy, faults>>

\* One PUT per alert, all at once.
markSelectedRead ==
  /\ Shown /\ selectionMode /\ ~bulkBusy
  /\ effectiveSelection # {}
  /\ bulkBusy' = TRUE
  /\ puts' = [puts EXCEPT !["bulk"] =
                [a \in Alerts |-> IF a \in effectiveSelection THEN "sent" ELSE "none"]]
  /\ UNCHANGED <<platform, page, server, query, store, selection, faults>>

BulkPuts(phase) == {a \in Alerts : puts["bulk"][a] = phase}

\* Promise.all: nothing after it runs once a PUT failed.
AllAnswered == BulkPuts("sent") = {} /\ BulkPuts("failed") = {}

AllSettled == BulkPuts("sent") = {}

\* The bulk marks all it sent.
MarkedByBulkAll == Alerts \ BulkPuts("none")

MarkedByBulk == BulkPuts("done")

\* The end of markSelectedRead; the banner that counts the failures is left out.
MarkedSelectedRead ==
  /\ bulkBusy /\ AllSettled
  /\ markRead(MarkedByBulk)
  /\ bulkBusy' = FALSE
  /\ exitSelection
  /\ Invalidate
  /\ puts' = [puts EXCEPT !["bulk"] = [a \in Alerts |-> "none"]]
  /\ UNCHANGED <<platform, page, server, cache, unapplied, filter, faults>>

------------------------------------------------------------------------------
Init ==
  /\ platform \in {"web", "desktop", "mobile"}
  /\ page = "other"
  /\ server \in Lists
  /\ cache = None /\ fetch = Idle /\ unapplied = FALSE
  /\ store = Empty
  /\ puts = [way \in Ways |-> [a \in Alerts |-> "none"]]
  /\ selectionMode = FALSE /\ selectedIds = {} /\ filter = "all"
  /\ bulkBusy = FALSE
  /\ faults = 0

Answer == ListAnswered \/ \E a \in Alerts, way \in Ways : PutAnswered(a, way)

\* What the client does with what it got.
Receive ==
  ListReceived \/ setAlerts \/ MarkedSelectedRead \/ \E a \in Alerts : MarkedRead(a)

Select ==
  \/ \E a \in Alerts : startSelection(a) \/ toggleSelected(a)
  \/ toggleAll \/ CancelSelection \/ markSelectedRead
  \/ \E next \in {"all", "unread"} \cup Types : changeFilter(next)

Next ==
  \/ \E p \in {"alerts", "dashboard", "other"} : Open(p)
  \/ Focus \/ Refresh
  \/ NewAlert \/ ReadElsewhere
  \/ \E a \in Alerts : MarkRead(a)
  \/ Select
  \/ Answer \/ Receive

Spec == Init /\ [][Next]_vars

\* Requests are answered or time out, and their answers are taken up.
FairSpec ==
  /\ Spec
  /\ WF_vars(ListAnswered) /\ WF_vars(ListReceived) /\ WF_vars(setAlerts)
  /\ WF_vars(MarkedSelectedRead)
  /\ \A a \in Alerts : WF_vars(MarkedRead(a)) /\ WF_vars(\E way \in Ways : PutAnswered(a, way))

------------------------------------------------------------------------------
(* Properties.                                                               *)

\* The type invariant: the cache and the store are lists of alerts.
TypeOK ==
  /\ platform \in {"web", "desktop", "mobile"}
  /\ page \in {"alerts", "dashboard", "other"}
  /\ server \in Lists /\ store \in Lists
  /\ cache \in Lists \cup {None}
  /\ fetch \in Fetches
  /\ fetch.phase = "answered" => fetch.list \in Lists
  /\ unapplied \in BOOLEAN /\ (unapplied => cache \in Lists)
  /\ puts \in [Ways -> [Alerts -> {"none", "sent", "done", "failed"}]]
  /\ selectionMode \in BOOLEAN /\ bulkBusy \in BOOLEAN
  /\ selectedIds \subseteq Alerts
  /\ filter \in {"all", "unread"} \cup Types
  /\ faults \in 0..MaxFaults

\* No alert is shown read, or left out of the badge, that the backend still
\* has unread: a bulk some of whose PUTs fail marks only the others.
ShownReadIsRead == store.read \subseteq server.read

\* Once an alert the user marked on mobile has been answered for, it is shown
\* read and stays so, though a list read before the mark may still be on its
\* way or waiting for its effect.
MarkedStaysRead ==
  \A a \in Alerts :
    (platform = "mobile" /\ a \in store.ids /\ puts["row"][a] = "done" /\ faults = MaxFaults)
      ~> [](a \in store.read)

\* A bulk ends though some of its PUTs fail, and when it was their answers
\* that were lost the screen comes in line with the backend: what was marked
\* after all is shown read.
LostAnswersHeal ==
  \A a \in Alerts :
    (bulkBusy /\ a \in server.read /\ puts["bulk"][a] = "failed" /\ faults = MaxFaults)
      ~> (a \in store.read)
===============================================================================
