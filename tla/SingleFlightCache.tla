--------------------------- MODULE SingleFlightCache ---------------------------
(***************************************************************************)
(* services/cache_service.py's cacheable: cache-aside with a Redis lock    *)
(* that lets one of the callers of a missing key compute it, and a copy    *)
(* without expiry that is served when a computation fails.  The same       *)
(* control, with a cached "not found" and no copy, is written out by hand  *)
(* in race_service.get_current_race (handRolled).  One key; every Redis    *)
(* round trip is a step.                                                   *)
(***************************************************************************)
EXTENDS Integers

CONSTANTS
  Callers,      \* calls of the decorated function
  MaxVersion,   \* versions of the data it is computed from
  Missing,      \* no such key
  NotFound,     \* the cached "not found" of the hand-rolled variant
  Free,         \* the lock key is missing
  Scenarios     \* what may be assumed of the surroundings, and who calls then

Assumptions ==
  { "lockOutlives",       \* a computation ends within both lock timeouts (40 s, 40 s)
    "storesWhole",        \* no process dies between the two SETs of one result
    "redisAnswers",       \* no round trip raises RedisError
    "neverInvalidated" }  \* cache_invalidate_session is not called

ASSUME CacheAssumption ==
  /\ MaxVersion \in Nat \ {0}
  /\ DOMAIN Scenarios \subseteq SUBSET Assumptions
  /\ \A a \in DOMAIN Scenarios : Scenarios[a] \subseteq Callers
  /\ {Missing, NotFound} \cap Nat = {}
  /\ Missing # NotFound
  /\ Free \notin Callers

VARIABLES
  assumed,    \* the assumptions that hold in this behaviour
  handRolled, \* get_current_race rather than cacheable
  entry,      \* the key
  lastGood,   \* <key>:last_good
  lock,       \* <key>:lock, Free or its owner
  source,     \* version of the data in the database
  at,         \* where each call is
  val,        \* the result a call carries
  holds,      \* the call acquired the lock, and so releases it
  allowance,  \* history: computations there is still a reason for
  newest,     \* history: the newest version any call was answered with
  floor       \* history: newest, when a call began

redisVars == <<entry, lastGood, lock>>
callVars  == <<at, val, holds>>
env       == <<assumed, handRolled>>
vars      == <<env, redisVars, source, callVars, allowance, newest, floor>>

LockOutlives  == "lockOutlives" \in assumed
StoresWhole   == "storesWhole" \in assumed
RedisMayFail  == "redisAnswers" \notin assumed
MayInvalidate == "neverInvalidated" \notin assumed

Versions == 1..MaxVersion
Working  == {"acquire", "recheck", "compute", "fallback", "storeNotFound", "storeEntry",
             "storeLastGood", "release", "releaseFailed"}
Answered == {"served", "failed", "redisError", "crashed"}

\* A computation that is under way or whose result is not stored yet.
Computing == {c \in Callers : at[c] \in {"compute", "storeNotFound", "storeEntry"}}

\* cache_get: a RedisError reads as a miss.
CacheGet(key) == {key} \cup (IF RedisMayFail THEN {Missing} ELSE {})

Goto(c, where) == at' = [at EXCEPT ![c] = where]

\* The call is answered with v; a cached "not found" is raised again.
Answer(c, v) ==
  /\ val' = [val EXCEPT ![c] = v]
  /\ Goto(c, IF v = NotFound THEN "failed" ELSE "served")
  /\ newest' = IF v \in Versions /\ v > newest THEN v ELSE newest

\* The try block is left with v, through its finally if the lock was acquired.
Leave(c, v) ==
  IF holds[c]
    THEN val' = [val EXCEPT ![c] = v] /\ Goto(c, "release") /\ UNCHANGED newest
    ELSE Answer(c, v)

LeaveRaising(c, outcome) ==
  /\ IF holds[c]
       THEN val' = [val EXCEPT ![c] = Missing] /\ Goto(c, "releaseFailed")
       ELSE UNCHANGED val /\ Goto(c, outcome)
  /\ UNCHANGED newest

------------------------------------------------------------------------------
Init ==
  /\ assumed \in DOMAIN Scenarios
  /\ handRolled \in BOOLEAN
  /\ entry = Missing
  /\ lastGood = Missing
  /\ lock = Free
  /\ source = 1
  /\ at = [c \in Callers |-> "idle"]
  /\ val = [c \in Callers |-> Missing]
  /\ holds = [c \in Callers |-> FALSE]
  /\ allowance = 1
  /\ newest = 0
  /\ floor = [c \in Callers |-> 0]

Lookup(c) ==
  /\ c \in Scenarios[assumed]
  /\ at[c] = "idle"
  /\ floor' = [floor EXCEPT ![c] = newest]
  /\ \E cached \in CacheGet(entry) :
       IF cached = Missing
         THEN Goto(c, "acquire") /\ UNCHANGED <<val, newest>>
         ELSE Answer(c, cached)
  /\ UNCHANGED <<env, redisVars, source, holds, allowance>>

Acquire(c) ==
  /\ at[c] = "acquire"
  /\ lock = Free
  /\ lock' = c
  /\ holds' = [holds EXCEPT ![c] = TRUE]
  /\ Goto(c, "recheck")
  /\ UNCHANGED <<env, entry, lastGood, source, val, allowance, newest, floor>>

\* Nothing catches a RedisError of acquire().
AcquireRaises(c) ==
  /\ RedisMayFail
  /\ at[c] = "acquire"
  /\ Goto(c, "redisError")
  /\ UNCHANGED <<env, redisVars, source, val, holds, allowance, newest, floor>>

\* blocking_timeout elapses.
GiveUp(c) ==
  /\ ~LockOutlives
  /\ at[c] = "acquire"
  /\ lock # Free
  /\ Goto(c, "recheck")
  /\ UNCHANGED <<env, redisVars, source, val, holds, allowance, newest, floor>>

\* Mutant of Recheck: the winner computes without looking again.
RecheckSkipped(c) ==
  /\ at[c] = "recheck"
  /\ Goto(c, "compute") /\ UNCHANGED newest
  /\ val' = [val EXCEPT ![c] = source]
  /\ allowance' = allowance - 1
  /\ UNCHANGED <<env, redisVars, source, holds, floor>>

\* With the lock or without it, the cache is read once more; on a miss the
\* computation starts and reads the database.
Recheck(c) ==
  /\ at[c] = "recheck"
  /\ \E cached \in CacheGet(entry) :
       IF cached = Missing
         THEN /\ Goto(c, "compute")
              /\ val' = [val EXCEPT ![c] = source]
              /\ allowance' = allowance - 1
              /\ UNCHANGED newest
         ELSE Leave(c, cached) /\ UNCHANGED allowance
  /\ UNCHANGED <<env, redisVars, source, holds, floor>>

ComputeSucceeds(c) ==
  /\ at[c] = "compute"
  /\ Goto(c, "storeEntry")
  /\ UNCHANGED <<env, redisVars, source, val, holds, allowance, newest, floor>>

\* cacheable falls back on the copy.  A failure leaves the key missing, so there
\* is a reason to compute again.
ComputeFails(c) ==
  /\ at[c] = "compute"
  /\ allowance' = allowance + 1
  /\ IF handRolled THEN LeaveRaising(c, "failed")
                   ELSE Goto(c, "fallback") /\ UNCHANGED <<val, newest>>
  /\ UNCHANGED <<env, redisVars, source, holds, floor>>

\* _fetch_and_cache_current_race caches a NotFoundError before raising it.
ComputeNotFound(c) ==
  /\ handRolled
  /\ at[c] = "compute"
  /\ Goto(c, "storeNotFound")
  /\ UNCHANGED <<env, redisVars, source, val, holds, allowance, newest, floor>>

StoreNotFound(c) ==
  /\ at[c] = "storeNotFound"
  /\ entry' = NotFound
  /\ LeaveRaising(c, "failed")
  /\ UNCHANGED <<env, lastGood, lock, source, holds, allowance, floor>>

\* Mutant of Fallback: with nothing to fall back on, start over.
FallbackRetries(c) ==
  /\ at[c] = "fallback"
  /\ \E copy \in CacheGet(lastGood) :
       IF copy = Missing THEN Goto(c, "recheck") /\ UNCHANGED <<val, newest>>
                         ELSE Leave(c, copy)
  /\ UNCHANGED <<env, redisVars, source, holds, allowance, floor>>

Fallback(c) ==
  /\ at[c] = "fallback"
  /\ \E copy \in CacheGet(lastGood) :
       IF copy = Missing THEN LeaveRaising(c, "failed") ELSE Leave(c, copy)
  /\ UNCHANGED <<env, redisVars, source, holds, allowance, floor>>

StoreEntry(c) ==
  /\ at[c] = "storeEntry"
  /\ entry' = val[c]
  /\ IF handRolled THEN Leave(c, val[c])
                   ELSE Goto(c, "storeLastGood") /\ UNCHANGED <<val, newest>>
  /\ UNCHANGED <<env, lastGood, lock, source, holds, allowance, floor>>

\* Mutant of StoreLastGood: the first copy is kept.
StoreLastGoodOnce(c) ==
  /\ at[c] = "storeLastGood"
  /\ lastGood' = IF lastGood = Missing THEN val[c] ELSE lastGood
  /\ Leave(c, val[c])
  /\ UNCHANGED <<env, entry, lock, source, holds, allowance, floor>>

StoreLastGood(c) ==
  /\ at[c] = "storeLastGood"
  /\ lastGood' = val[c]
  /\ Leave(c, val[c])
  /\ UNCHANGED <<env, entry, lock, source, holds, allowance, floor>>

\* A failed SET is raised, though the result is there.
StoreRaises(c) ==
  /\ RedisMayFail
  /\ at[c] \in {"storeEntry", "storeNotFound", "storeLastGood"}
  /\ LeaveRaising(c, "redisError")
  /\ allowance' = IF at[c] = "storeLastGood" THEN allowance ELSE allowance + 1
  /\ UNCHANGED <<env, redisVars, source, holds, floor>>

\* The release script compares the token: another owner's lock stays.
Release(c) ==
  /\ at[c] \in {"release", "releaseFailed"}
  /\ lock' = IF lock = c THEN Free ELSE lock
  /\ IF at[c] = "release" THEN Answer(c, val[c])
                          ELSE Goto(c, "failed") /\ UNCHANGED <<val, newest>>
  /\ UNCHANGED <<env, entry, lastGood, source, holds, allowance, floor>>

\* Only LockNotOwnedError is caught: the answer is lost, the lock lives on.
ReleaseRaises(c) ==
  /\ RedisMayFail
  /\ at[c] \in {"release", "releaseFailed"}
  /\ Goto(c, "redisError")
  /\ UNCHANGED <<env, redisVars, source, val, holds, allowance, newest, floor>>

Crash(c) ==
  /\ at[c] \in Working
  /\ StoresWhole => at[c] # "storeLastGood"
  /\ Goto(c, "crashed")
  /\ allowance' = IF c \in Computing THEN allowance + 1 ELSE allowance
  /\ UNCHANGED <<env, redisVars, source, val, holds, newest, floor>>

\* timeout=: the lock's owner is gone without releasing it, or too slow.
LockExpires ==
  /\ lock # Free
  /\ LockOutlives => at[lock] \in Answered
  /\ lock' = Free
  /\ UNCHANGED <<env, entry, lastGood, source, callVars, allowance, newest, floor>>

EntryExpires ==
  /\ entry # Missing
  /\ entry' = Missing
  /\ allowance' = allowance + 1
  /\ UNCHANGED <<env, lastGood, lock, source, callVars, newest, floor>>

\* last_good_ttl
LastGoodExpires ==
  /\ lastGood # Missing
  /\ lastGood' = Missing
  /\ UNCHANGED <<env, entry, lock, source, callVars, allowance, newest, floor>>

SourceChanges ==
  /\ source < MaxVersion
  /\ source' = source + 1
  /\ UNCHANGED <<env, redisVars, callVars, allowance, newest, floor>>

\* The key's whole family is deleted, its lock included.  Who calls afterwards
\* expects nothing older than what the database held at that moment.
Invalidate ==
  /\ MayInvalidate
  /\ <<entry, lastGood, lock>> # <<Missing, Missing, Free>>
  /\ entry' = Missing
  /\ lastGood' = Missing
  /\ lock' = Free
  /\ allowance' = allowance + 1
  /\ newest' = source
  /\ UNCHANGED <<env, source, callVars, floor>>

------------------------------------------------------------------------------
Step(c) ==
  \/ Acquire(c) \/ AcquireRaises(c) \/ GiveUp(c) \/ Recheck(c)
  \/ ComputeSucceeds(c) \/ ComputeFails(c) \/ ComputeNotFound(c)
  \/ StoreNotFound(c) \/ Fallback(c) \/ StoreEntry(c) \/ StoreLastGood(c)
  \/ StoreRaises(c) \/ Release(c) \/ ReleaseRaises(c)

Next ==
  \/ \E c \in Callers : Lookup(c) \/ Step(c) \/ Crash(c)
  \/ LockExpires
  \/ EntryExpires
  \/ LastGoodExpires
  \/ SourceChanges
  \/ Invalidate

Spec == Init /\ [][Next]_vars

\* Calls run on, and Redis expires a lock nobody releases.
FairSpec == Spec /\ WF_vars(LockExpires) /\ \A c \in Callers : WF_vars(Step(c))

------------------------------------------------------------------------------
\* Every variable has its type, and the lock is owned by a call that acquired it.
TypeOK ==
  /\ assumed \in DOMAIN Scenarios /\ handRolled \in BOOLEAN
  /\ entry \in Versions \cup {Missing, NotFound}
  /\ lastGood \in Versions \cup {Missing}
  /\ lock \in Callers \cup {Free}
  /\ source \in Versions
  /\ at \in [Callers -> {"idle"} \cup Working \cup Answered]
  /\ val \in [Callers -> Versions \cup {Missing, NotFound}]
  /\ holds \in [Callers -> BOOLEAN]
  /\ allowance \in Int
  /\ newest \in 0..MaxVersion
  /\ floor \in [Callers -> 0..MaxVersion]
  /\ lock # Free => holds[lock]

\* cache_service.py:213-222, race_service.py:423-433: however many callers miss
\* at once, the work is paid for once per time the key went missing (expired,
\* failed or lost with its process); the others get the stored result.  Not so
\* when a slow holder's lock expires, Redis fails or the lock is invalidated.
StampedeComputesOnce ==
  {"lockOutlives", "redisAnswers", "neverInvalidated"} \subseteq assumed => allowance >= 0

\* cache_service.py:54-57, 248-257: a call is never answered with data older than
\* an answer given before it began, whether its own answer comes from the entry,
\* a computation or the copy for failures, if all the assumptions hold.
ReadsNeverGoBack ==
  assumed = Assumptions =>
    \A c \in Callers : at[c] = "served" => val[c] >= floor[c]

\* cache_service.py:35-38: every call is answered, whatever becomes of the others.
EveryCallReturns ==
  \A c \in Callers : at[c] \in Working ~> at[c] \in Answered
==============================================================================
