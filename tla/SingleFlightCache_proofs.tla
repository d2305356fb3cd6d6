----------------------- MODULE SingleFlightCache_proofs -----------------------
(***************************************************************************)
(* The cache's type invariant, StampedeComputesOnce and ReadsNeverGoBack,  *)
(* for any calls, versions and surroundings.                               *)
(***************************************************************************)
EXTENDS SingleFlightCache, TLAPS

USE CacheAssumption

Values == Versions \cup {Missing, NotFound}

\* What is stored from a call is a version.
TInv ==
  /\ TypeOK
  /\ \A c \in Callers : at[c] \in {"compute", "storeEntry", "storeLastGood"} => val[c] \in Versions

LEMMA ValuesApart == Missing \notin Versions /\ NotFound \notin Versions /\ Missing # NotFound
BY DEF Versions

\* The steps' common endings keep the types of what they assign.
LEMMA GotoTyped ==
  ASSUME TInv, NEW c \in Callers, NEW w \in {"idle"} \cup Working \cup Answered, Goto(c, w)
  PROVE  /\ at' \in [Callers -> {"idle"} \cup Working \cup Answered]
         /\ at'[c] = w
         /\ \A d \in Callers \ {c} : at'[d] = at[d]
BY DEF TInv, TypeOK, Goto

LEMMA AnswerTyped ==
  ASSUME TInv, NEW c \in Callers, NEW v \in Values, Answer(c, v)
  PROVE  /\ at' \in [Callers -> {"idle"} \cup Working \cup Answered]
         /\ at'[c] = IF v = NotFound THEN "failed" ELSE "served"
         /\ \A d \in Callers \ {c} : at'[d] = at[d]
         /\ val' \in [Callers -> Values]
         /\ val'[c] = v
         /\ \A d \in Callers \ {c} : val'[d] = val[d]
         /\ newest' \in 0..MaxVersion
         /\ newest' >= newest
         /\ v \in Versions => newest' >= v
         /\ newest' = newest \/ newest' = v
<1>1. Goto(c, IF v = NotFound THEN "failed" ELSE "served")
  BY DEF Answer
<1>2. (IF v = NotFound THEN "failed" ELSE "served") \in Answered
  BY DEF Answered
<1>3. val \in [Callers -> Values] /\ val' = [val EXCEPT ![c] = v]
  BY DEF TInv, TypeOK, Answer, Values
<1>4. newest \in 0..MaxVersion /\ newest' = IF v \in Versions /\ v > newest THEN v ELSE newest
  BY DEF TInv, TypeOK, Answer
<1>5. /\ newest' \in 0..MaxVersion
      /\ newest' >= newest
      /\ v \in Versions => newest' >= v
      /\ newest' = newest \/ newest' = v
  BY <1>4 DEF Versions
<1>6. /\ at' \in [Callers -> {"idle"} \cup Working \cup Answered]
      /\ at'[c] = IF v = NotFound THEN "failed" ELSE "served"
      /\ \A d \in Callers \ {c} : at'[d] = at[d]
  BY <1>1, <1>2, GotoTyped, Zenon
<1>. QED  BY <1>3, <1>5, <1>6

\* Leave and LeaveRaising end the call or take it to its release.
LEMMA LeaveTyped ==
  ASSUME TInv, NEW c \in Callers, NEW v \in Values, Leave(c, v)
  PROVE  /\ at' \in [Callers -> {"idle"} \cup Working \cup Answered]
         /\ at'[c] = IF holds[c] THEN "release" ELSE IF v = NotFound THEN "failed" ELSE "served"
         /\ \A d \in Callers \ {c} : at'[d] = at[d]
         /\ val' \in [Callers -> Values]
         /\ val'[c] = v
         /\ \A d \in Callers \ {c} : val'[d] = val[d]
         /\ newest' \in 0..MaxVersion
         /\ newest' >= newest
         /\ v \in Versions /\ ~holds[c] => newest' >= v
         /\ newest' = newest \/ (newest' = v /\ ~holds[c])
<1>1. CASE holds[c]
  <2>1. Goto(c, "release") /\ "release" \in Working
    BY <1>1 DEF Leave, Working
  <2>2. /\ at' \in [Callers -> {"idle"} \cup Working \cup Answered]
        /\ at'[c] = "release"
        /\ \A d \in Callers \ {c} : at'[d] = at[d]
    BY <2>1, GotoTyped, Zenon
  <2>3. val \in [Callers -> Values] /\ val' = [val EXCEPT ![c] = v]
    BY <1>1 DEF TInv, TypeOK, Leave, Values
  <2>4. newest' = newest /\ newest \in 0..MaxVersion
    BY <1>1 DEF Leave, TInv, TypeOK
  <2>5. newest' \in 0..MaxVersion /\ newest' >= newest /\ newest' = newest
    BY <2>4
  <2>6. /\ val' \in [Callers -> Values]
        /\ val'[c] = v
        /\ \A d \in Callers \ {c} : val'[d] = val[d]
    BY <2>3
  <2>. QED  BY <1>1, <2>2, <2>5, <2>6
<1>2. CASE ~holds[c]
  <2>1. Answer(c, v)
    BY <1>2 DEF Leave
  <2>. QED  BY <1>2, <2>1, AnswerTyped
<1>. QED  BY <1>1, <1>2

LEMMA LeaveRaisingTyped ==
  ASSUME TInv, NEW c \in Callers, NEW outcome \in Answered, LeaveRaising(c, outcome)
  PROVE  /\ at' \in [Callers -> {"idle"} \cup Working \cup Answered]
         /\ at'[c] = IF holds[c] THEN "releaseFailed" ELSE outcome
         /\ \A d \in Callers \ {c} : at'[d] = at[d]
         /\ val' \in [Callers -> Values]
         /\ \A d \in Callers \ {c} : val'[d] = val[d]
         /\ newest' = newest
<1>1. Goto(c, IF holds[c] THEN "releaseFailed" ELSE outcome)
  BY DEF LeaveRaising
<1>2. (IF holds[c] THEN "releaseFailed" ELSE outcome) \in {"idle"} \cup Working \cup Answered
  BY DEF Working
<1>3. val \in [Callers -> Values]
      /\ (val' = [val EXCEPT ![c] = Missing] \/ val' = val)
  BY DEF TInv, TypeOK, LeaveRaising, Values
<1>4. val' \in [Callers -> Values] /\ \A d \in Callers \ {c} : val'[d] = val[d]
  BY <1>3 DEF Values
<1>5. newest' = newest
  BY DEF LeaveRaising
<1>6. /\ at' \in [Callers -> {"idle"} \cup Working \cup Answered]
      /\ at'[c] = IF holds[c] THEN "releaseFailed" ELSE outcome
      /\ \A d \in Callers \ {c} : at'[d] = at[d]
  BY <1>1, <1>2, GotoTyped, Zenon
<1>. QED  BY <1>4, <1>5, <1>6

\* A key's value is what a lookup returns, or nothing.
LEMMA CacheGetTyped ==
  ASSUME NEW key \in Values, NEW cached \in CacheGet(key)
  PROVE  cached \in Values /\ (cached = key \/ cached = Missing)
BY DEF CacheGet, Values

LEMMA TInitHolds == Init => TInv
BY DEF Init, TInv, TypeOK, Versions, Working, Answered

LEMMA TNextHolds == TInv /\ [Next]_vars => TInv'
<1>. SUFFICES ASSUME TInv, [Next]_vars PROVE TInv'
  OBVIOUS
<1>. USE DEF TInv, TypeOK
<1>0. val \in [Callers -> Values]
  BY DEF Values
<1>1. ASSUME NEW c \in Callers, Lookup(c) PROVE TInv'
  <2>1. PICK cached \in CacheGet(entry) :
          IF cached = Missing THEN Goto(c, "acquire") /\ UNCHANGED <<val, newest>>
                              ELSE Answer(c, cached)
    BY <1>1 DEF Lookup
  <2>2. cached \in Values
    BY <2>1, CacheGetTyped DEF Values
  <2>3. floor' \in [Callers -> 0..MaxVersion]
    BY <1>1 DEF Lookup
  <2>4. /\ at' \in [Callers -> {"idle"} \cup Working \cup Answered]
        /\ at'[c] \notin {"compute", "storeEntry", "storeLastGood"}
        /\ \A d \in Callers \ {c} : at'[d] = at[d]
        /\ val' \in [Callers -> Values]
        /\ \A d \in Callers \ {c} : val'[d] = val[d]
        /\ newest' \in 0..MaxVersion
    <3>1. CASE cached = Missing
      <4>1. Goto(c, "acquire") /\ "acquire" \in Working
        BY <2>1, <3>1 DEF Working
      <4>. QED  BY <4>1, <2>1, <3>1, <1>0, GotoTyped
    <3>2. CASE cached # Missing
      BY <2>1, <2>2, <3>2, AnswerTyped
    <3>. QED  BY <3>1, <3>2
  <2>. QED  BY <1>1, <2>3, <2>4 DEF Lookup, Values, env, redisVars
<1>2. ASSUME NEW c \in Callers, Acquire(c) PROVE TInv'
  BY <1>2 DEF Acquire, Goto, env, Working
<1>3. ASSUME NEW c \in Callers, AcquireRaises(c) PROVE TInv'
  BY <1>3 DEF AcquireRaises, Goto, env, redisVars, Answered
<1>4. ASSUME NEW c \in Callers, GiveUp(c) PROVE TInv'
  BY <1>4 DEF GiveUp, Goto, env, redisVars, Working
<1>5. ASSUME NEW c \in Callers, Recheck(c) PROVE TInv'
  <2>1. PICK cached \in CacheGet(entry) :
          IF cached = Missing
            THEN /\ Goto(c, "compute")
                 /\ val' = [val EXCEPT ![c] = source]
                 /\ allowance' = allowance - 1
                 /\ UNCHANGED newest
            ELSE Leave(c, cached) /\ UNCHANGED allowance
    BY <1>5 DEF Recheck
  <2>2. cached \in Values
    BY <2>1, CacheGetTyped DEF Values
  <2>3. CASE cached = Missing
    <3>1. Goto(c, "compute") /\ "compute" \in Working
      BY <2>1, <2>3 DEF Working
    <3>2. /\ at' \in [Callers -> {"idle"} \cup Working \cup Answered]
          /\ \A d \in Callers \ {c} : at'[d] = at[d]
      BY <3>1, GotoTyped
    <3>3. val' \in [Callers -> Values] /\ val'[c] \in Versions
          /\ \A d \in Callers \ {c} : val'[d] = val[d]
      BY <2>1, <2>3, <1>0 DEF Values
    <3>4. allowance' \in Int /\ newest' = newest
      BY <2>1, <2>3
    <3>. QED  BY <1>5, <3>2, <3>3, <3>4 DEF Recheck, Values, env, redisVars
  <2>4. CASE cached # Missing
    <3>1. Leave(c, cached) /\ allowance' = allowance
      BY <2>1, <2>4
    <3>. QED  BY <1>5, <3>1, <2>2, LeaveTyped DEF Recheck, Values, env, redisVars
  <2>. QED  BY <2>3, <2>4
<1>6. ASSUME NEW c \in Callers, ComputeSucceeds(c) PROVE TInv'
  BY <1>6 DEF ComputeSucceeds, Goto, env, redisVars, Working
<1>7. ASSUME NEW c \in Callers, ComputeFails(c) PROVE TInv'
  <2>1. CASE handRolled
    <3>1. LeaveRaising(c, "failed") /\ "failed" \in Answered
      BY <1>7, <2>1 DEF ComputeFails, Answered
    <3>. QED  BY <1>7, <3>1, LeaveRaisingTyped DEF ComputeFails, Values, env, redisVars
  <2>2. CASE ~handRolled
    BY <1>7, <2>2 DEF ComputeFails, Goto, env, redisVars, Working
  <2>. QED  BY <2>1, <2>2
<1>8. ASSUME NEW c \in Callers, ComputeNotFound(c) PROVE TInv'
  BY <1>8 DEF ComputeNotFound, Goto, env, redisVars, Working
<1>9. ASSUME NEW c \in Callers, StoreNotFound(c) PROVE TInv'
  <2>1. LeaveRaising(c, "failed") /\ "failed" \in Answered
    BY <1>9 DEF StoreNotFound, Answered
  <2>. QED  BY <1>9, <2>1, LeaveRaisingTyped DEF StoreNotFound, Values, env
<1>10. ASSUME NEW c \in Callers, Fallback(c) PROVE TInv'
  <2>1. PICK copy \in CacheGet(lastGood) :
          IF copy = Missing THEN LeaveRaising(c, "failed") ELSE Leave(c, copy)
    BY <1>10 DEF Fallback
  <2>2. copy \in Values /\ "failed" \in Answered
    BY <2>1, CacheGetTyped DEF Values, Answered
  <2>3. CASE copy = Missing
    <3>1. LeaveRaising(c, "failed")
      BY <2>1, <2>3
    <3>. QED  BY <1>10, <2>2, <3>1, LeaveRaisingTyped DEF Fallback, Values, env, redisVars
  <2>4. CASE copy # Missing
    <3>1. Leave(c, copy)
      BY <2>1, <2>4
    <3>. QED  BY <1>10, <2>2, <3>1, LeaveTyped DEF Fallback, Values, env, redisVars
  <2>. QED  BY <2>3, <2>4
<1>11. ASSUME NEW c \in Callers, StoreEntry(c) PROVE TInv'
  <2>1. CASE handRolled
    <3>1. Leave(c, val[c]) /\ val[c] \in Values
      BY <1>11, <2>1 DEF StoreEntry, Values
    <3>. QED  BY <1>11, <3>1, LeaveTyped DEF StoreEntry, Values, env
  <2>2. CASE ~handRolled
    BY <1>11, <2>2 DEF StoreEntry, Goto, env, Working
  <2>. QED  BY <2>1, <2>2
<1>12. ASSUME NEW c \in Callers, StoreLastGood(c) PROVE TInv'
  <2>1. Leave(c, val[c]) /\ val[c] \in Values
    BY <1>12 DEF StoreLastGood, Values
  <2>. QED  BY <1>12, <2>1, LeaveTyped DEF StoreLastGood, Values, env
<1>13. ASSUME NEW c \in Callers, StoreRaises(c) PROVE TInv'
  <2>1. LeaveRaising(c, "redisError") /\ "redisError" \in Answered
    BY <1>13 DEF StoreRaises, Answered
  <2>2. allowance' \in Int
    BY <1>13 DEF StoreRaises
  <2>. QED  BY <1>13, <2>1, <2>2, LeaveRaisingTyped DEF StoreRaises, Values, env, redisVars
<1>14. ASSUME NEW c \in Callers, Release(c) PROVE TInv'
  <2>1. /\ at' \in [Callers -> {"idle"} \cup Working \cup Answered]
        /\ at'[c] \notin {"compute", "storeEntry", "storeLastGood"}
        /\ \A d \in Callers \ {c} : at'[d] = at[d]
        /\ val' \in [Callers -> Values]
        /\ \A d \in Callers \ {c} : val'[d] = val[d]
        /\ newest' \in 0..MaxVersion
    <3>1. CASE at[c] = "release"
      <4>1. Answer(c, val[c]) /\ val[c] \in Values
        BY <1>14, <1>0, <3>1 DEF Release
      <4>. QED  BY <4>1, AnswerTyped
    <3>2. CASE at[c] # "release"
      <4>1. Goto(c, "failed") /\ "failed" \in Answered
        BY <1>14, <3>2 DEF Release, Answered
      <4>2. val' = val /\ newest' = newest
        BY <1>14, <3>2 DEF Release
      <4>. QED  BY <4>1, <4>2, <1>0, GotoTyped
    <3>. QED  BY <3>1, <3>2
  <2>2. lock' \in {lock, Free}
    BY <1>14 DEF Release
  <2>. QED  BY <1>14, <2>1, <2>2 DEF Release, Values, env
<1>15. ASSUME NEW c \in Callers, ReleaseRaises(c) PROVE TInv'
  BY <1>15 DEF ReleaseRaises, Goto, env, redisVars, Answered
<1>16. ASSUME NEW c \in Callers, Crash(c) PROVE TInv'
  BY <1>16 DEF Crash, Goto, env, redisVars, Answered
<1>17. CASE LockExpires
  BY <1>17 DEF LockExpires, env, callVars
<1>18. CASE EntryExpires
  BY <1>18 DEF EntryExpires, env, callVars
<1>19. CASE LastGoodExpires
  BY <1>19 DEF LastGoodExpires, env, callVars
<1>20. CASE SourceChanges
  <2>1. source' \in Versions
    BY <1>20 DEF SourceChanges, Versions
  <2>. QED  BY <1>20, <2>1 DEF SourceChanges, env, redisVars, callVars
<1>21. CASE Invalidate
  <2>1. newest' \in 0..MaxVersion
    BY <1>21 DEF Invalidate, Versions
  <2>. QED  BY <1>21, <2>1 DEF Invalidate, env, callVars
<1>22. CASE UNCHANGED vars
  BY <1>22 DEF vars, env, redisVars, callVars
<1>. QED
  BY <1>1, <1>2, <1>3, <1>4, <1>5, <1>6, <1>7, <1>8, <1>9, <1>10, <1>11, <1>12, <1>13,
     <1>14, <1>15, <1>16, <1>17, <1>18, <1>19, <1>20, <1>21, <1>22, Zenon DEF Next, Step

\* Every variable keeps its type.
THEOREM TypeCorrect == Spec => []TypeOK
<1>1. Init => TInv
  BY TInitHolds
<1>2. TInv /\ [Next]_vars => TInv'
  BY TNextHolds
<1>3. TInv => TypeOK
  BY DEF TInv
<1>. QED  BY <1>1, <1>2, <1>3, PTL DEF Spec
------------------------------------------------------------------------------
\* Between acquiring the lock and releasing it.
Inside == {"recheck", "compute", "fallback", "storeNotFound", "storeEntry",
           "storeLastGood", "release", "releaseFailed"}
Unstored == {"compute", "storeNotFound", "storeEntry"}

Calm == {"lockOutlives", "redisAnswers", "neverInvalidated"} \subseteq assumed

\* Only the lock's owner is past it, computing means that the key is missing,
\* and one computation is left for a missing key nobody computes.
SInv ==
  Calm =>
    /\ \A c \in Callers : at[c] \in Inside => lock = c /\ holds[c]
    /\ \A c \in Callers : at[c] \in Unstored => entry = Missing
    /\ allowance = IF entry = Missing /\ \A c \in Callers : at[c] \notin Unstored THEN 1 ELSE 0

LEMMA CalmMeans == Calm => LockOutlives /\ ~RedisMayFail /\ ~MayInvalidate
BY DEF Calm, LockOutlives, RedisMayFail, MayInvalidate

LEMMA InsideWorks == Inside \subseteq Working /\ Unstored \subseteq Inside
                     /\ Inside \cap Answered = {} /\ "idle" \notin Inside
                     /\ "acquire" \notin Inside
BY DEF Inside, Unstored, Working, Answered

\* Where a call may go that holds nothing yet.
LEMMA EntersOnlyWithLock ==
  ASSUME TInv, SInv, Calm, NEW c \in Callers, at[c] \notin Inside, at'[c] \notin Inside,
         \A d \in Callers \ {c} : at'[d] = at[d],
         UNCHANGED <<lock, holds, entry, allowance>>, assumed' = assumed
  PROVE  SInv'
BY InsideWorks DEF SInv, Calm

LEMMA SInitHolds == Init => SInv
BY DEF Init, SInv, Inside, Unstored

LEMMA SNextHolds == TInv /\ SInv /\ [Next]_vars => SInv'
<1>. SUFFICES ASSUME TInv, SInv, [Next]_vars, Calm' PROVE SInv'
  BY DEF SInv
<1>0. assumed' = assumed /\ Calm
  BY Zenon DEF Calm, Next, Step, vars, env, Lookup, Acquire, AcquireRaises, GiveUp, Recheck,
     ComputeSucceeds, ComputeFails, ComputeNotFound, StoreNotFound, Fallback, StoreEntry,
     StoreLastGood, StoreRaises, Release, ReleaseRaises, Crash, LockExpires, EntryExpires,
     LastGoodExpires, SourceChanges, Invalidate
<1>a. LockOutlives /\ ~RedisMayFail /\ ~MayInvalidate
  BY <1>0, CalmMeans
<1>b. /\ \A c \in Callers : at[c] \in Inside => lock = c /\ holds[c]
      /\ \A c \in Callers : at[c] \in Unstored => entry = Missing
      /\ allowance = IF entry = Missing /\ \A c \in Callers : at[c] \notin Unstored THEN 1 ELSE 0
  BY <1>0 DEF SInv
<1>t. /\ at \in [Callers -> {"idle"} \cup Working \cup Answered]
      /\ val \in [Callers -> Values] /\ holds \in [Callers -> BOOLEAN]
      /\ entry \in Values /\ lastGood \in Versions \cup {Missing}
  BY DEF TInv, TypeOK, Values
<1>1. ASSUME NEW c \in Callers, Lookup(c) PROVE SInv'
  <2>1. at'[c] \notin Inside /\ \A d \in Callers \ {c} : at'[d] = at[d]
    BY <1>1, <1>t DEF Lookup, Goto, Answer, Inside
  <2>2. at[c] \notin Inside /\ UNCHANGED <<lock, holds, entry, allowance>>
    BY <1>1, InsideWorks DEF Lookup, redisVars
  <2>. QED  BY <1>0, <2>1, <2>2, EntersOnlyWithLock
<1>2. ASSUME NEW c \in Callers, Acquire(c) PROVE SInv'
  <2>1. \A d \in Callers : at[d] \notin Inside
    BY <1>2, <1>b DEF Acquire
  <2>2. at' = [at EXCEPT ![c] = "recheck"] /\ lock' = c /\ holds' = [holds EXCEPT ![c] = TRUE]
        /\ entry' = entry /\ allowance' = allowance
    BY <1>2 DEF Acquire, Goto
  <2>. QED  BY <1>b, <1>t, <2>1, <2>2, InsideWorks DEF SInv, Unstored
<1>3. ASSUME NEW c \in Callers, AcquireRaises(c) PROVE SInv'
  BY <1>3, <1>a DEF AcquireRaises
<1>4. ASSUME NEW c \in Callers, GiveUp(c) PROVE SInv'
  BY <1>4, <1>a DEF GiveUp
<1>5. ASSUME NEW c \in Callers, Recheck(c) PROVE SInv'
  <2>1. at[c] \in Inside /\ at[c] \notin Unstored /\ lock = c /\ holds[c]
        /\ \A d \in Callers \ {c} : at[d] \notin Inside
    BY <1>5, <1>b DEF Recheck, Inside, Unstored
  <2>2. UNCHANGED <<entry, lock, holds>>
    BY <1>5 DEF Recheck, redisVars
  <2>3. CASE entry = Missing
    <3>1. at' = [at EXCEPT ![c] = "compute"] /\ allowance' = allowance - 1
      BY <1>5, <1>a, <2>3 DEF Recheck, CacheGet, Goto
    <3>2. "compute" \in Unstored /\ "compute" \in Inside
      BY DEF Unstored, Inside
    <3>3. allowance = 1
      BY <1>b, <2>1, <2>3, InsideWorks
    <3>4. at'[c] \in Unstored /\ at'[c] \in Inside /\ \A d \in Callers \ {c} : at'[d] = at[d]
      BY <1>t, <3>1, <3>2
    <3>. QED  BY <2>1, <2>2, <2>3, <3>1, <3>3, <3>4, InsideWorks DEF SInv
  <2>4. CASE entry # Missing
    <3>1. Leave(c, entry) /\ allowance' = allowance
      BY <1>5, <1>a, <2>4 DEF Recheck, CacheGet
    <3>2. at' = [at EXCEPT ![c] = "release"]
      BY <2>1, <3>1 DEF Leave, Goto
    <3>3. at'[c] \in Inside /\ at'[c] \notin Unstored /\ \A d \in Callers \ {c} : at'[d] = at[d]
      BY <1>t, <3>2 DEF Inside, Unstored
    <3>. QED  BY <1>b, <2>1, <2>2, <3>1, <3>3, InsideWorks DEF SInv
  <2>. QED  BY <2>3, <2>4
<1>6. ASSUME NEW c \in Callers, ComputeSucceeds(c) PROVE SInv'
  <2>1. at' = [at EXCEPT ![c] = "storeEntry"] /\ at[c] = "compute"
        /\ UNCHANGED <<entry, lock, holds, allowance>>
    BY <1>6 DEF ComputeSucceeds, Goto, redisVars
  <2>. QED  BY <1>b, <1>t, <2>1 DEF SInv, Inside, Unstored
<1>7. ASSUME NEW c \in Callers, ComputeFails(c) PROVE SInv'
  <2>1. at[c] \in Unstored /\ at[c] \in Inside
    BY <1>7 DEF ComputeFails, Unstored, Inside
  <2>2. lock = c /\ holds[c] /\ entry = Missing /\ allowance = 0
        /\ \A d \in Callers \ {c} : at[d] \notin Inside
    BY <1>b, <2>1
  <2>3. at' = [at EXCEPT ![c] = "releaseFailed"] \/ at' = [at EXCEPT ![c] = "fallback"]
    BY <1>7, <2>2 DEF ComputeFails, LeaveRaising, Goto
  <2>4. at'[c] \in Inside /\ at'[c] \notin Unstored /\ \A d \in Callers \ {c} : at'[d] = at[d]
    BY <1>t, <2>3 DEF Inside, Unstored
  <2>5. UNCHANGED <<entry, lock, holds>> /\ allowance' = allowance + 1
    BY <1>7 DEF ComputeFails, redisVars
  <2>. QED  BY <2>2, <2>4, <2>5, InsideWorks DEF SInv
<1>8. ASSUME NEW c \in Callers, ComputeNotFound(c) PROVE SInv'
  <2>1. at' = [at EXCEPT ![c] = "storeNotFound"] /\ at[c] = "compute"
        /\ UNCHANGED <<entry, lock, holds, allowance>>
    BY <1>8 DEF ComputeNotFound, Goto, redisVars
  <2>. QED  BY <1>b, <1>t, <2>1 DEF SInv, Inside, Unstored
<1>9. ASSUME NEW c \in Callers, StoreNotFound(c) PROVE SInv'
  <2>1. at[c] \in Unstored /\ at[c] \in Inside
    BY <1>9 DEF StoreNotFound, Unstored, Inside
  <2>2. lock = c /\ holds[c] /\ allowance = 0
        /\ \A d \in Callers \ {c} : at[d] \notin Inside
    BY <1>b, <2>1
  <2>3. at' = [at EXCEPT ![c] = "releaseFailed"]
    BY <1>9, <2>2 DEF StoreNotFound, LeaveRaising, Goto
  <2>4. at'[c] \in Inside /\ at'[c] \notin Unstored /\ \A d \in Callers \ {c} : at'[d] = at[d]
    BY <1>t, <2>3 DEF Inside, Unstored
  <2>5. UNCHANGED <<lock, holds, allowance>> /\ entry' = NotFound
    BY <1>9 DEF StoreNotFound
  <2>. QED  BY <2>2, <2>4, <2>5, InsideWorks, ValuesApart DEF SInv
<1>10. ASSUME NEW c \in Callers, Fallback(c) PROVE SInv'
  <2>1. at[c] \in Inside /\ at[c] \notin Unstored
    BY <1>10 DEF Fallback, Unstored, Inside
  <2>2. lock = c /\ holds[c] /\ \A d \in Callers \ {c} : at[d] \notin Inside
    BY <1>b, <2>1
  <2>3. at' = [at EXCEPT ![c] = "releaseFailed"] \/ at' = [at EXCEPT ![c] = "release"]
    BY <1>10, <2>2 DEF Fallback, LeaveRaising, Leave, Goto
  <2>4. at'[c] \in Inside /\ at'[c] \notin Unstored /\ \A d \in Callers \ {c} : at'[d] = at[d]
    BY <1>t, <2>3 DEF Inside, Unstored
  <2>5. UNCHANGED <<entry, lock, holds, allowance>>
    BY <1>10 DEF Fallback, redisVars
  <2>. QED  BY <1>b, <2>1, <2>2, <2>4, <2>5, InsideWorks DEF SInv
<1>11. ASSUME NEW c \in Callers, StoreEntry(c) PROVE SInv'
  <2>1. at[c] \in Unstored /\ at[c] \in Inside
    BY <1>11 DEF StoreEntry, Unstored, Inside
  <2>2. lock = c /\ holds[c] /\ allowance = 0
        /\ \A d \in Callers \ {c} : at[d] \notin Inside
    BY <1>b, <2>1
  <2>3. at' = [at EXCEPT ![c] = "storeLastGood"] \/ at' = [at EXCEPT ![c] = "release"]
    BY <1>11, <2>2 DEF StoreEntry, Leave, Goto
  <2>4. at'[c] \in Inside /\ at'[c] \notin Unstored /\ \A d \in Callers \ {c} : at'[d] = at[d]
    BY <1>t, <2>3 DEF Inside, Unstored
  <2>5. UNCHANGED <<lock, holds, allowance>> /\ entry' = val[c] /\ val[c] \in Versions
    BY <1>11 DEF StoreEntry, TInv
  <2>. QED  BY <2>2, <2>4, <2>5, InsideWorks, ValuesApart DEF SInv
<1>12. ASSUME NEW c \in Callers, StoreLastGood(c) PROVE SInv'
  <2>1. at[c] \in Inside /\ at[c] \notin Unstored
    BY <1>12 DEF StoreLastGood, Unstored, Inside
  <2>2. lock = c /\ holds[c] /\ \A d \in Callers \ {c} : at[d] \notin Inside
    BY <1>b, <2>1
  <2>3. at' = [at EXCEPT ![c] = "release"]
    BY <1>12, <2>2 DEF StoreLastGood, Leave, Goto
  <2>4. at'[c] \in Inside /\ at'[c] \notin Unstored /\ \A d \in Callers \ {c} : at'[d] = at[d]
    BY <1>t, <2>3 DEF Inside, Unstored
  <2>5. UNCHANGED <<entry, lock, holds, allowance>>
    BY <1>12 DEF StoreLastGood
  <2>. QED  BY <1>b, <2>1, <2>2, <2>4, <2>5, InsideWorks DEF SInv
<1>13. ASSUME NEW c \in Callers, StoreRaises(c) PROVE SInv'
  BY <1>13, <1>a DEF StoreRaises
<1>14. ASSUME NEW c \in Callers, Release(c) PROVE SInv'
  <2>1. at[c] \in Inside /\ at[c] \notin Unstored
    BY <1>14 DEF Release, Unstored, Inside
  <2>2. lock = c /\ holds[c] /\ \A d \in Callers \ {c} : at[d] \notin Inside
    BY <1>b, <2>1
  <2>3. at'[c] \in Answered /\ \A d \in Callers \ {c} : at'[d] = at[d]
    BY <1>14, <1>t DEF Release, Answer, Goto, Answered
  <2>4. UNCHANGED <<entry, holds, allowance>>
    BY <1>14 DEF Release
  <2>. QED  BY <1>b, <2>1, <2>2, <2>3, <2>4, InsideWorks DEF SInv
<1>15. ASSUME NEW c \in Callers, ReleaseRaises(c) PROVE SInv'
  BY <1>15, <1>a DEF ReleaseRaises
<1>16. ASSUME NEW c \in Callers, Crash(c) PROVE SInv'
  <2>1. at'[c] = "crashed" /\ \A d \in Callers \ {c} : at'[d] = at[d]
    BY <1>16, <1>t DEF Crash, Goto
  <2>2. UNCHANGED <<entry, lock, holds>>
    BY <1>16 DEF Crash, redisVars
  <2>3. at'[c] \notin Inside
    BY <2>1 DEF Inside
  <2>4. CASE at[c] \in Unstored
    <3>1. entry = Missing /\ allowance = 0 /\ \A d \in Callers \ {c} : at[d] \notin Inside
      BY <1>b, <2>4, InsideWorks
    <3>2. allowance' = allowance + 1
      <4>1. c \in Computing \/ at[c] = "storeNotFound"
        BY <2>4 DEF Unstored, Computing
      <4>. QED  BY <1>16, <2>4 DEF Crash, Computing, Unstored
    <3>. QED  BY <2>1, <2>2, <2>3, <3>1, <3>2, InsideWorks DEF SInv
  <2>5. CASE at[c] \notin Unstored
    <3>1. allowance' = allowance
      BY <1>16, <2>5 DEF Crash, Computing, Unstored
    <3>. QED  BY <1>b, <2>1, <2>2, <2>3, <2>5, <3>1, InsideWorks DEF SInv
  <2>. QED  BY <2>4, <2>5
<1>17. CASE LockExpires
  <2>1. \A d \in Callers : at[d] \notin Inside
    BY <1>17, <1>a, <1>b, InsideWorks DEF LockExpires
  <2>2. UNCHANGED <<entry, at, holds, allowance>>
    BY <1>17 DEF LockExpires, callVars
  <2>. QED  BY <1>b, <2>1, <2>2, InsideWorks DEF SInv
<1>18. CASE EntryExpires
  <2>1. \A d \in Callers : at[d] \notin Unstored
    BY <1>18, <1>b DEF EntryExpires
  <2>2. allowance = 0 /\ allowance' = allowance + 1
    BY <1>18, <1>b DEF EntryExpires
  <2>. QED  BY <1>18, <1>b, <2>1, <2>2 DEF EntryExpires, callVars, SInv
<1>19. CASE LastGoodExpires
  BY <1>19, <1>b DEF LastGoodExpires, callVars, SInv
<1>20. CASE SourceChanges
  BY <1>20, <1>b DEF SourceChanges, redisVars, callVars, SInv
<1>21. CASE Invalidate
  BY <1>21, <1>a DEF Invalidate
<1>22. CASE UNCHANGED vars
  BY <1>22, <1>b DEF vars, redisVars, callVars, SInv
<1>. QED
  BY <1>1, <1>2, <1>3, <1>4, <1>5, <1>6, <1>7, <1>8, <1>9, <1>10, <1>11, <1>12, <1>13,
     <1>14, <1>15, <1>16, <1>17, <1>18, <1>19, <1>20, <1>21, <1>22, Zenon DEF Next, Step

\* A missing key is computed once per time it went missing.
THEOREM StampedeHolds == Spec => []StampedeComputesOnce
<1>1. Init => TInv /\ SInv
  BY TInitHolds, SInitHolds
<1>2. TInv /\ SInv /\ [Next]_vars => TInv' /\ SInv'
  BY TNextHolds, SNextHolds
<1>3. SInv => StampedeComputesOnce
  BY DEF SInv, StampedeComputesOnce, Calm
<1>. QED  BY <1>1, <1>2, <1>3, PTL DEF Spec

------------------------------------------------------------------------------
\* With all the assumptions: what may still be answered is not older than what
\* was answered, the copy follows the entry, and neither is ahead of the source.
KeysFollow ==
  /\ newest =< source
  /\ entry \in Versions => newest =< entry /\ entry =< source
  /\ lastGood \in Versions => lastGood =< source
  /\ lastGood \in Versions /\ (\A c \in Callers : at[c] # "storeLastGood") =>
       newest =< lastGood /\ (entry \in Versions => entry =< lastGood)
  /\ handRolled => lastGood = Missing

CallFollows(c) ==
  /\ at[c] \in {"fallback", "storeLastGood"} => ~handRolled
  /\ at[c] = "fallback" => entry = Missing
  /\ at[c] \in {"compute", "storeEntry", "storeLastGood", "release"} /\ val[c] \in Versions =>
       newest =< val[c] /\ val[c] =< source
  /\ at[c] \in {"storeLastGood", "release"} => entry \in {Missing, val[c]}
  /\ at[c] = "release" => val[c] # Missing
  /\ at[c] = "release" /\ lastGood \in Versions /\ val[c] \in Versions => val[c] =< lastGood
  /\ floor[c] =< newest
  /\ at[c] = "served" => val[c] \in Versions /\ floor[c] =< val[c]

RInv == assumed = Assumptions => KeysFollow /\ \A c \in Callers : CallFollows(c)

LEMMA WholeMeans ==
  assumed = Assumptions => Calm /\ LockOutlives /\ StoresWhole /\ ~RedisMayFail /\ ~MayInvalidate
BY DEF Assumptions, Calm, LockOutlives, StoresWhole, RedisMayFail, MayInvalidate

\* A call that is not past the lock needs only its own answer to be fresh.
LEMMA OutsideFollows ==
  ASSUME NEW c \in Callers, at[c] \notin Inside, floor[c] =< newest,
         at[c] = "served" => val[c] \in Versions /\ floor[c] =< val[c]
  PROVE  CallFollows(c)
BY DEF CallFollows, Inside

LEMMA RInitHolds == Init => RInv
BY DEF Init, RInv, KeysFollow, CallFollows, Versions

LEMMA RNextHolds == TInv /\ SInv /\ RInv /\ [Next]_vars => RInv'
<1>. SUFFICES ASSUME TInv, SInv, RInv, [Next]_vars, assumed' = Assumptions
              PROVE  (KeysFollow /\ \A c \in Callers : CallFollows(c))'
  BY DEF RInv
<1>0. assumed' = assumed
  BY Zenon DEF Next, Step, vars, env, Lookup, Acquire, AcquireRaises, GiveUp, Recheck,
     ComputeSucceeds, ComputeFails, ComputeNotFound, StoreNotFound, Fallback, StoreEntry,
     StoreLastGood, StoreRaises, Release, ReleaseRaises, Crash, LockExpires, EntryExpires,
     LastGoodExpires, SourceChanges, Invalidate
<1>a. Calm /\ LockOutlives /\ StoresWhole /\ ~RedisMayFail /\ ~MayInvalidate
  BY <1>0, WholeMeans
<1>b. /\ \A c \in Callers : at[c] \in Inside => lock = c /\ holds[c]
      /\ \A c \in Callers : at[c] \in Unstored => entry = Missing
  BY <1>a DEF SInv
<1>k. KeysFollow /\ \A c \in Callers : CallFollows(c)
  BY <1>0 DEF RInv
<1>t. /\ at \in [Callers -> {"idle"} \cup Working \cup Answered]
      /\ val \in [Callers -> Values] /\ holds \in [Callers -> BOOLEAN]
      /\ entry \in Values /\ lastGood \in Versions \cup {Missing}
      /\ source \in Versions /\ newest \in 0..MaxVersion
      /\ floor \in [Callers -> 0..MaxVersion]
  BY DEF TInv, TypeOK, Values
<1>1. ASSUME NEW c \in Callers, Lookup(c)
      PROVE  (KeysFollow /\ \A d \in Callers : CallFollows(d))'
  <2>1. /\ UNCHANGED <<entry, lastGood, source, handRolled>>
        /\ floor' = [floor EXCEPT ![c] = newest] /\ at[c] = "idle"
    BY <1>1 DEF Lookup, redisVars, env
  <2>2. CASE entry = Missing
    <3>1. at' = [at EXCEPT ![c] = "acquire"] /\ val' = val /\ newest' = newest
      BY <1>1, <1>a, <2>2 DEF Lookup, CacheGet, Goto
    <3>. QED  BY <1>k, <1>t, <2>1, <3>1 DEF KeysFollow, CallFollows, Versions
  <2>3. CASE entry = NotFound
    <3>1. at' = [at EXCEPT ![c] = "failed"] /\ val' = [val EXCEPT ![c] = NotFound] /\ newest' = newest
      BY <1>1, <1>a, <2>3, ValuesApart DEF Lookup, CacheGet, Goto, Answer
    <3>. QED  BY <1>k, <1>t, <2>1, <3>1 DEF KeysFollow, CallFollows, Versions
  <2>4. CASE entry \in Versions
    <3>1. Answer(c, entry)
      BY <1>1, <1>a, <2>4, ValuesApart DEF Lookup, CacheGet
    <3>2. at' = [at EXCEPT ![c] = "served"] /\ val' = [val EXCEPT ![c] = entry]
      BY <2>4, <3>1, ValuesApart DEF Answer, Goto
    <3>3. newest =< entry /\ entry =< source /\ newest' = entry
      BY <1>k, <1>t, <2>4, <3>1 DEF KeysFollow, Answer, Versions
    <3>4. \A d \in Callers : at[d] \notin Unstored
      BY <1>b, <2>4, ValuesApart
    <3>5. KeysFollow'
      <4>1. \A d \in Callers \ {c} : at'[d] = at[d]
        BY <1>t, <3>2
      <4>2. (\A d \in Callers : at'[d] # "storeLastGood") => \A d \in Callers : at[d] # "storeLastGood"
        BY <2>1, <4>1
      <4>. QED  BY <1>k, <2>1, <2>4, <3>3, <4>2 DEF KeysFollow, Versions
    <3>6. ASSUME NEW d \in Callers PROVE CallFollows(d)'
      <4>1. CASE d = c
        BY <1>t, <2>1, <2>4, <3>2, <3>3, <4>1 DEF CallFollows, Versions
      <4>2. CASE d # c
        <5>1. at'[d] = at[d] /\ val'[d] = val[d] /\ floor'[d] = floor[d]
          BY <1>t, <2>1, <3>2, <4>2
        <5>2. floor[d] \in 0..MaxVersion /\ val[d] \in Values
          BY <1>t
        <5>. QED  BY <1>k, <1>t, <2>1, <2>4, <3>3, <3>4, <5>1, <5>2, ValuesApart
                  DEF CallFollows, Versions, Unstored
      <4>. QED  BY <4>1, <4>2
    <3>. QED  BY <3>5, <3>6
  <2>. QED  BY <1>t, <2>2, <2>3, <2>4 DEF Values
<1>2. ASSUME NEW c \in Callers, Acquire(c)
      PROVE  (KeysFollow /\ \A d \in Callers : CallFollows(d))'
  <2>1. at' = [at EXCEPT ![c] = "recheck"] /\ at[c] = "acquire"
        /\ UNCHANGED <<entry, lastGood, source, val, newest, floor, handRolled>>
    BY <1>2 DEF Acquire, Goto, env
  <2>. QED  BY <1>k, <1>t, <2>1 DEF KeysFollow, CallFollows
<1>3. ASSUME NEW c \in Callers, AcquireRaises(c) PROVE FALSE
  BY <1>3, <1>a DEF AcquireRaises
<1>4. ASSUME NEW c \in Callers, GiveUp(c) PROVE FALSE
  BY <1>4, <1>a DEF GiveUp
<1>5. ASSUME NEW c \in Callers, Recheck(c)
      PROVE  (KeysFollow /\ \A d \in Callers : CallFollows(d))'
  <2>1. lock = c /\ holds[c] /\ at[c] = "recheck" /\ \A d \in Callers \ {c} : at[d] \notin Inside
    BY <1>5, <1>b DEF Recheck, Inside
  <2>2. UNCHANGED <<entry, lastGood, source, floor, handRolled>>
    BY <1>5 DEF Recheck, redisVars, env
  <2>3. \A d \in Callers : at[d] # "storeLastGood"
    BY <2>1 DEF Inside
  <2>4. CASE entry = Missing
    <3>1. at' = [at EXCEPT ![c] = "compute"] /\ val' = [val EXCEPT ![c] = source] /\ newest' = newest
      BY <1>5, <1>a, <2>4 DEF Recheck, CacheGet, Goto
    <3>2. newest =< source /\ source =< source
      BY <1>k, <1>t DEF KeysFollow, Versions
    <3>. QED  BY <1>k, <1>t, <2>2, <2>3, <2>4, <3>1, <3>2 DEF KeysFollow, CallFollows
  <2>5. CASE entry # Missing
    <3>1. Leave(c, entry)
      BY <1>5, <1>a, <2>5 DEF Recheck, CacheGet
    <3>2. at' = [at EXCEPT ![c] = "release"] /\ val' = [val EXCEPT ![c] = entry] /\ newest' = newest
      BY <2>1, <3>1 DEF Leave, Goto
    <3>. QED  BY <1>k, <1>t, <2>2, <2>3, <2>5, <3>2 DEF KeysFollow, CallFollows
  <2>. QED  BY <2>4, <2>5
<1>6. ASSUME NEW c \in Callers, ComputeSucceeds(c)
      PROVE  (KeysFollow /\ \A d \in Callers : CallFollows(d))'
  <2>1. at' = [at EXCEPT ![c] = "storeEntry"] /\ at[c] = "compute"
        /\ UNCHANGED <<entry, lastGood, source, val, newest, floor, handRolled>>
    BY <1>6 DEF ComputeSucceeds, Goto, redisVars, env
  <2>. QED  BY <1>k, <1>t, <2>1 DEF KeysFollow, CallFollows
<1>7. ASSUME NEW c \in Callers, ComputeFails(c)
      PROVE  (KeysFollow /\ \A d \in Callers : CallFollows(d))'
  <2>1. holds[c] /\ at[c] = "compute" /\ entry = Missing
    BY <1>7, <1>b DEF ComputeFails, Inside, Unstored
  <2>2. UNCHANGED <<entry, lastGood, source, floor, handRolled>>
    BY <1>7 DEF ComputeFails, redisVars, env
  <2>3. CASE handRolled
    <3>1. at' = [at EXCEPT ![c] = "releaseFailed"] /\ val' = [val EXCEPT ![c] = Missing] /\ newest' = newest
      BY <1>7, <2>1, <2>3 DEF ComputeFails, LeaveRaising, Goto
    <3>. QED  BY <1>k, <1>t, <2>1, <2>2, <3>1 DEF KeysFollow, CallFollows
  <2>4. CASE ~handRolled
    <3>1. at' = [at EXCEPT ![c] = "fallback"] /\ val' = val /\ newest' = newest
      BY <1>7, <2>4 DEF ComputeFails, Goto
    <3>. QED  BY <1>k, <1>t, <2>1, <2>2, <2>4, <3>1 DEF KeysFollow, CallFollows
  <2>. QED  BY <2>3, <2>4
<1>8. ASSUME NEW c \in Callers, ComputeNotFound(c)
      PROVE  (KeysFollow /\ \A d \in Callers : CallFollows(d))'
  <2>1. at' = [at EXCEPT ![c] = "storeNotFound"] /\ at[c] = "compute"
        /\ UNCHANGED <<entry, lastGood, source, val, newest, floor, handRolled>>
    BY <1>8 DEF ComputeNotFound, Goto, redisVars, env
  <2>. QED  BY <1>k, <1>t, <2>1 DEF KeysFollow, CallFollows
<1>9. ASSUME NEW c \in Callers, StoreNotFound(c)
      PROVE  (KeysFollow /\ \A d \in Callers : CallFollows(d))'
  <2>1. holds[c] /\ at[c] = "storeNotFound" /\ \A d \in Callers \ {c} : at[d] \notin Inside
    BY <1>9, <1>b DEF StoreNotFound, Inside
  <2>2. UNCHANGED <<lastGood, source, floor, handRolled>> /\ entry' = NotFound
    BY <1>9 DEF StoreNotFound, env
  <2>3. at' = [at EXCEPT ![c] = "releaseFailed"] /\ val' = [val EXCEPT ![c] = Missing] /\ newest' = newest
    BY <1>9, <2>1 DEF StoreNotFound, LeaveRaising, Goto
  <2>. QED  BY <1>k, <1>t, <2>1, <2>2, <2>3, ValuesApart DEF KeysFollow, CallFollows, Inside
<1>10. ASSUME NEW c \in Callers, Fallback(c)
       PROVE  (KeysFollow /\ \A d \in Callers : CallFollows(d))'
  <2>1. holds[c] /\ at[c] = "fallback" /\ \A d \in Callers \ {c} : at[d] \notin Inside
    BY <1>10, <1>b DEF Fallback, Inside
  <2>2. UNCHANGED <<entry, lastGood, source, floor, handRolled>> /\ entry = Missing
    BY <1>10, <1>k, <2>1 DEF Fallback, redisVars, env, CallFollows
  <2>3. \A d \in Callers : at[d] # "storeLastGood"
    BY <2>1 DEF Inside
  <2>4. CASE lastGood = Missing
    <3>1. at' = [at EXCEPT ![c] = "releaseFailed"] /\ val' = [val EXCEPT ![c] = Missing] /\ newest' = newest
      BY <1>10, <1>a, <2>1, <2>4 DEF Fallback, CacheGet, LeaveRaising, Goto
    <3>. QED  BY <1>k, <1>t, <2>1, <2>2, <2>4, <3>1 DEF KeysFollow, CallFollows
  <2>5. CASE lastGood # Missing
    <3>1. at' = [at EXCEPT ![c] = "release"] /\ val' = [val EXCEPT ![c] = lastGood] /\ newest' = newest
      BY <1>10, <1>a, <2>1, <2>5 DEF Fallback, CacheGet, Leave, Goto
    <3>2. lastGood \in Versions /\ newest =< lastGood /\ lastGood =< source
      BY <1>k, <1>t, <2>3, <2>5 DEF KeysFollow
    <3>. QED  BY <1>k, <1>t, <2>1, <2>2, <2>3, <2>5, <3>1, <3>2 DEF KeysFollow, CallFollows, Versions
  <2>. QED  BY <2>4, <2>5
<1>11. ASSUME NEW c \in Callers, StoreEntry(c)
       PROVE  (KeysFollow /\ \A d \in Callers : CallFollows(d))'
  <2>1. holds[c] /\ at[c] = "storeEntry" /\ \A d \in Callers \ {c} : at[d] \notin Inside
    BY <1>11, <1>b DEF StoreEntry, Inside
  <2>2. UNCHANGED <<lastGood, source, floor, handRolled>> /\ entry' = val[c]
    BY <1>11 DEF StoreEntry, env
  <2>3. val[c] \in Versions /\ newest =< val[c] /\ val[c] =< source
    BY <1>k, <2>1 DEF TInv, CallFollows
  <2>4. CASE handRolled
    <3>1. at' = [at EXCEPT ![c] = "release"] /\ val' = [val EXCEPT ![c] = val[c]] /\ newest' = newest
      BY <1>11, <2>1, <2>4 DEF StoreEntry, Leave, Goto
    <3>2. lastGood = Missing
      BY <1>k, <2>4 DEF KeysFollow
    <3>. QED  BY <1>k, <1>t, <2>1, <2>2, <2>3, <3>1, <3>2, ValuesApart DEF KeysFollow, CallFollows, Inside
  <2>5. CASE ~handRolled
    <3>1. at' = [at EXCEPT ![c] = "storeLastGood"] /\ val' = val /\ newest' = newest
      BY <1>11, <2>5 DEF StoreEntry, Goto
    <3>. QED  BY <1>k, <1>t, <2>1, <2>2, <2>3, <2>5, <3>1 DEF KeysFollow, CallFollows, Inside
  <2>. QED  BY <2>4, <2>5
<1>12. ASSUME NEW c \in Callers, StoreLastGood(c)
       PROVE  (KeysFollow /\ \A d \in Callers : CallFollows(d))'
  <2>1. holds[c] /\ at[c] = "storeLastGood" /\ \A d \in Callers \ {c} : at[d] \notin Inside
    BY <1>12, <1>b DEF StoreLastGood, Inside
  <2>2. UNCHANGED <<entry, source, floor, handRolled>> /\ lastGood' = val[c]
    BY <1>12 DEF StoreLastGood, env
  <2>3. val[c] \in Versions /\ newest =< val[c] /\ val[c] =< source /\ ~handRolled
        /\ entry \in {Missing, val[c]}
    BY <1>k, <2>1 DEF TInv, CallFollows
  <2>4. at' = [at EXCEPT ![c] = "release"] /\ val' = [val EXCEPT ![c] = val[c]] /\ newest' = newest
    BY <1>12, <2>1 DEF StoreLastGood, Leave, Goto
  <2>5. at'[c] = "release" /\ val'[c] = val[c]
        /\ \A d \in Callers \ {c} : at'[d] = at[d] /\ val'[d] = val[d]
    BY <1>t, <2>4
  <2>6. KeysFollow'
    BY <1>k, <2>2, <2>3, <2>4, ValuesApart DEF KeysFollow, Versions
  <2>7. ASSUME NEW d \in Callers PROVE CallFollows(d)'
    <3>1. CASE d = c
      BY <1>k, <2>2, <2>3, <2>4, <2>5, <3>1, ValuesApart DEF CallFollows, Versions
    <3>2. CASE d # c
      BY <1>k, <2>1, <2>2, <2>4, <2>5, <3>2 DEF CallFollows, Inside
    <3>. QED  BY <3>1, <3>2
  <2>. QED  BY <2>6, <2>7
<1>13. ASSUME NEW c \in Callers, StoreRaises(c) PROVE FALSE
  BY <1>13, <1>a DEF StoreRaises
<1>14. ASSUME NEW c \in Callers, Release(c)
       PROVE  (KeysFollow /\ \A d \in Callers : CallFollows(d))'
  <2>1. \A d \in Callers \ {c} : at[d] \notin Inside
    BY <1>14, <1>b DEF Release, Inside
  <2>2. UNCHANGED <<entry, lastGood, source, floor, handRolled>>
    BY <1>14 DEF Release, env
  <2>3. \A d \in Callers : at[d] # "storeLastGood"
    BY <1>14, <2>1 DEF Release, Inside
  <2>4. CASE at[c] = "releaseFailed" \/ val[c] = NotFound
    <3>1. at' = [at EXCEPT ![c] = "failed"] /\ newest' = newest
          /\ (val' = val \/ val' = [val EXCEPT ![c] = val[c]])
      BY <1>14, <2>4, ValuesApart DEF Release, Answer, Goto
    <3>2. val' = val
      BY <1>t, <3>1
    <3>. QED  BY <1>k, <1>t, <2>2, <2>3, <3>1, <3>2 DEF KeysFollow, CallFollows
  <2>5. CASE at[c] = "release" /\ val[c] # NotFound
    <3>1. val[c] \in Versions /\ newest =< val[c] /\ val[c] =< source
          /\ (lastGood \in Versions => val[c] =< lastGood) /\ entry \in {Missing, val[c]}
      BY <1>k, <1>t, <2>5 DEF CallFollows, Values
    <3>2. Answer(c, val[c])
      BY <1>14, <2>5 DEF Release
    <3>3. at' = [at EXCEPT ![c] = "served"] /\ val' = [val EXCEPT ![c] = val[c]]
      BY <2>5, <3>2 DEF Answer, Goto
    <3>4. newest' = val[c]
      BY <1>t, <3>1, <3>2 DEF Answer, Versions
    <3>5. at'[c] = "served" /\ val' = val /\ \A d \in Callers \ {c} : at'[d] = at[d]
      BY <1>t, <3>3
    <3>6. KeysFollow'
      <4>1. entry \in Versions => val[c] =< entry
        BY <3>1, ValuesApart DEF Versions
      <4>. QED  BY <1>k, <2>2, <2>3, <3>1, <3>4, <4>1 DEF KeysFollow
    <3>7. ASSUME NEW d \in Callers PROVE CallFollows(d)'
      <4>1. floor[d] =< newest /\ floor[d] \in 0..MaxVersion /\ floor'[d] = floor[d]
        BY <1>k, <1>t, <2>2 DEF CallFollows
      <4>2. floor[d] =< newest'
        BY <1>t, <3>1, <3>4, <4>1 DEF Versions
      <4>3. CASE d = c
        BY <3>1, <3>4, <3>5, <4>1, <4>2, <4>3 DEF CallFollows
      <4>4. CASE d # c
        BY <1>k, <2>1, <3>5, <4>1, <4>2, <4>4 DEF CallFollows, Inside
      <4>. QED  BY <4>3, <4>4
    <3>. QED  BY <3>6, <3>7
  <2>. QED  BY <1>14, <2>4, <2>5 DEF Release
<1>15. ASSUME NEW c \in Callers, ReleaseRaises(c) PROVE FALSE
  BY <1>15, <1>a DEF ReleaseRaises
<1>16. ASSUME NEW c \in Callers, Crash(c)
       PROVE  (KeysFollow /\ \A d \in Callers : CallFollows(d))'
  <2>1. at' = [at EXCEPT ![c] = "crashed"] /\ at[c] # "storeLastGood"
        /\ UNCHANGED <<entry, lastGood, source, val, newest, floor, handRolled>>
    BY <1>16, <1>a DEF Crash, Goto, redisVars, env
  <2>. QED  BY <1>k, <1>t, <2>1 DEF KeysFollow, CallFollows
<1>17. CASE LockExpires
  BY <1>17, <1>k DEF LockExpires, env, callVars, KeysFollow, CallFollows
<1>18. CASE EntryExpires
  BY <1>18, <1>k, ValuesApart DEF EntryExpires, env, callVars, KeysFollow, CallFollows
<1>19. CASE LastGoodExpires
  BY <1>19, <1>k, ValuesApart DEF LastGoodExpires, env, callVars, KeysFollow, CallFollows
<1>20. CASE SourceChanges
  <2>1. /\ source' = source + 1 /\ source \in Nat /\ newest \in Nat
        /\ UNCHANGED <<entry, lastGood, at, val, newest, floor, handRolled>>
    BY <1>20, <1>t DEF SourceChanges, env, redisVars, callVars, Versions
  <2>2. \A v \in Versions : v =< source => v =< source'
    BY <2>1 DEF Versions
  <2>3. newest =< source => newest =< source'
    BY <2>1
  <2>. QED  BY <1>k, <2>1, <2>2, <2>3 DEF KeysFollow, CallFollows
<1>21. CASE Invalidate
  BY <1>21, <1>a DEF Invalidate
<1>22. CASE UNCHANGED vars
  BY <1>22, <1>k DEF vars, env, redisVars, callVars, KeysFollow, CallFollows
<1>. QED
  BY <1>1, <1>2, <1>3, <1>4, <1>5, <1>6, <1>7, <1>8, <1>9, <1>10, <1>11, <1>12, <1>13,
     <1>14, <1>15, <1>16, <1>17, <1>18, <1>19, <1>20, <1>21, <1>22, Zenon DEF Next, Step

\* A call is answered with nothing older than answers given before it began.
THEOREM ReadsHold == Spec => []ReadsNeverGoBack
<1>1. Init => TInv /\ SInv /\ RInv
  BY TInitHolds, SInitHolds, RInitHolds
<1>2. TInv /\ SInv /\ RInv /\ [Next]_vars => TInv' /\ SInv' /\ RInv'
  BY TNextHolds, SNextHolds, RNextHolds
<1>3. TInv /\ RInv => ReadsNeverGoBack
  <2>. SUFFICES ASSUME TInv, RInv, assumed = Assumptions, NEW c \in Callers, at[c] = "served"
                PROVE  val[c] >= floor[c]
    BY DEF ReadsNeverGoBack
  <2>1. val[c] \in Versions /\ floor[c] =< val[c] /\ floor[c] \in 0..MaxVersion
    BY DEF RInv, CallFollows, TInv, TypeOK
  <2>. QED  BY <2>1 DEF Versions
<1>. QED  BY <1>1, <1>2, <1>3, PTL DEF Spec
===============================================================================
