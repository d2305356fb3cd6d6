----------------------- MODULE SimulationQuota_proofs ------------------------
(***************************************************************************)
(* Theorems about SimulationQuota for any accounts, requests and limits:   *)
(* the counters never pass their limits and hold what was reserved, the    *)
(* tasks queued stay within them, and the optimistic transaction refines   *)
(* the atomic QuotaLedger whenever a limit is configured.                  *)
(***************************************************************************)
EXTENDS SimulationQuota, FiniteSetTheorems, TLAPS

\* The loop has a pass left whenever a request is about to start one.
AttemptsLeft ==
  \A r \in Requests :
    /\ pc[r] = "idle" => attempts[r] = 0
    /\ pc[r] = "watch" => attempts[r] < MaxAttempts

\* What an undisturbed transaction has read is still what the keys hold, and a
\* transaction that reached EXEC found room for itself in both.
SnapshotCurrent ==
  \A r \in Requests :
    /\ pc[r] \in {"readGlobal", "exec"} /\ ~dirty[r] => seen[r].user = UserCount(r)
    /\ pc[r] = "exec" /\ ~dirty[r] => seen[r].site = GlobalCount(r)
    /\ pc[r] = "exec" => /\ Fits(UserLimit, seen[r].user, req[r].scenarios)
                         /\ Fits(GlobalLimit, seen[r].site, req[r].scenarios)

\* A running request's day is not over and expired, and nothing is counted or
\* reserved when no limit is configured.
DaysOpen ==
  /\ \A d \in expired : d < today
  /\ \A r \in Requests : pc[r] \in InFlight => req[r].day \notin expired
  /\ Unlimited => \A r \in Requests : pc[r] \notin Reserving

IInv == TypeOK /\ AttemptsLeft /\ SnapshotCurrent /\ DaysOpen /\ WithinLimits

\* Init establishes the inductive invariant.
LEMMA InitIInv == Init => IInv
BY QuotaAssumption
   DEF Init, IInv, TypeOK, AttemptsLeft, SnapshotCurrent, DaysOpen, WithinLimits,
       Days, InFlight, Reserving, Watching, Holding, NothingSeen, Request

PCs == {"idle"} \cup InFlight \cup Ended

\* A step that only moves r to another place keeps the types of pc and of the
\* requests' parameters.
LEMMA GotoKeepsTypes ==
  ASSUME TypeOK, NEW r \in Requests, NEW where \in PCs, pc[r] # "idle",
         Goto(r, where), req' = req
  PROVE  /\ pc' \in [Requests -> PCs]
         /\ \A s \in Requests : pc'[s] = IF s = r THEN where ELSE pc[s]
         /\ \A s \in Requests : pc'[s] # "idle" => req'[s] \in Request
BY DEF TypeOK, Goto, PCs

\* The parameters of a request have their types.
LEMMA RequestFields ==
  ASSUME TypeOK, NEW r \in Requests, pc[r] # "idle"
  PROVE  /\ req[r] \in Request
         /\ req[r].user \in Users
         /\ req[r].day \in Days
         /\ req[r].scenarios \in Nat \ {0}
BY QuotaAssumption DEF TypeOK, Request

\* Charge moves exactly the two counters of r's day, and dirties exactly the
\* open transactions of that day.
LEMMA ChargeEffect ==
  ASSUME TypeOK, NEW r \in Requests, NEW n \in Int, pc[r] # "idle", Charge(r, n)
  PROVE  /\ userUsed' \in [Users -> [Days -> Int]]
         /\ globalUsed' \in [Days -> Int]
         /\ dirty' \in [Requests -> BOOLEAN]
         /\ expired' = expired
         /\ \A u \in Users, d \in Days : userUsed'[u][d] =
              userUsed[u][d] + IF u = req[r].user /\ d = req[r].day THEN n ELSE 0
         /\ \A d \in Days : globalUsed'[d] =
              globalUsed[d] + IF d = req[r].day THEN n ELSE 0
         /\ \A s \in Requests : dirty'[s] <=>
              dirty[s] \/ (s # r /\ pc[s] \in Watching /\ req[s].day = req[r].day)
<1>1. req[r].user \in Users /\ req[r].day \in Days
  BY RequestFields
<1> DEFINE row == [userUsed[req[r].user] EXCEPT ![req[r].day] = @ + n]
<1>2. /\ userUsed' \in [Users -> [Days -> Int]]
      /\ \A u \in Users, d \in Days : userUsed'[u][d] =
           userUsed[u][d] + IF u = req[r].user /\ d = req[r].day THEN n ELSE 0
  <2>1. userUsed' = [userUsed EXCEPT ![req[r].user] = row]
    BY DEF Charge
  <2>2. userUsed[req[r].user] \in [Days -> Int]
    BY <1>1 DEF TypeOK
  <2>3. /\ row \in [Days -> Int]
        /\ \A d \in Days : row[d] =
             userUsed[req[r].user][d] + IF d = req[r].day THEN n ELSE 0
    BY <1>1, <2>2
  <2>4. userUsed \in [Users -> [Days -> Int]]
    BY DEF TypeOK
  <2> HIDE DEF row
  <2>5. /\ userUsed' \in [Users -> [Days -> Int]]
        /\ \A u \in Users : userUsed'[u] = IF u = req[r].user THEN row ELSE userUsed[u]
    BY <1>1, <2>1, <2>3, <2>4
  <2>6. \A u \in Users, d \in Days : userUsed[u][d] \in Int
    BY <2>4
  <2>7. QED
    BY <1>1, <2>3, <2>5, <2>6
<1>3. /\ globalUsed' \in [Days -> Int]
      /\ \A d \in Days : globalUsed'[d] = globalUsed[d] + IF d = req[r].day THEN n ELSE 0
  BY <1>1 DEF TypeOK, Charge
<1>4. /\ dirty' \in [Requests -> BOOLEAN]
      /\ \A s \in Requests : dirty'[s] <=>
           dirty[s] \/ (s # r /\ pc[s] \in Watching /\ req[s].day = req[r].day)
  BY DEF TypeOK, Charge
<1>5. QED
  BY <1>2, <1>3, <1>4 DEF Charge

\* A Charge leaves no open transaction with a stale snapshot: those of the same
\* day are dirty, those of other days read other keys.
LEMMA ChargeKeepsSnapshots ==
  ASSUME IInv, NEW r \in Requests, NEW n \in Int, NEW where \in PCs, pc[r] # "idle",
         where \notin Watching, Charge(r, n), Goto(r, where), req' = req,
         \A s \in Requests : s # r => seen'[s] = seen[s]
  PROVE  SnapshotCurrent'
<1> SUFFICES ASSUME NEW s \in Requests, pc'[s] \in {"readGlobal", "exec"}
             PROVE  /\ ~dirty'[s] => seen'[s].user = UserCount(s)'
                    /\ pc'[s] = "exec" /\ ~dirty'[s] => seen'[s].site = GlobalCount(s)'
                    /\ pc'[s] = "exec" =>
                         /\ Fits(UserLimit, seen'[s].user, req'[s].scenarios)
                         /\ Fits(GlobalLimit, seen'[s].site, req'[s].scenarios)
  BY DEF SnapshotCurrent
<1>1. s # r /\ pc[s] = pc'[s] /\ seen'[s] = seen[s]
  BY DEF IInv, TypeOK, Goto, Watching
<1>2. req[s].user \in Users /\ req[s].day \in Days
  BY <1>1, RequestFields DEF IInv
<1>3. ~dirty'[s] => ~dirty[s] /\ req[s].day # req[r].day
  BY <1>1, ChargeEffect DEF IInv, Watching
<1>4. userUsed[req[s].user][req[s].day] \in Int /\ globalUsed[req[s].day] \in Int
  BY <1>2 DEF IInv, TypeOK
<1>5. ~dirty'[s] => UserCount(s)' = UserCount(s) /\ GlobalCount(s)' = GlobalCount(s)
  BY <1>2, <1>3, <1>4, ChargeEffect DEF IInv, UserCount, GlobalCount
<1>6. QED
  BY <1>1, <1>3, <1>5 DEF IInv, SnapshotCurrent

\* Every step, of reserve, of refund, of a day's end or of the task queue,
\* preserves the inductive invariant.
LEMMA NextIInv == IInv /\ [Next]_vars => IInv'
<1> SUFFICES ASSUME IInv, [Next]_vars PROVE IInv'
  OBVIOUS
<1> USE DEF IInv, vars, quotaVars, txVars
<1>a. /\ "watch" \in PCs /\ "readUser" \in PCs /\ "readGlobal" \in PCs /\ "exec" \in PCs
      /\ "publish" \in PCs /\ "refund" \in PCs /\ "idle" \in PCs
      /\ \A e \in Ended : e \in PCs
  BY DEF PCs, InFlight, Reserving, Watching, Holding
<1>1. ASSUME NEW r \in Requests, NEW u \in Users, NEW n \in 1..MaxScenarios, Arrive(r, u, n)
      PROVE  IInv'
  <2> USE <1>1 DEF Arrive, Goto
  <2>1. TypeOK'
    BY QuotaAssumption DEF TypeOK, Request, InFlight, Reserving, Holding
  <2>2. AttemptsLeft'
    BY QuotaAssumption DEF TypeOK, AttemptsLeft
  <2>3. SnapshotCurrent'
    BY DEF TypeOK, SnapshotCurrent, UserCount, GlobalCount
  <2>4. DaysOpen'
    BY DEF TypeOK, DaysOpen, Days, InFlight, Reserving, Watching, Holding
  <2>5. WithinLimits'
    BY DEF WithinLimits
  <2>6. QED
    BY <2>1, <2>2, <2>3, <2>4, <2>5
<1>2. ASSUME NEW r \in Requests, WatchKeys(r)
      PROVE  IInv'
  <2> USE <1>2 DEF WatchKeys
  <2>0. PICK where \in {"readUser"} : Goto(r, where) /\ where \in PCs
    BY <1>a DEF Ended
  <2>1. /\ pc' \in [Requests -> PCs]
        /\ \A s \in Requests : pc'[s] = IF s = r THEN where ELSE pc[s]
        /\ \A s \in Requests : pc'[s] # "idle" => req'[s] \in Request
    BY <2>0, GotoKeepsTypes
  <2>2. req[r] \in Request /\ req[r].user \in Users /\ req[r].day \in Days
        /\ req[r].scenarios \in Nat \ {0}
    BY RequestFields
  <2>3. TypeOK'
    <3>1. attempts[r] + 1 \in 0..MaxAttempts
      BY QuotaAssumption DEF TypeOK, AttemptsLeft
    <3>2. attempts' \in [Requests -> 0..MaxAttempts]
      BY <3>1 DEF TypeOK
    <3>3. QED
      BY <2>1, <3>2 DEF TypeOK, PCs
  <2>4. AttemptsLeft'
    BY <2>1, QuotaAssumption DEF TypeOK, AttemptsLeft
  <2>5. SnapshotCurrent'
    BY <2>1, <2>2 DEF TypeOK, SnapshotCurrent, UserCount, GlobalCount
  <2>6. DaysOpen'
    BY <2>1 DEF DaysOpen, InFlight, Reserving, Watching, Holding
  <2>7. WithinLimits'
    BY DEF WithinLimits
  <2>8. QED
    BY <2>3, <2>4, <2>5, <2>6, <2>7
<1>3. ASSUME NEW r \in Requests, ReadUser(r)
      PROVE  IInv'
  <2> USE <1>3 DEF ReadUser
  <2>0. PICK where \in {"readGlobal"} : Goto(r, where) /\ where \in PCs
    BY <1>a DEF Ended
  <2>1. /\ pc' \in [Requests -> PCs]
        /\ \A s \in Requests : pc'[s] = IF s = r THEN where ELSE pc[s]
        /\ \A s \in Requests : pc'[s] # "idle" => req'[s] \in Request
    BY <2>0, GotoKeepsTypes
  <2>2. req[r] \in Request /\ req[r].user \in Users /\ req[r].day \in Days
        /\ req[r].scenarios \in Nat \ {0}
    BY RequestFields
  <2>3. TypeOK'
    <3>1. UserCount(r) \in Int
      BY <2>2 DEF TypeOK, UserCount
    <3>2. seen' \in [Requests -> [user : Int, site : Int]]
      BY <3>1 DEF TypeOK
    <3>3. QED
      BY <2>1, <3>2 DEF TypeOK, PCs
  <2>4. AttemptsLeft'
    BY <2>1, QuotaAssumption DEF TypeOK, AttemptsLeft
  <2>5. SnapshotCurrent'
    <3>1. seen'[r].user = UserCount(r) /\ \A t \in Requests : t # r => seen'[t] = seen[t]
      BY DEF TypeOK
    <3>2. pc'[r] = "readGlobal"
      BY DEF TypeOK, Goto
    <3>3. QED
      BY <2>1, <3>1, <3>2 DEF SnapshotCurrent, UserCount, GlobalCount
  <2>6. DaysOpen'
    BY <2>1 DEF DaysOpen, InFlight, Reserving, Watching, Holding
  <2>7. WithinLimits'
    BY DEF WithinLimits
  <2>8. QED
    BY <2>3, <2>4, <2>5, <2>6, <2>7
<1>4. ASSUME NEW r \in Requests, ReadGlobal(r)
      PROVE  IInv'
  <2> USE <1>4 DEF ReadGlobal
  <2>0. PICK where \in {"exec", "refused"} : Goto(r, where) /\ where \in PCs
    BY <1>a DEF Ended
  <2>1. /\ pc' \in [Requests -> PCs]
        /\ \A s \in Requests : pc'[s] = IF s = r THEN where ELSE pc[s]
        /\ \A s \in Requests : pc'[s] # "idle" => req'[s] \in Request
    BY <2>0, GotoKeepsTypes
  <2>2. req[r] \in Request /\ req[r].user \in Users /\ req[r].day \in Days
        /\ req[r].scenarios \in Nat \ {0}
    BY RequestFields
  <2>3. TypeOK'
    <3>1. GlobalCount(r) \in Int
      BY <2>2 DEF TypeOK, GlobalCount
    <3>2. seen' \in [Requests -> [user : Int, site : Int]]
      BY <3>1 DEF TypeOK, NothingSeen
    <3>3. dirty' \in [Requests -> BOOLEAN]
      BY DEF TypeOK
    <3>4. QED
      BY <2>1, <3>2, <3>3 DEF TypeOK, PCs
  <2>4. AttemptsLeft'
    BY <2>1, QuotaAssumption DEF TypeOK, AttemptsLeft
  <2>5. SnapshotCurrent'
    <3> DEFINE fits == /\ Fits(UserLimit, seen[r].user, req[r].scenarios)
                       /\ Fits(GlobalLimit, GlobalCount(r), req[r].scenarios)
    <3>1. /\ \A t \in Requests : t # r => seen'[t] = seen[t] /\ dirty'[t] = dirty[t]
          /\ fits => /\ seen'[r].user = seen[r].user /\ seen'[r].site = GlobalCount(r)
                     /\ dirty'[r] = dirty[r]
      BY DEF TypeOK
    <3>2. pc'[r] = "exec" => fits
      BY DEF TypeOK, Goto
    <3>3. pc'[r] # "readGlobal"
      BY DEF TypeOK, Goto
    <3>4. ~dirty[r] => seen[r].user = UserCount(r)
      BY DEF SnapshotCurrent
    <3>5. QED
      BY <2>1, <3>1, <3>2, <3>3, <3>4 DEF SnapshotCurrent, UserCount, GlobalCount
  <2>6. DaysOpen'
    BY <2>1 DEF DaysOpen, InFlight, Reserving, Watching, Holding
  <2>7. WithinLimits'
    BY DEF WithinLimits
  <2>8. QED
    BY <2>3, <2>4, <2>5, <2>6, <2>7
<1>5. ASSUME NEW r \in Requests, Exec(r)
      PROVE  IInv'
  <2> USE <1>5 DEF Exec
  <2>0. PICK where \in {"publish", "leaked"} : Goto(r, where) /\ where \in PCs
    BY <1>a DEF Ended
  <2>1. /\ pc' \in [Requests -> PCs]
        /\ \A s \in Requests : pc'[s] = IF s = r THEN where ELSE pc[s]
        /\ \A s \in Requests : pc'[s] # "idle" => req'[s] \in Request
    BY <2>0, GotoKeepsTypes
  <2>2. req[r] \in Request /\ req[r].user \in Users /\ req[r].day \in Days
        /\ req[r].scenarios \in Nat \ {0}
    BY RequestFields
  <2>c. /\ userUsed' \in [Users -> [Days -> Int]]
        /\ globalUsed' \in [Days -> Int]
        /\ dirty' \in [Requests -> BOOLEAN]
        /\ expired' = expired
        /\ \A u \in Users, d \in Days : userUsed'[u][d] = userUsed[u][d] +
             IF u = req[r].user /\ d = req[r].day THEN req[r].scenarios ELSE 0
        /\ \A d \in Days : globalUsed'[d] = globalUsed[d] +
             IF d = req[r].day THEN req[r].scenarios ELSE 0
        /\ \A s \in Requests : dirty'[s] <=>
             dirty[s] \/ (s # r /\ pc[s] \in Watching /\ req[s].day = req[r].day)
    BY <2>2, ChargeEffect
  <2>3. TypeOK'
    <3>1. seen' \in [Requests -> [user : Int, site : Int]]
      BY DEF TypeOK, NothingSeen
    <3>2. QED
      BY <2>1, <2>c, <3>1 DEF TypeOK, PCs
  <2>4. AttemptsLeft'
    BY <2>1, QuotaAssumption DEF TypeOK, AttemptsLeft
  <2>5. SnapshotCurrent'
    BY <2>0, <2>2, ChargeKeepsSnapshots DEF Watching
  <2>6. DaysOpen'
    BY <2>1, <2>c DEF DaysOpen, Unlimited, InFlight, Reserving, Watching, Holding
  <2>7. WithinLimits'
    <3>1. /\ Fits(UserLimit, UserCount(r), req[r].scenarios)
          /\ Fits(GlobalLimit, GlobalCount(r), req[r].scenarios)
      BY DEF SnapshotCurrent
    <3>2. GlobalLimit > 0 => \A d \in Days : globalUsed'[d] <= GlobalLimit
      BY <2>2, <2>c, <3>1, QuotaAssumption DEF TypeOK, WithinLimits, Fits, GlobalCount
    <3>3. UserLimit > 0 => \A u \in Users, d \in Days : userUsed'[u][d] <= UserLimit
      <4> SUFFICES ASSUME UserLimit > 0, NEW u \in Users, NEW d \in Days
                   PROVE  userUsed'[u][d] <= UserLimit
        OBVIOUS
      <4>1. userUsed[u][d] \in Int /\ userUsed[u][d] <= UserLimit
        BY DEF TypeOK, WithinLimits
      <4>2. QED
        BY <2>2, <2>c, <3>1, <4>1, QuotaAssumption DEF Fits, UserCount
    <3>4. QED
      BY <3>2, <3>3 DEF WithinLimits
  <2>8. QED
    BY <2>3, <2>4, <2>5, <2>6, <2>7
<1>6. ASSUME NEW r \in Requests, ExecAborted(r)
      PROVE  IInv'
  <2> USE <1>6 DEF ExecAborted
  <2>0. PICK where \in {"watch", "conflict"} : Goto(r, where) /\ where \in PCs
    BY <1>a DEF Ended
  <2>1. /\ pc' \in [Requests -> PCs]
        /\ \A s \in Requests : pc'[s] = IF s = r THEN where ELSE pc[s]
        /\ \A s \in Requests : pc'[s] # "idle" => req'[s] \in Request
    BY <2>0, GotoKeepsTypes
  <2>2. req[r] \in Request /\ req[r].user \in Users /\ req[r].day \in Days
        /\ req[r].scenarios \in Nat \ {0}
    BY RequestFields
  <2>3. TypeOK'
    <3>1. seen' \in [Requests -> [user : Int, site : Int]]
      BY DEF TypeOK, NothingSeen
    <3>2. dirty' \in [Requests -> BOOLEAN]
      BY DEF TypeOK
    <3>3. QED
      BY <2>1, <3>1, <3>2 DEF TypeOK, PCs
  <2>4. AttemptsLeft'
    <3>1. where = "watch" => attempts[r] < MaxAttempts
      BY <2>0 DEF TypeOK, Goto
    <3>2. QED
      BY <2>1, <3>1 DEF AttemptsLeft
  <2>5. SnapshotCurrent'
    BY <2>1, <2>2 DEF TypeOK, SnapshotCurrent, UserCount, GlobalCount
  <2>6. DaysOpen'
    BY <2>1 DEF DaysOpen, InFlight, Reserving, Watching, Holding
  <2>7. WithinLimits'
    BY DEF WithinLimits
  <2>8. QED
    BY <2>3, <2>4, <2>5, <2>6, <2>7
<1>7. ASSUME NEW r \in Requests, Publish(r)
      PROVE  IInv'
  <2> USE <1>7 DEF Publish
  <2>0. PICK where \in {"accepted"} : Goto(r, where) /\ where \in PCs
    BY <1>a DEF Ended
  <2>1. /\ pc' \in [Requests -> PCs]
        /\ \A s \in Requests : pc'[s] = IF s = r THEN where ELSE pc[s]
        /\ \A s \in Requests : pc'[s] # "idle" => req'[s] \in Request
    BY <2>0, GotoKeepsTypes
  <2>2. req[r] \in Request /\ req[r].user \in Users /\ req[r].day \in Days
        /\ req[r].scenarios \in Nat \ {0}
    BY RequestFields
  <2>3. TypeOK'
    BY <2>1, <2>2, QuotaAssumption DEF TypeOK, PCs, AttemptsLeft, NothingSeen
  <2>4. AttemptsLeft'
    BY <2>1, QuotaAssumption DEF TypeOK, AttemptsLeft
  <2>5. SnapshotCurrent'
    BY <2>1, <2>2 DEF TypeOK, SnapshotCurrent, UserCount, GlobalCount
  <2>6. DaysOpen'
    BY <2>1 DEF DaysOpen, InFlight, Reserving, Watching, Holding
  <2>7. WithinLimits'
    BY DEF WithinLimits
  <2>8. QED
    BY <2>3, <2>4, <2>5, <2>6, <2>7
<1>8. ASSUME NEW r \in Requests, PublishRaises(r)
      PROVE  IInv'
  <2> USE <1>8 DEF PublishRaises
  <2>0. PICK where \in {"refund"} : Goto(r, where) /\ where \in PCs
    BY <1>a DEF Ended
  <2>1. /\ pc' \in [Requests -> PCs]
        /\ \A s \in Requests : pc'[s] = IF s = r THEN where ELSE pc[s]
        /\ \A s \in Requests : pc'[s] # "idle" => req'[s] \in Request
    BY <2>0, GotoKeepsTypes
  <2>2. req[r] \in Request /\ req[r].user \in Users /\ req[r].day \in Days
        /\ req[r].scenarios \in Nat \ {0}
    BY RequestFields
  <2>3. TypeOK'
    BY <2>1, <2>2, QuotaAssumption DEF TypeOK, PCs, AttemptsLeft, NothingSeen
  <2>4. AttemptsLeft'
    BY <2>1, QuotaAssumption DEF TypeOK, AttemptsLeft
  <2>5. SnapshotCurrent'
    BY <2>1, <2>2 DEF TypeOK, SnapshotCurrent, UserCount, GlobalCount
  <2>6. DaysOpen'
    BY <2>1 DEF DaysOpen, InFlight, Reserving, Watching, Holding
  <2>7. WithinLimits'
    BY DEF WithinLimits
  <2>8. QED
    BY <2>3, <2>4, <2>5, <2>6, <2>7
<1>9. ASSUME NEW r \in Requests, Refund(r)
      PROVE  IInv'
  <2> USE <1>9 DEF Refund
  <2>0. PICK where \in {"refunded"} : Goto(r, where) /\ where \in PCs
    BY <1>a DEF Ended
  <2>1. /\ pc' \in [Requests -> PCs]
        /\ \A s \in Requests : pc'[s] = IF s = r THEN where ELSE pc[s]
        /\ \A s \in Requests : pc'[s] # "idle" => req'[s] \in Request
    BY <2>0, GotoKeepsTypes
  <2>2. req[r] \in Request /\ req[r].user \in Users /\ req[r].day \in Days
        /\ req[r].scenarios \in Nat \ {0}
    BY RequestFields
  <2>3. AttemptsLeft'
    BY <2>0, <2>1 DEF TypeOK, AttemptsLeft
  <2>4. CASE Unlimited
    <3>1. TypeOK' /\ WithinLimits'
      BY <2>1, <2>4 DEF TypeOK, PCs, WithinLimits
    <3>2. SnapshotCurrent'
      BY <2>0, <2>1, <2>4 DEF SnapshotCurrent, UserCount, GlobalCount
    <3>3. DaysOpen'
      BY <2>0, <2>1, <2>4 DEF DaysOpen, InFlight, Reserving, Watching, Holding
    <3>4. QED
      BY <2>3, <3>1, <3>2, <3>3
  <2>5. CASE ~Unlimited
    <3> DEFINE n == -req[r].scenarios
    <3>1. n \in Int /\ n < 0 /\ Charge(r, n)
      BY <2>2, <2>5
    <3> HIDE DEF n
    <3>2. TypeOK'
      BY <2>1, <3>1, ChargeEffect DEF TypeOK, PCs
    <3>3. SnapshotCurrent'
      BY <2>0, <3>1, ChargeKeepsSnapshots DEF Watching
    <3>4. DaysOpen'
      BY <2>0, <2>1, <3>1, ChargeEffect DEF DaysOpen, Unlimited, InFlight, Reserving, Watching, Holding
    <3>5. \A u \in Users, d \in Days : userUsed'[u][d] <= userUsed[u][d]
      <4>1. \A u \in Users, d \in Days : userUsed[u][d] \in Int
        BY DEF TypeOK
      <4>2. QED
        BY <2>2, <3>1, <4>1, ChargeEffect
    <3>6. \A d \in Days : globalUsed'[d] <= globalUsed[d]
      BY <2>2, <3>1, ChargeEffect DEF TypeOK
    <3>7. WithinLimits'
      BY <3>2, <3>5, <3>6, QuotaAssumption DEF TypeOK, WithinLimits
    <3>8. QED
      BY <2>3, <3>2, <3>3, <3>4, <3>7
  <2>6. QED
    BY <2>4, <2>5
<1>10. ASSUME NEW r \in Requests, RefundRaises(r)
      PROVE  IInv'
  <2> USE <1>10 DEF RefundRaises
  <2>0. PICK where \in {"leaked"} : Goto(r, where) /\ where \in PCs
    BY <1>a DEF Ended
  <2>1. /\ pc' \in [Requests -> PCs]
        /\ \A s \in Requests : pc'[s] = IF s = r THEN where ELSE pc[s]
        /\ \A s \in Requests : pc'[s] # "idle" => req'[s] \in Request
    BY <2>0, GotoKeepsTypes
  <2>2. req[r] \in Request /\ req[r].user \in Users /\ req[r].day \in Days
        /\ req[r].scenarios \in Nat \ {0}
    BY RequestFields
  <2>3. TypeOK'
    BY <2>1, <2>2, QuotaAssumption DEF TypeOK, PCs, AttemptsLeft, NothingSeen
  <2>4. AttemptsLeft'
    BY <2>1, QuotaAssumption DEF TypeOK, AttemptsLeft
  <2>5. SnapshotCurrent'
    BY <2>1, <2>2 DEF TypeOK, SnapshotCurrent, UserCount, GlobalCount
  <2>6. DaysOpen'
    BY <2>1 DEF DaysOpen, InFlight, Reserving, Watching, Holding
  <2>7. WithinLimits'
    BY DEF WithinLimits
  <2>8. QED
    BY <2>3, <2>4, <2>5, <2>6, <2>7
<1>11. ASSUME Crash PROVE IInv'
  <2> USE <1>11 DEF Crash
  <2>1. pc' \in [Requests -> PCs]
    BY DEF TypeOK, PCs, InFlight, Ended, Reserving, Watching, Holding
  <2>2. \A s \in Requests : /\ pc'[s] = "idle" <=> pc[s] = "idle"
                           /\ pc'[s] \notin InFlight
    BY DEF TypeOK, InFlight, Ended, Reserving, Watching, Holding
  <2>3. TypeOK'
    BY <2>1, <2>2 DEF TypeOK, PCs, NothingSeen
  <2>4. AttemptsLeft' /\ SnapshotCurrent'
    BY <2>2 DEF AttemptsLeft, SnapshotCurrent, InFlight, Reserving, Watching
  <2>5. DaysOpen' /\ WithinLimits'
    BY <2>2 DEF DaysOpen, WithinLimits, InFlight
  <2>6. QED
    BY <2>3, <2>4, <2>5
<1>12. ASSUME Midnight PROVE IInv'
  BY <1>12, QuotaAssumption
     DEF Midnight, TypeOK, Days, AttemptsLeft, SnapshotCurrent, DaysOpen, WithinLimits,
         UserCount, GlobalCount
<1>13. ASSUME NEW d \in Days, ExpireDay(d) PROVE IInv'
  <2> USE <1>13 DEF ExpireDay
  <2>1. TypeOK'
    BY DEF TypeOK
  <2>2. AttemptsLeft' /\ DaysOpen'
    BY DEF AttemptsLeft, DaysOpen
  <2>3. SnapshotCurrent'
    <3>1. \A r \in Requests : pc[r] \in {"readGlobal", "exec"} =>
            UserCount(r)' = UserCount(r) /\ GlobalCount(r)' = GlobalCount(r)
      BY RequestFields DEF TypeOK, UserCount, GlobalCount, InFlight, Reserving, Watching
    <3>2. QED
      BY <3>1 DEF SnapshotCurrent
  <2>4. WithinLimits'
    BY QuotaAssumption DEF TypeOK, WithinLimits
  <2>5. QED
    BY <2>1, <2>2, <2>3, <2>4
<1>14. CASE UNCHANGED vars
  BY <1>14 DEF TypeOK, AttemptsLeft, SnapshotCurrent, DaysOpen, WithinLimits, UserCount, GlobalCount
<1>15. QED
  BY <1>1, <1>2, <1>3, <1>4, <1>5, <1>6, <1>7, <1>8, <1>9, <1>10, <1>11, <1>12, <1>13, <1>14
     DEF Next, Reserve, Enqueue

\* Every variable keeps its type; in particular no request of _run_transaction
\* makes more than MaxAttempts attempts.
THEOREM TypeCorrect == Spec => []TypeOK
<1>1. Spec => []IInv
  BY InitIInv, NextIInv, PTL DEF Spec
<1>2. IInv => TypeOK
  BY DEF IInv
<1>3. QED
  BY <1>1, <1>2, PTL

\* However many requests race, fail, retry and refund, no counter of any day
\* passes its limit (_try_reserve's check and its WATCH).
THEOREM LimitsHold == Spec => []WithinLimits
<1>1. Spec => []IInv
  BY InitIInv, NextIInv, PTL DEF Spec
<1>2. IInv => WithinLimits
  BY DEF IInv
<1>3. QED
  BY <1>1, <1>2, PTL

------------------------------------------------------------------------------
(* The counters and what was reserved.                                     *)

\* Scenarios(R), with the requests' parameters a variable of its own.
Size(R, q) == Cardinality({s \in R \X (1..MaxScenarios) : s[2] <= q[s[1]].scenarios})

\* A set of requests asks for finitely many scenarios, and no more than a larger
\* one with the same parameters.
LEMMA SizeMonotonic ==
  ASSUME NEW T \in SUBSET Requests, NEW R \in SUBSET T, NEW p, NEW q,
         \A r \in R : q[r] = p[r]
  PROVE  /\ Size(R, q) \in Nat
         /\ Size(R, q) <= Size(T, p)
<1>. DEFINE U == {s \in R \X (1..MaxScenarios) : s[2] <= q[s[1]].scenarios}
            V == {s \in T \X (1..MaxScenarios) : s[2] <= p[s[1]].scenarios}
<1>1. IsFiniteSet(T) /\ IsFiniteSet(1..MaxScenarios)
  BY QuotaAssumption, FS_Subset, FS_Interval DEF QuotaAssumption
<1>2. IsFiniteSet(T \X (1..MaxScenarios))
  BY <1>1, FS_Product
<1>3. V \in SUBSET (T \X (1..MaxScenarios)) /\ U \in SUBSET V
  OBVIOUS
<1>4. IsFiniteSet(V)
  BY <1>2, <1>3, FS_Subset
<1>5. IsFiniteSet(U) /\ Cardinality(U) <= Cardinality(V)
  BY <1>3, <1>4, FS_Subset
<1>6. Cardinality(U) \in Nat
  BY <1>5, FS_CardinalityType
<1>. QED  BY <1>5, <1>6 DEF Size

\* The same requests with the same parameters ask for as much.
LEMMA SizeSame ==
  ASSUME NEW R, NEW p, NEW q, \A r \in R : q[r] = p[r]
  PROVE  Size(R, q) = Size(R, p)
BY DEF Size

\* A request more asks for its scenarios more.
LEMMA SizeAdds ==
  ASSUME NEW R \in SUBSET Requests, NEW r \in Requests \ R, NEW q,
         q[r].scenarios \in 1..MaxScenarios
  PROVE  Size(R \cup {r}, q) = Size(R, q) + q[r].scenarios
<1>. DEFINE n == q[r].scenarios
            U == {s \in R \X (1..MaxScenarios) : s[2] <= q[s[1]].scenarios}
            V == {s \in (R \cup {r}) \X (1..MaxScenarios) : s[2] <= q[s[1]].scenarios}
<1>1. /\ MaxScenarios \in Int
      /\ 1 \in Int /\ n \in Int /\ n \in Nat /\ n >= 1 /\ n <= MaxScenarios
  BY QuotaAssumption DEF QuotaAssumption
<1>2. IsFiniteSet(R) /\ IsFiniteSet(1..MaxScenarios)
  <2>1. IsFiniteSet(R)
    BY QuotaAssumption, FS_Subset DEF QuotaAssumption
  <2>2. IsFiniteSet(1..MaxScenarios)
    BY <1>1, FS_Interval
  <2>. QED  BY <2>1, <2>2
<1>3. IsFiniteSet(R \X (1..MaxScenarios))
  BY <1>2, FS_Product
<1>4. U \in SUBSET (R \X (1..MaxScenarios))
  OBVIOUS
<1>5. IsFiniteSet(U)
  BY <1>3, <1>4, FS_Subset
<1>6. IsFiniteSet({r} \X (1..n)) /\ Cardinality({r} \X (1..n)) = n
  <2>1. IsFiniteSet({r}) /\ Cardinality({r}) = 1
    BY FS_Singleton
  <2>. HIDE DEF n
  <2>2. IsFiniteSet(1..n) /\ Cardinality(1..n) = n
    <3>1. IsFiniteSet(1..n) /\ Cardinality(1..n) = IF 1 > n THEN 0 ELSE n - 1 + 1
      BY <1>1, FS_Interval
    <3>. QED  BY <1>1, <3>1
  <2>3. /\ IsFiniteSet({r} \X (1..n))
        /\ Cardinality({r} \X (1..n)) = Cardinality({r}) * Cardinality(1..n)
    BY <2>1, <2>2, FS_Product
  <2>. QED  BY <1>1, <2>1, <2>2, <2>3
<1>7. V = U \cup ({r} \X (1..n))
  <2>1. ASSUME NEW s \in V PROVE s \in U \cup ({r} \X (1..n))
    <3>1. s = <<s[1], s[2]>> /\ s[1] \in R \cup {r} /\ s[2] \in 1..MaxScenarios
          /\ s[2] <= q[s[1]].scenarios
      OBVIOUS
    <3>2. CASE s[1] = r
      BY <1>1, <3>1, <3>2
    <3>3. CASE s[1] \in R
      BY <3>1, <3>3
    <3>. QED  BY <3>1, <3>2, <3>3
  <2>2. ASSUME NEW s \in {r} \X (1..n) PROVE s \in V
    BY <1>1
  <2>3. U \subseteq V
    OBVIOUS
  <2>. QED  BY <2>1, <2>2, <2>3
<1>8. U \cap ({r} \X (1..n)) = {}
  OBVIOUS
<1>9. Cardinality(V) = Cardinality(U) + n - Cardinality(U \cap ({r} \X (1..n)))
  BY <1>5, <1>6, <1>7, FS_Union
<1>10. Cardinality(U) \in Nat /\ Cardinality(U \cap ({r} \X (1..n))) = 0
  <2>1. Cardinality(U) \in Nat
    BY <1>5, FS_CardinalityType
  <2>2. Cardinality(U \cap ({r} \X (1..n))) = 0
    BY <1>8, FS_EmptySet
  <2>. QED  BY <2>1, <2>2
<1>11. Cardinality(V) = Cardinality(U) + n
  <2>. QED  BY <1>1, <1>9, <1>10
<1>12. Size(R \cup {r}, q) = Cardinality(V) /\ Size(R, q) = Cardinality(U)
  BY DEF Size
<1>. QED  BY <1>11, <1>12

\* The requests of R that user u makes.
Of(R, u, q) == {r \in R : q[r].user = u}

\* What is counted on a day fits both limits, also when the counters are gone.
ChargedWithin ==
  \A d \in Days :
    /\ Fits(GlobalLimit, Size(ChargedOn(d), req), 0)
    /\ \A u \in Users : Fits(UserLimit, Size(Of(ChargedOn(d), u, req), req), 0)

\* A task that was queued belongs to a request that was counted.
QueuedAreCharged ==
  \A r \in queued : pc[r] \in {"accepted", "refund", "refunded", "leaked"}

QInv == CountersMatchReservations /\ ChargedWithin /\ QueuedAreCharged

\* The counters and the requests, in the terms of the lemmas above.
LEMMA CountersMatchAsSizes ==
  CountersMatchReservations <=>
    (~Unlimited =>
       \A d \in Days \ expired :
         /\ globalUsed[d] = Size(ChargedOn(d), req)
         /\ \A u \in Users : userUsed[u][d] = Size(Of(ChargedOn(d), u, req), req))
BY DEF CountersMatchReservations, Scenarios, Size, Of

\* A step that charges and discharges nobody keeps every day's requests, and so
\* their match with counters it does not touch.
LEMMA QuietKeepsCounts ==
  ASSUME CountersMatchReservations, ChargedWithin,
         \A s \in Requests : pc'[s] \in Charged <=> pc[s] \in Charged,
         \A s \in Requests : pc[s] \in Charged => req'[s] = req[s],
         expired \subseteq expired',
         \A d \in Days \ expired' :
           globalUsed'[d] = globalUsed[d] /\ \A u \in Users : userUsed'[u][d] = userUsed[u][d]
  PROVE  CountersMatchReservations' /\ ChargedWithin'
<1>1. ASSUME NEW d PROVE ChargedOn(d)' = ChargedOn(d) /\ ChargedOn(d) \subseteq Requests
  BY DEF ChargedOn
<1>2. ASSUME NEW d PROVE \A s \in ChargedOn(d) : req'[s] = req[s]
  BY DEF ChargedOn
<1>3. ASSUME NEW d PROVE Size(ChargedOn(d), req)' = Size(ChargedOn(d), req)
  <2>1. Size(ChargedOn(d), req') = Size(ChargedOn(d), req)
    BY <1>2, SizeSame
  <2>. QED  BY <1>1, <2>1 DEF Size
<1>4. ASSUME NEW d, NEW u
      PROVE  Size(Of(ChargedOn(d), u, req), req)' = Size(Of(ChargedOn(d), u, req), req)
  <2>1. Of(ChargedOn(d), u, req)' = Of(ChargedOn(d), u, req)
    BY <1>1, <1>2 DEF Of
  <2>2. \A s \in Of(ChargedOn(d), u, req) : req'[s] = req[s]
    BY <1>2 DEF Of
  <2>3. Size(Of(ChargedOn(d), u, req), req') = Size(Of(ChargedOn(d), u, req), req)
    BY <2>2, SizeSame
  <2>. QED  BY <2>1, <2>3 DEF Size
<1>5. ChargedWithin'
  BY <1>3, <1>4 DEF ChargedWithin, Fits
<1>6. ASSUME ~Unlimited, NEW d \in Days \ expired'
      PROVE  /\ globalUsed'[d] = Size(ChargedOn(d), req)'
             /\ \A u \in Users : userUsed'[u][d] = Size(Of(ChargedOn(d), u, req), req)'
  <2>1. d \in Days \ expired
    BY <1>6
  <2>2. /\ globalUsed[d] = Size(ChargedOn(d), req)
        /\ \A u \in Users : userUsed[u][d] = Size(Of(ChargedOn(d), u, req), req)
    BY <1>6, <2>1, CountersMatchAsSizes
  <2>. QED  BY <1>3, <1>4, <1>6, <2>2
<1>7. CountersMatchReservations'
  BY <1>6 DEF CountersMatchReservations, Unlimited, Scenarios, Size, Of
<1>. QED  BY <1>5, <1>7

\* A step that charges or discharges request r alone moves its own day's
\* requests, and those of its own account, by r.
LEMMA ChargedMoves ==
  ASSUME NEW B \in SUBSET Requests, NEW r \in Requests \ B, NEW q,
         q[r].scenarios \in 1..MaxScenarios
  PROVE  /\ Size(B \cup {r}, q) = Size(B, q) + q[r].scenarios
         /\ \A u : Size(Of(B \cup {r}, u, q), q) =
              Size(Of(B, u, q), q) + IF u = q[r].user THEN q[r].scenarios ELSE 0
<1>. DEFINE A == B \cup {r}
<1>2. Size(A, q) = Size(B, q) + q[r].scenarios
  BY SizeAdds
<1>3. ASSUME NEW u, u = q[r].user
      PROVE  Size(Of(A, u, q), q) = Size(Of(B, u, q), q) + q[r].scenarios
  <2>1. Of(A, u, q) = Of(B, u, q) \cup {r}
    BY <1>3 DEF Of
  <2>2. Of(B, u, q) \in SUBSET Requests /\ r \notin Of(B, u, q)
    BY DEF Of
  <2>. QED  BY <2>1, <2>2, SizeAdds
<1>4. ASSUME NEW u, u # q[r].user
      PROVE  Size(Of(A, u, q), q) = Size(Of(B, u, q), q) + 0
  <2>1. Of(A, u, q) = Of(B, u, q)
    BY <1>4 DEF Of
  <2>2. Of(B, u, q) \in SUBSET Requests
    BY DEF Of
  <2>3. Size(Of(B, u, q), q) \in Nat
    BY <2>2, SizeMonotonic
  <2>. QED  BY <2>1, <2>3
<1>. QED  BY <1>2, <1>3, <1>4

\* EXEC charges r, and a refund discharges it: the counters move by what its
\* day's requests move.
LEMMA ChargeKeepsCounts ==
  ASSUME IInv, IInv', CountersMatchReservations, ChargedWithin, ~Unlimited,
         NEW r \in Requests, NEW sign \in {1, -1}, req' = req, pc[r] # "idle",
         req[r].day \notin expired,
         Charge(r, sign * req[r].scenarios),
         sign = 1 => pc[r] \notin Charged /\ pc'[r] \in Charged,
         sign = -1 => pc[r] \in Charged /\ pc'[r] \notin Charged,
         \A s \in Requests : s # r => pc'[s] = pc[s]
  PROVE  CountersMatchReservations' /\ ChargedWithin'
<1>. DEFINE n == req[r].scenarios
            day == req[r].day
<1>1. n \in 1..MaxScenarios /\ n \in Nat /\ day \in Days /\ req[r].user \in Users
      /\ sign * n \in Int
  <2>1. req[r] \in Request
    BY RequestFields DEF IInv
  <2>. QED  BY <2>1, QuotaAssumption DEF Request
<1>2. /\ expired' = expired
      /\ \A u \in Users, d \in Days : userUsed'[u][d] =
           userUsed[u][d] + IF u = req[r].user /\ d = day THEN sign * n ELSE 0
      /\ \A d \in Days : globalUsed'[d] = globalUsed[d] + IF d = day THEN sign * n ELSE 0
  BY <1>1, ChargeEffect DEF IInv
<1>3. ASSUME NEW d \in Days, d # day PROVE ChargedOn(d)' = ChargedOn(d)
  BY <1>3 DEF ChargedOn
<1>4. /\ sign = 1 => ChargedOn(day)' = ChargedOn(day) \cup {r} /\ r \notin ChargedOn(day)
      /\ sign = -1 => ChargedOn(day) = ChargedOn(day)' \cup {r} /\ r \notin ChargedOn(day)'
      /\ ChargedOn(day) \subseteq Requests /\ ChargedOn(day)' \subseteq Requests
  BY DEF ChargedOn
<1>. DEFINE A == ChargedOn(day)
            B == ChargedOn(day)'
<1>4a. ASSUME NEW X, NEW Y \in SUBSET Requests, X = Y \cup {r}, r \notin Y
      PROVE  /\ Size(X, req) = Size(Y, req) + n
             /\ \A u : Size(Of(X, u, req), req) =
                         Size(Of(Y, u, req), req) + IF u = req[r].user THEN n ELSE 0
  <2>1. n \in 1..MaxScenarios
    BY <1>1
  <2>2. r \in Requests \ Y
    BY <1>4a
  <2>3. /\ Size(Y \cup {r}, req) = Size(Y, req) + n
        /\ \A u : Size(Of(Y \cup {r}, u, req), req) =
                    Size(Of(Y, u, req), req) + IF u = req[r].user THEN n ELSE 0
    BY <2>1, <2>2, ChargedMoves
  <2>. QED  BY <1>4a, <2>3
<1>5. /\ Size(A, req) \in Nat /\ Size(B, req) \in Nat
      /\ \A u : Size(Of(A, u, req), req) \in Nat /\ Size(Of(B, u, req), req) \in Nat
  <2>1. ASSUME NEW R \in SUBSET Requests PROVE Size(R, req) \in Nat
    BY SizeMonotonic
  <2>2. \A u : Of(A, u, req) \in SUBSET Requests /\ Of(B, u, req) \in SUBSET Requests
    BY <1>4 DEF Of
  <2>. QED  BY <1>4, <2>1, <2>2
<1>6. /\ Size(B, req) = Size(A, req) + sign * n
      /\ \A u : Size(Of(B, u, req), req) =
           Size(Of(A, u, req), req) + IF u = req[r].user THEN sign * n ELSE 0
  <2>1. CASE sign = 1
    <3>1. A \in SUBSET Requests /\ B = A \cup {r} /\ r \notin A
      BY <1>4, <2>1
    <3>2. /\ Size(B, req) = Size(A, req) + n
          /\ \A u : Size(Of(B, u, req), req) =
               Size(Of(A, u, req), req) + IF u = req[r].user THEN n ELSE 0
      BY <1>4a, <3>1
    <3>. QED  BY <1>1, <2>1, <3>2
  <2>2. CASE sign = -1
    <3>1. B \in SUBSET Requests /\ A = B \cup {r} /\ r \notin B
      BY <1>4, <2>2
    <3>2. /\ Size(A, req) = Size(B, req) + n
          /\ \A u : Size(Of(A, u, req), req) =
               Size(Of(B, u, req), req) + IF u = req[r].user THEN n ELSE 0
      BY <1>4a, <3>1
    <3>. QED  BY <1>1, <1>5, <2>2, <3>2
  <2>. QED  BY <2>1, <2>2
<1>7. ASSUME NEW d \in Days \ expired
      PROVE  /\ globalUsed'[d] = Size(ChargedOn(d)', req)
             /\ \A u \in Users : userUsed'[u][d] = Size(Of(ChargedOn(d)', u, req), req)
  <2>1. /\ globalUsed[d] = Size(ChargedOn(d), req)
        /\ \A u \in Users : userUsed[u][d] = Size(Of(ChargedOn(d), u, req), req)
    BY CountersMatchAsSizes
  <2>2. globalUsed[d] \in Int /\ \A u \in Users : userUsed[u][d] \in Int
    BY DEF IInv, TypeOK
  <2>3. CASE d = day
    BY <1>1, <1>2, <1>6, <2>1, <2>2, <2>3
  <2>4. CASE d # day
    BY <1>2, <1>3, <2>1, <2>2, <2>4
  <2>. QED  BY <2>3, <2>4
<1>7a. ASSUME NEW d
      PROVE  /\ Size(ChargedOn(d)', req) = Scenarios(ChargedOn(d))'
             /\ \A u : Size(Of(ChargedOn(d)', u, req), req) =
                         Scenarios({s \in ChargedOn(d) : req[s].user = u})'
  BY DEF Scenarios, Size, Of
<1>8. CountersMatchReservations'
  BY <1>2, <1>7, <1>7a DEF CountersMatchReservations
<1>9. ASSUME NEW d \in Days
      PROVE  /\ Fits(GlobalLimit, Size(ChargedOn(d), req)', 0)
             /\ \A u \in Users : Fits(UserLimit, Size(Of(ChargedOn(d), u, req), req)', 0)
  <2>1. CASE d \in expired
    <3>1. ChargedOn(d)' = ChargedOn(d)
      BY <1>3, <2>1
    <3>2. /\ Size(ChargedOn(d), req)' = Size(ChargedOn(d), req)
          /\ \A u \in Users :
               Size(Of(ChargedOn(d), u, req), req)' = Size(Of(ChargedOn(d), u, req), req)
      BY <3>1 DEF Size, Of
    <3>. QED  BY <3>2 DEF ChargedWithin
  <2>2. CASE d \notin expired
    <3>1. /\ globalUsed'[d] = Size(ChargedOn(d), req)'
          /\ \A u \in Users : userUsed'[u][d] = Size(Of(ChargedOn(d), u, req), req)'
      <4>1. /\ Size(ChargedOn(d), req)' = Size(ChargedOn(d)', req)
            /\ \A u : Size(Of(ChargedOn(d), u, req), req)' = Size(Of(ChargedOn(d)', u, req), req)
        BY DEF Size, Of
      <4>. QED  BY <1>7, <2>2, <4>1
    <3>2. globalUsed'[d] \in Int /\ \A u \in Users : userUsed'[u][d] \in Int
      BY DEF IInv, TypeOK
    <3>3. WithinLimits'
      BY DEF IInv
    <3>. QED  BY <3>1, <3>2, <3>3, QuotaAssumption DEF WithinLimits, Fits
  <2>. QED  BY <2>1, <2>2
<1>10. ChargedWithin'
  BY <1>9 DEF ChargedWithin, Fits
<1>. QED  BY <1>8, <1>10

\* Nothing is counted at the start.
LEMMA InitQInv == Init => QInv
<1> SUFFICES ASSUME Init PROVE QInv
  OBVIOUS
<1>1. ASSUME NEW d PROVE ChargedOn(d) = {}
  BY DEF Init, ChargedOn, Charged, Holding
<1>2. ASSUME NEW q PROVE Size({}, q) = 0
  <2>1. {s \in {} \X (1..MaxScenarios) : s[2] <= q[s[1]].scenarios} = {}
    OBVIOUS
  <2>. QED  BY <2>1, FS_EmptySet DEF Size
<1>3. ASSUME NEW d, NEW u PROVE Of(ChargedOn(d), u, req) = {}
  BY <1>1 DEF Of
<1>4. CountersMatchReservations
  BY <1>1, <1>2, <1>3, CountersMatchAsSizes DEF Init
<1>5. ChargedWithin
  BY <1>1, <1>2, <1>3, QuotaAssumption DEF ChargedWithin, Fits
<1>. QED  BY <1>4, <1>5 DEF Init, QInv, QueuedAreCharged

\* Every step preserves it, on top of the invariant of the transactions.
LEMMA NextQInv == IInv /\ IInv' /\ QInv /\ [Next]_vars => QInv'
<1> SUFFICES ASSUME IInv, IInv', QInv, [Next]_vars PROVE QInv'
  OBVIOUS
<1> USE DEF vars, quotaVars, txVars, Goto
<1>i. pc \in [Requests -> PCs] /\ CountersMatchReservations /\ ChargedWithin /\ QueuedAreCharged
      /\ queued \subseteq Requests
  BY DEF IInv, TypeOK, PCs, QInv
<1>u. ASSUME Unlimited PROVE CountersMatchReservations' /\ ChargedWithin'
  <2>1. ~(GlobalLimit > 0) /\ ~(UserLimit > 0)
    BY <1>u, QuotaAssumption DEF Unlimited
  <2>. QED  BY <1>u, <2>1 DEF CountersMatchReservations, ChargedWithin, Fits, Unlimited
<1>c. \A p : p \in Charged <=> p \in {"publish", "refund", "accepted", "leaked"}
  BY DEF Charged, Holding
<1>1. ASSUME NEW r \in Requests, NEW u \in Users, NEW n \in 1..MaxScenarios, Arrive(r, u, n)
      PROVE  QInv'
  <2>1. QueuedAreCharged'
    BY <1>1, <1>i DEF Arrive, QueuedAreCharged
  <2>2. CASE Unlimited
    BY <1>u, <2>1, <2>2 DEF QInv
  <2>3. CASE ~Unlimited
    <3>1. /\ \A s \in Requests : pc'[s] \in Charged <=> pc[s] \in Charged
          /\ \A s \in Requests : pc[s] \in Charged => req'[s] = req[s]
      <4>1. /\ pc[r] = "idle" /\ pc'[r] = "watch"
            /\ \A s \in Requests : s # r => pc'[s] = pc[s] /\ req'[s] = req[s]
        BY <1>1, <1>i, <2>3 DEF Arrive, IInv, TypeOK
      <4>. QED  BY <1>c, <4>1
    <3>2. UNCHANGED quotaVars
      BY <1>1 DEF Arrive
    <3>3. CountersMatchReservations' /\ ChargedWithin'
      BY <1>i, <3>1, <3>2, QuietKeepsCounts
    <3>. QED  BY <2>1, <3>3 DEF QInv
  <2>. QED  BY <2>2, <2>3
<1>2. ASSUME NEW r \in Requests,
             WatchKeys(r) \/ ReadUser(r) \/ ReadGlobal(r) \/ ExecAborted(r)
      PROVE  QInv'
  <2>1. /\ UNCHANGED <<quotaVars, req, queued>>
        /\ pc[r] \in Reserving
        /\ pc'[r] \in {"watch", "readUser", "readGlobal", "exec", "refused", "conflict"}
        /\ \A s \in Requests : s # r => pc'[s] = pc[s]
    BY <1>2, <1>i DEF WatchKeys, ReadUser, ReadGlobal, ExecAborted, Reserving, Watching
  <2>2. QueuedAreCharged'
    BY <2>1, <1>i DEF QueuedAreCharged, Reserving, Watching
  <2>3. \A s \in Requests : pc'[s] \in Charged <=> pc[s] \in Charged
    BY <2>1, <1>c DEF Reserving, Watching
  <2>4. CountersMatchReservations' /\ ChargedWithin'
    BY <1>i, <2>1, <2>3, QuietKeepsCounts
  <2>. QED  BY <2>2, <2>4 DEF QInv
<1>3. ASSUME NEW r \in Requests, Exec(r)
      PROVE  QInv'
  <2>1. /\ pc[r] = "exec" /\ pc'[r] \in {"publish", "leaked"}
        /\ \A s \in Requests : s # r => pc'[s] = pc[s]
        /\ UNCHANGED <<req, queued>>
    BY <1>3, <1>i DEF Exec
  <2>2. ~Unlimited /\ req[r].day \notin expired
    BY <2>1 DEF IInv, DaysOpen, InFlight, Reserving, Watching
  <2>3. Charge(r, 1 * req[r].scenarios)
    <3>1. req[r].scenarios \in Nat
      BY <2>1, RequestFields DEF IInv
    <3>2. 1 * req[r].scenarios = req[r].scenarios
      BY <3>1
    <3>. QED  BY <1>3, <3>2 DEF Exec
  <2>4. CountersMatchReservations' /\ ChargedWithin'
    BY <1>i, <1>c, <2>1, <2>2, <2>3, ChargeKeepsCounts
  <2>5. QueuedAreCharged'
    BY <1>i, <2>1 DEF QueuedAreCharged
  <2>. QED  BY <2>4, <2>5 DEF QInv
<1>4. ASSUME NEW r \in Requests, Publish(r) \/ PublishRaises(r) \/ RefundRaises(r)
      PROVE  QInv'
  <2>1. /\ UNCHANGED <<quotaVars, req>>
        /\ pc[r] \in Holding /\ pc'[r] \in {"accepted", "refund", "leaked"}
        /\ \A s \in Requests : s # r => pc'[s] = pc[s]
        /\ queued' \subseteq queued \cup {r}
    BY <1>4, <1>i DEF Publish, PublishRaises, RefundRaises, Holding
  <2>2. QueuedAreCharged'
    BY <2>1, <1>i DEF QueuedAreCharged
  <2>3. \A s \in Requests : pc'[s] \in Charged <=> pc[s] \in Charged
    BY <2>1, <1>c DEF Holding
  <2>4. CountersMatchReservations' /\ ChargedWithin'
    BY <1>i, <2>1, <2>3, QuietKeepsCounts
  <2>. QED  BY <2>2, <2>4 DEF QInv
<1>5. ASSUME NEW r \in Requests, Refund(r)
      PROVE  QInv'
  <2>1. /\ pc[r] = "refund" /\ pc'[r] = "refunded"
        /\ \A s \in Requests : s # r => pc'[s] = pc[s]
        /\ UNCHANGED <<req, queued>>
    BY <1>5, <1>i DEF Refund
  <2>2. QueuedAreCharged'
    BY <1>i, <2>1 DEF QueuedAreCharged
  <2>3. CASE Unlimited
    BY <1>u, <2>2, <2>3 DEF QInv
  <2>4. CASE ~Unlimited
    <3>1. req[r].day \notin expired
      BY <2>1 DEF IInv, DaysOpen, InFlight, Holding
    <3>2. Charge(r, (-1) * req[r].scenarios)
      <4>1. req[r].scenarios \in Nat
        BY <2>1, RequestFields DEF IInv
      <4>2. (-1) * req[r].scenarios = -req[r].scenarios
        BY <4>1
      <4>. QED  BY <1>5, <2>4, <4>2 DEF Refund
    <3>3. CountersMatchReservations' /\ ChargedWithin'
      BY <1>i, <1>c, <2>1, <2>4, <3>1, <3>2, ChargeKeepsCounts
    <3>. QED  BY <2>2, <3>3 DEF QInv
  <2>. QED  BY <2>3, <2>4
<1>6. ASSUME Crash PROVE QInv'
  <2>1. /\ UNCHANGED <<quotaVars, req, queued>>
        /\ \A s \in Requests : pc'[s] = IF pc[s] \in Reserving THEN "dropped"
                                        ELSE IF pc[s] \in Holding THEN "leaked" ELSE pc[s]
    <3>1. \A p \in PCs : ~(p \in Reserving /\ p \in Holding)
      BY DEF PCs, Reserving, Watching, Holding
    <3>2. ASSUME NEW s \in Requests, pc[s] \in Reserving PROVE pc'[s] = "dropped"
      BY <1>6, <1>i, <3>1, <3>2 DEF Crash
    <3>3. ASSUME NEW s \in Requests, pc[s] \in Holding PROVE pc'[s] = "leaked"
      BY <1>6, <1>i, <3>1, <3>3 DEF Crash
    <3>4. ASSUME NEW s \in Requests, pc[s] \notin Reserving, pc[s] \notin Holding
          PROVE  pc'[s] = pc[s]
      BY <1>6, <1>i, <3>4 DEF Crash
    <3>. QED  BY <1>6, <3>2, <3>3, <3>4 DEF Crash
  <2>2. \A s \in Requests : pc'[s] \in Charged <=> pc[s] \in Charged
    BY <2>1, <1>c DEF Reserving, Watching, Holding
  <2>3. QueuedAreCharged'
    BY <1>i, <2>1 DEF QueuedAreCharged, Reserving, Watching, Holding
  <2>4. CountersMatchReservations' /\ ChargedWithin'
    BY <1>i, <2>1, <2>2, QuietKeepsCounts
  <2>. QED  BY <2>3, <2>4 DEF QInv
<1>7. ASSUME NEW d \in Days, ExpireDay(d) PROVE QInv'
  <2>1. /\ UNCHANGED <<pc, req, queued>>
        /\ expired' = expired \cup {d}
        /\ userUsed' = [u \in Users |-> [userUsed[u] EXCEPT ![d] = 0]]
        /\ globalUsed' = [globalUsed EXCEPT ![d] = 0]
    BY <1>7 DEF ExpireDay
  <2>2. \A e \in Days \ expired' :
          globalUsed'[e] = globalUsed[e] /\ \A u \in Users : userUsed'[u][e] = userUsed[u][e]
    BY <2>1 DEF IInv, TypeOK
  <2>3. CountersMatchReservations' /\ ChargedWithin'
    BY <1>i, <2>1, <2>2, QuietKeepsCounts
  <2>. QED  BY <1>i, <2>1, <2>3 DEF QInv, QueuedAreCharged
<1>8. ASSUME Midnight \/ UNCHANGED vars PROVE QInv'
  <2>1. UNCHANGED <<quotaVars, pc, req, queued>>
    BY <1>8 DEF Midnight
  <2>2. CountersMatchReservations' /\ ChargedWithin'
    BY <1>i, <2>1, QuietKeepsCounts
  <2>. QED  BY <1>i, <2>1, <2>2 DEF QInv, QueuedAreCharged
<1>. QED
  BY <1>1, <1>2, <1>3, <1>4, <1>5, <1>6, <1>7, <1>8 DEF Next, Reserve, Enqueue

\* What was queued on a day is part of what was counted on it.
LEMMA QueuedFits == TypeOK /\ QInv => QueuedWithinLimits
<1> SUFFICES ASSUME TypeOK, QInv, NEW d \in Days
             PROVE  /\ Fits(GlobalLimit, Scenarios(QueuedOn(d)), 0)
                    /\ \A u \in Users :
                         Fits(UserLimit, Scenarios({r \in QueuedOn(d) : req[r].user = u}), 0)
  BY DEF QueuedWithinLimits
<1>1. QueuedOn(d) \subseteq ChargedOn(d) /\ ChargedOn(d) \subseteq Requests
  BY DEF TypeOK, QInv, QueuedAreCharged, QueuedOn, ChargedOn, Charged, Holding
<1>2. ASSUME NEW T \in SUBSET Requests, NEW R \in SUBSET T, NEW limit \in Int,
             Fits(limit, Size(T, req), 0)
      PROVE  Fits(limit, Size(R, req), 0)
  <2>1. Size(R, req) \in Nat /\ Size(R, req) <= Size(T, req)
    BY SizeMonotonic
  <2>2. Size(T, req) \in Nat
    <3>1. T \in SUBSET T
      OBVIOUS
    <3>. QED  BY <3>1, SizeMonotonic
  <2>. QED  BY <1>2, <2>1, <2>2 DEF Fits
<1>3. Fits(GlobalLimit, Size(QueuedOn(d), req), 0)
  BY <1>1, <1>2, QuotaAssumption DEF QInv, ChargedWithin
<1>4. ASSUME NEW u \in Users
      PROVE  Fits(UserLimit, Size(Of(QueuedOn(d), u, req), req), 0)
  <2>1. /\ Of(ChargedOn(d), u, req) \in SUBSET Requests
        /\ Of(QueuedOn(d), u, req) \in SUBSET Of(ChargedOn(d), u, req)
    BY <1>1 DEF Of
  <2>. QED  BY <1>2, <2>1, QuotaAssumption DEF QInv, ChargedWithin
<1>. QED  BY <1>3, <1>4 DEF Scenarios, Size, Of

\* The counters of a day hold exactly what its requests reserved and did not give
\* back, for every account and for the site, until their keys expire.
THEOREM CountersMatchHolds == Spec => []CountersMatchReservations
<1>1. Spec => [](IInv /\ QInv)
  BY InitIInv, NextIInv, InitQInv, NextQInv, PTL DEF Spec
<1>2. IInv /\ QInv => CountersMatchReservations
  BY DEF QInv
<1>. QED  BY <1>1, <1>2, PTL

\* However requests race, fail, refund and die with the API process, what really
\* reaches the queue on a day stays within the account's and the site's limit.
THEOREM QueuedWithinLimitsHolds == Spec => []QueuedWithinLimits
<1>1. Spec => [](IInv /\ QInv)
  BY InitIInv, NextIInv, InitQInv, NextQInv, PTL DEF Spec
<1>2. IInv /\ QInv => QueuedWithinLimits
  BY QueuedFits DEF IInv
<1>. QED  BY <1>1, <1>2, PTL

------------------------------------------------------------------------------
\* The abstract answer of a request, place by place.
LEMMA AnswerOf ==
  ASSUME NEW r \in Requests, pc[r] \in PCs
  PROVE  /\ pc[r] = "idle" => Answer(r) = "none"
         /\ pc[r] \in Reserving /\ ~Doomed(r) => Answer(r) = "asked"
         /\ pc[r] = "refused" \/ Doomed(r) => Answer(r) = "refused"
         /\ pc[r] \in Charged =>
              Answer(r) = IF req[r].day \in expired THEN "settled" ELSE "granted"
         /\ pc[r] \in {"conflict", "dropped"} => Answer(r) = "gaveUp"
         /\ pc[r] = "refunded" => Answer(r) = "returned"
BY DEF Answer, Doomed, PCs, InFlight, Ended, Reserving, Watching, Holding, Charged

Ans == [r \in Requests |-> Answer(r)]

\* A step of one request changes no other request's answer.
LEMMA AnswerStep ==
  ASSUME NEW r \in Requests, NEW a,
         \A s \in Requests : s # r => pc'[s] = pc[s] /\ seen'[s] = seen[s] /\ req'[s] = req[s],
         expired' = expired,
         Answer(r)' = a
  PROVE  Ans' = [Ans EXCEPT ![r] = a]
<1>1. \A s \in Requests : s # r => Answer(s)' = Answer(s)
  BY DEF Answer, Doomed
<1>2. QED
  BY <1>1 DEF Ans

\* A step that changes no counter, request or answer is a stutter of the ledger.
LEMMA Stutter ==
  ASSUME UNCHANGED <<userUsed, globalUsed, req>>, Ans' = Ans
  PROVE  UNCHANGED Ledger!ledgerVars
BY DEF Ledger!ledgerVars, Ans

\* A request whose place maps to the same answer keeps every abstract answer.
LEMMA SameAnswer ==
  ASSUME NEW r \in Requests,
         \A s \in Requests : s # r => pc'[s] = pc[s] /\ seen'[s] = seen[s] /\ req'[s] = req[s],
         expired' = expired, Answer(r)' = Answer(r)
  PROVE  Ans' = Ans
<1>1. Ans' = [Ans EXCEPT ![r] = Answer(r)]
  BY AnswerStep
<1>2. QED
  BY <1>1 DEF Ans

\* Initial states map to initial states of the ledger.
LEMMA LedgerInit == Init => Ledger!Init
<1> SUFFICES ASSUME Init PROVE Ledger!Init
  OBVIOUS
<1>1. \A r \in Requests : Answer(r) = "none"
  BY DEF Init, Answer, Doomed, Reserving, Watching, Charged, Holding
<1>2. QED
  BY <1>1 DEF Init, Ledger!Init, Ledger!NoAsk, NoRequest

\* Every step maps to a step of the ledger or to a stutter.
LEMMA LedgerStep ==
  ASSUME IInv, [Next]_vars, ~Unlimited
  PROVE  [Ledger!Next]_(Ledger!ledgerVars)
<1> USE DEF IInv, vars, quotaVars, txVars, Goto
<1>i. pc \in [Requests -> PCs] /\ seen \in [Requests -> [user : Int, site : Int]]
  BY DEF TypeOK, PCs
<1>1. ASSUME NEW r \in Requests, NEW u \in Users, NEW n \in 1..MaxScenarios, Arrive(r, u, n)
      PROVE  Ledger!Next
  <2>1. pc[r] = "idle" /\ pc'[r] = "watch"
    BY <1>1, <1>i DEF Arrive
  <2>2. Answer(r) = "none" /\ Answer(r)' = "asked"
    BY <2>1 DEF Answer, Doomed, Reserving, Watching, Charged, Holding
  <2>3. Ans' = [Ans EXCEPT ![r] = "asked"]
    BY <1>1, <1>i, <2>2, AnswerStep DEF Arrive, TypeOK
  <2>4. today \in Days
    BY DEF TypeOK
  <2>5. Ledger!Ask(r, u, today, n)
    BY <1>1, <2>2, <2>3 DEF Arrive, Ledger!Ask, Ans
  <2>6. QED
    BY <2>4, <2>5 DEF Ledger!Next
<1>2. ASSUME NEW r \in Requests, WatchKeys(r)
      PROVE  UNCHANGED Ledger!ledgerVars
  <2>1. Answer(r)' = Answer(r)
    BY <1>2, <1>i DEF WatchKeys, Answer, Doomed, Reserving, Watching, Charged, Holding
  <2>2. QED
    BY <1>2, <1>i, <2>1, SameAnswer, Stutter DEF WatchKeys
<1>3. ASSUME NEW r \in Requests, ReadUser(r)
      PROVE  Ledger!Refuse(r) \/ UNCHANGED Ledger!ledgerVars
  <2>1. /\ pc[r] = "readUser" /\ pc'[r] = "readGlobal" /\ seen'[r].user = UserCount(r)
        /\ Answer(r) = "asked"
    BY <1>3, <1>i DEF ReadUser, Answer, Doomed, Reserving, Watching, Charged, Holding
  <2>2. CASE Fits(UserLimit, UserCount(r), req[r].scenarios)
    <3>1. Answer(r)' = "asked"
      BY <1>3, <2>1, <2>2 DEF ReadUser, Answer, Doomed, Reserving, Watching, Charged, Holding
    <3>2. QED
      BY <1>3, <1>i, <2>1, <3>1, SameAnswer, Stutter DEF ReadUser
  <2>3. CASE ~Fits(UserLimit, UserCount(r), req[r].scenarios)
    <3>1. Answer(r)' = "refused"
      BY <1>3, <2>1, <2>3 DEF ReadUser, Answer, Doomed, Reserving, Watching, Charged, Holding
    <3>2. Ans' = [Ans EXCEPT ![r] = "refused"]
      BY <1>3, <1>i, <3>1, AnswerStep DEF ReadUser
    <3>3. Ledger!Refuse(r)
      BY <1>3, <2>1, <2>3, <3>2
         DEF ReadUser, Ledger!Refuse, Ledger!UserRefuses, Ledger!Allows, Fits, UserCount, Ans
    <3>4. QED
      BY <3>3
  <2>4. QED
    BY <2>2, <2>3
<1>4. ASSUME NEW r \in Requests, ReadGlobal(r)
      PROVE  Ledger!Refuse(r) \/ UNCHANGED Ledger!ledgerVars
  <2>1. pc[r] = "readGlobal" /\ \A s \in Requests : s # r => seen'[s] = seen[s] /\ pc'[s] = pc[s]
    BY <1>4, <1>i DEF ReadGlobal
  <2>2. CASE Doomed(r)
    <3>1. pc'[r] = "refused"
      BY <1>4, <1>i, <2>2 DEF ReadGlobal, Doomed
    <3>2. Answer(r)' = Answer(r)
      BY <2>1, <2>2, <3>1 DEF Answer, Doomed, Reserving, Watching, Charged, Holding
    <3>3. QED
      BY <1>4, <2>1, <3>2, SameAnswer, Stutter DEF ReadGlobal
  <2>3. CASE ~Doomed(r) /\ Fits(GlobalLimit, GlobalCount(r), req[r].scenarios)
    <3>1. pc'[r] = "exec"
      BY <1>4, <1>i, <2>1, <2>3 DEF ReadGlobal, Doomed
    <3>2. Answer(r)' = Answer(r)
      BY <2>1, <2>3, <3>1 DEF Answer, Doomed, Reserving, Watching, Charged, Holding
    <3>3. QED
      BY <1>4, <2>1, <3>2, SameAnswer, Stutter DEF ReadGlobal
  <2>4. CASE ~Doomed(r) /\ ~Fits(GlobalLimit, GlobalCount(r), req[r].scenarios)
    <3>1. pc'[r] = "refused"
      BY <1>4, <1>i, <2>4 DEF ReadGlobal
    <3>2. Answer(r) = "asked" /\ Answer(r)' = "refused"
      BY <2>1, <2>4, <3>1 DEF Answer, Doomed, Reserving, Watching, Charged, Holding
    <3>3. Ans' = [Ans EXCEPT ![r] = "refused"]
      BY <1>4, <2>1, <3>2, AnswerStep DEF ReadGlobal
    <3>4. Ledger!Refuse(r)
      BY <1>4, <2>4, <3>2, <3>3
         DEF ReadGlobal, Ledger!Refuse, Ledger!SiteRefuses, Ledger!Allows, Fits, GlobalCount, Ans
    <3>5. QED
      BY <3>4
  <2>5. QED
    BY <2>2, <2>3, <2>4
<1>5. ASSUME NEW r \in Requests, Exec(r)
      PROVE  Ledger!Grant(r)
  <2>1. pc[r] = "exec" /\ pc'[r] \in {"publish", "leaked"} /\ Answer(r) = "asked"
    BY <1>5, <1>i DEF Exec, Answer, Doomed, Reserving, Watching, Charged, Holding
  <2>2. req[r].day \notin expired
    BY <2>1 DEF DaysOpen, InFlight, Reserving, Watching
  <2>3. Answer(r)' = "granted"
    BY <1>5, <2>1, <2>2 DEF Exec, Charge, Answer, Doomed, Reserving, Watching, Charged, Holding
  <2>4. Ans' = [Ans EXCEPT ![r] = "granted"]
    BY <1>5, <1>i, <2>3, AnswerStep DEF Exec, Charge
  <2>5. /\ Fits(UserLimit, UserCount(r), req[r].scenarios)
        /\ Fits(GlobalLimit, GlobalCount(r), req[r].scenarios)
    BY <1>5, <2>1 DEF Exec, SnapshotCurrent
  <2>6. ~Ledger!UserRefuses(r) /\ ~Ledger!SiteRefuses(r)
    BY <2>5 DEF Ledger!UserRefuses, Ledger!SiteRefuses, Ledger!Allows, Fits, UserCount, GlobalCount
  <2>7. Ledger!Charge(req[r].user, req[r].day, req[r].scenarios)
    BY <1>5 DEF Exec, Charge, Ledger!Charge
  <2>8. QED
    BY <1>5, <2>1, <2>4, <2>6, <2>7 DEF Exec, Ledger!Grant, Ans
<1>6. ASSUME NEW r \in Requests, ExecAborted(r)
      PROVE  Ledger!GiveUp({r}) \/ UNCHANGED Ledger!ledgerVars
  <2>1. Answer(r) = "asked"
    BY <1>6 DEF ExecAborted, Answer, Doomed, Reserving, Watching, Charged, Holding
  <2>2. CASE attempts[r] < MaxAttempts
    <3>1. Answer(r)' = Answer(r)
      BY <1>6, <1>i, <2>1, <2>2 DEF ExecAborted, Answer, Doomed, Reserving, Watching, Charged, Holding
    <3>2. QED
      BY <1>6, <1>i, <3>1, SameAnswer, Stutter DEF ExecAborted
  <2>3. CASE ~(attempts[r] < MaxAttempts)
    <3>1. Answer(r)' = "gaveUp"
      BY <1>6, <1>i, <2>3 DEF ExecAborted, Answer, Doomed, Reserving, Watching, Charged, Holding
    <3>2. Ans' = [Ans EXCEPT ![r] = "gaveUp"]
      BY <1>6, <1>i, <3>1, AnswerStep DEF ExecAborted
    <3>3. Ledger!GiveUp({r})
      BY <1>6, <2>1, <3>2 DEF ExecAborted, Ledger!GiveUp, Ans
    <3>4. QED
      BY <3>3
  <2>4. QED
    BY <2>2, <2>3
<1>7. ASSUME NEW r \in Requests, Publish(r) \/ PublishRaises(r) \/ RefundRaises(r)
      PROVE  UNCHANGED Ledger!ledgerVars
  <2>1. pc[r] \in Charged /\ pc'[r] \in Charged
    BY <1>7, <1>i DEF Publish, PublishRaises, RefundRaises, Charged, Holding
  <2>2. Answer(r)' = Answer(r)
    BY <1>7, <2>1 DEF Publish, PublishRaises, RefundRaises, Answer, Doomed, Reserving, Watching,
                      Charged, Holding
  <2>3. QED
    BY <1>7, <1>i, <2>2, SameAnswer, Stutter DEF Publish, PublishRaises, RefundRaises
<1>8. ASSUME NEW r \in Requests, Refund(r)
      PROVE  Ledger!GiveBack(r)
  <2>1. pc[r] = "refund" /\ pc'[r] = "refunded" /\ Charge(r, -req[r].scenarios)
    BY <1>8, <1>i DEF Refund
  <2>2. req[r].day \notin expired
    BY <2>1 DEF DaysOpen, InFlight, Holding
  <2>3. Answer(r) = "granted" /\ Answer(r)' = "returned"
    BY <2>1, <2>2 DEF Answer, Doomed, Reserving, Watching, Charged, Holding
  <2>4. Ans' = [Ans EXCEPT ![r] = "returned"]
    BY <1>8, <1>i, <2>1, <2>3, AnswerStep DEF Refund, Charge
  <2>5. Ledger!Charge(req[r].user, req[r].day, -req[r].scenarios)
    BY <2>1 DEF Charge, Ledger!Charge
  <2>6. QED
    BY <1>8, <2>3, <2>4, <2>5 DEF Refund, Ledger!GiveBack, Ans
<1>9. ASSUME Crash PROVE \E R \in SUBSET Requests : Ledger!GiveUp(R)
  <2> DEFINE R == {s \in Requests : pc[s] \in Reserving}
  <2>1. \A s \in R : Answer(s) \in {"asked", "refused"}
    BY AnswerOf, <1>i
  <2>2. \A s \in Requests : Answer(s)' = IF s \in R THEN "gaveUp" ELSE Answer(s)
    BY <1>9, <1>i DEF Crash, Answer, Doomed, PCs, InFlight, Ended, Reserving, Watching, Charged, Holding
  <2>3. Ledger!GiveUp(R)
    BY <1>9, <2>1, <2>2 DEF Crash, Ledger!GiveUp
  <2>4. QED
    BY <2>3
<1>10. ASSUME Midnight PROVE UNCHANGED Ledger!ledgerVars
  <2>1. Ans' = Ans
    BY <1>10 DEF Midnight, Ans, Answer, Doomed
  <2>2. QED
    BY <1>10, <2>1, Stutter DEF Midnight
<1>11. ASSUME NEW d \in Days, ExpireDay(d) PROVE Ledger!Forget(d)
  <2>1. \A s \in Requests : Answer(s) = "asked" => req[s].day # d
    BY <1>11, <1>i DEF ExpireDay, Answer, Doomed, PCs, InFlight, Ended, Reserving, Watching, Charged, Holding
  <2>2. \A s \in Requests : Answer(s)' =
          IF Answer(s) = "granted" /\ req[s].day = d THEN "settled" ELSE Answer(s)
    BY <1>11, <1>i DEF ExpireDay, Answer, Doomed, PCs, InFlight, Ended, Reserving, Watching, Charged, Holding
  <2>3. QED
    BY <1>11, <2>1, <2>2 DEF ExpireDay, Ledger!Forget
<1>12. CASE UNCHANGED vars
  <2>1. Ans' = Ans
    BY <1>12 DEF Ans, Answer, Doomed
  <2>2. QED
    BY <1>12, <2>1, Stutter
<1>13. QED
  BY <1>1, <1>2, <1>3, <1>4, <1>5, <1>6, <1>7, <1>8, <1>9, <1>10, <1>11, <1>12
     DEF Next, Reserve, Enqueue, Ledger!Next

\* Whenever a limit is configured, every behaviour of the optimistic
\* transaction is one of the atomic ledger (simulation_quota_service.py:12-18).
THEOREM TransactionImplementsLedger ==
  ASSUME ~Unlimited
  PROVE  Spec => ImplementsLedger
<1>1. Spec => []IInv
  BY InitIInv, NextIInv, PTL DEF Spec
<1>2. IInv /\ [Next]_vars => [Ledger!Next]_(Ledger!ledgerVars)
  BY LedgerStep
<1>3. QED
  BY <1>1, <1>2, LedgerInit, PTL DEF Spec, ImplementsLedger, Ledger!Spec
==============================================================================
