--------------------------- MODULE MCUndercutAlerts ---------------------------
(* Model values for UndercutAlerts: both users follow d2 and nobody else. *)
EXTENDS UndercutAlerts

CONSTANTS d1, d2, u1, u2, w1, w2

TwoDrivers == {d1, d2}
TwoGrid == <<d1, d2>>
BothUsers == {u1, u2}
TwoWorkers == {w1, w2}
BothFollowTheSecond == [d \in TwoDrivers |-> IF d = d2 THEN BothUsers ELSE {}]
==============================================================================
