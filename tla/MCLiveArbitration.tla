-------------------------- MODULE MCLiveArbitration --------------------------
(* Model values for LiveArbitration: two starts, a stop, a status probe and   *)
(* two polls, all of which may overlap and fail.                              *)
EXTENDS LiveArbitration

CONSTANTS s1, s2, k1, q1, t1, t2

TwoStarts == {s1, s2}
OneStop == {k1}
OneWatcher == {q1}
TwoPolls == {t1, t2}
==============================================================================
