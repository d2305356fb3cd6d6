---------------------------- MODULE MCLiveRanking ----------------------------
(* Model values for LiveRanking: three cars, one of which may stop. *)
EXTENDS LiveRanking

ThreeCars == {1, 2, 3}
OneFragile == {1}
OneGrid == {<<2, 1, 3>>}
Steady == {1}
Either == {TRUE, FALSE}
==============================================================================
