---------------------------- MODULE MCLapBroadcast ----------------------------
(* Model values for LapBroadcast. *)
EXTENDS LapBroadcast

CONSTANTS v1, v2, b1, b2

TwoViewers == {v1, v2}
TwoBroadcasters == {b1, b2}
==============================================================================
