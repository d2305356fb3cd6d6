-------------------------- MODULE MCSimulationQuota --------------------------
(* Model values for SimulationQuota: accounts and requests are symmetric. *)
EXTENDS SimulationQuota, TLC

CONSTANTS u1, u2, r1, r2, r3

MCUsers == {u1, u2}
MCRequests == {r1, r2, r3}
Symmetry == Permutations(MCUsers) \cup Permutations(MCRequests)
==============================================================================
