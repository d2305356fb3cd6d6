------------------------- MODULE MCSingleFlightCache -------------------------
(* Model values for SingleFlightCache: three calls where everything the       *)
(* properties assume holds or only a process may die between two stores; two  *)
(* where another assumption fails, or all of them.                            *)
EXTENDS SingleFlightCache

CONSTANTS c1, c2, c3

ThreeCallers == {c1, c2, c3}
Without(a) == Assumptions \ {a}
Surroundings ==
  [a \in {Assumptions, {}} \cup {Without(x) : x \in Assumptions} |->
     IF a \in {Assumptions, Without("storesWhole")} THEN ThreeCallers ELSE {c1, c2}]
==============================================================================
