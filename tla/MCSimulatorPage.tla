--------------------------- MODULE MCSimulatorPage ---------------------------
(* Model values for SimulatorPage: a user who works on the driver and the     *)
(* state of the race and presses Run once, and one who designs plans and      *)
(* presses it twice, the second time perhaps before the first is answered.    *)
EXTENDS SimulatorPage

CONSTANTS d1, d2

TwoDrivers == {d1, d2}
TwoVisits == [c \in {{"race"}, {"plan"}} |-> IF c = {"race"} THEN 1 ELSE 2]
==============================================================================
