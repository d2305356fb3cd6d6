\* The same instance; the claim of the auto-fill's comment.
CONSTANTS
  d1 = d1
  d2 = d2
  Live = Live
  LastIngested = LastIngested
  Chosen = Chosen
  None = None
  Drivers <- TwoDrivers
  MAX_SCENARIOS = 3
  MaxStops = 1
  MaxLeft = 1
  Visits <- TwoVisits
SPECIFICATION Spec
INVARIANTS FilledFromThisSession
CHECK_DEADLOCK FALSE
