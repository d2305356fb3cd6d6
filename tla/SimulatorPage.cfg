\* Two drivers, up to three scenarios and one pit stop, two presses of Run.
CONSTANTS
  d1 = d1
  d2 = d2
  Live = Live
  LastIngested = LastIngested
  Chosen = Chosen
  None = None
  Drivers <- TwoDrivers
  MAX_SCENARIOS = 3
  MaxStops = 1
  MaxLeft = 1
  Visits <- TwoVisits
SPECIFICATION FairSpec
INVARIANTS ScreenMatchesTask
PROPERTIES NobodyStranded EditsSurvivePolls
CHECK_DEADLOCK FALSE
