\* Two cars that overtake each other, two workers, one failure.
CONSTANTS
  d1 = d1
  d2 = d2
  u1 = u1
  u2 = u2
  w1 = w1
  w2 = w2
  NoCar = NoCar
  Users <- BothUsers
  Drivers <- TwoDrivers
  Grid <- TwoGrid
  SubscribersTo <- BothFollowTheSecond
  Workers <- TwoWorkers
  MaxFailures = 1
  ClaimOutlives = TRUE
SPECIFICATION UndercutFairSpec
INVARIANTS UndercutTypeOK
PROPERTIES OneAlertPerClaim ThreatIsAlerted
CHECK_DEADLOCK FALSE
