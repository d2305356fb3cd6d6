\* Three requests of two accounts over one midnight; two transaction passes.
CONSTANTS
  u1 = u1
  u2 = u2
  r1 = r1
  r2 = r2
  r3 = r3
  Users <- MCUsers
  Requests <- MCRequests
  MaxDay = 1
  MaxScenarios = 2
  UserLimit = 2
  GlobalLimit = 3
  MaxAttempts = 2
SPECIFICATION Spec
SYMMETRY Symmetry
INVARIANTS WithinLimits CountersMatchReservations QueuedWithinLimits
PROPERTIES ImplementsLedger
CHECK_DEADLOCK FALSE
