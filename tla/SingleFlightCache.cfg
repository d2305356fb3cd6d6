\* Three callers, two versions of the data; both variants; computations fail,
\* processes die and both keys expire at any time.
CONSTANTS
  c1 = c1
  c2 = c2
  c3 = c3
  Missing = Missing
  NotFound = NotFound
  Free = Free
  Callers <- ThreeCallers
  MaxVersion = 2
  Scenarios <- Surroundings
SPECIFICATION FairSpec
INVARIANTS StampedeComputesOnce ReadsNeverGoBack
PROPERTIES EveryCallReturns
CHECK_DEADLOCK FALSE
