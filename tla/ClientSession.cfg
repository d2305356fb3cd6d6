SPECIFICATION FairSpec
CONSTANTS
  alice = alice
  bob = bob
  Accounts <- MCAccounts
  Slots <- MCSlots
  None = None
  AccountOf <- MCAccountOf
  MaxAccess = 2
  MaxFaults = 1
INVARIANTS StoreAgreesWithLogin
PROPERTIES EveryRequestSettles SupersededLogsOut
CHECK_DEADLOCK FALSE
