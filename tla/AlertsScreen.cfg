SPECIFICATION FairSpec
CONSTANTS
  a1 = a1
  a2 = a2
  Alerts <- MCAlerts
  Types <- MCTypes
  TypeOf <- MCTypeOf
  None = None
  MaxFaults = 1
INVARIANTS ShownReadIsRead
PROPERTIES MarkedStaysRead LostAnswersHeal
CHECK_DEADLOCK FALSE
