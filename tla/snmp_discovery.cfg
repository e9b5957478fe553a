SPECIFICATION Spec
CONSTANTS
  None = None
  Switches <- AllSwitches
  Futures <- AllFutures
  OuiOf <- Oui
  BulkSize = 2
  MaxRows = 3
  MaxLookups = 1
  MaxChanges = 1
  MaxBreaks = 1
INVARIANTS TypeOK FieldsWereTrue SteadyIsExact LossOnlyHides
PROPERTIES DiscoveryReturns
CHECK_DEADLOCK FALSE
