SPECIFICATION Spec
CONSTANTS
  None = None
  DevIds = {1, 2, 3}
  Sites = {"lab", "house"}
  Channels = {1, 3, 6, 11, 36, 40, 44, 52, 161, 165}
  Readings <- ReadingsEdit
  Installations <- AllInstallations
  Asks <- AllAsks
INVARIANTS TypeOK PairsSpread
PROPERTIES CleanChannelChosen ContentionNeverGrows
CHECK_DEADLOCK FALSE
