SPECIFICATION Spec
CONSTANTS
  None = None
  TableNames = {"samples", "switch_ports", "vlans"}
  Migrated = "switch_ports"
  IndexesOf <- MCIndexesOf
  Columns <- MCColumns
  Releases <- MCReleases
  MaxKills = 3
  MaxLocks = 2
INVARIANT TypeOK
INVARIANT ServesWhole
PROPERTY Idempotent
PROPERTY ServesInTheEnd
CHECK_DEADLOCK FALSE
