SPECIFICATION Spec
CONSTANTS
  h1 = h1  h2 = h2  p1 = p1  p2 = p2  x = x  y = y
  None = None
  DevIds = {1, 2}
  VlanPks = {1, 2, 3, 4, 5}
  PortPks = {1, 2, 3, 4, 5, 6, 7, 8, 9, 10, 11, 12}
  Vids = {10, 20}
  Names = {p1, p2}
  Descs = {x, y}
  Scans <- AllWalks
  PortForms <- PortEdits
  InitSwitches = {1, 2}
  InitVlans <- OneVlan
  InitPorts <- TwoPorts
  Handlers = {h1, h2}
  Ops = {"discover", "add port", "edit port", "delete port", "add vlan", "edit vlan", "delete vlan", "add switch", "delete switch"}
  MaxEvents = 4
SYMMETRY Interchangeable
INVARIANTS TypeOK UniqueVlan NoOrphanPorts
PROPERTIES UndisturbedUpsert DiscoveryKeepsEdits
CHECK_DEADLOCK FALSE
