SPECIFICATION Spec
CONSTANTS
  h1 = h1  h2 = h2  p1 = p1  p2 = p2  x = x  y = y
  None = None
  DevIds = {1, 2}
  VlanPks = {1, 2, 3, 4, 5}
  PortPks = {1, 2, 3, 4, 5, 6, 7, 8, 9, 10, 11, 12}
  Vids = {10, 20}
  Names = {p1, p2}
  Descs = {x, y}
  Scans <- OneWalk
  PortForms <- TrunkForm
  InitSwitches = {1}
  InitVlans <- TwoVlans
  InitPorts <- OnePort
  Handlers = {h1, h2}
  Ops = {"discover"}
  MaxEvents = 2
INVARIANTS OneRowPerPort
CHECK_DEADLOCK FALSE
