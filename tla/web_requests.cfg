SPECIFICATION Spec
CONSTANTS
  h1 = h1  h2 = h2  w1 = w1  w2 = w2  a = a  b = b  c = c
  None = None
  DevIds = {1, 2, 3, 4, 5, 6}
  SampleIds = {1, 2, 3, 4}
  Addrs = {a, b, c}
  Forms <- MoveOrSwap
  Results <- UpOrErrors
  InitDevices <- SwitchAndAP
  Handlers = {h1, h2}
  Workers = {w1}
  Ops = {"poll", "discover", "edit", "put", "create", "delete", "recompute", "restart"}
  ExpireOnCommit = TRUE
  MaxEvents = 4
  MaxCycles = 1
INVARIANTS TypeOK UniqueAddress NoDanglingRows TelemetryAgrees
PROPERTIES ColumnsStayApart
SYMMETRY Interchangeable
