SPECIFICATION Spec
CONSTANTS
  h1 = h1  h2 = h2  w1 = w1  w2 = w2  a = a  b = b  c = c
  None = None
  DevIds = {1, 2, 3, 4, 5}
  SampleIds = {1, 2, 3, 4, 5, 6}
  Addrs = {a, b, c}
  Forms <- MoveOrSwap
  Results <- UpHighDown
  InitDevices <- TwoFresh
  Handlers = {h1}
  Workers = {w1, w2}
  Ops = {"poll", "edit", "put", "create", "delete", "recompute", "restart"}
  ExpireOnCommit = FALSE
  MaxEvents = 2
  MaxCycles = 1
INVARIANTS NoDanglingRows TelemetryAgrees StatusIsNewestSample
PROPERTIES ImplementsTable
SYMMETRY Interchangeable
