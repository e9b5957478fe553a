SPECIFICATION Spec
CONSTANTS
  h1 = h1  h2 = h2  w1 = w1  w2 = w2  a = a  b = b  c = c
  None = None
  DevIds = {1, 2, 3}
  SampleIds = {1, 2, 3, 4, 5, 6}
  Addrs = {a, b, c}
  Forms <- MoveToC
  Results <- UpOrDown
  InitDevices <- OneFresh
  Handlers = {h1, h2}
  Workers = {w1, w2}
  Ops = {"poll", "delete", "create"}
  ExpireOnCommit = TRUE
  MaxEvents = 3
  MaxCycles = 0
INVARIANTS SampleIsOfItsDevice
