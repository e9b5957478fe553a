SPECIFICATION Spec
CONSTANTS
  h1 = h1  h2 = h2  w1 = w1  w2 = w2  a = a  b = b  c = c
  None = None
  DevIds = {1, 2, 3}
  SampleIds = {1, 2, 3, 4, 5, 6}
  Addrs = {a, b, c}
  Forms <- MoveToC
  Results <- UpOrDown
  InitDevices <- OneFresh
  Handlers = {}
  Workers = {w1, w2}
  Ops = {}
  ExpireOnCommit = TRUE
  MaxEvents = 2
  MaxCycles = 1
PROPERTIES PollerPopulates
