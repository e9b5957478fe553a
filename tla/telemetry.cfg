SPECIFICATION Spec
CONSTANTS
  ap = ap
  box = box
  r1 = r1
  r2 = r2
  r3 = r3
  r4 = r4
  None = None
  Devices = {ap, box}
  Aps = {ap}
  Agents <- MCAgents
  Futures <- MCFutures
  Radios <- MCRadios
  InitRadios = {r1, r2}
  MaxCores = 3
  MaxTroubles = 2
INVARIANT TypeOK
INVARIANT AlarmsWereTrue
INVARIANT SteadyIsTold
PROPERTY SettlesDown
