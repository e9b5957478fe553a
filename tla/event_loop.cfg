SPECIFICATION Spec
CONSTANTS
  None = None
  p1 = p1
  l1 = l1
  f1 = f1
  u1 = u1
  s1 = s1
  w1 = w1
  Polls = {p1}
  Looks = {l1}
  Forms = {f1}
  Puts = {u1}
  Shells = {s1}
  Writes = {w1}
  PoolSize = 2
  Threads = 2
INVARIANTS TypeOK OneWriter AllGivenBack ThreadsGoOn
PROPERTIES EveryRequestEnds OwnerCommits
CHECK_DEADLOCK FALSE
