\* One SQLite error: a task that never ends.
SPECIFICATION FairSpec
CONSTANTS
  n1 = n1
  n2 = n2
  o1 = o1
  o2 = o2
  NoObj = NoObj
  Http = Http
  NoPlan = NoPlan
  Names <- MCOneName
  Objs <- MCTwoObjs
  MaxFaults = 1
PROPERTY TaskEnds
