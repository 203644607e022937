\* Two task ids, two task objects, one SQLite error.
SPECIFICATION FairSpec
CONSTANTS
  n1 = n1
  n2 = n2
  o1 = o1
  o2 = o2
  NoObj = NoObj
  Http = Http
  NoPlan = NoPlan
  Names <- MCNames
  Objs <- MCTwoObjs
  MaxFaults = 1
INVARIANTS
  DInv
  PerceptionIsServed
  AwaitingIsServed
  OneAtATime
  OneResult
PROPERTIES
  VerdictStands
  TaskEndsUnlessFault
