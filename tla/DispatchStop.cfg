\* No SQLite error: a task that was stopped and planned.
SPECIFICATION Spec
CONSTANTS
  n1 = n1
  n2 = n2
  o1 = o1
  o2 = o2
  NoObj = NoObj
  Http = Http
  NoPlan = NoPlan
  Names <- MCOneName
  Objs <- MCTwoObjs
  MaxFaults = 0
INVARIANT StopIsFinal
