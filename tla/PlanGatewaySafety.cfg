\* Two requests, two motion connections, one crash, one SQLite error.
SPECIFICATION Spec
CONSTANTS
  t1 = t1
  t2 = t2
  s1 = s1
  s2 = s2
  Tasks <- MCTwoTasks
  Callers <- MCCallers
  Sessions <- MCSessions
  NoTask = NoTask
  NoSession = NoSession
  CloseTask = CloseTask
  MaxCrashes = 1
  MaxFaults = 1
SYMMETRY SessionSymmetry
INVARIANTS
  PlanningHasOwner
  SinglePlan
  NoMissedDisconnect
  PlannedIsAnswered
  ToldIsRecorded
  ClosedIsQuiet
  IInv
PROPERTY KeepsLedger
