SPECIFICATION FairSpec
CONSTANTS
  t1 = t1
  t2 = t2
  s1 = s1
  s2 = s2
  Tasks <- MCTwoTasks
  Callers <- MCCallers
  Sessions <- MCOneSession
  NoTask = NoTask
  NoSession = NoSession
  CloseTask = CloseTask
  MaxCrashes = 1
  MaxFaults = 0
PROPERTIES
  EventuallyTerminal
  SubmitAnswers
  CloseEnds
