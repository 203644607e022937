\* Two tasks, one id or two, two objects a scene, a bad frame or a stop.
SPECIFICATION FairSpec
CONSTANTS
  n1 = n1
  n2 = n2
  NoTask = NoTask
  Names <- MCNames
  MockTotal = 2
  MaxStarts = 2
  MaxNoise = 1
INVARIANTS
  CountIsTrue
  SceneIsSorted
PROPERTY GoesQuiet
CHECK_DEADLOCK FALSE
