\* Two joints, up to three branches, two environments that differ.
SPECIFICATION Spec
CONSTANTS
  shoulder = shoulder
  wrist = wrist
  NoRef = NoRef
  Joints <- MCJoints
  Turn = 16
  Lo <- MCLo
  Hi <- MCHi
  Config <- MCConfig
  AlgTol = 1
  DupTol = 4
  GateTol = 2
  MatchTol = 3
  References <- MCReferences
  Forces <- MCForces
  Raw <- MCRaw
  MaxRoots = 3
  MaxPeriod = 22
INVARIANTS
  PlannedIsAccepted
  NearestPlan
  UnreachableIsTrue
  RespectsPeaks
  CInv
