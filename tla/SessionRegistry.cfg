\* The client that gives an unregistered connection up, and two failures.
SPECIFICATION FairSpec
CONSTANTS
  algorithm = algorithm
  motion = motion
  c1 = c1
  c2 = c2
  c3 = c3
  Modules <- MCMotion
  Patient <- MCNobody
  Conns <- MCConns
  NoConn = NoConn
  NoModule = NoModule
  MaxFaults = 2
  MaxQueue = 2
INVARIANTS
  RInv
  AckedIsRegistered
  EveryLossIsTold
PROPERTY ComesBack
