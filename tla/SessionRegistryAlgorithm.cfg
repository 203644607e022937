SPECIFICATION FairSpec
CONSTANTS
  algorithm = algorithm
  motion = motion
  c1 = c1
  c2 = c2
  c3 = c3
  Modules <- MCAlgorithm
  Patient <- MCAlgorithm
  Conns <- MCConns
  NoConn = NoConn
  NoModule = NoModule
  MaxFaults = 2
  MaxQueue = 2
PROPERTY ComesBack
