\* Two processes, two connections, three faults, wait_closed() of Python 3.11.
SPECIFICATION FairSpec
CONSTANTS
  p1 = p1
  p2 = p2
  c1 = c1
  c2 = c2
  NoProc = NoProc
  Procs <- MCProcs
  Conns <- MCConns
  Waits = FALSE
  MaxFaults = 3
INVARIANTS
  LInv
  AloneOnDatabase
  RunningIsPlanning
PROPERTY CloseReturns
