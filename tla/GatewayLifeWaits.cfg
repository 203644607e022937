\* wait_closed() of Python 3.12, no fault at all, one module that stays.
SPECIFICATION FairSpec
CONSTANTS
  p1 = p1
  p2 = p2
  c1 = c1
  c2 = c2
  NoProc = NoProc
  Procs <- MCOne
  Conns <- MCConns
  Waits = TRUE
  MaxFaults = 0
PROPERTY CloseReturns
