\* Two descriptors, two frames under way.
SPECIFICATION FairSpec
CONSTANTS
  f1 = f1
  f2 = f2
  NoFd = NoFd
  NoThread = NoThread
  Fds <- MCFds
  MaxInbox = 2
INVARIANTS
  SocketIsHeld
  CleanSlate
  LInv
  BrokenFrameIsFatal
PROPERTIES
  LossIsNoticed
  SilenceIsDropped
