SPECIFICATION Spec
CONSTANTS
  Conns = {1, 2, 3}
  Fds = {4, 6, 7}
  Listen = 3
  FD_SETSIZE = 7
  Terminal = TRUE
  CloseOthers = TRUE
INVARIANTS NeverWaits
CHECK_DEADLOCK FALSE
