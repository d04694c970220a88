SPECIFICATION Spec
CONSTANTS
  MAX_USERS = 3
  Ports = {2, 3}
  CardIds = {1, 2}
  Costs = {1, 2}
  Users = {2}
  Typed = {}
  Faults = {"P2P"}
  Mortal = {}
  QUEUE = 1
PROPERTIES ShutdownHeeded
CHECK_DEADLOCK FALSE
