SPECIFICATION Spec
CONSTANTS
  MAX_USERS = 3
  Ports = {2, 3}
  CardIds = {1}
  Costs = {1}
  Users = {2}
  Typed = {"HELLO", "CREATE_CARD", "PONG_LAVAGNA", "CHOOSE_USER", "ACK_CARD", "CARD_DONE", "QUIT"}
  Faults = {"BIND", "CONNECT", "SIGNAL"}
  Mortal = {2}
  QUEUE = 1
INVARIANTS TypeOK
PROPERTIES HelloWhenListening ShutdownHeeded
CHECK_DEADLOCK FALSE
