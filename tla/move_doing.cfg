SPECIFICATION Spec
CONSTANTS
  MAX_USERS = 2
  MAX_CARDS = 2
  MIN_USER_PORT = 2
  WORKING_TIMEOUT = 1
  PING_TIMEOUT = 1
  Ports = {2, 3}
  Fds = {4, 5}
  CardIds = {1, 2}
  INITIAL_CARDS = 2
  Inputs = {}
  CreateColumns = {"TODO"}
  MoveColumns = {"DOING"}
  Silent = {}
PROPERTIES LeaverReturnsCards
