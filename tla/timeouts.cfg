SPECIFICATION SystemSpec
CONSTANTS
  MAX_USERS = 3
  MAX_CARDS = 2
  MIN_USER_PORT = 2
  WORKING_TIMEOUT = 1
  PING_TIMEOUT = 1
  Ports = {2, 3}
  Fds = {4, 5}
  CardIds = {1, 2}
  INITIAL_CARDS = 1
  Inputs = {}
  CreateColumns = {"TODO"}
  MoveColumns = {}
  Silent = {}
  Costs = {1}
  Typed = {"CREATE_CARD"}
  Faults = {"SIGNAL"}
  Mortal = {2}
  QUEUE = 1
  TimePasses = TRUE
  Prompt = TRUE
INVARIANTS DoingIsReal
CHECK_DEADLOCK FALSE
