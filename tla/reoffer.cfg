SPECIFICATION SystemSpec
CONSTANTS
  MAX_USERS = 3
  MAX_CARDS = 2
  MIN_USER_PORT = 2
  WORKING_TIMEOUT = 1
  PING_TIMEOUT = 1
  Ports = {2, 3, 4}
  Fds = {4, 5, 6}
  CardIds = {1}
  INITIAL_CARDS = 1
  Inputs = {}
  CreateColumns = {}
  MoveColumns = {}
  Silent = {}
  Costs = {1}
  Typed = {}
  Faults = {}
  Mortal = {2}
  QUEUE = 1
  TimePasses = FALSE
  Prompt = TRUE
INVARIANTS DoingIsReal
CHECK_DEADLOCK FALSE
