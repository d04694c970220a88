SPECIFICATION Spec
CONSTANTS
  MAX_USERS = 3
  Ports = {2, 3}
  CardIds = {1, 2}
  Costs = {1, 2}
  Users = {2}
  Typed = {"CARD_DONE"}
  Faults = {}
  Mortal = {}
  QUEUE = 1
INVARIANTS NotBlocked
CHECK_DEADLOCK FALSE
