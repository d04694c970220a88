SPECIFICATION FairSpec
CONSTANTS
  MAX_USERS = 3
  Ports = {2, 3}
  CardIds = {1, 2}
  Costs = {1}
  Users = {2}
  Typed = {"ACK_CARD", "QUIT"}
  Faults = {"P2P"}
  Mortal = {}
  QUEUE = 1
INVARIANTS OneWorker NotBlocked
PROPERTIES DoneAfterWork StopsWhenAsked
CHECK_DEADLOCK FALSE
