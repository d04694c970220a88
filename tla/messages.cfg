SPECIFICATION FairSpec
CONSTANTS
  HEADER = 2
  Lengths = {0, 2, 3}
  MAX_PAYLOAD_SIZE = 2
  BUFFER = 4
  SENT = 3
  Foreign = TRUE
INVARIANTS TypeOK
PROPERTIES IsChannel Delivered ReceiveReturns
CHECK_DEADLOCK FALSE
