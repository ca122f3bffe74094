SPECIFICATION FairSpec
CONSTANTS
  Client = {1}
  Patient = {}
  Asks <- AskAny
  Gateway = {"g"}
  None = None
  MaxChanges = 1
  MaxRestarts = 0
PROPERTIES
  GatewayPinned
CHECK_DEADLOCK FALSE
