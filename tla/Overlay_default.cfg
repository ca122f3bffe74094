SPECIFICATION Spec
CONSTANTS
  Peer = {"p", "q"}
  Addr = {"a", "b", "c"}
  Derived <- DerivedAddr
  Moved = {}
  Next2 <- SecondAddr
  Conn = {"c1", "c2"}
  None = None
PROPERTIES
  DefaultDelivered
CHECK_DEADLOCK FALSE
