CONSTANTS
  Code = {c1, c2}
  MaxOrders = 2
  MaxQty = 2
  Qty = {2}
  MaxNumber = 3
  MaxFaults = 1
  MaxWire = 2
  NoRequest = NoRequest
SPECIFICATION Spec
INVARIANTS TypeOK Placement NumbersMatch ViewAgrees ActiveAgrees
PROPERTIES ImplementsProtocol FinishedIsShown WaitingEnds
CHECK_DEADLOCK FALSE
