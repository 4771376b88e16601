SPECIFICATION Spec
CONSTANTS
  Key = {k1, k2}
  Response = {ok}
  None = None
  Pending = Pending
  CompactAfter = 4
  MaxLines = 9
  MaxSockets = 3
  MaxCrashes = 1
SYMMETRY Symmetry
CHECK_DEADLOCK FALSE
INVARIANTS
  TypeOK
  AtMostOnce
  ReceiptOutlivesRequest
PROPERTIES
  ImplementsService
