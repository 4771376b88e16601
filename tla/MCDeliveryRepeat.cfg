SPECIFICATION Spec
CONSTANTS
  Key = {k1}
  Response = {ok}
  None = None
  Pending = Pending
  CompactAfter = 4
  MaxLines = 9
  MaxSockets = 2
  MaxCrashes = 0
CHECK_DEADLOCK FALSE
PROPERTIES
  RepeatReturnsStored
