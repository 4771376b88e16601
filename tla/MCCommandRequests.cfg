SPECIFICATION FairSpec
CONSTANTS
  Key = {k1}
  Response = {ok, failed}
  None = None
  Pending = Pending
  CompactAfter = 4
  MaxLines = 9
  MaxSockets = 3
  MaxCrashes = 1
CHECK_DEADLOCK FALSE
PROPERTIES
  RequestsSettle
INVARIANTS
  StoredIsAnswer
