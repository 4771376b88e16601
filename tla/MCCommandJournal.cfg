SPECIFICATION JournalSpec
CONSTANTS
  Key = {k1, k2}
  Response = {ok, failed}
  None = None
  Pending = Pending
  CompactAfter = 4
  MaxLines = 6
SYMMETRY Symmetry
INVARIANTS
  JournalTypeOK
  FileLoads
  MapIsDurable
PROPERTIES
  ReceiptsSurvive
  TornTailIsFinal
