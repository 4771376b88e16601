SPECIFICATION Spec
CONSTANTS
  Plain = {m1, m2}
  Release = {}
  Abort = {}
  Ledger = {}
  Prepare = {}
  Shutdown = {}
  Evictor = {e1, e2}
  None = None
CHECK_DEADLOCK FALSE
INVARIANTS
  NoStopDuringMutation
