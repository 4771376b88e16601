SPECIFICATION Spec
CONSTANTS
  Plain = {m1}
  Release = {}
  Abort = {a1}
  Ledger = {l1}
  Prepare = {p1}
  Shutdown = {s1}
  Evictor = {e1, e2, e3}
  None = None
CHECK_DEADLOCK FALSE
INVARIANTS
  TypeOK
  EvictorsExclude
  CheckpointIsQuiet
  NoStopDuringCheckpoint
  NoLostWakeup
PROPERTIES
  HeldCommandsGoOn
