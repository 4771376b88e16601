SPECIFICATION Spec
CONSTANTS
  MaxMessages = 1
  MaxAssistants = 1
  MaxCalls = 2
  MaxFaults = 2
CHECK_DEADLOCK FALSE
INVARIANTS
  TypeOK
  CallsAnswered
  StartedToolsSettle
  OutcomesAreTrue
PROPERTIES
  AbortSettles
