SPECIFICATION Spec
CONSTANTS
  MaxMessages = 1
  MaxAssistants = 1
  MaxCalls = 0
  MaxFaults = 1
CHECK_DEADLOCK FALSE
INVARIANTS
  AgentEndIsFinal
