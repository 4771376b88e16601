SPECIFICATION Spec
CONSTANTS
  MaxMessages = 2
  MaxAssistants = 2
  MaxCalls = 1
  MaxFaults = 1
CHECK_DEADLOCK FALSE
INVARIANTS
  RequestIsTranscript
  MessagesKept
