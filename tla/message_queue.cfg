SPECIFICATION Spec
CONSTANTS
  MaxMessages = 6
  MaxCalls = 6
INVARIANTS
  CallsInOrder
  NobodyWaitsInVain
  MessagesBeforeEnd
CHECK_DEADLOCK FALSE
