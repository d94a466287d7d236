SPECIFICATION Spec
CONSTANTS
  None = None
  Subscriptions = {a}
  PreSubscribed = {}
  OperationTimeout = 3000
  MaxSends = 2
  MaxReceives = 0
  MaxMessages = 0
  Faults = {}
  Requests <- SendRequests
INVARIANT
  ClosedQueueEmpty
