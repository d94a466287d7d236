SPECIFICATION FairSpec
CONSTANTS
  None = None
  Subscriptions = {a}
  PreSubscribed = {}
  OperationTimeout = 3000
  MaxSends = 1
  MaxReceives = 1
  MaxMessages = 1
  Faults = {}
  Requests <- SendRequests
PROPERTY
  ClosedReceiveSettles
