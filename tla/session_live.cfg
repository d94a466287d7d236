SPECIFICATION FairSpec
CONSTANTS
  None = None
  Subscriptions = {a, b}
  PreSubscribed = {a}
  OperationTimeout = 3000
  MaxSends = 2
  MaxReceives = 2
  MaxMessages = 1
  Faults = {}
  Requests <- LiveRequests
PROPERTIES
  SendsSettle
  ReceivesServed
