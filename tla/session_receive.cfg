SPECIFICATION Spec
CONSTANTS
  None = None
  Subscriptions = {a, b}
  PreSubscribed = {}
  OperationTimeout = 3000
  MaxSends = 2
  MaxReceives = 2
  MaxMessages = 2
  Faults = {"write", "body", "other"}
  Requests <- SubscriptionRequests
SYMMETRY Symmetry
INVARIANTS
  TypeOK
  PendingIsRead
  ReadsCoverRequests
  BodyBeforeNextFrame
  ParkedHeld
PROPERTIES
  TerminateSettles
  DeliverySpec
