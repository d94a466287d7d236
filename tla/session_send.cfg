SPECIFICATION Spec
CONSTANTS
  None = None
  Subscriptions = {a}
  PreSubscribed = {}
  OperationTimeout = 3000
  MaxSends = 3
  MaxReceives = 0
  MaxMessages = 0
  Faults = {"read", "write", "body", "malformed", "error", "other"}
  Requests <- SendRequests
INVARIANTS
  OneWriter
  SendsInOrder
  NothingAfterDisconnect
  NoStrandedSend
  NoForgottenSend
  ReceiptMeansProcessed
  ReceiptsCumulative
