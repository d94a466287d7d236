SPECIFICATION Spec
CONSTANTS
  None = None
  DesiredReadRate = 2
  DesiredWriteRate = 3
  DelayTolerance = 1
  CountsArrivals = TRUE
  PeerHeartBeats <- HeartBeats
INVARIANTS
  TypeOK
  WireIntact
  DeadPeerNoticed
  HeartBeatsSent
  FailedConnectCloses
PROPERTIES
  LivePeerKept
  FirstErrorStays
