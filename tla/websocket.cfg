SPECIFICATION FairSpec
CONSTANTS
  MaxWrites = 3
  MaxArrivals = 3
  Kinds = {"bytes", "blob"}
INVARIANTS
  TypeOK
  OutputInOrder
  NoLostDrain
  InputInOrder
PROPERTIES
  EndSendsAll
  WritesSettle
