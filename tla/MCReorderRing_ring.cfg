SPECIFICATION FairSpec
CONSTANTS
  Contexts = {c1, c2, c3, c4}
  RingSize = 4
  Packets = 6
  None = None
INVARIANTS OldestAlone SignalsMatchWaiters IInv
PROPERTY EveryPacketPasses
CHECK_DEADLOCK FALSE
