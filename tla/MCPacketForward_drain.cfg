SPECIFICATION FairSpec
CONSTANTS
  InPorts <- OnePort
  OutPorts <- FirstThree
  Contexts = {c1, c2}
  Threads = {t1, t2}
  RingSize = 2
  Arrivals <- OnePortArrivals
  ForwardRing <- RingZero
  EntlSender <- SenderOne
  None = None
PROPERTIES EveryPacketLeaves RingServes
CHECK_DEADLOCK FALSE
