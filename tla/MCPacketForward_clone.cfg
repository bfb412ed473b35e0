SPECIFICATION Spec
CONSTANTS
  InPorts <- OnePort
  OutPorts <- FirstThree
  Contexts = {c1}
  Threads = {t1}
  RingSize = 2
  Arrivals <- OnePortArrivals
  ForwardRing <- RingZero
  EntlSender <- SenderOne
  None = None
INVARIANT ClonesIntact
CHECK_DEADLOCK FALSE
