SPECIFICATION Spec
CONSTANTS
  InPorts <- LastIn
  OutPorts <- LastOut
  Contexts = {c1, c2, c3}
  Threads = {t1, t2}
  RingSize = 2
  Arrivals <- LastArrivals
  ForwardRing <- RingZero
  EntlSender <- SenderOne
  None = None
INVARIANTS TypeOK OrderInv EventInv LeaveInOrder BufferFreedOnce MutexedRegion NumbersUnique
SYMMETRY Alike
CHECK_DEADLOCK FALSE
