CONSTANTS
  A = A
  B = B
  Modulus = 16
  CountMax = 2
  ValueA = 2
  ValueB = 1
  OffersA <- TwoAits
  OffersB <- OneAlo
  Redraw <- RedrawCross
  MyValue <- MCMyValue
  Offers <- MCOffers
  Starters = {A, B}
  Polling = {}
  QueueLimit = 2
  QueueMax = 3
  Rejecting = {}
  Initiates = {TRUE}
  Lossy = FALSE
  FaultMax = 3
  ChanMax = 3
  FaultKinds = {"early", "repeat", "restart", "down"}
SPECIFICATION FaultySpec
INVARIANTS OneLiveHolder AitAtMostOnce HolderInv DeliveryInv
CHECK_DEADLOCK FALSE
