CONSTANTS
  A = A
  B = B
  Modulus = 6
  CountMax = 2
  ValueA = 2
  ValueB = 1
  OffersA <- OneAit
  OffersB <- OneAit
  Redraw <- RedrawAny
  MyValue <- MCMyValue
  Offers <- MCOffers
  Starters = {A, B}
  Polling = {}
  QueueLimit = 1
  QueueMax = 1
  Rejecting = {}
  Initiates = {TRUE}
  Lossy = FALSE
SPECIFICATION Spec
INVARIANTS RefusalIsAnswered
CHECK_DEADLOCK FALSE
