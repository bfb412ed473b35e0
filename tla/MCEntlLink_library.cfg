CONSTANTS
  A = A
  B = B
  Modulus = 6
  CountMax = 2
  ValueA = 2
  ValueB = 1
  OffersA <- AitBothAit
  OffersB <- AitAloBoth
  Redraw <- RedrawAny
  MyValue <- MCMyValue
  Offers <- MCOffers
  Starters = {A, B}
  Polling = {}
  QueueLimit = 3
  QueueMax = 4
  Rejecting = {}
  Initiates = {TRUE, FALSE}
  Lossy = TRUE
SPECIFICATION Spec
INVARIANTS TypeOK OneHolder NoSequenceError AitExactlyOnce NoFutureEvent IInv AgreementInv
PROPERTIES TransfersImplemented
CHECK_DEADLOCK FALSE
