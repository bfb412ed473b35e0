CONSTANTS
  A = A
  B = B
  Modulus = 6
  CountMax = 2
  ValueA = 2
  ValueB = 1
  OffersA <- AitBothAit
  OffersB <- NoOffers
  Redraw <- RedrawAny
  MyValue <- MCMyValue
  Offers <- MCOffers
  Starters = {A, B}
  Polling = {A}
  QueueLimit = 3
  QueueMax = 4
  Rejecting = {B}
  Initiates = {TRUE, FALSE}
  Lossy = FALSE
SPECIFICATION FairSpec
INVARIANTS RefusalIsAnswered
PROPERTIES EveryAitDelivered TokenKeepsMoving SilencedByReadingOn
CHECK_DEADLOCK FALSE
