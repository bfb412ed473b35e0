CONSTANTS
  A = A
  B = B
  Modulus = 4
  CountMax = 2
  ValueA = 2
  ValueB = 1
  OffersA <- OneAlo
  OffersB <- OneBoth
  Redraw <- RedrawAny
  MyValue <- MCMyValue
  Offers <- MCOffers
  Starters = {A, B}
  Polling = {}
  QueueLimit = 2
  QueueMax = 3
  Rejecting = {}
  Initiates = {TRUE, FALSE}
  Lossy = TRUE
  Width = 2
  RegCount = 1
  Commands <- FirstRegister
SPECIFICATION AloSpec
INVARIANTS AloTypeOK PendingOnlyInFlight AloInv
PROPERTIES OperationsAreAtomic
CHECK_DEADLOCK FALSE
