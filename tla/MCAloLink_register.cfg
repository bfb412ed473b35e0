CONSTANTS
  A = A
  B = B
  Modulus = 6
  CountMax = 2
  ValueA = 2
  ValueB = 1
  OffersA <- OneAlo
  OffersB <- NoOffers
  Redraw <- RedrawAny
  MyValue <- MCMyValue
  Offers <- MCOffers
  Starters = {A, B}
  Polling = {}
  QueueLimit = 2
  QueueMax = 3
  Rejecting = {}
  Initiates = {TRUE, FALSE}
  Lossy = TRUE
  Width = 1
  RegCount = 2
  Commands <- SecondRegister
SPECIFICATION AloSpec
PROPERTIES OperationsFindTheirRegister
CHECK_DEADLOCK FALSE
