CONSTANTS
  A = A
  B = B
  Modulus = 6
  CountMax = 2
  ValueA = 2
  ValueB = 1
  MyValue <- MCMyValue
  Redraw <- MCRedraw
  Receivers = {r1}
  Buffers = {b1, b2}
  Own = own
  NoBuffer = none
  HostKinds = {"NONE"}
  Overtaking = FALSE
  Lossy = TRUE
SPECIFICATION FairSpec
PROPERTIES WaitEnds
CHECK_DEADLOCK FALSE
