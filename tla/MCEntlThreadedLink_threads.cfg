CONSTANTS
  A = A
  B = B
  Modulus = 6
  CountMax = 3
  ValueA = 2
  ValueB = 1
  MyValue <- MCMyValue
  Redraw <- MCRedraw
  Receivers = {r1, r2, r3}
  Buffers = {b1, b2, b3}
  Own = own
  NoBuffer = none
  HostKinds = {"NONE", "ALO"}
  Overtaking = TRUE
  Lossy = TRUE
SPECIFICATION Spec
INVARIANTS TypeOK AnswerPrompted BufferOwnedOnce NoSequenceError
PROPERTIES LeaksEndWithGreeting
SYMMETRY Alike
CHECK_DEADLOCK FALSE
