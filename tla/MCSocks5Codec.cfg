CONSTANTS
  Panic = Panic
  MaxLen = 26
  MaxName = 3
SPECIFICATION Spec
INVARIANT ParseWithinLayout
INVARIANT ReplyRoundTrip
