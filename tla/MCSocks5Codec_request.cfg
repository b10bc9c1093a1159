CONSTANTS
  Panic = Panic
  MaxLen = 26
  MaxName = 3
SPECIFICATION RequestSpec
INVARIANT RequestRoundTrip
