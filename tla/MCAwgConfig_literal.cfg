CONSTANTS
  Inputs <- HeaderInputs
  MaxU32 = 4095
  Absent = Absent
  NotANumber = NotANumber
  EmptyPart = EmptyPart
SPECIFICATION StartupSpec
CHECK_DEADLOCK FALSE
INVARIANT HeaderLiteralRoundTrip
