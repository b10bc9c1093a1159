CONSTANTS
  Inputs <- CompilerAndTestInputs
  MaxU32 = 4095
  Absent = Absent
  NotANumber = NotANumber
  EmptyPart = EmptyPart
SPECIFICATION StartupSpec
CHECK_DEADLOCK FALSE
INVARIANT TypeOK
INVARIANT AcceptedMeetsInvariants
INVARIANT OutcomeIsFirstViolation
INVARIANT HeaderRoundTrip
INVARIANT IpcGating
INVARIANT AllowedIpDefaults
INVARIANT TestsAgree
INVARIANT EngineRunsAcceptedConfig
