SPECIFICATION Spec
CONSTANTS
  Text <- MCText
  Lines <- MCLines
  Existing <- MCExisting
  Severity <- MCSeverity
INVARIANTS TypeOK PlainIsRead CarriedOutAsMeant ExitZeroMeansWritten ScriptBeforeRollback
CHECK_DEADLOCK FALSE
