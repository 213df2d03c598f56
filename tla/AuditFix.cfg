SPECIFICATION Spec
CONSTANTS
  Public = {}
  Unquotable = {"odd"}
  Devices <- MCDevices
  Changes <- MCChanges
  Floors = {"HIGH", "INFO"}
  MaxChanges = 2
INVARIANTS TypeOK FixClears FixHidesNothing LoadOpensNothing SafeNames
CHECK_DEADLOCK FALSE
