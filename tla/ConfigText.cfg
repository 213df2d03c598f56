SPECIFICATION Spec
CONSTANTS
  Public = {"p3"}
  Unquotable = {}
  Confs <- MCConfs
  MaxFaults <- Faults2
  LookedAt = 8
INVARIANTS TypeOK ReadIsSaid UnwarnedPoliciesWhole WrongFormatRefused CleanIsSilent AuditIsSaid
  InventoryIsSaid WorkbookAgreesWithAudit
CHECK_DEADLOCK FALSE
