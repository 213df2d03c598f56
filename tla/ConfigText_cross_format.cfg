SPECIFICATION Spec
CONSTANTS
  Unquotable = {}
  Public = {"p3"}
  Confs <- AnnotatedConfs
  MaxFaults <- NoFaults
  LookedAt = 8
INVARIANT CrossFormatEquivalence
CHECK_DEADLOCK FALSE
