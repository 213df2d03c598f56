SPECIFICATION Spec
CONSTANTS
  Key = {k1, k2}
  Rate = 1
  Cost = 2
  Burst = 5
  MaxClock = 6
SYMMETRY KeySymmetry
INVARIANTS TypeOK WindowBound RefusalJustified
CHECK_DEADLOCK FALSE
