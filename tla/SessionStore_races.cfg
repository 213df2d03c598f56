SPECIFICATION FairSpec
CONSTANTS
  Req = {r1, r2, r3}
  NFiles = 1
  TTL = 1
  SweepEvery = 0
  Stall = 1
  IOErrors = FALSE
  MaxClock = 2
  MaxCrash = 0
  NoReq = NoReq
INVARIANTS Retention WriterKeepsSession SweepsApart
PROPERTIES AnsweredUntouched Answered SweepClears
CHECK_DEADLOCK FALSE
