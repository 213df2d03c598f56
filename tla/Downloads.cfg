SPECIFICATION DSpec
CONSTANTS
  Req = {r1, r2}
  Get = {g1}
  NFiles = 2
  TTL = 1
  SweepEvery = 1
  Stall = 1
  IOErrors = TRUE
  MaxClock = 4
  MaxCrash = 1
  NoReq = NoReq
SYMMETRY ReqSymmetry
INVARIANTS TypeOK NoTornFile
PROPERTIES ImplementsStore LinksLive
CHECK_DEADLOCK FALSE
