SPECIFICATION Spec
CONSTANTS
  Book = {1, 2}
  Name = {1, 2, 3, 4, 5}
  p1 = p1
  p2 = p2
  q = q
  Prefix = {p1, p2, q}
  NoAddr = NoAddr
  Blank = Blank
  Invalid = Invalid
  IPNamed <- MCIPNamed
  FromName <- MCFromName
  Place <- MCPlace
  Seen <- MCSeen
  Unquotable = {"odd"}
  Scope <- MCScope
  Confs <- MCConfs
  Sheets <- MCSheets
INVARIANTS TypeOK SafeAtEveryLine Renamed Restored
CHECK_DEADLOCK FALSE
