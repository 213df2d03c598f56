SPECIFICATION Spec
CONSTANTS
  a = a
  b = b
  c = c
  x = x
  o = o
  in = in
  out = out
  Zones = {in, out}
  NoZones = NoZones
  Name = {a, b, c}
  Unquotable = {c}
  Attr = {x}
  Option = {o}
  Nodes = 2
  MaxEdits = 1
  Devices <- MCDevices
  Added <- MCAdded
  Options <- MCOptions
INVARIANT NeverMatchedOnly
CHECK_DEADLOCK FALSE
