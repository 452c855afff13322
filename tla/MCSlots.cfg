CONSTANTS
  h1 = h1
  a = a
  b = b
  talk1 = talk1
  talk2 = talk2
  p1 = p1
  p2 = p2
  Shell = Shell
  Closed = Closed
  Empty = Empty
  Mixed = Mixed
  Absent = Absent
  Label = {a, b}
  Host = {h1}
  HostOf <- MCHostOf
  Session = {talk1, talk2}
  Proc = {p1, p2}
  MaxRolls = 3
  MaxMoves = 2
SPECIFICATION Spec
INVARIANTS TypeOK AlwaysReadable OneSlotPerLabel
PROPERTIES StillSameSlot
SYMMETRY Swaps
CHECK_DEADLOCK FALSE
