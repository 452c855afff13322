CONSTANTS
  h1 = h1
  h2 = h2
  s1 = s1
  s2 = s2
  s3 = s3
  operator = operator
  timer = timer
  Slot = {s1, s2}
  Host = {h1}
  HostOf <- PairHostOf
  Proc = {operator, timer}
  Timer = {timer}
  SnapReason = {"manual", "pre-secure", "post-secure"}
  DropNum = 1
  DropDen = 2
  MinOccupants = 1
  MaxRolls = 3
  MaxEvents = 1
SPECIFICATION Spec
PROPERTIES GuardKept
SYMMETRY Swap
CHECK_DEADLOCK FALSE
