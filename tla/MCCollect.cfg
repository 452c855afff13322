CONSTANTS
  NPanes = 2
  Cwd = {"w1", "w2"}
  Hosts <- MCHosts
  DefaultName <- MCDefaultName
  MaxMoves = 1
  MaxFaults = 1
SPECIFICATION MCSpec
INVARIANTS SeenAsItWas DialogIsNotIdle ResumesItself EveryPaneOnce
CHECK_DEADLOCK FALSE
