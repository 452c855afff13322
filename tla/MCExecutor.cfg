CONSTANTS
  h1 = h1
  h2 = h2
  cockpit = cockpit
  s1 = s1
  s2 = s2
  NoSlot = NoSlot
  NoHost = NoHost
  Host <- MCHost
  Slot <- MCSlot
  Step <- MCStep
  Plans <- MCPlans
SPECIFICATION Spec
INVARIANTS TypeOK FailStop CompleteIsHonest PartialIsHonest ExitTellsTruth
PROPERTIES Terminates KeepsPromise
