CONSTANTS
  h1 = h1
  h2 = h2
  h3 = h3
  cockpit = cockpit
  s1 = s1
  s2 = s2
  s3 = s3
  home = home
  me = me
  a = a
  b = b
  c = c
  d = d
  e = e
  f = f
  NoSlot = NoSlot
  NoHost = NoHost
  NoSession = NoSession
  Host <- MCHost
  Slot <- MCSlot
  Session <- MCSession
  HostOf <- MCHostOf
  Mux <- MCMux
  Cockpit = cockpit
  Attended <- MCAttended
  SelfPane = 1
  Trait <- TraitIgnored
  Label <- MCLabel
  Step <- MCStep
  Plans <- MCPlans
  Worlds <- WorldsStop
  Requests <- StopEach
  MaxRuns = 1
  MaxTurns = 1
  Faults <- Op
SPECIFICATION WindowSpec
INVARIANTS CompleteMeansBack OnePaneEach StoppedIsUp
PROPERTIES NoAgentKilled EntersMeant
