CONSTANTS
  MaxArgs = 3
  MaxRounds = 2
  MaxChanges = 2
  Phrases = TRUE
SPECIFICATION Spec
INVARIANT FlagsRestored
CHECK_DEADLOCK FALSE
