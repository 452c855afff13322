CONSTANTS
  MaxArgs = 3
  MaxRounds = 2
  MaxChanges = 3
  Phrases = FALSE
SPECIFICATION Spec
INVARIANTS ResumesItsConversation SameAgentUnlessTold FlagsRestored RecordIsTrue
CHECK_DEADLOCK FALSE
