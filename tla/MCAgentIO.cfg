CONSTANTS
  Polls = 6
  NudgeAt = 4
  CmuxBy = 1
  ReadyBy = 3
  MaxMoves = 2
SPECIFICATION Spec
INVARIANTS TypeOK QuietParkWorks QuietRestoreWorks NoSeenDialogTouched PromptsCounted OkMeansDone ResumedOnce
PROPERTIES Terminates
CHECK_DEADLOCK FALSE
