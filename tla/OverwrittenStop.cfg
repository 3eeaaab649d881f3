SPECIFICATION Spec
CONSTANTS
  MessageThread = m
  Other = o
  None = none
  Triggers = {1, 2}
  At <- MCAt
  Length <- MCLength
  Options <- MCAlways
  Total = 3
  Loops = {TRUE}
  MaxFrame = 2
  EvaluateOnSeek = "playing"
  Effect <- MCStop
  Commands <- MCCommands
  Edits = {}
  MaxCommands = 2
  MaxPosted = 1
INVARIANTS StopIsKept
CHECK_DEADLOCK FALSE
