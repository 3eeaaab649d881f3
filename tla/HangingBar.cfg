SPECIFICATION Spec
CONSTANTS
  MessageThread = m
  Other = o
  None = none
  Triggers = {1, 2}
  At <- MCAt
  Length <- MCLength
  Options <- MCAlways
  Total = 3
  Loops = {TRUE, FALSE}
  MaxFrame = 1
  EvaluateOnSeek = "playing"
  Effect <- MCPause
  Commands <- MCPlayOnly
  Edits = {}
  MaxCommands = 2
  MaxPosted = 1
INVARIANTS NeverHangs
CHECK_DEADLOCK FALSE
