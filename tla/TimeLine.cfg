SPECIFICATION Spec
CONSTANTS
  MessageThread = m
  Other = o
  None = none
  Triggers = {1, 2}
  At <- MCAt
  Length <- MCLength
  Options <- MCAlways
  Total = 3
  Loops = {TRUE, FALSE}
  MaxFrame = 1
  EvaluateOnSeek = "playing"
  Effect <- MCStop
  Commands <- MCCommands
  Edits = {"speed", "condition"}
  MaxCommands = 2
  MaxPosted = 1
INVARIANTS TypeOK BarsAreReleased SilentWhenStopped PlayerFollows
PROPERTIES CallsEnd
CHECK_DEADLOCK FALSE
