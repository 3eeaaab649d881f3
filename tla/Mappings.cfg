SPECIFICATION Spec
CONSTANTS
  MessageThread = m
  Inputs = {i}
  Timer = t
  Filters = {f}
  Continuous = {f}
  SendOnOutputChangeOnly = FALSE
  Multiplexed = TRUE
  MaxEdits = 2
  MaxChanges = 1
  MaxPosted = 1
  None = none
INVARIANTS TypeOK ChainIsWhole FlagsComeDown NoneDeletedInUse
PROPERTIES CallsEnd EditsAreBuilt LastValueIsSent
CHECK_DEADLOCK FALSE
