SPECIFICATION Spec
CONSTANTS
  p = p
  q = q
  x = x
  y = y
  Presets = {p, q}
  Variables = {x, y}
  MessageThread = m
  Others = {o}
  Mode <- MCMode
  Items <- MCItems
  Steps = 2
  MaxCommands = 2
  RemoveWhileRunning = FALSE
  None = none
  Own = own
  Mixed = mixed
INVARIANTS TypeOK NeverReplaced LastPresetWins NoTargetLeft
PROPERTIES Settles
CHECK_DEADLOCK FALSE
