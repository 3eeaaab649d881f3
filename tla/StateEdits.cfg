SPECIFICATION Spec
CONSTANTS
  a = a
  b = b
  c = c
  ab = ab
  ba = ba
  bc = bc
  ca = ca
  States = {a, b, c}
  Transitions = {ab, bc}
  Src <- MCSrc
  Dst <- MCDst
  OnActivate = {}
  Pulsed = {bc}
  Check = {b}
  Threads = {1, 2}
  Message = 1
  MaxPosted = 0
  MaxDepth = 2
  Start <- MCNone
  Edits = {"deactivate", "enable", "link", "unlink"}
INVARIANTS
  OneRunning
  ProcessorsFollow
