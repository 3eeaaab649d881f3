SPECIFICATION FairSpec
CONSTANTS
  a = a
  b = b
  c = c
  ab = ab
  ba = ba
  bc = bc
  ca = ca
  States = {a, b, c}
  Transitions = {ab, ba, bc, ca}
  Src <- MCSrc
  Dst <- MCDst
  OnActivate = {ca}
  Pulsed = {bc}
  Check = {a, b}
  Threads = {1}
  Message = 1
  MaxPosted = 1
  MaxDepth = 3
  Start <- MCCycle
  Edits = {"enable", "toggle"}
INVARIANTS
  TypeOK
  OneRunning
  NeverLost
PROPERTIES
  Quiesces
