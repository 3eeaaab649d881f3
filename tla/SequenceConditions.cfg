SPECIFICATION Spec
CONSTANTS
  c1 = c1
  c2 = c2
  c3 = c3
  s1 = s1
  s2 = s2
  Conditions = {c1, c2, c3}
  Sources = {s1, s2}
  Values = {0, 1, 2}
  Source <- MCSource
  Full = 2
  HoldsFor <- MCHoldsFor
  Kind <- MCMixed
  Start <- MCStart
  Operators = {"SEQUENTIAL"}
  Delays = {0}
  Edits = {"enable", "remove", "restore", "force"}
  MaxQueue = 1
INVARIANTS
  StepInRange
  StepTaken
