SPECIFICATION FairSpec
CONSTANTS
  c1 = c1
  c2 = c2
  c3 = c3
  s1 = s1
  s2 = s2
  Conditions = {c1, c2, c3}
  Sources = {s1, s2}
  Values = {0, 1, 2}
  Source <- MCSource
  Full = 2
  HoldsFor <- MCHoldsFor
  Kind <- MCManual
  Start <- MCStart
  Operators = {"AND", "OR"}
  Delays = {0, 1}
  Edits = {"remove", "operator", "delays"}
  MaxQueue = 1
INVARIANTS
  TypeOK
  AgreesAtRest
PROPERTIES
  VerdictIsCurrent
  Debounced
  Follows
