SPECIFICATION FairSpec
CONSTANTS
  m1 = m1
  m2 = m2
  a = a
  b = b
  c = c
  d = d
  Nobody = Nobody
  Threads = {1}
  Managers = {m1, m2}
  Items = {a, b, c, d}
  Contents <- MCContents
  Disabled = {b}
  Calls <- MCDown
  Kill = {m1}
  Delay <- MCDelay
  Stagger <- MCStagger
  Wrap = 5
  Oldest = 3
  MaxLag = 1
  MaxLaunches = 2
  Removable = {c}
  Meanwhile = FALSE
INVARIANTS
  Owned
  NoDangling
PROPERTIES
  Promise
  Completes
