SPECIFICATION Spec
CONSTANTS
  c1 = c1
  c2 = c2
  d1 = d1
  d2 = d2
  j1 = j1
  h1 = h1
  Drivers = {d1, d2}
  Connectors = {c1, c2}
  TypeOf <- SameType
  None = None
  Wishes <- SomeWishes
  MaxEntries = 2
  Joins = {j1}
  Endings = {h1}
  MaxCrashes = 1
\* Nobody has to join.
CHECK_DEADLOCK FALSE
INVARIANTS
  TypeOK
  NotCutShort
PROPERTIES
  FirstComeFirstCalled
  CallsEnd
