SPECIFICATION Spec
CONSTANTS
  w1 = w1
  w2 = w2
  w3 = w3
  s1 = s1
  s2 = s2
  d1 = d1
  k1 = k1
  Workers = {w1, w2, w3}
  Sessions = {s1, s2}
  Charges = {d1}
  Credits = {k1}
  Opening = 2
  MaxAmount = 2
SYMMETRY Symmetry
\* Requests come from outside: once every key is posted the wallet may rest.
CHECK_DEADLOCK FALSE
INVARIANTS
  LogExplainsBalance
  CapturedIsDebited
PROPERTY
  ImplementsAccount
