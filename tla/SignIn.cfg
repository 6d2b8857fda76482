SPECIFICATION Spec
CONSTANTS
  r1 = r1
  r2 = r2
  Calls = {r1, r2}
  MaxTokens = 4
  MaxLosses = 1
SYMMETRY Symmetry
\* Rows may run out.
CHECK_DEADLOCK FALSE
INVARIANTS
  TypeOK
  StaysSignedIn
