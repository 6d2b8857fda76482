SPECIFICATION Spec
CONSTANTS
  p1 = p1
  e1 = e1
  w1 = w1
  w2 = w2
  Payments = {p1}
  Events = {e1}
  Workers = {w1, w2}
  NoEvent = NoEvent
  Simulated = {"CONFIRMED", "EXPIRED", "REFUNDED"}
SYMMETRY Symmetry
\* Once every payment is closed nothing more has to happen.
CHECK_DEADLOCK FALSE
INVARIANTS
  PostedOnce
  FlagAgreesWithWallet
  MovesAreBacked
  ConfirmationNotForgotten
PROPERTIES
  ImplementsMovements
