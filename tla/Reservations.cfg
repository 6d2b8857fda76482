SPECIFICATION Spec
CONSTANTS
  c1 = c1
  r1 = r1
  r2 = r2
  s1 = s1
  s2 = s2
  Connectors = {c1}
  Reservations = {r1, r2}
  Sessions = {s1, s2}
  NoConnector = NoConnector
  NoReservation = NoReservation
  MinLength = 1
  Grace = 1
  Early = 1
  MaxNow = 2
  MaxRows = 3
  MaxCalls = 1
  Reported = {"AVAILABLE", "FINISHING"}
SYMMETRY Symmetry
\* The clock stops at its bound.
CHECK_DEADLOCK FALSE
INVARIANTS
  NoOverlap
  OneSessionPerConnector
  UsedMeansCharged
PROPERTIES
  ClosedStaysClosed
  ImplementsCalendar
