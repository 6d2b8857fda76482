SPECIFICATION Spec
CONSTANTS
  k1 = k1
  k2 = k2
  w1 = w1
  Sockets = {k1, k2}
  NoSocket = NoSocket
  MaxBoots = 1
  MaxFaults = 1
  Windows = {w1}
  Tick = Tick
  MaxHandled = 1
\* The charge point may stay away.
CHECK_DEADLOCK FALSE
INVARIANTS
  WindowsInTime
PROPERTIES
  LostIsReported
  ReturnIsNoticed
  WindowsEnd
