SPECIFICATION Spec
CONSTANTS
  k1 = k1
  k2 = k2
  c1 = c1
  c2 = c2
  Sockets = {k1, k2}
  NoSocket = NoSocket
  MaxBoots = 1
  MaxFaults = 1
  Commands = {c1, c2}
  Ask <- MCAsk
\* The operator may stop asking.
CHECK_DEADLOCK FALSE
INVARIANTS
  AnswersAreTheEquipments
  LinkedIsRegistered
PROPERTIES
  ImplementsDispatch
  SentSettles
