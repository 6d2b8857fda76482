SPECIFICATION Spec
CONSTANTS
  s1 = s1
  c1 = c1
  c2 = c2
  Sessions = {s1}
  Connectors = {c1, c2}
  NoSession = NoSession
  MaxTx = 2
  MaxCalls = 2
  MayFail = TRUE
  Reported = {"FINISHING"}
SYMMETRY Symmetry
INVARIANTS
  SettlementNeedsStop
  HoldAgreesWithAuthorization
  OpenHoldExplained
  OneOpenTransaction
PROPERTY
  CaptureIsFinal
  ImplementsCharge
