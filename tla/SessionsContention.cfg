SPECIFICATION Spec
CONSTANTS
  s1 = s1
  s2 = s2
  c1 = c1
  Sessions = {s1, s2}
  Connectors = {c1}
  NoSession = NoSession
  MaxTx = 2
  MaxCalls = 2
  MayFail = FALSE
  Reported = {"AVAILABLE", "FINISHING"}
SYMMETRY Symmetry
INVARIANTS
  EnergyNeedsTransaction
  EnergyNeedsAuthorization
  OneUnsettledSession
