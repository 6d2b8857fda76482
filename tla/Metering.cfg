SPECIFICATION Spec
CONSTANTS
  m1 = m1
  m2 = m2
  Meters = {m1, m2}
  Methods = {"WALLET", "CARD"}
  Tariff <- SmallTariff
  Limit = 3
  Funds = 4
  MeterStart = 0
  MaxEnergy = 3
  MaxRefusals = 1
  MaxSpent = 2
\* A settled charge is over.
CHECK_DEADLOCK FALSE
INVARIANTS
  TypeOK
  PrepaidIsNotMetered
  ShownWithinEnvelope
PROPERTIES
  EnvelopeSettles
