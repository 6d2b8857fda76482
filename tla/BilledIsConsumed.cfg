SPECIFICATION Spec
CONSTANTS
  m1 = m1
  Meters = {m1}
  Methods = {"WALLET"}
  Tariff <- EnergyTariff
  Limit = 3
  Funds = 3
  MeterStart = 1
  MaxEnergy = 3
  MaxRefusals = 1
  MaxSpent = 0
CHECK_DEADLOCK FALSE
INVARIANT
  BilledIsConsumed
