SPECIFICATION Spec
CONSTANTS
  Ids = {1}
  Quotas <- MCQuotas
  Expiries <- MCExpiries
  MonthLength = 2
  Horizon = 5
  MaxSent = 2
  MaxFaults = 1
INVARIANTS ChargedOnce StaysOff
PROPERTIES Enforced ComesBack
