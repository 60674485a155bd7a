SPECIFICATION Spec
CONSTANTS
  Ids = {1}
  Quotas <- MCQuotas
  Expiries <- MCExpiries
  MonthLength = 2
  Horizon = 5
  MaxSent = 3
  MaxFaults = 0
INVARIANT ManualStaysOff
