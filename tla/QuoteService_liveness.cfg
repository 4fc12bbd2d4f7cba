SPECIFICATION FairSpec
CONSTANTS
  r1 = r1
  r2 = r2
  r3 = r3
  petr4 = petr4
  Requests <- TwoRequests
  Keys = {petr4}
  KeyOf <- TwoOnOneKey
  None = None
  QuoteTtl = 1
  NegativeTtl = 1
  WaitTimeout = 2
  MaxTime = 4
PROPERTIES EveryCallReturns OrphanIsDropped
