SPECIFICATION Spec
CONSTANTS
  r1 = r1
  r2 = r2
  r3 = r3
  petr4 = petr4
  Requests <- ThreeRequests
  Keys = {petr4}
  KeyOf <- ThreeOnOneKey
  None = None
  QuoteTtl = 1
  NegativeTtl = 1
  WaitTimeout = 2
  MaxTime = 4
SYMMETRY Alike
INVARIANT WaitersShareResult
