SPECIFICATION PathSpec
CONSTANTS
  r1 = r1
  r2 = r2
  r3 = r3
  raw = raw
  plain = plain
  petr4 = petr4
  Requests <- ThreeRequests
  Keys = {raw, plain}
  KeyOf <- TwoKeys
  None = None
  QuoteTtl = 1
  NegativeTtl = 1
  WaitTimeout = 1
  MaxTime = 4
  Symbols = {petr4}
  SymbolOf <- OneSymbol
  Catalog = {}
SYMMETRY Exchange
CONSTRAINT TwoCalls
INVARIANTS PathTypeOK AgeBounded QuotesAreFresh WaitsEndAtTheDesk
PROPERTY FirstAccessAsksOnce
