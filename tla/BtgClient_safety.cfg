SPECIFICATION Spec
CONSTANTS
  p1 = p1
  p2 = p2
  q1 = q1
  q2 = q2
  petr4 = petr4
  Probes <- TwoProbes
  Queries <- TwoQueries
  Symbols = {petr4}
  SymbolOf <- OneSymbol
  None = None
  Fields <- TwoFields
  Budget = 1
  TickTtl = 1
  MaxTime = 2
SYMMETRY Alike
INVARIANTS TypeOK StatusCoherent ReconnectsAreReal ReadyIsAccounted SessionsAreSerial
PROPERTY ImplementsContract
