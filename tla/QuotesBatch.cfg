SPECIFICATION Spec
CONSTANTS
  petr4 = petr4
  petr4lower = petr4lower
  vale3 = vale3
  Names = {petr4, petr4lower, vale3}
  Symbols = {petr4, vale3}
  Normalize <- TwoNormalised
  MaxSymbols = 4
  None = None
  Raised = Raised
INVARIANTS TypeOK OneCallPerSymbol ItemsAnswerSymbols CountsAgree
