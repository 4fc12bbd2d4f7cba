SPECIFICATION Spec
CONSTANTS
  r1 = r1
  r2 = r2
  s1 = s1
  s2 = s2
  petr4 = petr4
  petr4f = petr4f
  apetr4 = apetr4
  Resolutions = {r1, r2}
  Searches = {s1, s2}
  Symbols = {petr4, petr4f, apetr4}
  Asked <- AskedHere
  Alias <- AliasHere
  Matches <- MatchesHere
  Starts <- StartsHere
  Place <- PlaceHere
  Limit <- LimitHere
  Contents = {{}, {apetr4}}
  None = None
  MaxRewrites = 1
SYMMETRY Alike
INVARIANT AliasesAreListed
