--------------------------- MODULE MCQuotesBatch ---------------------------
(* An instance of QuotesBatch small enough for TLC: two symbols, one of    *)
(* them written in two ways, in lists of up to four.                      *)
EXTENDS QuotesBatch

CONSTANTS petr4, petr4lower, vale3

TwoNormalised == [n \in Names |-> IF n = petr4lower THEN petr4 ELSE n]

=============================================================================
