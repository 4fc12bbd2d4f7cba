--------------------------- MODULE MCQuoteService ---------------------------
(* Instances of QuoteService small enough for TLC.  All requests ask for   *)
(* one key: calls for different keys share no entry, only the locks, so    *)
(* one key holds all the contention, and its requests are alike.           *)
EXTENDS QuoteService, TLC

CONSTANTS r1, r2, r3, petr4

TwoRequests == {r1, r2}
ThreeRequests == {r1, r2, r3}

TwoOnOneKey == [r \in TwoRequests |-> petr4]
ThreeOnOneKey == [r \in ThreeRequests |-> petr4]

Alike == Permutations(ThreeRequests)

=============================================================================
