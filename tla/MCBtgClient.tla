---------------------------- MODULE MCBtgClient ----------------------------
(* Instances of BtgClient small enough for TLC.  One market field, the     *)
(* volume, and one that is not market data stand for the seven of          *)
(* QUOTE_FIELD_MAP.                                                        *)
EXTENDS BtgClient, TLC

CONSTANTS p1, p2, q1, q2, petr4

TwoProbes == {p1, p2}
TwoQueries == {q1, q2}

OneSymbol == [q \in TwoQueries |-> petr4]

TwoFields == <<"volume", "status">>

Alike == Permutations(TwoProbes) \cup Permutations(TwoQueries)

=============================================================================
