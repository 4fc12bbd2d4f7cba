---------------------------- MODULE MCQuotePath ----------------------------
(* Two calls for the raw quote of a symbol, or one for it and one for its  *)
(* plain quote.  The two calls for one quote may be exchanged.             *)
EXTENDS QuotePath, FiniteSets, TLC

CONSTANTS r1, r2, r3, raw, plain, petr4

ThreeRequests == {r1, r2, r3}
TwoKeys == r1 :> raw @@ r2 :> raw @@ r3 :> plain
OneSymbol == [k \in {raw, plain} |-> petr4]

Exchange == {r1 :> r2 @@ r2 :> r1}

(* Bounds: any two of the three calls, and two ticks of the clock if the   *)
(* third is one of them, which is when an entry of either cache is gone.   *)
TwoCalls ==
  /\ Cardinality({r \in Requests : pc[r] # "idle"}) <= 2
  /\ pc[r3] # "idle" => now <= 2

=============================================================================
