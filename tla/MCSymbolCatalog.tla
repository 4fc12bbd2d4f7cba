-------------------------- MODULE MCSymbolCatalog --------------------------
(* An instance of SymbolCatalog small enough for TLC.  Two resolutions and *)
(* two searches for one symbol, which has an alias and is also part of the *)
(* name of a third symbol.  A list holds two of the three.                 *)
EXTENDS SymbolCatalog, TLC

CONSTANTS r1, r2, s1, s2, petr4, petr4f, apetr4

AskedHere == [c \in {r1, r2, s1, s2} |-> petr4]

AliasHere == [s \in Symbols |-> IF s = petr4 THEN petr4f ELSE None]

MatchesHere == [s \in Symbols |-> IF s = petr4 THEN Symbols ELSE {s}]

StartsHere == [s \in Symbols |-> IF s = petr4 THEN {petr4, petr4f} ELSE {s}]

PlaceHere == (apetr4 :> 1) @@ (petr4 :> 2) @@ (petr4f :> 3)

LimitHere == [s \in {s1, s2} |-> 2]

Alike == Permutations({r1, r2}) \cup Permutations({s1, s2})

=============================================================================
