--------------------------- MODULE MCDeskSession ---------------------------
(* A session for two fields, one of them market data, with a desk that     *)
(* sends up to three payloads, one topic of which nobody asked for.        *)
EXTENDS DeskSession

CONSTANTS q1, petr4

TwoFields == <<"volume", "status">>

=============================================================================
