----------------------------- MODULE MCGateway -----------------------------
(* Two requests out of ten messages, to one endpoint of each kind: one and *)
(* the same nonce in two signed messages of different seconds and in a     *)
(* forged one, and the ways a request may end before or in its handler.    *)
EXTENDS Gateway, TLC

CONSTANTS a1, a2, first, reused, forged, garbled, ask, order, malformed,
          invalid, live, lost, nonce, other, quotes, metrics, orders, health, nowhere

TwoAttempts == {a1, a2}
AllMessages ==
  {first, reused, forged, garbled, ask, order, malformed, invalid, live, lost}
StoreKeyPerMessage ==
  [m \in AllMessages |-> IF m \in {first, reused, forged} THEN nonce ELSE other]
Stamps == [m \in AllMessages |-> IF m = reused THEN 4 ELSE 1]
AllEndpoints == {quotes, metrics, orders, health, nowhere}
EndpointPerMessage ==
  [m \in AllMessages |->
     CASE m \in {first, reused, forged, garbled, invalid} -> quotes
       [] m = ask -> metrics
       [] m \in {order, malformed} -> orders
       [] m = live -> health
       [] m = lost -> nowhere]
RoutePerEndpoint ==
  [e \in AllEndpoints |->
     CASE e = quotes -> "quote"
       [] e = metrics -> "metrics"
       [] e = orders -> "order"
       [] e = health -> "health"
       [] e = nowhere -> "unknown"]

Alike == Permutations(TwoAttempts)

=============================================================================
