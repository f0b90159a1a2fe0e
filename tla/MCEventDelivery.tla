--------------------------- MODULE MCEventDelivery ---------------------------
(* Small instances of EventDelivery for TLC.                                *)
EXTENDS EventDelivery, TLC

CONSTANTS e1, e2, ship, expedition, d1, d2, c1, c2, c3

\* e1 (daily.completed, say) goes to ship alone, e2 to expedition.
OneEach == (e1 :> {ship}) @@ (e2 :> {expedition})

\* Ship has two consuming replicas.
ShipTwice == (c1 :> ship) @@ (c2 :> expedition) @@ (c3 :> ship)
==============================================================================
