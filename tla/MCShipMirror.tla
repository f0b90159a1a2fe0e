---------------------------- MODULE MCShipMirror ----------------------------
(* Small instances of ShipMirror for TLC.                                   *)
EXTENDS ShipMirror, TLC

CONSTANTS created, completed, landed, failed, launched, missed, r1

KindOf == (created :> "user.created") @@ (completed :> "daily.completed")
          @@ (landed :> "expedition.completed") @@ (failed :> "expedition.failed")
          @@ (launched :> "expedition.launched") @@ (missed :> "daily.missed")
AmountOf == (created :> 0) @@ (completed :> 2) @@ (landed :> 2) @@ (failed :> 0)
            @@ (launched :> 1) @@ (missed :> 1)

EachKind == [d \in Deliveries |-> KindOf[d]]
EachAmount == [d \in Deliveries |-> AmountOf[d]]
==============================================================================
