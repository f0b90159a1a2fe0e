------------------------------- MODULE MCShip -------------------------------
(* A small instance of Ship for TLC.                                         *)
EXTENDS Ship, TLC

CONSTANTS created, completed, landed, failed, launched, missed, r1, r2

\* One inbound event of each kind; a launch may exceed what repairs have left.
KindOf == (created :> "user.created") @@ (completed :> "daily.completed")
          @@ (landed :> "expedition.completed") @@ (failed :> "expedition.failed")
          @@ (launched :> "expedition.launched") @@ (missed :> "daily.missed")
AmountOf == (created :> 0) @@ (completed :> 2) @@ (landed :> 3) @@ (failed :> 0)
            @@ (launched :> 2) @@ (missed :> 3)

EachKind == [d \in Deliveries |-> KindOf[d]]
EachAmount == [d \in Deliveries |-> AmountOf[d]]
==============================================================================
