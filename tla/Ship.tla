-------------------------------- MODULE Ship --------------------------------
(****************************************************************************)
(* One Player's ship in ship-service: the four event handlers that change   *)
(* it and the repair endpoint, each a READ COMMITTED transaction on one row *)
(* of ships (internal/consumer, internal/ship/manager.go, sql/queries).     *)
(*                                                                          *)
(* A delivery is one inbound event; EventDelivery shows that the consumer   *)
(* commits it at most once.  Consumers of different event types, replicas   *)
(* and repair requests run concurrently and meet at the row lock of UPDATE. *)
(****************************************************************************)
EXTENDS Integers, Sequences

CONSTANTS Deliveries,       \* inbound events for this Player
          Repairs,          \* POST /ships/repair requests
          NoTx,             \* "the row is not locked"
          Kind,             \* Kind[d]: what handling d does to the ship
          Amount,           \* Amount[d]: reward, investment or damage of d
          FullHull,         \* the hull health of an undamaged ship (100)
          RollMin, RollMax, \* bounds of 5 + roll(), the hull of one material
          MaxBegins,        \* bound: transactions that begin, those begun again included
          MaxFaults,        \* bound: transactions that fail after Begin
          MaxReplays        \* bound: dead letters an operator replays

Txs == Deliveries \cup Repairs

\* Event types; expedition.failed is expedition.completed with outcome FAILURE.
Kinds == {"user.created", "daily.completed", "daily.missed",
          "expedition.launched", "expedition.completed", "expedition.failed"}
Credits == {"daily.completed", "expedition.completed"}
Creations == {d \in Deliveries : Kind[d] = "user.created"}

ASSUME TxAssumption == NoTx \notin Txs /\ Deliveries \cap Repairs = {}
ASSUME DeliveryAssumption == /\ Kind \in [Deliveries -> Kinds]
                             /\ Amount \in [Deliveries -> Nat]
ASSUME HullAssumption == /\ FullHull \in Nat \ {0}
                         /\ RollMin \in Nat \ {0}
                         /\ RollMax \in Nat
                         /\ RollMin <= RollMax
ASSUME BoundAssumption == MaxBegins \in Nat /\ MaxFaults \in Nat /\ MaxReplays \in Nat

VARIABLES exists,    \* the ships row exists
          ship,      \* its committed version
          lock,      \* the transaction that holds the row lock
          pc,        \* pc[t]: where transaction t stands
          at,        \* at[t]: now() of t, fixed when it begins
          clock,     \* the database clock, one tick per transaction start
          snapshot,  \* snapshot[t]: the ship a repair read
          written,   \* written[t]: the row version t wrote, uncommitted
          outbox,    \* staged ship.status_updated rows, in commit order
          ledger,    \* history: committed credits, debits and repair costs
          faults, replays

txVars   == <<pc, at, clock, snapshot, written, lock>>
shipVars == <<exists, ship, outbox, ledger>>
boundVars == <<faults, replays>>
vars == <<txVars, shipVars, boundVars>>

States == [hull : 0..FullHull, materials : Nat]

NewShip == [hull |-> FullHull, materials |-> 0]

TypeOK ==
  /\ exists \in BOOLEAN
  /\ ship \in States
  /\ lock \in Txs \cup {NoTx}
  /\ pc \in [Txs -> {"new", "begun", "read", "written",
                     "committed", "rejected", "refused"}]
  /\ at \in [Txs -> Nat]
  /\ clock \in Nat
  /\ snapshot \in [Txs -> States]
  /\ written \in [Txs -> States]
  /\ outbox \in Seq([at : Nat, state : States])
  /\ ledger \in [credited : Nat, debited : Nat, spent : Nat]
  /\ faults \in Nat
  /\ replays \in Nat

\* The Player has just signed up, or was created some time ago.
Init ==
  /\ exists \in BOOLEAN
  /\ ship = NewShip
  /\ lock = NoTx
  /\ pc = [t \in Txs |-> IF exists /\ t \in Creations THEN "committed" ELSE "new"]
  /\ at = [t \in Txs |-> 0]
  /\ clock = 0
  /\ snapshot = [t \in Txs |-> NewShip]
  /\ written = [t \in Txs |-> NewShip]
  /\ outbox = <<>>
  /\ ledger = [credited |-> 0, debited |-> 0, spent |-> 0]
  /\ faults = 0
  /\ replays = 0

Least(m, n) == IF m < n THEN m ELSE n
Most(m, n) == IF m > n THEN m ELSE n

Goto(t, place) == pc' = [pc EXCEPT ![t] = place]

\* What a transaction read and wrote is of no use once it ended.
Forget(t) == /\ snapshot' = [snapshot EXCEPT ![t] = NewShip]
             /\ written' = [written EXCEPT ![t] = NewShip]

Begin(t) ==
  /\ pc[t] = "new"
  /\ clock < MaxBegins
  /\ Goto(t, "begun")
  /\ at' = [at EXCEPT ![t] = clock]
  /\ clock' = clock + 1
  /\ UNCHANGED <<snapshot, written, lock, shipVars, boundVars>>

\* A crash brings an unacknowledged delivery back; one whose statement or Commit
\* fails is a dead letter; a repair answers with an error.
Aftermath(t) == IF t \in Deliveries THEN {"new", "rejected"} ELSE {"refused"}

\* The transaction fails (connection, process, Commit): nothing of it stays.
Fail(t) ==
  /\ pc[t] \in {"begun", "read", "written"}
  /\ faults < MaxFaults
  /\ faults' = faults + 1
  /\ \E place \in Aftermath(t) : Goto(t, place)
  /\ lock' = IF lock = t THEN NoTx ELSE lock
  /\ Forget(t)
  /\ UNCHANGED <<at, clock, shipVars, replays>>

\* CHECK (materials_balance >= 0) and the bounds of hull_health.
Valid(s) == s.materials >= 0 /\ s.hull \in 0..FullHull

(* UPDATE ... RETURNING: waits for the row lock, then computes the new       *)
(* version from the latest committed one.                                    *)
Write(t, new) ==
  /\ lock = NoTx
  /\ lock' = t
  /\ written' = [written EXCEPT ![t] = new]
  /\ Goto(t, "written")
  /\ UNCHANGED <<at, clock, snapshot, shipVars, boundVars>>

\* The new versions that AddMaterials, DeductMaterials and ApplyDamage compute.
AddMaterials(n) == [ship EXCEPT !.materials = @ + n]
DeductMaterials(n) == [ship EXCEPT !.materials = @ - n]
ApplyDamage(n) == [ship EXCEPT !.hull = Most(0, @ - n)]

(* A handler's UPDATE.  It fails, and with it the handler, when there is no   *)
(* row (an event overtook user.created) or when the version violates a CHECK *)
(* (an investment above the balance): a dead letter.                         *)
Update(d, new) ==
  \/ /\ exists
     /\ Valid(new)
     /\ Write(d, new)
  \/ /\ exists => lock = NoTx /\ ~Valid(new)
     /\ Goto(d, "rejected")
     /\ UNCHANGED <<at, clock, snapshot, written, lock, shipVars, boundVars>>

HandleDailyCompleted(d) ==
  /\ pc[d] = "begun"
  /\ Kind[d] = "daily.completed"
  /\ Update(d, AddMaterials(Amount[d]))

HandleDailyMissed(d) ==
  /\ pc[d] = "begun"
  /\ Kind[d] = "daily.missed"
  /\ Update(d, ApplyDamage(Amount[d]))

HandleExpeditionLaunched(d) ==
  /\ pc[d] = "begun"
  /\ Kind[d] = "expedition.launched"
  /\ Update(d, DeductMaterials(Amount[d]))

\* A failed expedition changes nothing and announces nothing.
HandleExpeditionCompleted(d) ==
  /\ pc[d] = "begun"
  /\ \/ Kind[d] = "expedition.completed" /\ Update(d, AddMaterials(Amount[d]))
     \/ /\ Kind[d] = "expedition.failed"
        /\ Goto(d, "committed")
        /\ UNCHANGED <<at, clock, snapshot, written, lock, shipVars, boundVars>>

(* CreateShip: ON CONFLICT DO NOTHING; no status is staged.                   *)
HandleUserCreated(d) ==
  /\ pc[d] = "begun"
  /\ Kind[d] = "user.created"
  /\ exists' = TRUE
  /\ Goto(d, "committed")
  /\ UNCHANGED <<at, clock, snapshot, written, lock, ship, outbox, ledger,
                 boundVars>>

(* Shovel of a dead letter (ADR-0009).                                       *)
Replay(d) ==
  /\ pc[d] = "rejected"
  /\ replays < MaxReplays
  /\ replays' = replays + 1
  /\ Goto(d, "new")
  /\ UNCHANGED <<at, clock, snapshot, written, lock, shipVars, faults>>

------------------------------------------------------------------------------
(* Repair.  GetByUser takes no lock.                                         *)

Deficit(s) == FullHull - s.hull

\* repairAmounts: one material per missing hull point, as far as they last.
MaterialsToUse(s) == Least(Deficit(s), s.materials)

RepairRead(r) ==
  /\ pc[r] = "begun"
  /\ IF exists /\ ship.hull # FullHull /\ ship.materials # 0
     THEN Goto(r, "read") /\ snapshot' = [snapshot EXCEPT ![r] = ship]
     ELSE Goto(r, "refused") /\ UNCHANGED snapshot
  /\ UNCHANGED <<at, clock, written, lock, shipVars, boundVars>>

\* The hull points the rolls may add up to, clamped to the deficit read.
HullToRestore(s) ==
  {Least(Deficit(s), rolled) :
     rolled \in RollMin * MaterialsToUse(s) .. RollMax * MaterialsToUse(s)}

\* Mutation: SET computed from the values read, not from the row.
RepairedStale(r, restored) ==
  [hull |-> Least(FullHull, snapshot[r].hull + restored),
   materials |-> snapshot[r].materials - MaterialsToUse(snapshot[r])]

\* UPDATE ships SET hull_health = LEAST(100, ...), materials_balance = ... - $2.
Repaired(r, restored) ==
  [hull |-> Least(FullHull, ship.hull + restored),
   materials |-> ship.materials - MaterialsToUse(snapshot[r])]

RepairUpdate(r) ==
  /\ pc[r] = "read"
  /\ \E restored \in HullToRestore(snapshot[r]) :
       /\ Valid(Repaired(r, restored))
       /\ Write(r, Repaired(r, restored))

\* The balance shrank below the amount computed from the read: an error.
RepairRefused(r) ==
  /\ pc[r] = "read"
  /\ lock = NoTx
  /\ \E restored \in HullToRestore(snapshot[r]) : ~Valid(Repaired(r, restored))
  /\ Goto(r, "refused")
  /\ Forget(r)
  /\ UNCHANGED <<at, clock, lock, shipVars, boundVars>>

------------------------------------------------------------------------------
\* Mutation: the status announces the version before the update.
StatusBefore(t) == [at |-> at[t], state |-> ship]

\* The status row carries what RETURNING gave, and created_at = now().
Status(t) == [at |-> at[t], state |-> written[t]]

Booked(t) ==
  IF t \in Repairs
  THEN [ledger EXCEPT !.spent = @ + MaterialsToUse(snapshot[t])]
  ELSE CASE Kind[t] \in Credits -> [ledger EXCEPT !.credited = @ + Amount[t]]
         [] Kind[t] = "expedition.launched" -> [ledger EXCEPT !.debited = @ + Amount[t]]
         [] OTHER -> ledger

\* Mutation: a transaction that ends without giving up its lock.
LockKept(t) == lock

\* Commit and Rollback release the row.
LockReleased(t) == NoTx

(* stageShipStatus (or Repair's InsertOutbox) and Commit.                    *)
Commit(t) ==
  /\ pc[t] = "written"
  /\ ship' = written[t]
  /\ outbox' = Append(outbox, Status(t))
  /\ ledger' = Booked(t)
  /\ lock' = LockReleased(t)
  /\ Goto(t, "committed")
  /\ Forget(t)
  /\ UNCHANGED <<at, clock, exists, boundVars>>

Handle(d) == \/ HandleUserCreated(d)
             \/ HandleDailyCompleted(d)
             \/ HandleDailyMissed(d)
             \/ HandleExpeditionLaunched(d)
             \/ HandleExpeditionCompleted(d)

Repair(r) == \/ RepairRead(r)
             \/ RepairUpdate(r)
             \/ RepairRefused(r)

Next == \/ \E t \in Txs : Begin(t) \/ Commit(t) \/ Fail(t)
        \/ \E d \in Deliveries : Handle(d) \/ Replay(d)
        \/ \E r \in Repairs : Repair(r)

Spec == Init /\ [][Next]_vars

\* Delivery loops and request handlers run on; nothing is assumed of failures,
\* replays or of requests that have not begun.
Fairness ==
  /\ \A t \in Txs : WF_vars(Commit(t))
  /\ \A d \in Deliveries :
       /\ WF_vars(Begin(d))
       /\ WF_vars(Handle(d))
  /\ \A r \in Repairs : /\ WF_vars(RepairRead(r))
                        /\ WF_vars(RepairUpdate(r) \/ RepairRefused(r))

FairSpec == Spec /\ Fairness

------------------------------------------------------------------------------
(* Properties.                                                               *)

\* The balance is what the committed events and repairs add up to: no concurrent
\* handler, replica or repair loses another's update (the balance arithmetic is
\* inside UPDATE, under the row lock).
MaterialsConserved ==
  ship.materials = ledger.credited - ledger.debited - ledger.spent

\* The ship's current state is the one most recently announced: a handler that
\* changes the row stages the very version it wrote, in the same transaction
\* (stageShipStatus; ship-service.md "All consumers publish ship.status_updated
\* via the outbox after state changes, in the same database transaction").
LatestStateAnnounced ==
  IF outbox = <<>> THEN ship = NewShip ELSE outbox[Len(outbox)].state = ship

\* A repair costs at most one material per hull point it was short of when it
\* looked, and leaves a hull no smaller than it found under its lock.
RepairNeverDamages ==
  [][\A r \in Repairs : Commit(r) =>
       /\ ship'.hull >= ship.hull
       /\ ship.materials - ship'.materials <= Deficit(snapshot[r])]_vars

Ended(t) == pc[t] \in {"committed", "rejected", "refused"}

\* Every delivery is eventually performed or dead-lettered (if it is still in
\* its queue then because of the bound), and every repair that began is answered:
\* nobody waits for the row forever.
EveryoneServed ==
  /\ \A d \in Deliveries : <>(Ended(d) \/ (pc[d] = "new" /\ clock = MaxBegins))
  /\ \A r \in Repairs : pc[r] = "begun" ~> Ended(r)
==============================================================================
