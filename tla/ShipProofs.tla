----------------------------- MODULE ShipProofs -----------------------------
(****************************************************************************)
(* Theorems about Ship and about the mirror that expedition-service keeps    *)
(* of it, for any deliveries, repairs, amounts and dice.                    *)
(****************************************************************************)
EXTENDS ShipMirror, FiniteSetTheorems, SequenceTheorems, TLAPS

USE TxAssumption, DeliveryAssumption, HullAssumption, BoundAssumption,
    SkipAssumption

------------------------------------------------------------------------------
(* The versions that handlers and repairs write.                            *)

LEMMA NewVersions ==
  ASSUME ship \in States, NEW n \in Nat
  PROVE  /\ Valid(AddMaterials(n)) => AddMaterials(n) \in States
         /\ Valid(DeductMaterials(n)) => DeductMaterials(n) \in States
         /\ Valid(ApplyDamage(n)) => ApplyDamage(n) \in States
  BY DEF States, Valid, AddMaterials, DeductMaterials, ApplyDamage, Most

LEMMA UseBounded ==
  ASSUME NEW s \in States
  PROVE  /\ Deficit(s) \in Nat
         /\ MaterialsToUse(s) \in Nat
         /\ MaterialsToUse(s) <= Deficit(s)
  BY DEF States, Deficit, MaterialsToUse, Least

LEMMA NatProduct == \A m, n \in Nat : m * n \in Nat
  OBVIOUS

\* A repair restores some number of points, none of them negative.
LEMMA RestoredNat ==
  ASSUME NEW s \in States, NEW restored \in HullToRestore(s)
  PROVE  restored \in Nat
<1>1. MaterialsToUse(s) \in Nat /\ Deficit(s) \in Nat
  BY UseBounded
<1>2. RollMin * MaterialsToUse(s) \in Nat /\ RollMax * MaterialsToUse(s) \in Nat
  BY <1>1, NatProduct DEF HullAssumption
<1>3. PICK rolled \in RollMin * MaterialsToUse(s) .. RollMax * MaterialsToUse(s) :
        restored = Least(Deficit(s), rolled)
  BY DEF HullToRestore
<1>4. rolled \in Nat
  BY <1>2, <1>3
<1> QED
  BY <1>1, <1>3, <1>4 DEF Least

LEMMA RepairedVersion ==
  ASSUME ship \in States, NEW r \in Repairs, snapshot[r] \in States,
         NEW restored \in HullToRestore(snapshot[r]),
         Valid(Repaired(r, restored))
  PROVE  /\ Repaired(r, restored) \in States
         /\ Repaired(r, restored).materials
              = ship.materials - MaterialsToUse(snapshot[r])
         /\ Repaired(r, restored).hull >= ship.hull
<1>1. restored \in Nat
  BY RestoredNat
<1>2. MaterialsToUse(snapshot[r]) \in Nat
  BY UseBounded
<1> QED
  BY <1>1, <1>2 DEF Repaired, Valid, States, Least, HullAssumption

------------------------------------------------------------------------------
LEMMA NewShipType == NewShip \in States
  BY DEF NewShip, States, HullAssumption

LEMMA TypeInit == Init => TypeOK
<1> SUFFICES ASSUME Init PROVE TypeOK
  OBVIOUS
<1>1. outbox \in Seq([at : Nat, state : States])
  BY DEF Init
<1> QED
  BY <1>1, NewShipType DEF Init, TypeOK

\* What the commit of t leaves in the ledger.
LEMMA BookedValue ==
  ASSUME TypeOK, NEW t \in Txs
  PROVE  /\ t \in Repairs =>
              Booked(t) = [ledger EXCEPT !.spent = @ + MaterialsToUse(snapshot[t])]
         /\ t \notin Repairs /\ Kind[t] \in Credits =>
              Booked(t) = [ledger EXCEPT !.credited = @ + Amount[t]]
         /\ t \notin Repairs /\ Kind[t] = "expedition.launched" =>
              Booked(t) = [ledger EXCEPT !.debited = @ + Amount[t]]
         /\ t \notin Repairs /\ Kind[t] \notin Credits \cup {"expedition.launched"} =>
              Booked(t) = ledger
  BY DEF Booked, Credits

LEMMA BookedType ==
  ASSUME TypeOK, NEW t \in Txs
  PROVE  Booked(t) \in [credited : Nat, debited : Nat, spent : Nat]
<1>1. ledger \in [credited : Nat, debited : Nat, spent : Nat]
  BY DEF TypeOK
<1>2. ASSUME NEW n \in Nat
      PROVE  /\ [ledger EXCEPT !.spent = @ + n]
                   \in [credited : Nat, debited : Nat, spent : Nat]
             /\ [ledger EXCEPT !.credited = @ + n]
                   \in [credited : Nat, debited : Nat, spent : Nat]
             /\ [ledger EXCEPT !.debited = @ + n]
                   \in [credited : Nat, debited : Nat, spent : Nat]
  BY <1>1
<1>3. t \in Repairs => MaterialsToUse(snapshot[t]) \in Nat
  BY UseBounded DEF TypeOK
<1>4. t \notin Repairs => Amount[t] \in Nat
  BY DEF DeliveryAssumption, Txs
<1> QED
  BY <1>1, <1>2, <1>3, <1>4, BookedValue

LEMMA WriteType ==
  ASSUME TypeOK, NEW t \in Txs, NEW new \in States, Write(t, new)
  PROVE  TypeOK'
  BY DEF TypeOK, Write, Goto, shipVars, boundVars

LEMMA UpdateType ==
  ASSUME TypeOK, NEW d \in Deliveries, NEW new, Valid(new) => new \in States,
         Update(d, new)
  PROVE  TypeOK'
<1>1. d \in Txs
  BY DEF Txs
<1>2. CASE Valid(new) /\ Write(d, new)
  BY <1>1, <1>2, WriteType
<1>3. CASE Goto(d, "rejected") /\ UNCHANGED <<at, clock, snapshot, written, lock, shipVars, boundVars>>
  BY <1>1, <1>3 DEF TypeOK, Goto, shipVars, boundVars
<1> QED
  BY <1>2, <1>3 DEF Update

LEMMA TypeStep == TypeOK /\ [Next]_vars => TypeOK'
<1> SUFFICES ASSUME TypeOK, [Next]_vars PROVE TypeOK'
  OBVIOUS
<1>0. NewShip \in States
  BY NewShipType
<1>1. ASSUME NEW t \in Txs, Begin(t) PROVE TypeOK'
  BY <1>1 DEF Begin, TypeOK, Goto, shipVars, boundVars
<1>2. ASSUME NEW t \in Txs, Commit(t) PROVE TypeOK'
  <2>1. written[t] \in States /\ Status(t) \in [at : Nat, state : States]
    BY DEF TypeOK, Status
  <2>2. Booked(t) \in [credited : Nat, debited : Nat, spent : Nat]
    BY BookedType
  <2>3. outbox' \in Seq([at : Nat, state : States])
    BY <1>2, <2>1 DEF Commit, TypeOK
  <2> QED
    BY <1>0, <1>2, <2>1, <2>2, <2>3
    DEF Commit, TypeOK, Goto, Forget, LockReleased, boundVars
<1>3. ASSUME NEW t \in Txs, Fail(t) PROVE TypeOK'
  BY <1>0, <1>3 DEF Fail, Aftermath, TypeOK, Goto, Forget, shipVars, BoundAssumption
<1>4. ASSUME NEW d \in Deliveries, Handle(d) PROVE TypeOK'
  <2>1. Amount[d] \in Nat /\ d \in Txs /\ ship \in States
    BY DEF DeliveryAssumption, TypeOK, Txs
  <2>2. CASE HandleDailyCompleted(d)
    BY <2>1, <2>2, NewVersions, UpdateType DEF HandleDailyCompleted
  <2>3. CASE HandleDailyMissed(d)
    BY <2>1, <2>3, NewVersions, UpdateType DEF HandleDailyMissed
  <2>4. CASE HandleExpeditionLaunched(d)
    BY <2>1, <2>4, NewVersions, UpdateType DEF HandleExpeditionLaunched
  <2>5. CASE HandleExpeditionCompleted(d) /\ Update(d, AddMaterials(Amount[d]))
    BY <2>1, <2>5, NewVersions, UpdateType
  <2>6. CASE HandleExpeditionCompleted(d) /\ ~Update(d, AddMaterials(Amount[d]))
    BY <2>1, <2>6 DEF HandleExpeditionCompleted, TypeOK, Goto, shipVars, boundVars
  <2>7. CASE HandleUserCreated(d)
    BY <2>1, <2>7 DEF HandleUserCreated, TypeOK, Goto, boundVars
  <2> QED
    BY <1>4, <2>2, <2>3, <2>4, <2>5, <2>6, <2>7 DEF Handle
<1>5. ASSUME NEW d \in Deliveries, Replay(d) PROVE TypeOK'
  BY <1>5 DEF Replay, TypeOK, Goto, shipVars, Txs
<1>6. ASSUME NEW r \in Repairs, Repair(r) PROVE TypeOK'
  <2>1. r \in Txs /\ ship \in States /\ snapshot[r] \in States
    BY DEF TypeOK, Txs
  <2>2. CASE RepairRead(r)
    <3>1. snapshot' \in [Txs -> States]
      BY <2>1, <2>2 DEF RepairRead, TypeOK
    <3>2. pc' \in [Txs -> {"new", "begun", "read", "written",
                           "committed", "rejected", "refused"}]
      BY <2>1, <2>2 DEF RepairRead, TypeOK, Goto
    <3> QED
      BY <2>2, <3>1, <3>2 DEF RepairRead, TypeOK, shipVars, boundVars
  <2>3. CASE RepairUpdate(r)
    <3>1. PICK restored \in HullToRestore(snapshot[r]) :
            Valid(Repaired(r, restored)) /\ Write(r, Repaired(r, restored))
      BY <2>3 DEF RepairUpdate
    <3>2. Repaired(r, restored) \in States
      BY <2>1, <3>1, RepairedVersion
    <3> QED
      BY <2>1, <3>1, <3>2, WriteType
  <2>4. CASE RepairRefused(r)
    BY <1>0, <2>1, <2>4 DEF RepairRefused, TypeOK, Goto, Forget, shipVars, boundVars
  <2> QED
    BY <1>6, <2>2, <2>3, <2>4 DEF Repair
<1>7. CASE UNCHANGED vars
  BY <1>7 DEF TypeOK, vars, txVars, shipVars, boundVars
<1> QED
  BY <1>1, <1>2, <1>3, <1>4, <1>5, <1>6, <1>7 DEF Next

\* Every reachable state of a ship and its transactions is well typed: hull and
\* materials stay within the CHECK constraints of ships.
THEOREM TypeCorrect == Spec => []TypeOK
  BY TypeInit, TypeStep, PTL DEF Spec

------------------------------------------------------------------------------
(* The inductive invariant: the transaction that holds the row lock is the   *)
(* one that wrote, and what it wrote is the committed version plus what its  *)
(* commit will book.                                                         *)

Delta(t) ==
  IF t \in Repairs THEN -MaterialsToUse(snapshot[t])
  ELSE IF Kind[t] \in Credits THEN Amount[t]
  ELSE IF Kind[t] = "expedition.launched" THEN -Amount[t]
  ELSE 0

LockOwned == \A t \in Txs : pc[t] = "written" <=> lock = t

WrittenFresh ==
  \A t \in Txs : pc[t] = "written" =>
    /\ written[t].materials = ship.materials + Delta(t)
    /\ t \in Repairs => written[t].hull >= ship.hull

IInv == /\ TypeOK
        /\ LockOwned
        /\ WrittenFresh
        /\ MaterialsConserved
        /\ LatestStateAnnounced

\* A step of t that neither takes nor gives up the row.
LEMMA QuietStep ==
  ASSUME IInv, TypeOK', NEW t \in Txs, NEW place, place # "written",
         pc[t] # "written", Goto(t, place),
         \A u \in Txs \ {t} : snapshot'[u] = snapshot[u] /\ written'[u] = written[u],
         UNCHANGED <<lock, ship, outbox, ledger>>
  PROVE  IInv'
<1>1. \A u \in Txs \ {t} : pc'[u] = pc[u] /\ Delta(u)' = Delta(u)
  BY DEF IInv, TypeOK, Goto, Delta, MaterialsToUse, Deficit
<1>2. pc'[t] # "written"
  BY DEF IInv, TypeOK, Goto
<1>3. LockOwned'
  BY <1>1, <1>2 DEF IInv, LockOwned
<1>4. WrittenFresh'
  BY <1>1, <1>2 DEF IInv, WrittenFresh
<1> QED
  BY <1>3, <1>4 DEF IInv, MaterialsConserved, LatestStateAnnounced

\* A step that takes the row and writes what its commit will book.
LEMMA WriteStep ==
  ASSUME IInv, TypeOK', NEW t \in Txs, NEW new \in States, Write(t, new),
         new.materials = ship.materials + Delta(t),
         t \in Repairs => new.hull >= ship.hull
  PROVE  IInv'
<1>1. UNCHANGED <<snapshot, ship, outbox, ledger>>
  BY DEF Write, shipVars
<1>2. \A u \in Txs : Delta(u)' = Delta(u)
  BY <1>1 DEF Delta, MaterialsToUse, Deficit
<1>3. \A u \in Txs : pc[u] # "written"
  BY TxAssumption DEF IInv, LockOwned, Write
<1>4. \A u \in Txs : pc'[u] = "written" <=> u = t
  BY <1>3 DEF IInv, TypeOK, Write, Goto
<1>5. written'[t] = new /\ lock' = t
  BY DEF IInv, TypeOK, Write
<1>6. LockOwned'
  BY <1>4, <1>5 DEF LockOwned
<1>7. WrittenFresh'
  BY <1>1, <1>2, <1>4, <1>5 DEF WrittenFresh
<1> QED
  BY <1>1, <1>6, <1>7 DEF IInv, MaterialsConserved, LatestStateAnnounced

LEMMA UpdateStep ==
  ASSUME IInv, TypeOK', NEW d \in Deliveries, pc[d] = "begun", NEW new,
         Valid(new) => new \in States, Update(d, new),
         new.materials = ship.materials + Delta(d)
  PROVE  IInv'
<1>1. d \in Txs /\ d \notin Repairs
  BY TxAssumption DEF Txs
<1>2. CASE Valid(new) /\ Write(d, new)
  BY <1>1, <1>2, WriteStep
<1>3. CASE Goto(d, "rejected") /\ UNCHANGED <<at, clock, snapshot, written, lock, shipVars, boundVars>>
  BY <1>1, <1>3, QuietStep DEF shipVars
<1> QED
  BY <1>2, <1>3 DEF Update

\* What a commit leaves is what the events and repairs add up to.
LEMMA CommitStep ==
  ASSUME IInv, TypeOK', NEW t \in Txs, Commit(t)
  PROVE  IInv'
<1>1. pc[t] = "written" /\ lock = t
  BY DEF Commit, IInv, LockOwned
<1>2. \A u \in Txs : pc'[u] # "written"
  <2>1. \A u \in Txs \ {t} : pc[u] # "written"
    BY <1>1 DEF IInv, LockOwned
  <2> QED
    BY <2>1 DEF IInv, TypeOK, Commit, Goto
<1>3. LockOwned'
  BY <1>2, TxAssumption DEF Commit, LockReleased, LockOwned
<1>4. WrittenFresh'
  BY <1>2 DEF WrittenFresh
<1>5. MaterialsConserved'
  <2>1. ship' = written[t] /\ ledger' = Booked(t)
    BY DEF Commit
  <2>2. written[t].materials = ship.materials + Delta(t)
    BY <1>1 DEF IInv, WrittenFresh
  <2>3. /\ ledger \in [credited : Nat, debited : Nat, spent : Nat]
        /\ ship.materials = ledger.credited - ledger.debited - ledger.spent
    BY DEF IInv, TypeOK, MaterialsConserved
  <2>4. /\ t \in Repairs => MaterialsToUse(snapshot[t]) \in Nat
        /\ t \notin Repairs => Amount[t] \in Nat
    BY UseBounded DEF IInv, TypeOK, Txs, DeliveryAssumption
  <2>5. Booked(t).credited - Booked(t).debited - Booked(t).spent
          = ledger.credited - ledger.debited - ledger.spent + Delta(t)
    BY <2>3, <2>4, BookedValue DEF IInv, Delta, Credits
  <2> QED
    BY <2>1, <2>2, <2>3, <2>5 DEF MaterialsConserved
<1>6. LatestStateAnnounced'
  <2>1. Status(t) \in [at : Nat, state : States] /\ Status(t).state = written[t]
    BY DEF IInv, TypeOK, Status
  <2>2. /\ outbox' # <<>>
        /\ outbox'[Len(outbox')] = Status(t)
    BY <2>1 DEF Commit, IInv, TypeOK
  <2> QED
    BY <2>1, <2>2 DEF Commit, LatestStateAnnounced
<1> QED
  BY <1>3, <1>4, <1>5, <1>6 DEF IInv

\* A failure gives up the row and leaves the committed version as it was.
LEMMA FailStep ==
  ASSUME IInv, TypeOK', NEW t \in Txs, Fail(t)
  PROVE  IInv'
<1>1. /\ UNCHANGED <<ship, outbox, ledger>>
      /\ \A u \in Txs \ {t} : snapshot'[u] = snapshot[u] /\ written'[u] = written[u]
  BY DEF Fail, Forget, shipVars, IInv, TypeOK
<1>a. PICK place \in Aftermath(t) : Goto(t, place) /\ place # "written"
  BY DEF Fail, Aftermath
<1>2. CASE pc[t] # "written"
  <2>1. lock' = lock
    BY <1>2 DEF Fail, IInv, LockOwned
  <2> QED
    BY <1>1, <1>a, <1>2, <2>1, QuietStep
<1>3. CASE pc[t] = "written"
  <2>1. lock' = NoTx /\ \A u \in Txs \ {t} : pc[u] # "written"
    BY <1>3 DEF Fail, IInv, LockOwned
  <2>2. \A u \in Txs : pc'[u] # "written"
    BY <1>a, <2>1 DEF Goto, IInv, TypeOK
  <2> QED
    BY <1>1, <2>1, <2>2, TxAssumption
    DEF IInv, LockOwned, WrittenFresh, MaterialsConserved, LatestStateAnnounced
<1> QED
  BY <1>2, <1>3

LEMMA HandleStep ==
  ASSUME IInv, TypeOK', NEW d \in Deliveries, Handle(d)
  PROVE  IInv'
<1>1. /\ d \in Txs /\ d \notin Repairs
      /\ Amount[d] \in Nat
      /\ ship \in States
  BY TxAssumption DEF IInv, TypeOK, Txs, DeliveryAssumption
<1>2. CASE HandleDailyCompleted(d)
  <2>1. AddMaterials(Amount[d]).materials = ship.materials + Delta(d)
    BY <1>1, <1>2 DEF HandleDailyCompleted, AddMaterials, Delta, Credits, States
  <2> QED
    BY <1>1, <1>2, <2>1, NewVersions, UpdateStep DEF HandleDailyCompleted
<1>3. CASE HandleDailyMissed(d)
  <2>1. ApplyDamage(Amount[d]).materials = ship.materials + Delta(d)
    BY <1>1, <1>3 DEF HandleDailyMissed, ApplyDamage, Delta, Credits, States
  <2> QED
    BY <1>1, <1>3, <2>1, NewVersions, UpdateStep DEF HandleDailyMissed
<1>4. CASE HandleExpeditionLaunched(d)
  <2>1. DeductMaterials(Amount[d]).materials = ship.materials + Delta(d)
    BY <1>1, <1>4 DEF HandleExpeditionLaunched, DeductMaterials, Delta, Credits, States
  <2> QED
    BY <1>1, <1>4, <2>1, NewVersions, UpdateStep DEF HandleExpeditionLaunched
<1>5. CASE HandleExpeditionCompleted(d) /\ Kind[d] = "expedition.completed"
  <2>1. AddMaterials(Amount[d]).materials = ship.materials + Delta(d)
    BY <1>1, <1>5 DEF AddMaterials, Delta, Credits, States
  <2>2. pc[d] = "begun" /\ Update(d, AddMaterials(Amount[d]))
    BY <1>5 DEF HandleExpeditionCompleted
  <2> QED
    BY <1>1, <2>1, <2>2, NewVersions, UpdateStep
<1>6. CASE HandleExpeditionCompleted(d) /\ Kind[d] # "expedition.completed"
  BY <1>1, <1>6, QuietStep DEF HandleExpeditionCompleted, shipVars
<1>7. CASE HandleUserCreated(d)
  BY <1>1, <1>7, QuietStep DEF HandleUserCreated
<1> QED
  BY <1>2, <1>3, <1>4, <1>5, <1>6, <1>7 DEF Handle

LEMMA RepairStep ==
  ASSUME IInv, TypeOK', NEW r \in Repairs, Repair(r)
  PROVE  IInv'
<1>1. r \in Txs /\ ship \in States /\ snapshot[r] \in States
  BY DEF IInv, TypeOK, Txs
<1>2. CASE RepairRead(r)
  <2>1. PICK place \in {"read", "refused"} : Goto(r, place)
    BY <1>2 DEF RepairRead
  <2>2. \A u \in Txs \ {r} : snapshot'[u] = snapshot[u]
    BY <1>2 DEF RepairRead, IInv, TypeOK
  <2> QED
    BY <1>1, <1>2, <2>1, <2>2, QuietStep DEF RepairRead, shipVars
<1>3. CASE RepairUpdate(r)
  <2>1. PICK restored \in HullToRestore(snapshot[r]) :
          Valid(Repaired(r, restored)) /\ Write(r, Repaired(r, restored))
    BY <1>3 DEF RepairUpdate
  <2>2. /\ Repaired(r, restored) \in States
        /\ Repaired(r, restored).materials
             = ship.materials - MaterialsToUse(snapshot[r])
        /\ Repaired(r, restored).hull >= ship.hull
    BY <1>1, <2>1, RepairedVersion
  <2>3. Repaired(r, restored).materials = ship.materials + Delta(r)
    <3>1. MaterialsToUse(snapshot[r]) \in Nat /\ ship.materials \in Nat
      BY <1>1, UseBounded DEF States
    <3> QED
      BY <2>2, <3>1 DEF Delta
  <2> QED
    BY <1>1, <2>1, <2>2, <2>3, WriteStep
<1>4. CASE RepairRefused(r)
  <2>1. \A u \in Txs \ {r} : snapshot'[u] = snapshot[u] /\ written'[u] = written[u]
    BY <1>4 DEF RepairRefused, Forget, IInv, TypeOK
  <2> QED
    BY <1>1, <1>4, <2>1, QuietStep DEF RepairRefused, shipVars
<1> QED
  BY <1>2, <1>3, <1>4 DEF Repair

LEMMA IInvInit == Init => IInv
  BY TypeInit, TxAssumption
  DEF Init, IInv, LockOwned, WrittenFresh, MaterialsConserved,
      LatestStateAnnounced, NewShip

LEMMA IInvStep == IInv /\ [Next]_vars => IInv'
<1> SUFFICES ASSUME IInv, [Next]_vars PROVE IInv'
  OBVIOUS
<1>0. TypeOK'
  BY TypeStep DEF IInv
<1>1. ASSUME NEW t \in Txs, Begin(t) PROVE IInv'
  BY <1>0, <1>1, QuietStep DEF Begin, shipVars
<1>2. ASSUME NEW t \in Txs, Commit(t) PROVE IInv'
  BY <1>0, <1>2, CommitStep
<1>3. ASSUME NEW t \in Txs, Fail(t) PROVE IInv'
  BY <1>0, <1>3, FailStep
<1>4. ASSUME NEW d \in Deliveries, Handle(d) PROVE IInv'
  BY <1>0, <1>4, HandleStep
<1>5. ASSUME NEW d \in Deliveries, Replay(d) PROVE IInv'
  BY <1>0, <1>5, QuietStep DEF Replay, shipVars, Txs
<1>6. ASSUME NEW r \in Repairs, Repair(r) PROVE IInv'
  BY <1>0, <1>6, RepairStep
<1>7. CASE UNCHANGED vars
  <2>1. \A t \in Txs : Delta(t)' = Delta(t)
    BY <1>7 DEF vars, txVars, Delta, MaterialsToUse, Deficit
  <2> QED
    BY <1>0, <1>7, <2>1
    DEF IInv, LockOwned, WrittenFresh, MaterialsConserved, LatestStateAnnounced,
        vars, txVars, shipVars
<1> QED
  BY <1>1, <1>2, <1>3, <1>4, <1>5, <1>6, <1>7 DEF Next

\* However handlers, replicas, repairs, failures and replays interleave, the
\* balance is the sum of what was committed: no update of the row is lost.
THEOREM NoLostUpdate == Spec => []MaterialsConserved
<1>1. IInv => MaterialsConserved
  BY DEF IInv
<1> QED
  BY <1>1, IInvInit, IInvStep, PTL DEF Spec

\* The status staged last is the ship's committed state.
THEOREM AnnouncedIsCurrent == Spec => []LatestStateAnnounced
<1>1. IInv => LatestStateAnnounced
  BY DEF IInv
<1> QED
  BY <1>1, IInvInit, IInvStep, PTL DEF Spec

\* A repair that commits never lowers the hull and never costs more than the
\* deficit it read, although it decided on an unlocked read.
THEOREM RepairIsSafe == Spec => RepairNeverDamages
<1>1. ASSUME IInv, [Next]_vars, NEW r \in Repairs, Commit(r)
      PROVE  /\ ship'.hull >= ship.hull
             /\ ship.materials - ship'.materials <= Deficit(snapshot[r])
  <2>1. r \in Txs /\ pc[r] = "written" /\ ship' = written[r]
    BY <1>1 DEF Commit, Txs
  <2>2. /\ written[r].materials = ship.materials + Delta(r)
        /\ written[r].hull >= ship.hull
    BY <1>1, <2>1 DEF IInv, WrittenFresh
  <2>3. /\ snapshot[r] \in States
        /\ ship.materials \in Nat
    BY <1>1, <2>1 DEF IInv, TypeOK, States
  <2>4. /\ Delta(r) = -MaterialsToUse(snapshot[r])
        /\ MaterialsToUse(snapshot[r]) \in Nat
        /\ Deficit(snapshot[r]) \in Nat
        /\ MaterialsToUse(snapshot[r]) <= Deficit(snapshot[r])
    BY <2>3, UseBounded DEF Delta
  <2> QED
    BY <2>1, <2>2, <2>3, <2>4
<1>2. IInv /\ [Next]_vars =>
        [\A r \in Repairs : Commit(r) =>
           /\ ship'.hull >= ship.hull
           /\ ship.materials - ship'.materials <= Deficit(snapshot[r])]_vars
  BY <1>1
<1> QED
  BY <1>2, IInvInit, IInvStep, PTL DEF Spec, RepairNeverDamages

------------------------------------------------------------------------------
(* The mirror.  A drain lists the pending rows by created_at: no two rows     *)
(* have the same, because no two transactions begin at one tick.             *)

Running == {t \in Txs : pc[t] \in {"begun", "read", "written"}}

StampedOnce ==
  /\ \A t \in Running : at[t] < clock
  /\ \A t, u \in Running : at[t] = at[u] => t = u
  /\ \A i \in DOMAIN outbox : outbox[i].at < clock
  /\ \A i, j \in DOMAIN outbox : outbox[i].at = outbox[j].at => i = j
  /\ \A i \in DOMAIN outbox, t \in Running : outbox[i].at # at[t]

LEMMA RowTypes ==
  ASSUME TypeOK
  PROVE  /\ Len(outbox) \in Nat /\ DOMAIN outbox = 1..Len(outbox)
         /\ \A i \in DOMAIN outbox : outbox[i].at \in Nat /\ outbox[i].state \in States
<1> DEFINE Rows == [at : Nat, state : States]
<1>1. outbox \in Seq(Rows)
  BY DEF TypeOK
<1>2. /\ Len(outbox) \in Nat /\ DOMAIN outbox = 1..Len(outbox)
      /\ outbox \in [1..Len(outbox) -> Rows]
  <2> HIDE DEF Rows
  <2> QED
    BY <1>1, LenProperties
<1> QED
  BY <1>2

\* Every nonempty set of numbers has a least one.
LEMMA LeastNatural ==
  ASSUME NEW D \in SUBSET Nat, D # {}
  PROVE  \E k \in D : \A j \in D : k <= j
<1> DEFINE T == {0..k : k \in D}
<1>1. T # {} /\ T \subseteq FiniteSubsetsOf(Nat)
  <2>1. ASSUME NEW k \in D PROVE 0..k \in FiniteSubsetsOf(Nat)
    <3>1. IsFiniteSet(0..k)
      BY FS_Interval, 0 \in Int, k \in Int
    <3>2. 0..k \in SUBSET Nat
      OBVIOUS
    <3> QED
      BY <3>1, <3>2 DEF FiniteSubsetsOf
  <2> QED
    BY <2>1
<1>2. IsWellFoundedOn(StrictSubsetOrdering(Nat), FiniteSubsetsOf(Nat))
  BY FS_StrictSubsetOrderingWellFounded
<1>3. PICK t \in T : \A u \in T : <<u, t>> \notin StrictSubsetOrdering(Nat)
  BY <1>1, <1>2, WFMin, Zenon
<1>4. PICK k \in D : t = 0..k
  OBVIOUS
<1>5. ASSUME NEW j \in D, j < k PROVE FALSE
  <2>1. k \in 0..k /\ k \notin 0..j
    BY <1>5
  <2>2. 0..j \subseteq 0..k /\ 0..j # 0..k
    BY <1>5, <2>1
  <2>3. 0..j \in SUBSET Nat /\ 0..k \in SUBSET Nat
    OBVIOUS
  <2>4. <<0..j, 0..k>> \in StrictSubsetOrdering(Nat)
    BY <2>2, <2>3 DEF StrictSubsetOrdering
  <2> QED
    BY <1>3, <1>4, <2>4
<1> QED
  BY <1>5

\* A row set before those of R in time comes before them in the order, too.
LEMMA OrderingExtends ==
  ASSUME TypeOK, NEW R \in SUBSET DOMAIN outbox, NEW m \in DOMAIN outbox \ R,
         IsFiniteSet(R), \A i \in R : outbox[m].at < outbox[i].at,
         Orderings(R) # {}
  PROVE  Orderings(R \cup {m}) # {}
<1>1. Cardinality(R) \in Nat /\ Cardinality(R \cup {m}) = Cardinality(R) + 1
  BY FS_CardinalityType, FS_AddElement
<1> DEFINE n == Cardinality(R)
<1> HIDE DEF n
<1>2. PICK g \in [1..n -> R] :
        \A i, j \in 1..n : i < j => outbox[g[i]].at < outbox[g[j]].at
  BY DEF Orderings, n
<1> DEFINE f == [i \in 1..n + 1 |-> IF i = 1 THEN m ELSE g[i - 1]]
<1>3. n \in Nat
  BY <1>1 DEF n
<1>4. ASSUME NEW i \in 1..n + 1, i # 1 PROVE i - 1 \in 1..n /\ g[i - 1] \in R
  BY <1>2, <1>3, <1>4
<1>5. f \in [1..n + 1 -> R \cup {m}]
  BY <1>4
<1>6. ASSUME NEW i \in 1..n + 1, NEW j \in 1..n + 1, i < j
      PROVE  outbox[f[i]].at < outbox[f[j]].at
  <2>1. j # 1 /\ f[j] = g[j - 1] /\ f[j] \in R
    BY <1>3, <1>4, <1>6
  <2>2. CASE i = 1
    BY <2>1, <2>2
  <2>3. CASE i # 1
    <3>1. i - 1 \in 1..n /\ j - 1 \in 1..n /\ i - 1 < j - 1 /\ f[i] = g[i - 1]
      BY <1>3, <1>4, <1>6, <2>1, <2>3
    <3> QED
      BY <1>2, <2>1, <3>1
  <2> QED
    BY <2>2, <2>3
<1>7. f \in Orderings(R \cup {m})
  BY <1>1, <1>5, <1>6, Zenon DEF Orderings, n
<1> QED
  BY <1>7

\* Rows with different times can be listed by time: otherwise some smallest set
\* of them could not, although it can without its earliest row.
LEMMA OrderingsExist ==
  ASSUME TypeOK, StampedOnce, NEW S \in SUBSET DOMAIN outbox
  PROVE  Orderings(S) # {}
<1> DEFINE D == DOMAIN outbox
           Unordered == {T \in SUBSET D : Orderings(T) = {}}
<1>1. IsFiniteSet(D)
  <2>1. Len(outbox) \in Nat /\ D = 1..Len(outbox)
    BY RowTypes
  <2> QED
    BY <2>1, FS_Interval, 1 \in Int, Len(outbox) \in Int
<1>2. SUFFICES ASSUME Unordered # {} PROVE FALSE
  OBVIOUS
<1>3. ASSUME NEW T \in SUBSET D PROVE IsFiniteSet(T)
  BY <1>1, FS_Subset
<1>4. Unordered \subseteq FiniteSubsetsOf(D)
  BY <1>3 DEF FiniteSubsetsOf
<1>5. PICK T \in Unordered : \A U \in Unordered : <<U, T>> \notin StrictSubsetOrdering(D)
  BY <1>2, <1>4, FS_StrictSubsetOrderingWellFounded, WFMin, Zenon
<1>6. T # {}
  <2>1. Cardinality({}) = 0
    BY FS_EmptySet
  <2>2. [i \in 1..0 |-> i] \in Orderings({})
    BY <2>1 DEF Orderings
  <2> QED
    BY <2>2
<1>7. \A i \in D : outbox[i].at \in Nat
  BY RowTypes
<1>8. PICK m \in T : \A i \in T : outbox[m].at <= outbox[i].at
  <2> DEFINE times == {outbox[i].at : i \in T}
  <2>1. times \in SUBSET Nat /\ times # {}
    BY <1>6, <1>7
  <2>2. PICK k \in times : \A j \in times : k <= j
    <3> HIDE DEF times
    <3> QED
      BY <2>1, LeastNatural
  <2> QED
    BY <2>2
<1> DEFINE R == T \ {m}
<1>9. R \in SUBSET D /\ IsFiniteSet(R) /\ T = R \cup {m} /\ m \in D \ R
  BY <1>3
<1>10. Orderings(R) # {}
  <2>1. <<R, T>> \in StrictSubsetOrdering(D)
    BY <1>9 DEF StrictSubsetOrdering
  <2> QED
    BY <1>5, <1>9, <2>1
<1>11. \A i \in R : outbox[m].at < outbox[i].at
  BY <1>7, <1>8, <1>9 DEF StampedOnce
<1> QED
  <2>1. Orderings(T) = {}
    OBVIOUS
  <2> HIDE DEF R
  <2> QED
    BY <1>9, <1>10, <1>11, <2>1, OrderingExtends

\* A drain publishes every row of its batch, the earliest first.
LEMMA DrainOrderLists ==
  ASSUME TypeOK, StampedOnce, NEW S \in SUBSET DOMAIN outbox
  PROVE  /\ Cardinality(S) \in Nat
         /\ S # {} => Cardinality(S) > 0
         /\ DrainOrder(S) \in [1..Cardinality(S) -> S]
         /\ \A i, j \in 1..Cardinality(S) :
              i < j => outbox[DrainOrder(S)[i]].at < outbox[DrainOrder(S)[j]].at
         /\ \A k \in S : \E i \in 1..Cardinality(S) : DrainOrder(S)[i] = k
<1> DEFINE n == Cardinality(S)
           f == DrainOrder(S)
<1>1. IsFiniteSet(S)
  <2>1. Len(outbox) \in Nat /\ DOMAIN outbox = 1..Len(outbox)
    BY RowTypes
  <2>2. IsFiniteSet(DOMAIN outbox)
    BY <2>1, FS_Interval, 1 \in Int, Len(outbox) \in Int
  <2> QED
    BY <2>2, FS_Subset
<1>2. n \in Nat
  BY <1>1, FS_CardinalityType
<1>3. S # {} => n > 0
  BY <1>1, <1>2, FS_EmptySet
<1>4. f \in Orderings(S)
  BY OrderingsExist DEF DrainOrder
<1>5. /\ f \in [1..n -> S]
      /\ \A i, j \in 1..n : i < j => outbox[f[i]].at < outbox[f[j]].at
  BY <1>4 DEF Orderings
<1>6. ASSUME NEW i \in 1..n, NEW j \in 1..n, f[i] = f[j] PROVE i = j
  <2>1. outbox[f[i]].at \in Nat /\ outbox[f[j]].at = outbox[f[i]].at
    <3> HIDE DEF f, n
    <3> QED
      BY <1>5, <1>6, RowTypes
  <2> HIDE DEF f, n
  <2> QED
    BY <1>2, <1>5, <2>1
<1>7. f \in Injection(1..n, S)
  BY <1>5, <1>6 DEF Injection, IsInjective
<1>8. Cardinality(1..n) = n
  BY <1>2, FS_Interval, 1 \in Int, n \in Int
<1>9. f \in Surjection(1..n, S)
  BY <1>1, <1>7, <1>8, FS_Injection
<1> QED
  BY <1>2, <1>3, <1>5, <1>9 DEF Surjection

\* A commit appends its row and moves no other.
LEMMA RowAppended ==
  ASSUME TypeOK, NEW t \in Txs, outbox' = Append(outbox, Status(t))
  PROVE  /\ Len(outbox') = Len(outbox) + 1
         /\ DOMAIN outbox' = 1..Len(outbox) + 1
         /\ \A i \in DOMAIN outbox : outbox'[i] = outbox[i]
         /\ outbox'[Len(outbox) + 1] = Status(t)
<1> DEFINE Rows == [at : Nat, state : States]
<1>1. outbox \in Seq(Rows) /\ Status(t) \in Rows
  BY DEF TypeOK, Status
<1> HIDE DEF Rows
<1>2. /\ outbox' \in Seq(Rows)
      /\ Len(outbox') = Len(outbox) + 1
      /\ \A i \in 1..Len(outbox) : outbox'[i] = outbox[i]
      /\ outbox'[Len(outbox) + 1] = Status(t)
  BY <1>1, AppendProperties
<1>3. DOMAIN outbox = 1..Len(outbox) /\ DOMAIN outbox' = 1..Len(outbox')
  BY <1>1, <1>2, LenProperties
<1> QED
  BY <1>2, <1>3

\* A step that begins no transaction and commits none.
LEMMA QuietStamps ==
  ASSUME TypeOK, StampedOnce, NEW t \in Txs, NEW place, Goto(t, place),
         t \in Running \/ place \notin {"begun", "read", "written"},
         UNCHANGED <<at, clock, outbox>>
  PROVE  StampedOnce'
<1>1. Running' \subseteq Running
  BY DEF TypeOK, Running, Goto
<1> QED
  BY <1>1 DEF StampedOnce

LEMMA StampedStep ==
  ASSUME TypeOK, StampedOnce, [Next]_vars
  PROVE  StampedOnce'
<1>1. ASSUME NEW t \in Txs, Begin(t) PROVE StampedOnce'
  <2>1. t \notin Running /\ Running' = Running \cup {t}
    BY <1>1 DEF Begin, Goto, Running, TypeOK
  <2>2. /\ at'[t] = clock /\ clock' = clock + 1 /\ outbox' = outbox
        /\ \A u \in Running : at'[u] = at[u]
    BY <1>1, <2>1 DEF Begin, TypeOK, Running, shipVars
  <2>3. /\ clock \in Nat
        /\ \A u \in Running : at[u] \in Nat
        /\ \A i \in DOMAIN outbox : outbox[i].at \in Nat
    BY RowTypes DEF TypeOK, Running
  <2> QED
    BY <2>1, <2>2, <2>3 DEF StampedOnce
<1>2. ASSUME NEW t \in Txs, Commit(t) PROVE StampedOnce'
  <2>1. t \in Running /\ Running' = Running \ {t}
    BY <1>2 DEF Commit, Goto, Running, TypeOK
  <2>2. /\ at' = at /\ clock' = clock
        /\ outbox' = Append(outbox, Status(t))
    BY <1>2 DEF Commit
  <2>3. /\ Len(outbox) \in Nat /\ DOMAIN outbox = 1..Len(outbox)
        /\ DOMAIN outbox' = 1..Len(outbox) + 1
        /\ \A i \in DOMAIN outbox : outbox'[i].at = outbox[i].at
        /\ outbox'[Len(outbox) + 1].at = at[t]
    BY <2>2, RowTypes, RowAppended DEF Status
  <2>4. \A i \in DOMAIN outbox' : i \in DOMAIN outbox \/ i = Len(outbox) + 1
    BY <2>3
  <2> QED
    BY <2>1, <2>2, <2>3, <2>4 DEF StampedOnce
<1>3. ASSUME NEW t \in Txs, Fail(t) PROVE StampedOnce'
  <2>1. PICK place \in Aftermath(t) : Goto(t, place)
    BY <1>3 DEF Fail
  <2>2. t \in Running /\ UNCHANGED <<at, clock, outbox>>
    BY <1>3 DEF Fail, Running, shipVars
  <2> QED
    BY <2>1, <2>2, QuietStamps
<1>4. ASSUME NEW d \in Deliveries, Handle(d) PROVE StampedOnce'
  <2>1. d \in Txs /\ d \in Running
    BY <1>4 DEF Txs, Running, Handle, HandleUserCreated, HandleDailyCompleted,
                HandleDailyMissed, HandleExpeditionLaunched, HandleExpeditionCompleted
  <2>2. ASSUME NEW new, Update(d, new) PROVE StampedOnce'
    BY <2>1, <2>2, QuietStamps DEF Update, Write, shipVars
  <2>3. ASSUME Goto(d, "committed"), UNCHANGED <<at, clock, outbox>> PROVE StampedOnce'
    BY <2>1, <2>3, QuietStamps
  <2> QED
    BY <1>4, <2>2, <2>3
    DEF Handle, HandleUserCreated, HandleDailyCompleted, HandleDailyMissed,
        HandleExpeditionLaunched, HandleExpeditionCompleted, shipVars
<1>5. ASSUME NEW d \in Deliveries, Replay(d) PROVE StampedOnce'
  BY <1>5, QuietStamps DEF Replay, shipVars, Txs
<1>6. ASSUME NEW r \in Repairs, Repair(r) PROVE StampedOnce'
  <2>1. r \in Txs /\ r \in Running
    BY <1>6 DEF Txs, Running, Repair, RepairRead, RepairUpdate, RepairRefused
  <2>2. ASSUME NEW place, Goto(r, place), UNCHANGED <<at, clock, outbox>>
        PROVE  StampedOnce'
    BY <2>1, <2>2, QuietStamps
  <2> QED
    BY <1>6, <2>2
    DEF Repair, RepairRead, RepairUpdate, RepairRefused, Write, shipVars
<1>7. CASE UNCHANGED vars
  BY <1>7 DEF vars, txVars, shipVars, StampedOnce, Running
<1> QED
  BY <1>1, <1>2, <1>3, <1>4, <1>5, <1>6, <1>7 DEF Next

\* ship-service only ever adds rows to its outbox.
LEMMA OutboxGrows ==
  ASSUME TypeOK, [Next]_vars
  PROVE  \/ outbox' = outbox
         \/ \E t \in Txs : outbox' = Append(outbox, Status(t))
<1>1. ASSUME NEW t \in Txs, Begin(t) \/ Fail(t) PROVE outbox' = outbox
  BY <1>1 DEF Begin, Fail, shipVars
<1>2. ASSUME NEW t \in Txs, Commit(t) PROVE outbox' = Append(outbox, Status(t))
  BY <1>2 DEF Commit
<1>3. ASSUME NEW d \in Deliveries, Handle(d) \/ Replay(d) PROVE outbox' = outbox
  BY <1>3 DEF Handle, HandleUserCreated, HandleDailyCompleted, HandleDailyMissed,
              HandleExpeditionLaunched, HandleExpeditionCompleted, Update, Write,
              Replay, shipVars
<1>4. ASSUME NEW r \in Repairs, Repair(r) PROVE outbox' = outbox
  BY <1>4 DEF Repair, RepairRead, RepairUpdate, RepairRefused, Write, shipVars
<1>5. CASE UNCHANGED vars
  BY <1>5 DEF vars, shipVars
<1> QED
  BY <1>1, <1>2, <1>3, <1>4, <1>5 DEF Next

------------------------------------------------------------------------------
(* The inductive invariant of the mirror: what is queued are states of        *)
(* published rows; and as long as nothing went out of order, the published    *)
(* rows are the first m of the outbox and the one the mirror has learnt of    *)
(* last, or will once the queue is empty, is row m.                          *)

MirrorType ==
  /\ published \subseteq DOMAIN outbox
  /\ queue \in Seq(States)
  /\ cached \in BOOLEAN
  /\ cache \in States
  /\ seeded \in BOOLEAN
  /\ skips \in Nat
  /\ dropped \in Nat

QueueShowsRealStates ==
  \A n \in 1..Len(queue) : \E i \in published : outbox[i].state = queue[n]

\* Row m is the last one on its way, or the one the mirror shows.
LearntLast(m) ==
  IF queue # <<>> THEN queue[Len(queue)] = outbox[m].state
                  ELSE cached /\ cache = outbox[m].state

\* The first m rows are published.
KnownUpTo(m) ==
  /\ published = 1..m
  /\ IF m = 0 THEN queue = <<>> /\ (cached => cache = NewShip)
              ELSE LearntLast(m)

Undisturbed == StartedInCommitOrder /\ skips = 0 /\ dropped = 0

InOrder ==
  /\ seeded => cached
  /\ Undisturbed => \E m \in 0..Len(outbox) : KnownUpTo(m)

MirrorInv == /\ IInv
             /\ StampedOnce
             /\ MirrorType
             /\ QueueShowsRealStates
             /\ MirrorShowsRealStates
             /\ InOrder

\* A step of ship-service moves nothing of the mirror and no row of the outbox.
LEMMA ShipStep ==
  ASSUME MirrorInv, [Next]_vars, UNCHANGED mirrorVars
  PROVE  MirrorInv'
<1>1. IInv' /\ StampedOnce'
  BY IInvStep, StampedStep DEF MirrorInv, IInv
<1>2. UNCHANGED <<published, queue, cached, cache, seeded, skips, dropped>>
  BY DEF mirrorVars
<1>3. /\ Len(outbox) \in Nat /\ Len(outbox') \in Nat
      /\ Len(outbox) <= Len(outbox')
      /\ DOMAIN outbox = 1..Len(outbox) /\ DOMAIN outbox' = 1..Len(outbox')
      /\ \A i \in DOMAIN outbox : outbox'[i] = outbox[i]
  <2>1. CASE outbox' = outbox
    BY <2>1, RowTypes DEF MirrorInv, IInv
  <2>2. CASE \E t \in Txs : outbox' = Append(outbox, Status(t))
    BY <2>2, RowTypes, RowAppended DEF MirrorInv, IInv
  <2> QED
    BY <2>1, <2>2, OutboxGrows DEF MirrorInv, IInv
<1>4. published \subseteq DOMAIN outbox
  BY DEF MirrorInv, MirrorType
<1>5. MirrorType'
  BY <1>2, <1>3, <1>4 DEF MirrorInv, MirrorType
<1>6. QueueShowsRealStates' /\ MirrorShowsRealStates'
  BY <1>2, <1>3, <1>4 DEF MirrorInv, QueueShowsRealStates, MirrorShowsRealStates
<1>7. Undisturbed' => Undisturbed
  BY <1>2, <1>3 DEF Undisturbed, StartedInCommitOrder
<1>8. ASSUME NEW m \in 0..Len(outbox), KnownUpTo(m) PROVE KnownUpTo(m)'
  <2>1. m # 0 => outbox'[m] = outbox[m]
    BY <1>3, <1>8
  <2> QED
    BY <1>2, <1>8, <2>1 DEF KnownUpTo, LearntLast
<1>9. InOrder'
  <2>1. \A m \in 0..Len(outbox) : m \in 0..Len(outbox')
    BY <1>3
  <2> QED
    BY <1>2, <1>7, <1>8, <2>1 DEF MirrorInv, InOrder
<1> QED
  BY <1>1, <1>5, <1>6, <1>9 DEF MirrorInv

\* What ship-service guarantees does not depend on the mirror.
LEMMA IInvFaults ==
  ASSUME IInv, UNCHANGED <<txVars, shipVars, replays>>, faults' \in Nat
  PROVE  IInv'
<1>1. \A t \in Txs : Delta(t)' = Delta(t)
  BY DEF txVars, Delta, MaterialsToUse, Deficit
<1>2. TypeOK'
  BY DEF IInv, TypeOK, txVars, shipVars
<1> QED
  BY <1>1, <1>2
  DEF IInv, LockOwned, WrittenFresh, MaterialsConserved, LatestStateAnnounced,
      txVars, shipVars

\* The states one drain of the rows S adds to the queue.
Drained(S) == [i \in 1..Cardinality(S) |-> outbox[DrainOrder(S)[i]].state]

LEMMA DrainedStates ==
  ASSUME MirrorInv, NEW S \in SUBSET DOMAIN outbox, S # {}
  PROVE  /\ Drained(S) \in Seq(States)
         /\ Len(Drained(S)) = Cardinality(S) /\ Cardinality(S) \in Nat \ {0}
         /\ Len(queue \o Drained(S)) = Len(queue) + Cardinality(S)
         /\ \A n \in 1..Len(queue) + Cardinality(S) :
              (queue \o Drained(S))[n] =
                IF n <= Len(queue) THEN queue[n]
                ELSE outbox[DrainOrder(S)[n - Len(queue)]].state
<1> DEFINE n == Cardinality(S)
<1>1. n \in Nat \ {0} /\ DrainOrder(S) \in [1..n -> S]
  BY DrainOrderLists DEF MirrorInv, IInv
<1>2. \A i \in 1..n : outbox[DrainOrder(S)[i]].state \in States
  <2> HIDE DEF n
  <2> QED
    BY <1>1, RowTypes DEF MirrorInv, IInv
<1>3. Drained(S) \in [1..n -> States]
  BY <1>2 DEF Drained
<1>4. Drained(S) \in Seq(States) /\ Len(Drained(S)) = n
  <2> HIDE DEF n
  <2> QED
    BY <1>1, <1>3
<1>5. queue \in Seq(States)
  BY DEF MirrorInv, MirrorType
<1>6. /\ Len(queue \o Drained(S)) = Len(queue) + n
      /\ \A k \in 1..Len(queue) + n :
           (queue \o Drained(S))[k] =
             IF k <= Len(queue) THEN queue[k] ELSE Drained(S)[k - Len(queue)]
  BY <1>4, <1>5, ConcatProperties
<1>7. ASSUME NEW k \in 1..Len(queue) + n, ~(k <= Len(queue))
      PROVE  Drained(S)[k - Len(queue)] = outbox[DrainOrder(S)[k - Len(queue)]].state
  <2>1. k - Len(queue) \in 1..n
    <3> HIDE DEF n
    <3> QED
      BY <1>1, <1>5, <1>7
  <2> QED
    BY <2>1 DEF Drained
<1> QED
  BY <1>1, <1>4, <1>6, <1>7

LEMMA IInvSame ==
  ASSUME MirrorInv, UNCHANGED vars
  PROVE  IInv' /\ StampedOnce' /\ outbox' = outbox
  BY IInvStep, StampedStep DEF MirrorInv, IInv, vars, shipVars

\* A drain that leaves nothing behind queues the latest row last.
LEMMA DrainStep ==
  ASSUME MirrorInv, DrainStatuses
  PROVE  MirrorInv'
<1>1. PICK S \in SUBSET Pending :
        /\ S # {}
        /\ IF S = Pending THEN UNCHANGED skips
                          ELSE skips < MaxSkips /\ skips' = skips + 1
        /\ queue' = queue \o Drained(S)
        /\ published' = published \cup S
        /\ UNCHANGED <<vars, cached, cache, seeded, dropped>>
  BY DEF DrainStatuses, Drained
<1>2. IInv' /\ StampedOnce' /\ outbox' = outbox
  BY <1>1, IInvSame
<1>3. S \in SUBSET DOMAIN outbox
  BY DEF Pending
<1> DEFINE n == Cardinality(S)
           f == DrainOrder(S)
<1>4. /\ n \in Nat \ {0}
      /\ Drained(S) \in Seq(States)
      /\ Len(queue') = Len(queue) + n
      /\ \A k \in 1..Len(queue) + n :
           queue'[k] = IF k <= Len(queue) THEN queue[k]
                       ELSE outbox[f[k - Len(queue)]].state
  BY <1>1, <1>3, DrainedStates
<1>5. /\ f \in [1..n -> S]
      /\ \A i, j \in 1..n : i < j => outbox[f[i]].at < outbox[f[j]].at
      /\ \A k \in S : \E i \in 1..n : f[i] = k
  BY <1>3, DrainOrderLists DEF MirrorInv, IInv
<1> HIDE DEF n, f
<1>6. /\ queue \in Seq(States) /\ Len(queue) \in Nat
      /\ published \subseteq DOMAIN outbox /\ skips \in Nat
  BY DEF MirrorInv, MirrorType
<1>7. MirrorType'
  <2>1. queue' \in Seq(States)
    BY <1>1, <1>4, <1>6, ConcatProperties
  <2>2. skips' \in Nat
    BY <1>1, <1>6
  <2> QED
    BY <1>1, <1>2, <1>3, <2>1, <2>2 DEF MirrorInv, MirrorType
<1>8. QueueShowsRealStates'
  <2> SUFFICES ASSUME NEW k \in 1..Len(queue')
               PROVE  \E i \in published' : outbox[i].state = queue'[k]
    BY <1>2 DEF QueueShowsRealStates
  <2>1. CASE k <= Len(queue)
    <3>1. k \in 1..Len(queue) /\ queue'[k] = queue[k]
      BY <1>4, <1>6, <2>1
    <3> QED
      BY <1>1, <3>1 DEF MirrorInv, QueueShowsRealStates
  <2>2. CASE ~(k <= Len(queue))
    <3>1. k - Len(queue) \in 1..n /\ queue'[k] = outbox[f[k - Len(queue)]].state
      BY <1>4, <1>6, <2>2
    <3>2. f[k - Len(queue)] \in published'
      BY <1>1, <1>5, <3>1
    <3> QED
      BY <3>1, <3>2
  <2> QED
    BY <2>1, <2>2
<1>9. MirrorShowsRealStates'
  BY <1>1, <1>2 DEF MirrorInv, MirrorShowsRealStates
<1>10. InOrder'
  <2>1. seeded' => cached'
    BY <1>1 DEF MirrorInv, InOrder
  <2>2. SUFFICES ASSUME Undisturbed' PROVE KnownUpTo(Len(outbox))'
    <3>1. Len(outbox') \in 0..Len(outbox')
      BY <1>2, RowTypes DEF IInv, MirrorInv
    <3> QED
      BY <1>2, <2>1, <3>1 DEF InOrder
  <2>3. S = Pending /\ Undisturbed
    BY <1>1, <1>2, <1>6, <2>2 DEF Undisturbed, StartedInCommitOrder
  <2>4. PICK m \in 0..Len(outbox) : published = 1..m
    BY <2>3 DEF MirrorInv, InOrder, KnownUpTo
  <2>5. /\ Len(outbox) \in Nat /\ DOMAIN outbox = 1..Len(outbox)
        /\ \A i \in DOMAIN outbox : outbox[i].at \in Nat
    BY RowTypes DEF MirrorInv, IInv
  <2>6. published' = 1..Len(outbox)
    BY <1>1, <2>3, <2>4, <2>5 DEF Pending
  <2>7. Len(outbox) \in S
    BY <1>1, <2>3, <2>4, <2>5 DEF Pending
  <2>8. f[n] = Len(outbox)
    <3>1. PICK i \in 1..n : f[i] = Len(outbox)
      BY <1>5, <2>7
    <3>2. ASSUME i # n PROVE FALSE
      <4>1. n \in 1..n /\ i < n
        BY <1>4, <3>2
      <4>2. outbox[Len(outbox)].at < outbox[f[n]].at /\ f[n] \in DOMAIN outbox
        BY <1>3, <1>5, <3>1, <4>1
      <4>3. CASE f[n] = Len(outbox)
        BY <2>5, <4>2, <4>3
      <4>4. CASE f[n] # Len(outbox)
        <5>1. f[n] < Len(outbox) /\ Len(outbox) \in DOMAIN outbox
          BY <2>5, <4>2, <4>4
        <5>2. outbox[f[n]].at < outbox[Len(outbox)].at
          BY <2>3, <4>2, <5>1 DEF Undisturbed, StartedInCommitOrder
        <5> QED
          BY <2>5, <4>2, <5>1, <5>2
      <4> QED
        BY <4>3, <4>4
    <3> QED
      BY <3>1, <3>2
  <2>9. queue'[Len(queue')] = outbox[Len(outbox)].state /\ queue' # <<>>
    <3>1. Len(queue') \in 1..Len(queue) + n /\ ~(Len(queue') <= Len(queue))
          /\ Len(queue') - Len(queue) = n
      BY <1>4, <1>6
    <3> QED
      BY <1>4, <2>8, <3>1
  <2> QED
    BY <1>2, <2>5, <2>6, <2>7, <2>9 DEF KnownUpTo, LearntLast, Pending
<1> QED
  BY <1>2, <1>7, <1>8, <1>9, <1>10 DEF MirrorInv

\* Taking the first of the queue.
LEMMA TakenFirst ==
  ASSUME MirrorType, queue # <<>>, queue' = Tail(queue)
  PROVE  /\ Head(queue) \in States /\ Head(queue) = queue[1]
         /\ queue' \in Seq(States)
         /\ Len(queue) \in Nat \ {0} /\ Len(queue') = Len(queue) - 1
         /\ \A n \in 1..Len(queue') : n + 1 \in 1..Len(queue) /\ queue'[n] = queue[n + 1]
<1>1. queue \in Seq(States)
  BY DEF MirrorType
<1>2. Len(queue) \in Nat \ {0}
  BY <1>1, EmptySeq
<1>3. /\ Head(queue) \in States /\ queue' \in Seq(States)
      /\ Len(queue') = Len(queue) - 1
      /\ \A n \in 1..Len(queue') : queue'[n] = queue[n + 1]
  BY <1>1, HeadTailProperties
<1>4. \A n \in 1..Len(queue') : n + 1 \in 1..Len(queue)
  BY <1>2, <1>3
<1> QED
  BY <1>1, <1>2, <1>3, <1>4

LEMMA UpsertStep ==
  ASSUME MirrorInv, HandleShipStatusUpdated
  PROVE  MirrorInv'
<1>1. /\ queue # <<>> /\ queue' = Tail(queue)
      /\ cached' = TRUE /\ cache' = Head(queue)
      /\ UNCHANGED <<vars, published, seeded, skips, dropped>>
  BY DEF HandleShipStatusUpdated, Upserted
<1>2. IInv' /\ StampedOnce' /\ outbox' = outbox
  BY <1>1, IInvSame
<1>3. /\ Head(queue) \in States /\ Head(queue) = queue[1]
      /\ queue' \in Seq(States)
      /\ Len(queue) \in Nat \ {0} /\ Len(queue') = Len(queue) - 1
      /\ \A n \in 1..Len(queue') : n + 1 \in 1..Len(queue) /\ queue'[n] = queue[n + 1]
  BY <1>1, TakenFirst DEF MirrorInv
<1>4. MirrorType'
  BY <1>1, <1>2, <1>3 DEF MirrorInv, MirrorType
<1>5. QueueShowsRealStates'
  BY <1>1, <1>2, <1>3 DEF MirrorInv, QueueShowsRealStates
<1>6. MirrorShowsRealStates'
  <2>1. 1 \in 1..Len(queue)
    BY <1>3
  <2> QED
    BY <1>1, <1>2, <1>3, <2>1 DEF MirrorInv, QueueShowsRealStates, MirrorShowsRealStates
<1>7. InOrder'
  <2>1. Undisturbed' => Undisturbed
    BY <1>1, <1>2 DEF Undisturbed, StartedInCommitOrder
  <2>2. ASSUME NEW m \in 0..Len(outbox), KnownUpTo(m) PROVE KnownUpTo(m)'
    <3>1. m # 0 /\ published = 1..m /\ queue[Len(queue)] = outbox[m].state
      BY <1>1, <2>2 DEF KnownUpTo, LearntLast
    <3>2. CASE queue' = <<>>
      <4>1. Len(queue) = 1
        <5>1. Len(queue') = 0
          BY <3>2
        <5> QED
          BY <1>3, <5>1
      <4> QED
        BY <1>1, <1>2, <1>3, <3>1, <3>2, <4>1 DEF KnownUpTo, LearntLast
    <3>3. CASE queue' # <<>>
      <4>1. Len(queue') \in Nat \ {0}
        BY <1>3, <3>3, EmptySeq
      <4>2. queue'[Len(queue')] = queue[Len(queue)]
        BY <1>3, <4>1
      <4> QED
        BY <1>1, <1>2, <3>1, <3>3, <4>2 DEF KnownUpTo, LearntLast
    <3> QED
      BY <3>2, <3>3
  <2> QED
    BY <1>1, <1>2, <2>1, <2>2 DEF MirrorInv, InOrder
<1> QED
  BY <1>2, <1>4, <1>5, <1>6, <1>7 DEF MirrorInv

LEMMA DropStep ==
  ASSUME MirrorInv, DropStatus
  PROVE  MirrorInv'
<1>1. /\ queue # <<>> /\ queue' = Tail(queue)
      /\ dropped' = dropped + 1 /\ faults' = faults + 1
      /\ UNCHANGED <<txVars, shipVars, replays>>
      /\ UNCHANGED <<published, cached, cache, seeded, skips>>
  BY DEF DropStatus
<1>2. IInv'
  <2>1. faults' \in Nat
    BY <1>1 DEF MirrorInv, IInv, TypeOK
  <2> QED
    BY <1>1, <2>1, IInvFaults DEF MirrorInv
<1>3. StampedOnce' /\ outbox' = outbox
  BY <1>1 DEF MirrorInv, StampedOnce, Running, txVars, shipVars
<1>4. /\ queue' \in Seq(States)
      /\ Len(queue') = Len(queue) - 1
      /\ \A n \in 1..Len(queue') : n + 1 \in 1..Len(queue) /\ queue'[n] = queue[n + 1]
  BY <1>1, TakenFirst DEF MirrorInv
<1>5. dropped' \in Nat \ {0}
  BY <1>1 DEF MirrorInv, MirrorType
<1>6. MirrorType'
  BY <1>1, <1>3, <1>4, <1>5 DEF MirrorInv, MirrorType
<1>7. QueueShowsRealStates' /\ MirrorShowsRealStates'
  BY <1>1, <1>3, <1>4 DEF MirrorInv, QueueShowsRealStates, MirrorShowsRealStates
<1>8. InOrder'
  BY <1>1, <1>5 DEF MirrorInv, InOrder, Undisturbed
<1> QED
  BY <1>2, <1>3, <1>6, <1>7, <1>8 DEF MirrorInv

\* A seed that comes late does not undo what the mirror has learnt.
LEMMA SeedStep ==
  ASSUME MirrorInv, SeedOnUserCreated
  PROVE  MirrorInv'
<1>1. /\ cached' = TRUE /\ seeded' = TRUE
      /\ cached => cache' = cache
      /\ ~cached => cache' = NewShip
      /\ UNCHANGED <<vars, published, queue, skips, dropped>>
  BY DEF SeedOnUserCreated, Seed
<1>2. IInv' /\ StampedOnce' /\ outbox' = outbox
  BY <1>1, IInvSame
<1>3. MirrorType'
  BY <1>1, <1>2, NewShipType DEF MirrorInv, MirrorType
<1>4. QueueShowsRealStates'
  BY <1>1, <1>2 DEF MirrorInv, QueueShowsRealStates
<1>5. MirrorShowsRealStates'
  BY <1>1, <1>2 DEF MirrorInv, MirrorShowsRealStates, NewShip
<1>6. ASSUME NEW m \in 0..Len(outbox), KnownUpTo(m) PROVE KnownUpTo(m)'
  BY <1>1, <1>2, <1>6 DEF KnownUpTo, LearntLast, NewShip
<1>7. InOrder'
  <2>1. Undisturbed' => Undisturbed
    BY <1>1, <1>2 DEF Undisturbed, StartedInCommitOrder
  <2> QED
    BY <1>1, <1>2, <1>6, <2>1 DEF MirrorInv, InOrder
<1> QED
  BY <1>2, <1>3, <1>4, <1>5, <1>7 DEF MirrorInv

LEMMA MirrorInvInit == MirrorInit => MirrorInv
<1> SUFFICES ASSUME MirrorInit PROVE MirrorInv
  OBVIOUS
<1>1. IInv
  BY IInvInit DEF MirrorInit
<1>2. /\ outbox = <<>> /\ queue = <<>> /\ published = {}
      /\ cached = FALSE /\ cache = NewShip /\ seeded = FALSE
      /\ skips = 0 /\ dropped = 0
      /\ pc = [t \in Txs |-> IF exists /\ t \in Creations THEN "committed" ELSE "new"]
  BY DEF MirrorInit, Init
<1>3. StampedOnce
  <2>1. Running = {}
    BY <1>2 DEF Running
  <2>2. DOMAIN outbox = {}
    BY <1>2
  <2> QED
    BY <2>1, <2>2 DEF StampedOnce
<1>4. MirrorType
  <2>1. queue \in Seq(States)
    BY <1>2
  <2> QED
    BY <1>2, <2>1, NewShipType DEF MirrorType
<1>5. QueueShowsRealStates /\ MirrorShowsRealStates
  BY <1>2 DEF QueueShowsRealStates, MirrorShowsRealStates
<1>6. InOrder
  <2>1. KnownUpTo(0) /\ 0 \in 0..Len(outbox)
    BY <1>2 DEF KnownUpTo
  <2> QED
    BY <1>2, <2>1 DEF InOrder
<1> QED
  BY <1>1, <1>3, <1>4, <1>5, <1>6 DEF MirrorInv

LEMMA MirrorInvStep == MirrorInv /\ [MirrorNext]_allVars => MirrorInv'
<1> SUFFICES ASSUME MirrorInv, [MirrorNext]_allVars PROVE MirrorInv'
  OBVIOUS
<1>1. CASE Next /\ UNCHANGED mirrorVars
  BY <1>1, ShipStep
<1>2. CASE DrainStatuses
  BY <1>2, DrainStep
<1>3. CASE HandleShipStatusUpdated
  BY <1>3, UpsertStep
<1>4. CASE DropStatus
  BY <1>4, DropStep
<1>5. CASE SeedOnUserCreated
  BY <1>5, SeedStep
<1>6. CASE UNCHANGED allVars
  BY <1>6, ShipStep DEF allVars
<1> QED
  BY <1>1, <1>2, <1>3, <1>4, <1>5, <1>6 DEF MirrorNext

\* Every reachable state of ship-service together with the mirror is well typed;
\* in particular a mirrored hull and balance are ones a ship may have.
THEOREM MirrorTypeCorrect == MirrorSpec => [](TypeOK /\ MirrorType)
<1>1. MirrorInv => TypeOK /\ MirrorType
  BY DEF MirrorInv, IInv
<1> QED
  BY <1>1, MirrorInvInit, MirrorInvStep, PTL DEF MirrorSpec

\* The mirror never shows a state the ship did not have, in whatever order
\* statuses are drained, lost or overtaken by the seed.
THEOREM MirrorIsRealState == MirrorSpec => []MirrorShowsRealStates
<1>1. MirrorInv => MirrorShowsRealStates
  BY DEF MirrorInv
<1> QED
  BY <1>1, MirrorInvInit, MirrorInvStep, PTL DEF MirrorSpec

\* If transactions started in commit order and nothing was left behind or
\* lost, the mirror at rest is the ship, for any number of changes to it.
THEOREM MirrorIsShipInOrder == MirrorSpec => []MirrorFaithfulInOrder
<1>1. ASSUME MirrorInv PROVE MirrorFaithfulInOrder
  <2> SUFFICES ASSUME AtRest, StartedInCommitOrder, skips = 0, dropped = 0
               PROVE  cache = ship
    BY DEF MirrorFaithfulInOrder
  <2>1. PICK m \in 0..Len(outbox) : KnownUpTo(m)
    BY <1>1 DEF MirrorInv, InOrder, Undisturbed
  <2>2. /\ Len(outbox) \in Nat /\ DOMAIN outbox = 1..Len(outbox)
        /\ DOMAIN outbox \subseteq 1..m
    <3>1. DOMAIN outbox \subseteq published
      BY DEF AtRest, Pending
    <3> QED
      BY <1>1, <2>1, <3>1, RowTypes DEF MirrorInv, IInv, KnownUpTo
  <2>3. m = Len(outbox)
    <3>1. ASSUME m < Len(outbox) PROVE FALSE
      <4>1. Len(outbox) \in 1..Len(outbox)
        BY <2>2, <3>1
      <4> QED
        BY <2>2, <3>1, <4>1
    <3>2. Len(outbox) \in Nat /\ m \in 0..Len(outbox)
      BY <2>1, <2>2
    <3> DEFINE last == Len(outbox)
    <3> HIDE DEF last
    <3>3. last \in Nat /\ m \in 0..last /\ ~(m < last)
      BY <3>1, <3>2 DEF last
    <3>4. m = last
      BY <3>3
    <3> QED
      BY <3>4 DEF last
  <2>4. queue = <<>> /\ cached
    BY <1>1 DEF AtRest, MirrorInv, InOrder
  <2>5. CASE m = 0
    <3>1. outbox = <<>>
      BY <1>1, <2>3, <2>5, EmptySeq DEF MirrorInv, IInv, TypeOK
    <3> QED
      BY <1>1, <2>1, <2>4, <2>5, <3>1
      DEF KnownUpTo, MirrorInv, IInv, LatestStateAnnounced
  <2>6. CASE m # 0
    <3>1. outbox # <<>> /\ cache = outbox[Len(outbox)].state
      BY <2>1, <2>3, <2>4, <2>6 DEF KnownUpTo, LearntLast
    <3> QED
      BY <1>1, <3>1 DEF MirrorInv, IInv, LatestStateAnnounced
  <2> QED
    BY <2>5, <2>6
<1> QED
  BY <1>1, MirrorInvInit, MirrorInvStep, PTL DEF MirrorSpec
==============================================================================
