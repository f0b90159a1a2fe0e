-------------------------- MODULE ExpeditionProofs --------------------------
(****************************************************************************)
(* Theorems about Expedition, for any launches, Players, worker replicas,   *)
(* batch and drain sizes, and about HistoryPager, the pages that list what  *)
(* is past, for any number of entries and any page size.                    *)
(****************************************************************************)
EXTENDS Expedition, HistoryPager, FiniteSetTheorems, SequenceTheorems, TLAPS

\* A launch whose row occupies its Player's entry of expeditions_current_idx.
Holds(l) == pc[l] = "inserted" \/ status[l] = "IN_FLIGHT"

OneHolder ==
  \A l, k \in Launches : l # k /\ PlayerOf[l] = PlayerOf[k] => ~(Holds(l) /\ Holds(k))

\* A row exists from the commit of its launch on.
RowOfLaunched == \A l \in Launches : pc[l] = "launched" <=> status[l] # "none"

\* What a worker has locked is due, and locked by it alone.
BatchesDue ==
  \A w \in Workers : rolled[w] \subseteq batch[w] /\ \A l \in batch[w] : Due(l)

BatchesApart ==
  \A v, w \in Workers : v # w => batch[v] \cap batch[w] = {}

\* Row locks end with the transaction.
LockedOnlyWhileSettling ==
  \A w \in Workers : wpc[w] # "settling" => batch[w] = {}

IInv == /\ TypeOK
        /\ OneHolder
        /\ RowOfLaunched
        /\ BatchesDue
        /\ BatchesApart
        /\ LockedOnlyWhileSettling
        /\ SettledOnceAndPaid

------------------------------------------------------------------------------
LEMMA TypeInit == Init => TypeOK
  BY TimeAssumption, SizeAssumption DEF Init, TypeOK

\* A drain only moves rows from PENDING to PUBLISHED.
LEMMA DrainMoves ==
  ASSUME TypeOK, Drained
  PROVE  /\ pending' \in SUBSET EventRows
         /\ published' \in SUBSET EventRows
         /\ faults' \in 0..MaxFaults
         /\ Staged' = Staged
<1>1. PICK claim \in SUBSET pending : \E sent \in SUBSET claim :
        /\ IF sent = claim THEN UNCHANGED faults ELSE Fault
        /\ pending' = pending \ sent
        /\ published' = published \cup sent
  BY DEF Drained
<1>2. PICK sent \in SUBSET claim :
        /\ IF sent = claim THEN UNCHANGED faults ELSE Fault
        /\ pending' = pending \ sent
        /\ published' = published \cup sent
  BY <1>1
<1>3. faults' \in 0..MaxFaults
  BY <1>2, SizeAssumption DEF TypeOK, Fault
<1> QED
  BY <1>1, <1>2, <1>3 DEF TypeOK, Staged

LEMMA LaunchType ==
  ASSUME TypeOK, NEW l \in Launches, Launch(l)
  PROVE  TypeOK'
<1> USE DEF TypeOK
<1>1. CASE LaunchBegin(l)
  BY <1>1 DEF LaunchBegin, workVars, outboxVars
<1>2. CASE LaunchRefused(l)
  BY <1>2 DEF LaunchRefused, workVars, outboxVars
<1>3. CASE LaunchCheck(l)
  BY <1>3 DEF LaunchCheck, workVars, outboxVars
<1>4. CASE LaunchInsert(l)
  <2>1. PICK jitter \in -Jitter..Jitter :
          resolveAt' = [resolveAt EXCEPT ![l] = now + Length + jitter]
    BY <1>4 DEF LaunchInsert
  <2>2. now + Length + jitter \in Int
    BY TimeAssumption
  <2> QED
    BY <1>4, <2>1, <2>2 DEF LaunchInsert, workVars, outboxVars
<1>5. CASE LaunchConflict(l)
  BY <1>5 DEF LaunchConflict, workVars, outboxVars
<1>6. CASE LaunchCommit(l)
  BY <1>6 DEF LaunchCommit, workVars, EventRows
<1>7. CASE LaunchFails(l)
  BY <1>7, SizeAssumption DEF LaunchFails, Fault, workVars, outboxVars
<1> QED
  BY <1>1, <1>2, <1>3, <1>4, <1>5, <1>6, <1>7 DEF Launch

LEMMA TickType ==
  ASSUME TypeOK, NEW w \in Workers, Tick(w)
  PROVE  TypeOK'
<1> USE DEF TypeOK, WorkerAt
<1>1. CASE TickStart(w)
  BY <1>1 DEF TickStart, launchVars, outboxVars
<1>2. CASE ListPendingExpeditions(w)
  <2>1. PICK S \in SUBSET Listable : batch' = [batch EXCEPT ![w] = S]
    BY <1>2 DEF ListPendingExpeditions
  <2>2. S \in SUBSET Launches
    BY DEF Listable
  <2> QED
    BY <1>2, <2>1, <2>2 DEF ListPendingExpeditions, launchVars, outboxVars
<1>3. CASE Settle(w)
  <2>1. PICK l \in batch[w] \ rolled[w] :
          /\ rolled' = [rolled EXCEPT ![w] = @ \cup {l}]
          /\ \E success \in BOOLEAN :
               won' = [won EXCEPT ![w] = IF success THEN @ \cup {l} ELSE @]
    BY <1>3 DEF Settle
  <2>2. PICK success \in BOOLEAN :
          won' = [won EXCEPT ![w] = IF success THEN @ \cup {l} ELSE @]
    BY <2>1
  <2> QED
    BY <1>3, <2>1, <2>2 DEF Settle, launchVars, outboxVars
<1>4. CASE SettleCommit(w)
  <2>1. status' \in [Launches -> {"none", "IN_FLIGHT", "RESOLVED", "FAILED"}]
    BY <1>4 DEF SettleCommit, Outcome
  <2>2. results' \in [Launches -> Nat]
    BY <1>4 DEF SettleCommit
  <2>3. pending' \in SUBSET EventRows
    BY <1>4 DEF SettleCommit, EventRows
  <2> QED
    BY <1>4, <2>1, <2>2, <2>3 DEF SettleCommit, ReleaseBatch
<1>5. CASE SettleFails(w)
  BY <1>5, SizeAssumption
  DEF SettleFails, KeptOnFailure, ReleaseBatch, Fault, outboxVars
<1>6. CASE WorkerDrain(w)
  BY <1>6, DrainMoves DEF WorkerDrain, launchVars
<1>7. CASE TickEnds(w)
  BY <1>7 DEF TickEnds, launchVars, outboxVars
<1> QED
  BY <1>1, <1>2, <1>3, <1>4, <1>5, <1>6, <1>7 DEF Tick

LEMMA TypeStep == TypeOK /\ [Next]_vars => TypeOK'
<1> SUFFICES ASSUME TypeOK, [Next]_vars PROVE TypeOK'
  OBVIOUS
<1>1. CASE PassTime
  BY <1>1, TimeAssumption DEF TypeOK, PassTime, launchVars, workVars, outboxVars
<1>2. ASSUME NEW l \in Launches, Launch(l) PROVE TypeOK'
  BY <1>2, LaunchType
<1>3. ASSUME NEW w \in Workers, Tick(w) PROVE TypeOK'
  BY <1>3, TickType
<1>4. CASE ServiceDrain
  BY <1>4, DrainMoves DEF ServiceDrain, TypeOK, launchVars, workVars
<1>5. CASE UNCHANGED vars
  BY <1>5 DEF TypeOK, vars, launchVars, workVars, outboxVars
<1> QED
  BY <1>1, <1>2, <1>3, <1>4, <1>5 DEF Next

\* Every reachable state of launches, batches and outbox is well typed.
THEOREM TypeCorrect == Spec => []TypeOK
  BY TypeInit, TypeStep, PTL DEF Spec

------------------------------------------------------------------------------
\* Steps that touch neither rows of expeditions, nor batches, nor the set of
\* staged events: whoever holds an entry of the index keeps it.
LEMMA QuietStep ==
  ASSUME IInv, TypeOK', UNCHANGED <<status, resolveAt, batch, results>>,
         Staged' = Staged, now' >= now,
         \A w \in Workers : /\ rolled'[w] \subseteq batch[w]
                            /\ wpc'[w] # "settling" => wpc[w] # "settling",
         \A l \in Launches : \/ pc'[l] = pc[l]
                             \/ /\ pc'[l] \notin {"inserted", "launched"}
                                /\ pc[l] # "launched"
  PROVE  IInv'
<1>1. now \in Int /\ now' \in Int /\ \A l \in Launches : resolveAt[l] \in Int
  BY TimeAssumption DEF IInv, TypeOK
<1>2. OneHolder'
  BY DEF IInv, OneHolder, Holds
<1>3. RowOfLaunched'
  BY DEF IInv, RowOfLaunched
<1>4. BatchesDue'
  BY <1>1 DEF IInv, TypeOK, BatchesDue, Due
<1>5. BatchesApart' /\ LockedOnlyWhileSettling'
  BY DEF IInv, BatchesApart, LockedOnlyWhileSettling
<1>6. SettledOnceAndPaid'
  <2> SUFFICES ASSUME NEW l \in Launches
               PROVE  /\ results'[l] = IF Settled(l)' THEN 1 ELSE 0
                      /\ Settled(l)' <=> <<"completed", l>> \in Staged'
                      /\ Settled(l)' => resolveAt'[l] < now'
                      /\ status'[l] # "none" <=> <<"launched", l>> \in Staged'
    BY DEF SettledOnceAndPaid
  <2>1. Settled(l)' <=> Settled(l)
    BY DEF Settled
  <2>2. Settled(l) => resolveAt[l] < now
    BY DEF IInv, SettledOnceAndPaid
  <2>3. results'[l] = IF Settled(l)' THEN 1 ELSE 0
    BY <2>1 DEF IInv, SettledOnceAndPaid
  <2>4. Settled(l)' => resolveAt'[l] < now'
    BY <1>1, <2>1, <2>2
  <2>5. /\ Settled(l)' <=> <<"completed", l>> \in Staged'
        /\ status'[l] # "none" <=> <<"launched", l>> \in Staged'
    BY <2>1 DEF IInv, SettledOnceAndPaid
  <2> QED
    BY <2>3, <2>4, <2>5
<1> QED
  BY <1>2, <1>3, <1>4, <1>5, <1>6 DEF IInv

LEMMA LaunchStep ==
  ASSUME IInv, TypeOK', NEW l \in Launches, Launch(l)
  PROVE  IInv'
<1>0. TypeOK /\ now \in Int
  BY TimeAssumption DEF IInv, TypeOK
<1>1. ASSUME NEW place \in {"began", "checked", "refused"},
             pc' = [pc EXCEPT ![l] = place], pc[l] # "launched",
             UNCHANGED <<now, status, createdAt, resolveAt, workVars, results, outboxVars>>
      PROVE  IInv'
  <2>1. UNCHANGED <<status, resolveAt, batch, results>> /\ Staged' = Staged /\ now' >= now
    BY <1>0, <1>1 DEF workVars, outboxVars, Staged
  <2>2. \A w \in Workers : rolled'[w] \subseteq batch[w] /\ wpc'[w] = wpc[w]
    BY <1>1 DEF workVars, IInv, BatchesDue
  <2>3. \A k \in Launches : \/ pc'[k] = pc[k]
                            \/ /\ pc'[k] \notin {"inserted", "launched"}
                               /\ pc[k] # "launched"
    BY <1>0, <1>1 DEF TypeOK
  <2> QED
    BY <2>1, <2>2, <2>3, QuietStep
<1>2. CASE LaunchBegin(l)
  BY <1>1, <1>2 DEF LaunchBegin
<1>3. CASE LaunchRefused(l)
  BY <1>1, <1>3 DEF LaunchRefused
<1>4. CASE LaunchCheck(l)
  BY <1>1, <1>4 DEF LaunchCheck
<1>5. CASE LaunchConflict(l)
  BY <1>1, <1>5 DEF LaunchConflict
<1>6. CASE LaunchFails(l)
  BY <1>1, <1>6 DEF LaunchFails, Underway
<1>7. CASE LaunchInsert(l)
  <2>1. /\ pc[l] = "checked" /\ status[l] = "none"
        /\ pc' = [pc EXCEPT ![l] = "inserted"]
        /\ \A k \in Launches \ {l} : resolveAt'[k] = resolveAt[k]
        /\ UNCHANGED <<now, status, wpc, batch, rolled, results>> /\ Staged' = Staged
    BY <1>0, <1>7 DEF LaunchInsert, workVars, outboxVars, Staged, TypeOK,
                      IInv, RowOfLaunched
  <2>2. \A k \in Launches \ {l} : PlayerOf[k] = PlayerOf[l] => ~Holds(k)
    BY <1>7 DEF LaunchInsert, IndexFree, InFlight, Others, Holds
  <2>3. OneHolder'
    BY <1>0, <2>1, <2>2 DEF IInv, OneHolder, Holds, TypeOK
  <2>4. RowOfLaunched'
    BY <1>0, <2>1 DEF IInv, RowOfLaunched, TypeOK
  <2>5. BatchesDue'
    BY <1>0, <2>1 DEF IInv, BatchesDue, Due, TypeOK
  <2>6. SettledOnceAndPaid'
    BY <2>1 DEF IInv, SettledOnceAndPaid, Settled
  <2> QED
    BY <2>1, <2>3, <2>4, <2>5, <2>6
    DEF IInv, BatchesApart, LockedOnlyWhileSettling
<1>8. CASE LaunchCommit(l)
  <2>1. /\ pc[l] = "inserted" /\ status[l] = "none"
        /\ pc' = [pc EXCEPT ![l] = "launched"]
        /\ status' = [status EXCEPT ![l] = "IN_FLIGHT"]
        /\ UNCHANGED <<now, resolveAt, wpc, batch, rolled, results>>
        /\ Staged' = Staged \cup {<<"launched", l>>}
    BY <1>0, <1>8 DEF LaunchCommit, workVars, Staged, TypeOK, IInv, RowOfLaunched
  <2>2. OneHolder'
    BY <1>0, <2>1 DEF IInv, OneHolder, Holds, TypeOK
  <2>3. RowOfLaunched'
    BY <1>0, <2>1 DEF IInv, RowOfLaunched, TypeOK
  <2>4. BatchesDue'
    BY <1>0, <2>1 DEF IInv, BatchesDue, Due, TypeOK
  <2>5. SettledOnceAndPaid'
    <3> SUFFICES ASSUME NEW k \in Launches
                 PROVE  /\ results'[k] = IF Settled(k)' THEN 1 ELSE 0
                        /\ Settled(k)' <=> <<"completed", k>> \in Staged'
                        /\ Settled(k)' => resolveAt'[k] < now'
                        /\ status'[k] # "none" <=> <<"launched", k>> \in Staged'
      BY DEF SettledOnceAndPaid
    <3>1. Settled(k)' <=> Settled(k)
      BY <1>0, <2>1 DEF Settled, TypeOK
    <3>2. <<"completed", k>> \in Staged' <=> <<"completed", k>> \in Staged
      BY <2>1
    <3>3. status'[k] # "none" <=> <<"launched", k>> \in Staged'
      <4>1. CASE k = l
        BY <1>0, <2>1, <4>1 DEF TypeOK
      <4>2. CASE k # l
        <5>1. status'[k] = status[k]
          BY <1>0, <2>1, <4>2 DEF TypeOK
        <5>2. <<"launched", k>> \in Staged' <=> <<"launched", k>> \in Staged
          BY <2>1, <4>2
        <5> QED
          BY <5>1, <5>2 DEF IInv, SettledOnceAndPaid
      <4> QED
        BY <4>1, <4>2
    <3>4. results'[k] = IF Settled(k)' THEN 1 ELSE 0
      BY <2>1, <3>1 DEF IInv, SettledOnceAndPaid
    <3>5. Settled(k)' => resolveAt'[k] < now'
      BY <2>1, <3>1 DEF IInv, SettledOnceAndPaid
    <3> QED
      BY <3>1, <3>2, <3>3, <3>4, <3>5 DEF IInv, SettledOnceAndPaid
  <2> QED
    BY <2>1, <2>2, <2>3, <2>4, <2>5
    DEF IInv, BatchesApart, LockedOnlyWhileSettling
<1> QED
  BY <1>2, <1>3, <1>4, <1>5, <1>6, <1>7, <1>8 DEF Launch

LEMMA SettleCommitStep ==
  ASSUME IInv, TypeOK', NEW w \in Workers, SettleCommit(w)
  PROVE  IInv'
<1>0. TypeOK /\ batch[w] \in SUBSET Launches
  BY DEF IInv, TypeOK
<1>1. /\ rolled[w] = batch[w]
      /\ \A l \in Launches : l \in batch[w] => Due(l)
  BY DEF IInv, BatchesDue, SettleCommit
<1>2. \A l \in batch[w] : /\ status'[l] \in {"RESOLVED", "FAILED"}
                          /\ results'[l] = results[l] + 1
  BY <1>0, <1>1 DEF SettleCommit, Outcome
<1>3. \A l \in Launches \ batch[w] : status'[l] = status[l] /\ results'[l] = results[l]
  BY <1>0, <1>1 DEF SettleCommit, TypeOK
<1>4. /\ UNCHANGED <<now, pc, resolveAt>>
      /\ Staged' = Staged \cup ({"completed"} \X batch[w])
      /\ batch' = [batch EXCEPT ![w] = {}]
      /\ rolled' = [rolled EXCEPT ![w] = {}]
  BY <1>1 DEF SettleCommit, ReleaseBatch, Staged
<1>5. OneHolder'
  BY <1>2, <1>3, <1>4 DEF IInv, OneHolder, Holds
<1>6. RowOfLaunched'
  BY <1>1, <1>2, <1>3, <1>4 DEF IInv, RowOfLaunched, Due
<1>7. BatchesApart' /\ LockedOnlyWhileSettling'
  BY <1>0, <1>4 DEF IInv, BatchesApart, LockedOnlyWhileSettling, TypeOK,
                    SettleCommit, WorkerAt
<1>8. BatchesDue'
  <2> SUFFICES ASSUME NEW v \in Workers
               PROVE  rolled'[v] \subseteq batch'[v] /\ \A l \in batch'[v] : Due(l)'
    BY DEF BatchesDue
  <2>1. CASE v = w
    BY <1>0, <1>4, <2>1 DEF TypeOK
  <2>2. CASE v # w
    <3>1. batch'[v] = batch[v] /\ rolled'[v] = rolled[v]
      BY <1>0, <1>4, <2>2 DEF TypeOK
    <3>2. \A l \in batch[v] : l \in Launches \ batch[w] /\ Due(l)
      BY <1>0, <2>2 DEF IInv, BatchesApart, BatchesDue, TypeOK
    <3> QED
      BY <1>3, <1>4, <3>1, <3>2 DEF Due, IInv, BatchesDue
  <2> QED
    BY <2>1, <2>2
<1>9. SettledOnceAndPaid'
  <2> SUFFICES ASSUME NEW l \in Launches
               PROVE  /\ results'[l] = IF Settled(l)' THEN 1 ELSE 0
                      /\ Settled(l)' <=> <<"completed", l>> \in Staged'
                      /\ Settled(l)' => resolveAt'[l] < now'
                      /\ status'[l] # "none" <=> <<"launched", l>> \in Staged'
    BY DEF SettledOnceAndPaid
  <2>1. CASE l \in batch[w]
    BY <1>1, <1>2, <1>4, <2>1 DEF IInv, SettledOnceAndPaid, Settled, Due
  <2>2. CASE l \notin batch[w]
    BY <1>3, <1>4, <2>2 DEF IInv, SettledOnceAndPaid, Settled
  <2> QED
    BY <2>1, <2>2
<1> QED
  BY <1>5, <1>6, <1>7, <1>8, <1>9 DEF IInv

\* A batch that failed leaves its rows IN_FLIGHT and unlocked.
LEMMA SettleFailsStep ==
  ASSUME IInv, TypeOK', NEW w \in Workers, SettleFails(w)
  PROVE  IInv'
<1>0. TypeOK
  BY DEF IInv
<1>1. /\ UNCHANGED <<now, pc, status, resolveAt, results>>
      /\ Staged' = Staged
      /\ wpc' = [wpc EXCEPT ![w] = "idle"]
      /\ batch' = [batch EXCEPT ![w] = {}]
      /\ rolled' = [rolled EXCEPT ![w] = {}]
  BY DEF SettleFails, KeptOnFailure, ReleaseBatch, WorkerAt, outboxVars, Staged
<1>2. OneHolder' /\ RowOfLaunched'
  BY <1>1 DEF IInv, OneHolder, Holds, RowOfLaunched
<1>3. BatchesDue'
  BY <1>0, <1>1 DEF IInv, BatchesDue, Due, TypeOK
<1>4. BatchesApart' /\ LockedOnlyWhileSettling'
  BY <1>0, <1>1 DEF IInv, BatchesApart, LockedOnlyWhileSettling, TypeOK
<1>5. SettledOnceAndPaid'
  BY <1>1 DEF IInv, SettledOnceAndPaid, Settled
<1> QED
  BY <1>2, <1>3, <1>4, <1>5 DEF IInv

\* SKIP LOCKED: what a worker lists no other has locked.
LEMMA ListStep ==
  ASSUME IInv, TypeOK', NEW w \in Workers, ListPendingExpeditions(w)
  PROVE  IInv'
<1>0. TypeOK
  BY DEF IInv
<1>1. PICK S \in SUBSET Listable : batch' = [batch EXCEPT ![w] = S]
  BY DEF ListPendingExpeditions
<1>2. /\ UNCHANGED <<now, pc, status, resolveAt, rolled, results>>
      /\ Staged' = Staged
      /\ wpc[w] = "listing"
      /\ wpc' = [wpc EXCEPT ![w] = "settling"]
  BY DEF ListPendingExpeditions, WorkerAt, launchVars, outboxVars, Staged
<1>3. \A l \in S : l \in Launches /\ Due(l) /\ \A v \in Workers : l \notin batch[v]
  BY <1>1 DEF Listable
<1>4. rolled[w] = {}
  BY <1>2 DEF IInv, BatchesDue, LockedOnlyWhileSettling
<1>5. BatchesApart' /\ LockedOnlyWhileSettling'
  BY <1>0, <1>1, <1>2, <1>3
  DEF IInv, BatchesApart, LockedOnlyWhileSettling, TypeOK
<1>6. BatchesDue'
  BY <1>0, <1>1, <1>2, <1>3, <1>4 DEF IInv, BatchesDue, Due, TypeOK
<1>7. SettledOnceAndPaid'
  BY <1>2 DEF IInv, SettledOnceAndPaid, Settled
<1> QED
  BY <1>2, <1>5, <1>6, <1>7 DEF IInv, OneHolder, Holds, RowOfLaunched

LEMMA TickStep ==
  ASSUME IInv, TypeOK', NEW w \in Workers, Tick(w)
  PROVE  IInv'
<1>0. /\ TypeOK /\ now \in Int
      /\ \A v \in Workers : rolled[v] \subseteq batch[v]
  BY TimeAssumption DEF IInv, TypeOK, BatchesDue
<1>1. ASSUME NEW place, WorkerAt(w, place), wpc[w] # "settling",
             UNCHANGED <<now, launchVars, batch, rolled, results>>, Staged' = Staged
      PROVE  IInv'
  <2>1. \A v \in Workers : wpc'[v] # "settling" => wpc[v] # "settling"
    BY <1>0, <1>1 DEF WorkerAt, TypeOK
  <2> QED
    BY <1>0, <1>1, <2>1, QuietStep DEF launchVars
<1>2. CASE TickStart(w)
  BY <1>1, <1>2 DEF TickStart, outboxVars, Staged
<1>3. CASE ListPendingExpeditions(w)
  BY <1>3, ListStep
<1>4. CASE Settle(w)
  <2>1. PICK l \in batch[w] \ rolled[w] : rolled' = [rolled EXCEPT ![w] = @ \cup {l}]
    BY <1>4 DEF Settle
  <2>2. \A v \in Workers : rolled'[v] \subseteq batch[v]
    BY <1>0, <2>1 DEF TypeOK
  <2> QED
    BY <1>0, <1>4, <2>2, QuietStep DEF Settle, launchVars, outboxVars, Staged
<1>5. CASE SettleCommit(w)
  BY <1>5, SettleCommitStep
<1>6. CASE SettleFails(w)
  BY <1>6, SettleFailsStep
<1>7. CASE WorkerDrain(w)
  BY <1>0, <1>1, <1>7, DrainMoves DEF WorkerDrain
<1>8. CASE TickEnds(w)
  BY <1>1, <1>8 DEF TickEnds, outboxVars, Staged
<1> QED
  BY <1>2, <1>3, <1>4, <1>5, <1>6, <1>7, <1>8 DEF Tick

LEMMA IInvInit == Init => IInv
<1> SUFFICES ASSUME Init PROVE IInv
  OBVIOUS
<1>1. OneHolder /\ RowOfLaunched
  BY DEF Init, OneHolder, Holds, RowOfLaunched
<1>2. BatchesDue /\ BatchesApart /\ LockedOnlyWhileSettling
  BY DEF Init, BatchesDue, BatchesApart, LockedOnlyWhileSettling
<1>3. SettledOnceAndPaid
  BY DEF Init, SettledOnceAndPaid, Settled, Staged
<1> QED
  BY <1>1, <1>2, <1>3, TypeInit DEF IInv

LEMMA IInvStep == IInv /\ [Next]_vars => IInv'
<1> SUFFICES ASSUME IInv, [Next]_vars PROVE IInv'
  OBVIOUS
<1>0. TypeOK' /\ TypeOK /\ now \in Int
  BY TypeStep, TimeAssumption DEF IInv, TypeOK
<1>1. \A w \in Workers : rolled[w] \subseteq batch[w]
  BY DEF IInv, BatchesDue
<1>2. CASE PassTime
  BY <1>0, <1>1, <1>2, QuietStep
  DEF PassTime, launchVars, workVars, outboxVars, Staged
<1>3. ASSUME NEW l \in Launches, Launch(l) PROVE IInv'
  BY <1>0, <1>3, LaunchStep
<1>4. ASSUME NEW w \in Workers, Tick(w) PROVE IInv'
  BY <1>0, <1>4, TickStep
<1>5. CASE ServiceDrain
  BY <1>0, <1>1, <1>5, DrainMoves, QuietStep DEF ServiceDrain, launchVars, workVars
<1>6. CASE UNCHANGED vars
  BY <1>0, <1>1, <1>6, QuietStep
  DEF vars, launchVars, workVars, outboxVars, Staged
<1> QED
  BY <1>2, <1>3, <1>4, <1>5, <1>6 DEF Next

\* However many requests race, a Player has at most one expedition in flight.
THEOREM AtMostOneInFlight == Spec => []OneInFlight
<1>1. IInv => OneInFlight
  BY DEF IInv, OneHolder, Holds, OneInFlight
<1> QED
  BY <1>1, IInvInit, IInvStep, PTL DEF Spec

\* Any number of worker replicas settles an expedition once, with one result and
\* one expedition.completed, and not before it is due.
THEOREM SettlementIsAtomic == Spec => []SettledOnceAndPaid
<1>1. IInv => SettledOnceAndPaid
  BY DEF IInv
<1> QED
  BY <1>1, IInvInit, IInvStep, PTL DEF Spec

------------------------------------------------------------------------------
(* The cooldown between a Player's expeditions.                              *)

\* Two launches that one Player asked for.
Rivals(l, k) == l # k /\ PlayerOf[l] = PlayerOf[k]

\* Jitter is shorter than a flight: a row is due some time after its creation.
DueLater ==
  \A l \in Launches : pc[l] \in {"inserted", "launched"} =>
    createdAt[l] <= now /\ createdAt[l] < resolveAt[l]

\* No time passes between the insert and its commit.
NewRowIsNow == \A l \in Launches : pc[l] = "inserted" => createdAt[l] = now

\* What a launch that passed its check knows of its Player's expeditions: they
\* are past the cooldown, but for those committed since, in this same instant.
\* An inserted row knows it of them all.
CheckedCold ==
  \A l, k \in Launches : Rivals(l, k) /\ status[k] # "none" =>
    /\ pc[l] = "checked" => createdAt[k] = now \/ resolveAt[k] + Length < now
    /\ pc[l] = "inserted" => resolveAt[k] + Length < now

Apart == DueLater /\ NewRowIsNow /\ CheckedCold /\ CooldownKept

\* A nonempty set of naturals has a least element: of the intervals 0..k for its
\* elements k one includes no other.
LEMMA LeastNatural ==
  ASSUME NEW D \in SUBSET Nat, D # {}
  PROVE  \E k \in D : \A j \in D : k <= j
<1> DEFINE T == {0..k : k \in D}
<1>1. T # {} /\ T \subseteq FiniteSubsetsOf(Nat)
  <2>1. T # {}
    OBVIOUS
  <2>2. ASSUME NEW k \in D PROVE 0..k \in FiniteSubsetsOf(Nat)
    <3>1. IsFiniteSet(0..k)
      BY FS_Interval, 0 \in Int, k \in Int
    <3>2. 0..k \in SUBSET Nat
      OBVIOUS
    <3> QED
      BY <3>1, <3>2 DEF FiniteSubsetsOf
  <2> QED
    BY <2>1, <2>2
<1>2. IsWellFoundedOn(StrictSubsetOrdering(Nat), FiniteSubsetsOf(Nat))
  BY FS_StrictSubsetOrderingWellFounded
<1>3. PICK t \in T : \A u \in T : <<u, t>> \notin StrictSubsetOrdering(Nat)
  BY <1>1, <1>2, WFMin, Zenon
<1>4. PICK k \in D : t = 0..k
  OBVIOUS
<1>5. ASSUME NEW j \in D, j < k PROVE FALSE
  <2>1. 0..j \subseteq 0..k /\ 0..j # 0..k
    <3>1. k \in 0..k /\ k \notin 0..j
      BY <1>5
    <3> QED
      BY <1>5, <3>1
  <2>2. 0..j \in SUBSET Nat /\ 0..k \in SUBSET Nat
    OBVIOUS
  <2>3. <<0..j, 0..k>> \in StrictSubsetOrdering(Nat)
    BY <2>1, <2>2 DEF StrictSubsetOrdering
  <2> QED
    BY <1>3, <1>4, <2>3
<1> QED
  BY <1>5

\* A Player who has expeditions has a latest one: creation times are bounded.
LEMMA LatestExists ==
  ASSUME TypeOK, NEW l \in Launches, Others(l) # {}
  PROVE  Latest(l) # {}
<1> DEFINE D == {MaxTime - createdAt[k] : k \in Others(l)}
<1>1. \A k \in Others(l) : k \in Launches /\ createdAt[k] \in 0..MaxTime
  BY DEF TypeOK, Others
<1>2. D \in SUBSET Nat /\ D # {}
  BY <1>1, TimeAssumption
<1>3. PICK d \in D : \A e \in D : d <= e
  BY <1>2, LeastNatural
<1>4. PICK k \in Others(l) : d = MaxTime - createdAt[k]
  BY <1>3
<1>5. ASSUME NEW j \in Others(l) PROVE createdAt[j] <= createdAt[k]
  <2>1. d <= MaxTime - createdAt[j]
    BY <1>3
  <2> QED
    BY <1>1, <1>4, <2>1, TimeAssumption
<1> QED
  BY <1>4, <1>5 DEF Latest

\* The check looks at the latest expedition only; that the others are further
\* back is what the cooldown between them says.
LEMMA ColdSinceLatest ==
  ASSUME TypeOK, RowOfLaunched, DueLater, CooldownKept,
         NEW l \in Launches, ~Cooling(l), NEW k \in Others(l)
  PROVE  resolveAt[k] + Length < now
<1>1. PICK m \in Latest(l) : m \in Others(l) /\ createdAt[k] <= createdAt[m]
  BY LatestExists DEF Latest
<1>2. resolveAt[m] < now - Length
  <2>1. ~(resolveAt[m] >= now - Length)
    BY <1>1 DEF Cooling
  <2> QED
    BY <1>1, <2>1, TimeAssumption DEF TypeOK, Others
<1>3. /\ k \in Launches /\ m \in Launches
      /\ now \in Int /\ Length \in Int
      /\ createdAt[k] \in Int /\ createdAt[m] \in Int
      /\ resolveAt[k] \in Int /\ resolveAt[m] \in Int
      /\ createdAt[m] <= now /\ createdAt[m] < resolveAt[m]
  BY <1>1, TimeAssumption DEF TypeOK, Others, RowOfLaunched, DueLater
<1>4. CASE k = m
  BY <1>2, <1>3, <1>4
<1>5. CASE k # m
  <2>1. \/ createdAt[m] > resolveAt[k] + Length
        \/ createdAt[k] > resolveAt[m] + Length
    BY <1>1, <1>3, <1>5 DEF CooldownKept, Others
  <2>2. Length >= 0
    BY TimeAssumption
  <2> QED
    BY <1>1, <1>3, <2>1, <2>2
<1> QED
  BY <1>4, <1>5

\* Steps that commit no row, move no clock and let no launch through.
LEMMA QuietApart ==
  ASSUME Apart, UNCHANGED <<now, createdAt, resolveAt>>,
         \A l \in Launches : /\ status'[l] # "none" <=> status[l] # "none"
                             /\ \/ pc'[l] = pc[l]
                                \/ pc'[l] \notin {"checked", "inserted", "launched"}
  PROVE  Apart'
<1>1. DueLater' /\ NewRowIsNow'
  BY DEF Apart, DueLater, NewRowIsNow
<1>2. CheckedCold'
  BY DEF Apart, CheckedCold, Rivals
<1>3. CooldownKept'
  BY DEF Apart, CooldownKept
<1> QED
  BY <1>1, <1>2, <1>3 DEF Apart

LEMMA PassTimeApart ==
  ASSUME TypeOK, Apart, PassTime
  PROVE  Apart'
<1>1. /\ now' = now + 1 /\ now \in Int
      /\ \A l \in Launches : pc[l] \notin {"checked", "inserted"}
      /\ UNCHANGED <<pc, status, createdAt, resolveAt>>
  BY TimeAssumption DEF PassTime, Underway, launchVars, TypeOK
<1>2. DueLater'
  BY <1>1 DEF Apart, DueLater, TypeOK
<1>3. NewRowIsNow' /\ CheckedCold' /\ CooldownKept'
  BY <1>1 DEF Apart, NewRowIsNow, CheckedCold, CooldownKept
<1> QED
  BY <1>2, <1>3 DEF Apart

LEMMA CheckApart ==
  ASSUME IInv, Apart, NEW l \in Launches, LaunchCheck(l)
  PROVE  Apart'
<1>1. /\ UNCHANGED <<now, status, createdAt, resolveAt>>
      /\ \A k \in Launches \ {l} : pc'[k] = pc[k]
      /\ pc'[l] = IF Cooling(l) THEN "refused" ELSE "checked"
  BY DEF LaunchCheck, IInv, TypeOK
<1>2. CASE Cooling(l)
  BY <1>1, <1>2, QuietApart
<1>3. CASE ~Cooling(l)
  <2>1. \A k \in Launches : Rivals(l, k) /\ status[k] # "none" => resolveAt[k] + Length < now
    BY <1>3, ColdSinceLatest DEF Rivals, Others, IInv, Apart
  <2>2. CheckedCold'
    BY <1>1, <1>3, <2>1 DEF Apart, CheckedCold, Rivals
  <2>3. DueLater' /\ NewRowIsNow' /\ CooldownKept'
    BY <1>1, <1>3 DEF Apart, DueLater, NewRowIsNow, CooldownKept
  <2> QED
    BY <2>2, <2>3 DEF Apart
<1> QED
  BY <1>2, <1>3

\* The index lets the row in only when its Player has nothing in flight; an
\* expedition committed in this instant would still be.
LEMMA InsertApart ==
  ASSUME IInv, Apart, NEW l \in Launches, LaunchInsert(l)
  PROVE  Apart'
<1>1. /\ pc[l] = "checked" /\ IndexFree(l) /\ status[l] = "none"
      /\ UNCHANGED <<now, status>> /\ now \in Int
      /\ pc'[l] = "inserted" /\ createdAt'[l] = now
      /\ \A k \in Launches \ {l} : /\ pc'[k] = pc[k]
                                   /\ createdAt'[k] = createdAt[k]
                                   /\ resolveAt'[k] = resolveAt[k]
  BY TimeAssumption DEF LaunchInsert, IInv, TypeOK, RowOfLaunched
<1>2. resolveAt'[l] > now
  <2>1. PICK jitter \in -Jitter..Jitter :
          resolveAt' = [resolveAt EXCEPT ![l] = now + Length + jitter]
    BY DEF LaunchInsert
  <2>2. resolveAt'[l] = now + Length + jitter
    BY <2>1 DEF IInv, TypeOK
  <2> QED
    BY <1>1, <2>1, <2>2, TimeAssumption
<1>3. ASSUME NEW k \in Launches, Rivals(l, k), status[k] # "none"
      PROVE  resolveAt[k] + Length < now
  <2>1. createdAt[k] = now \/ resolveAt[k] + Length < now
    BY <1>1, <1>3 DEF Apart, CheckedCold
  <2>2. status[k] \in {"RESOLVED", "FAILED"}
    BY <1>1, <1>3 DEF IndexFree, InFlight, Others, Rivals, IInv, TypeOK
  <2>3. resolveAt[k] < now
    BY <2>2 DEF IInv, SettledOnceAndPaid, Settled
  <2>4. createdAt[k] < resolveAt[k]
    BY <1>3 DEF IInv, RowOfLaunched, Apart, DueLater
  <2>5. resolveAt[k] \in Int
    BY DEF IInv, TypeOK
  <2> QED
    BY <1>1, <2>1, <2>3, <2>4, <2>5
<1>4. DueLater' /\ NewRowIsNow'
  BY <1>1, <1>2 DEF Apart, DueLater, NewRowIsNow
<1>5. CheckedCold'
  BY <1>1, <1>3 DEF Apart, CheckedCold, Rivals
<1>6. CooldownKept'
  BY <1>1 DEF Apart, CooldownKept
<1> QED
  BY <1>4, <1>5, <1>6 DEF Apart

LEMMA CommitApart ==
  ASSUME IInv, Apart, NEW l \in Launches, LaunchCommit(l)
  PROVE  Apart'
<1>1. /\ pc[l] = "inserted" /\ pc'[l] = "launched" /\ status[l] = "none"
      /\ createdAt[l] = now
      /\ UNCHANGED <<now, createdAt, resolveAt>>
      /\ \A k \in Launches \ {l} : pc'[k] = pc[k] /\ status'[k] = status[k]
  BY DEF LaunchCommit, IInv, TypeOK, RowOfLaunched, Apart, NewRowIsNow
<1>2. DueLater' /\ NewRowIsNow'
  BY <1>1 DEF Apart, DueLater, NewRowIsNow
<1>3. CheckedCold'
  <2> SUFFICES ASSUME NEW m \in Launches, NEW k \in Launches,
                      Rivals(m, k), status'[k] # "none"
               PROVE  /\ pc'[m] = "checked" => createdAt[k] = now \/ resolveAt[k] + Length < now
                      /\ pc'[m] = "inserted" => resolveAt[k] + Length < now
    BY <1>1 DEF CheckedCold, Rivals
  <2>1. CASE k = l
    <3>1. pc[m] # "inserted"
      BY <1>1, <2>1 DEF Rivals, IInv, OneHolder, Holds
    <3> QED
      BY <1>1, <2>1, <3>1 DEF Rivals
  <2>2. CASE k # l
    BY <1>1, <2>2 DEF Apart, CheckedCold
  <2> QED
    BY <2>1, <2>2
<1>4. CooldownKept'
  <2> SUFFICES ASSUME NEW m \in Launches, NEW k \in Launches, Rivals(m, k),
                      status'[m] # "none", status'[k] # "none"
               PROVE  \/ createdAt[k] > resolveAt[m] + Length
                      \/ createdAt[m] > resolveAt[k] + Length
    BY <1>1 DEF CooldownKept, Rivals
  <2>1. \A j \in Launches : Rivals(l, j) /\ status[j] # "none" => now > resolveAt[j] + Length
    <3> SUFFICES ASSUME NEW j \in Launches, Rivals(l, j), status[j] # "none"
                 PROVE  now > resolveAt[j] + Length
      OBVIOUS
    <3>1. resolveAt[j] + Length < now
      BY <1>1 DEF Apart, CheckedCold
    <3> QED
      BY <3>1, TimeAssumption DEF IInv, TypeOK
  <2>2. CASE m = l
    BY <1>1, <2>1, <2>2 DEF Rivals
  <2>3. CASE k = l
    BY <1>1, <2>1, <2>3 DEF Rivals
  <2>4. CASE m # l /\ k # l
    BY <1>1, <2>4 DEF Apart, CooldownKept, Rivals
  <2> QED
    BY <2>2, <2>3, <2>4
<1> QED
  BY <1>2, <1>3, <1>4 DEF Apart

\* A worker settles rows that are there; it adds none.
LEMMA TickApart ==
  ASSUME IInv, Apart, NEW w \in Workers, Tick(w)
  PROVE  Apart'
<1>1. UNCHANGED <<now, pc, createdAt, resolveAt>>
  BY DEF Tick, TickStart, ListPendingExpeditions, Settle, SettleCommit, SettleFails,
         WorkerDrain, TickEnds, launchVars
<1>2. \A l \in Launches : status'[l] # "none" <=> status[l] # "none"
  <2>1. CASE SettleCommit(w)
    <3>1. rolled[w] \subseteq batch[w] /\ \A l \in batch[w] : status[l] # "none"
      BY DEF IInv, BatchesDue, Due
    <3> QED
      BY <2>1, <3>1 DEF SettleCommit, Outcome
  <2>2. CASE ~SettleCommit(w)
    BY <2>2 DEF Tick, TickStart, ListPendingExpeditions, Settle, SettleFails,
                KeptOnFailure, WorkerDrain, TickEnds, launchVars
  <2> QED
    BY <2>1, <2>2
<1> QED
  BY <1>1, <1>2, QuietApart

LEMMA ApartStep == IInv /\ Apart /\ [Next]_vars => Apart'
<1> SUFFICES ASSUME IInv, Apart, [Next]_vars PROVE Apart'
  OBVIOUS
<1>1. CASE PassTime
  BY <1>1, PassTimeApart DEF IInv
<1>2. ASSUME NEW l \in Launches, Launch(l) PROVE Apart'
  <2>1. CASE LaunchCheck(l)
    BY <2>1, CheckApart
  <2>2. CASE LaunchInsert(l)
    BY <2>2, InsertApart
  <2>3. CASE LaunchCommit(l)
    BY <2>3, CommitApart
  <2>4. CASE LaunchBegin(l) \/ LaunchRefused(l) \/ LaunchConflict(l) \/ LaunchFails(l)
    <3>1. /\ UNCHANGED <<now, status, createdAt, resolveAt>>
          /\ \A k \in Launches : pc'[k] = pc[k] \/ pc'[k] \in {"began", "refused"}
      BY <2>4 DEF LaunchBegin, LaunchRefused, LaunchConflict, LaunchFails, IInv, TypeOK
    <3> QED
      BY <3>1, QuietApart
  <2> QED
    BY <1>2, <2>1, <2>2, <2>3, <2>4 DEF Launch
<1>3. ASSUME NEW w \in Workers, Tick(w) PROVE Apart'
  BY <1>3, TickApart
<1>4. CASE ServiceDrain \/ UNCHANGED vars
  <2>1. UNCHANGED <<now, pc, status, createdAt, resolveAt>>
    BY <1>4 DEF ServiceDrain, vars, launchVars
  <2> QED
    BY <2>1, QuietApart
<1> QED
  BY <1>1, <1>2, <1>3, <1>4 DEF Next

\* However many of a Player's requests pass their checks at once, the expeditions
\* that come of them are apart by the cooldown: reads that raced are made good by
\* the unique index, because what was committed since the check is still in flight.
THEOREM CooldownIsKept == Spec => []CooldownKept
<1>1. Init => Apart
  BY DEF Init, Apart, DueLater, NewRowIsNow, CheckedCold, CooldownKept
<1>2. IInv /\ Apart /\ [Next]_vars => (IInv /\ Apart)'
  BY IInvStep, ApartStep
<1>3. IInv /\ Apart => CooldownKept
  BY DEF Apart
<1> QED
  BY <1>1, <1>2, <1>3, IInvInit, PTL DEF Spec

------------------------------------------------------------------------------
(* The histories (HistoryPager).                                             *)

\* How many entries of S are newer than x.
Rank(S, x) == Cardinality(Newer(S, x))
Listed(h) == {h.rows[i] : i \in 1..Len(h.rows)}

\* By keyset: the rows reach down to the cursor.
KeysetHeld(h) ==
  /\ \A i, j \in 1..Len(h.rows) : i < j => h.rows[i] > h.rows[j]
  /\ \A c \in h.next : IF h.rows = <<>> THEN c = MaxEntries + 1 ELSE c = h.rows[Len(h.rows)]
  /\ \A c \in h.next, e \in h.since : e >= c => e \in Listed(h)
  /\ h.next = {} => h.since \subseteq Listed(h)

\* By offset, of the entries S: while the rows are read entries move down the
\* list and never up.
OffsetHeld(h, S) ==
  /\ \A c \in h.next : c = Len(h.rows)
  /\ \A e \in h.since : Rank(S, e) < Len(h.rows) => e \in Listed(h)
  /\ \A e \in h.since, r \in Listed(h) : r < e => e \in Listed(h)
  /\ h.next = {} => h.since \subseteq Listed(h)
  /\ S = h.since => \A i \in 1..Len(h.rows) : Rank(S, h.rows[i]) = i - 1

HeldTrue(h, p, S) ==
  /\ h.since \subseteq S
  /\ h.pages = 0 => h.rows = <<>>
  /\ p = "daily" => KeysetHeld(h)
  /\ p = "expedition" => OffsetHeld(h, S)

PagerInv ==
  /\ PagerTypeOK
  /\ HeldTrue(list.held, pager, archived)
  /\ HeldTrue(fetch.held, pager, archived)

------------------------------------------------------------------------------
(* A list of entries, the newest first.                                      *)

LEMMA EntriesFinite ==
  ASSUME NEW S \in SUBSET Entries
  PROVE  IsFiniteSet(S) /\ Cardinality(S) \in Nat
<1>1. 1 \in Int /\ MaxEntries \in Int
  BY PagerAssumption
<1>2. IsFiniteSet(Entries)
  BY <1>1, FS_Interval DEF Entries
<1> QED
  BY <1>2, FS_Subset, FS_CardinalityType

LEMMA RankBound ==
  ASSUME NEW S \in SUBSET Entries, NEW x \in S
  PROVE  Rank(S, x) \in Nat /\ Rank(S, x) < Cardinality(S)
<1>1. x \in Int
  BY DEF Entries
<1>2. Newer(S, x) \subseteq S /\ x \notin Newer(S, x)
  BY <1>1 DEF Newer
<1>3. Newer(S, x) \in SUBSET Entries
  BY <1>2
<1>4. /\ IsFiniteSet(S) /\ Cardinality(S) \in Nat
      /\ Cardinality(Newer(S, x)) \in Nat
  BY <1>3, EntriesFinite
<1>5. Cardinality(Newer(S, x)) <= Cardinality(S) /\ Cardinality(Newer(S, x)) # Cardinality(S)
  BY <1>2, <1>4, FS_Subset
<1> QED
  BY <1>4, <1>5 DEF Rank

\* The newer of two has fewer before it; what is added leaves none with fewer.
LEMMA RankOrder ==
  ASSUME NEW S \in SUBSET Entries, NEW x \in Nat, NEW y \in Nat, x > y
  PROVE  /\ Rank(S, x) \in Nat /\ Rank(S, y) \in Nat
         /\ Rank(S, x) <= Rank(S, y)
         /\ x \in S => Rank(S, x) < Rank(S, y)
<1>1. \A e \in S : e \in Int
  BY DEF Entries
<1>2. /\ Newer(S, x) \subseteq Newer(S, y)
      /\ x \notin Newer(S, x)
      /\ x \in S => x \in Newer(S, y)
  BY <1>1 DEF Newer
<1>3. Newer(S, x) \in SUBSET Entries /\ Newer(S, y) \in SUBSET Entries
  BY DEF Newer
<1>4. /\ IsFiniteSet(Newer(S, y))
      /\ Cardinality(Newer(S, x)) \in Nat /\ Cardinality(Newer(S, y)) \in Nat
  BY <1>3, EntriesFinite
<1>5. /\ Cardinality(Newer(S, x)) <= Cardinality(Newer(S, y))
      /\ x \in S => Cardinality(Newer(S, x)) # Cardinality(Newer(S, y))
  BY <1>2, <1>4, FS_Subset
<1> QED
  BY <1>4, <1>5 DEF Rank

LEMMA RankGrows ==
  ASSUME NEW S \in SUBSET Entries, NEW T \in SUBSET Entries, S \subseteq T, NEW x
  PROVE  Rank(S, x) \in Nat /\ Rank(T, x) \in Nat /\ Rank(S, x) <= Rank(T, x)
<1>1. /\ Newer(S, x) \subseteq Newer(T, x)
      /\ Newer(S, x) \in SUBSET Entries /\ Newer(T, x) \in SUBSET Entries
  BY DEF Newer
<1> QED
  BY <1>1, EntriesFinite, FS_Subset DEF Rank

LEMMA RankIsUnique ==
  ASSUME NEW S \in SUBSET Entries, NEW x \in S, NEW y \in S, Rank(S, x) = Rank(S, y)
  PROVE  x = y
<1>1. x \in Nat /\ y \in Nat
  BY PagerAssumption DEF Entries
<1>2. Rank(S, x) \in Nat
  BY RankBound
<1>3. ~(x > y) /\ ~(y > x)
  BY <1>1, <1>2, RankOrder
<1> QED
  BY <1>1, <1>3

\* Some entry comes first, some second, and so on.
LEMMA RankTaken ==
  ASSUME NEW S \in SUBSET Entries, NEW i \in 1..Cardinality(S)
  PROVE  \E x \in S : Rank(S, x) = i - 1
<1> DEFINE n == Cardinality(S)
           T == 0..(n - 1)
           f == [x \in S |-> Rank(S, x)]
<1>1. n \in Nat /\ n > 0
  BY EntriesFinite
<1>2. IsFiniteSet(T) /\ Cardinality(T) = n
  BY <1>1, FS_Interval, 0 \in Int, n - 1 \in Int
<1>3. f \in [S -> T]
  BY <1>1, RankBound
<1>4. f \in Injection(S, T)
  BY <1>3, RankIsUnique DEF Injection, IsInjective
<1> HIDE DEF f, T
<1>5. f \in Surjection(S, T)
  BY <1>2, <1>4, FS_Injection
<1>6. i - 1 \in T
  BY <1>1 DEF T
<1> QED
  BY <1>5, <1>6 DEF Surjection, f

LEMMA NewestFirstLists ==
  ASSUME NEW S \in SUBSET Entries
  PROVE  /\ NewestFirst(S) \in Seq(S) /\ Len(NewestFirst(S)) = Cardinality(S)
         /\ \A i \in 1..Cardinality(S) : /\ NewestFirst(S)[i] \in S
                                         /\ Rank(S, NewestFirst(S)[i]) = i - 1
         /\ \A x \in S : /\ Rank(S, x) + 1 \in 1..Cardinality(S)
                         /\ NewestFirst(S)[Rank(S, x) + 1] = x
<1> DEFINE s == NewestFirst(S)
           n == Cardinality(S)
<1>1. n \in Nat
  BY EntriesFinite
<1>2. s = [i \in 1..n |-> CHOOSE x \in S : Rank(S, x) = i - 1]
  BY DEF NewestFirst, Rank
<1> HIDE DEF s, n
<1>3. ASSUME NEW i \in 1..n
      PROVE  s[i] \in S /\ Rank(S, s[i]) = i - 1
  <2>1. s[i] = CHOOSE x \in S : Rank(S, x) = i - 1
    BY <1>2
  <2>2. \E x \in S : Rank(S, x) = i - 1
    BY RankTaken DEF n
  <2> QED
    BY <2>1, <2>2
<1>4. s \in [1..n -> S]
  BY <1>2, <1>3
<1>5. s \in Seq(S) /\ Len(s) = n
  BY <1>1, <1>4
<1>6. ASSUME NEW x \in S
      PROVE  Rank(S, x) + 1 \in 1..n /\ s[Rank(S, x) + 1] = x
  <2>1. Rank(S, x) \in Nat /\ Rank(S, x) < n
    BY RankBound DEF n
  <2>2. Rank(S, x) + 1 \in 1..n
    BY <1>1, <2>1
  <2>3. Rank(S, s[Rank(S, x) + 1]) = Rank(S, x) /\ s[Rank(S, x) + 1] \in S
    BY <1>3, <2>1, <2>2
  <2> QED
    BY <2>2, <2>3, RankIsUnique
<1> QED
  BY <1>3, <1>5, <1>6 DEF s, n

LEMMA SliceIs ==
  ASSUME NEW S, NEW s \in Seq(S), NEW from \in Nat, NEW n \in Nat
  PROVE  /\ Slice(s, from, n) \in Seq(S)
         /\ Len(Slice(s, from, n)) = IF from + n < Len(s) THEN n
                                     ELSE IF from < Len(s) THEN Len(s) - from ELSE 0
         /\ \A i \in 1..Len(Slice(s, from, n)) :
              from + i \in 1..Len(s) /\ Slice(s, from, n)[i] = s[from + i]
<1> DEFINE m == from + 1
           l == IF from + n < Len(s) THEN from + n ELSE Len(s)
<1>1. Len(s) \in Nat /\ m \in Int /\ l \in Int /\ l <= Len(s) /\ m >= 1
  OBVIOUS
<1>2. \A i \in m..l : s[i] \in S
  <2>1. \A i \in 1..Len(s) : s[i] \in S
    OBVIOUS
  <2> QED
    BY <1>1, <2>1
<1>3. Slice(s, from, n) = SubSeq(s, m, l)
  BY DEF Slice
<1>4. Len(SubSeq(s, m, l)) = IF from + n < Len(s) THEN n
                             ELSE IF from < Len(s) THEN Len(s) - from ELSE 0
  <2>1. Len(SubSeq(s, m, l)) = IF m <= l THEN l - m + 1 ELSE 0
    <3> HIDE DEF m, l
    <3> QED
      BY <1>1, <1>2, SubSeqProperties
  <2> QED
    BY <2>1
<1>5. SubSeq(s, m, l) \in Seq(S) /\ \A i \in 1..(l - m + 1) : SubSeq(s, m, l)[i] = s[m + i - 1]
  <2> HIDE DEF m, l
  <2> QED
    BY <1>1, <1>2, SubSeqProperties
<1>6. ASSUME NEW i \in 1..Len(SubSeq(s, m, l))
      PROVE  from + i \in 1..Len(s) /\ SubSeq(s, m, l)[i] = s[from + i]
  <2>1. i \in Nat /\ i >= 1 /\ i <= Len(SubSeq(s, m, l))
    BY <1>5
  <2>2. i \in 1..(l - m + 1) /\ m + i - 1 = from + i /\ from + i <= Len(s)
    BY <1>1, <1>4, <2>1
  <2>3. SubSeq(s, m, l)[i] = s[m + i - 1]
    BY <1>5, <2>2
  <2>4. from + i \in 1..Len(s)
    BY <1>1, <2>1, <2>2
  <2> QED
    BY <2>2, <2>3, <2>4
<1> QED
  BY <1>3, <1>4, <1>5, <1>6

\* A page by offset: the entries of the next ranks.
OffsetPageHas(page, c) ==
  /\ page.items \in Seq(Entries) /\ Len(page.items) \in Nat
  /\ \A i \in 1..Len(page.items) : Rank(archived, page.items[i]) = c + i - 1
  /\ \A x \in archived :
       c <= Rank(archived, x) /\ Rank(archived, x) < c + Len(page.items) =>
         \E i \in 1..Len(page.items) : page.items[i] = x
  /\ page.next = {} \/ page.next = {c + Len(page.items)}
  /\ page.next = {} => \A x \in archived : Rank(archived, x) < c + Len(page.items)

LEMMA OffsetPageIs ==
  ASSUME archived \subseteq Entries, NEW c \in Nat
  PROVE  OffsetPageHas(OffsetPage(c), c)
<1> DEFINE s == NewestFirst(archived)
           n == Cardinality(archived)
           items == Slice(s, c, PageSize)
           k == Len(items)
<1>1. /\ n \in Nat /\ PageSize \in Nat
      /\ s \in Seq(Entries) /\ Len(s) = n
      /\ \A i \in 1..n : s[i] \in archived /\ Rank(archived, s[i]) = i - 1
      /\ \A x \in archived : /\ Rank(archived, x) \in Nat
                             /\ Rank(archived, x) + 1 \in 1..n
                             /\ s[Rank(archived, x) + 1] = x
  <2>1. s \in Seq(archived) /\ Len(s) = n
    BY NewestFirstLists
  <2>2. s \in Seq(Entries)
    BY <2>1
  <2> QED
    BY <2>1, <2>2, NewestFirstLists, EntriesFinite, RankBound, PagerAssumption
<1> HIDE DEF s, n
<1>2. /\ items \in Seq(Entries)
      /\ k = IF c + PageSize < n THEN PageSize ELSE IF c < n THEN n - c ELSE 0
      /\ \A i \in 1..k : c + i \in 1..n /\ items[i] = s[c + i]
  <2>1. /\ items \in Seq(Entries)
        /\ k = IF c + PageSize < Len(s) THEN PageSize ELSE IF c < Len(s) THEN Len(s) - c ELSE 0
        /\ \A i \in 1..k : c + i \in 1..Len(s) /\ items[i] = s[c + i]
    <3>1. s \in Seq(Entries) /\ PageSize \in Nat
      BY <1>1
    <3> QED
      BY <3>1, SliceIs
  <2> HIDE DEF items
  <2> QED
    BY <1>1, <2>1
<1>3. OffsetPage(c) = [items |-> items, next |-> IF k < PageSize THEN {} ELSE {c + PageSize}]
  BY DEF OffsetPage, s
<1> HIDE DEF items, k
<1>4. k \in Nat
  BY <1>1, <1>2
<1>5. \A i \in 1..k : Rank(archived, items[i]) = c + i - 1
  BY <1>1, <1>2, <1>4
<1>6. ASSUME NEW x \in archived, c <= Rank(archived, x), Rank(archived, x) < c + k
      PROVE  \E i \in 1..k : items[i] = x
  <2> DEFINE i == Rank(archived, x) + 1 - c
  <2>1. Rank(archived, x) \in Nat /\ s[Rank(archived, x) + 1] = x
    BY <1>1
  <2>2. i \in 1..k /\ c + i = Rank(archived, x) + 1
    BY <1>4, <1>6, <2>1
  <2> QED
    BY <1>2, <2>1, <2>2
<1>7. k < PageSize => \A x \in archived : Rank(archived, x) < c + k
  <2>1. k < PageSize => c + k >= n
    BY <1>1, <1>2
  <2>2. \A x \in archived : Rank(archived, x) \in Nat /\ Rank(archived, x) < n
    BY <1>1
  <2> QED
    BY <1>1, <1>4, <2>1, <2>2
<1>8. k >= PageSize => k = PageSize
  BY <1>1, <1>2
<1>9. /\ OffsetPage(c).items = items /\ k = Len(items)
      /\ OffsetPage(c).next = IF k < PageSize THEN {} ELSE {c + PageSize}
  BY <1>3 DEF k
<1>10. /\ OffsetPage(c).next = {} \/ OffsetPage(c).next = {c + k}
       /\ OffsetPage(c).next = {} => k < PageSize
  <2>1. k < PageSize => OffsetPage(c).next = {}
    BY <1>9
  <2>2. ~(k < PageSize) => /\ OffsetPage(c).next = {c + k}
                           /\ OffsetPage(c).next # {}
    <3>1. ~(k < PageSize) => k = PageSize /\ OffsetPage(c).next = {c + PageSize}
      BY <1>1, <1>4, <1>8, <1>9
    <3>2. {c + PageSize} # {}
      OBVIOUS
    <3> QED
      BY <3>1, <3>2
  <2> QED
    BY <2>1, <2>2
<1> QED
  BY <1>2, <1>4, <1>5, <1>6, <1>7, <1>9, <1>10 DEF OffsetPageHas

LEMMA FirstOf ==
  ASSUME NEW S, NEW s \in Seq(S), NEW n \in Nat
  PROVE  /\ Slice(s, 0, n) \in Seq(S)
         /\ Len(Slice(s, 0, n)) = IF n < Len(s) THEN n ELSE Len(s)
         /\ \A i \in 1..Len(Slice(s, 0, n)) :
              i \in 1..Len(s) /\ Slice(s, 0, n)[i] = s[i]
<1>1. Len(s) \in Nat /\ Len(s) >= 0
  OBVIOUS
<1>2. /\ Slice(s, 0, n) \in Seq(S)
      /\ Len(Slice(s, 0, n)) = IF 0 + n < Len(s) THEN n
                               ELSE IF 0 < Len(s) THEN Len(s) - 0 ELSE 0
      /\ \A i \in 1..Len(Slice(s, 0, n)) :
           0 + i \in 1..Len(s) /\ Slice(s, 0, n)[i] = s[0 + i]
  <2>1. 0 \in Nat
    OBVIOUS
  <2> QED
    BY <2>1, SliceIs
<1>3. \A i \in 1..Len(Slice(s, 0, n)) : 0 + i = i
  OBVIOUS
<1> QED
  BY <1>1, <1>2, <1>3

\* A page by keyset: the newest entries below the cursor, the last of them the
\* next cursor.
KeysetPageHas(page, c) ==
  /\ page.items \in Seq(Entries) /\ Len(page.items) \in Nat
  /\ \A i \in 1..Len(page.items) : page.items[i] < c
  /\ \A i, j \in 1..Len(page.items) : i < j => page.items[i] > page.items[j]
  /\ page.next = {} \/ (Len(page.items) > 0 /\ page.next = {page.items[Len(page.items)]})
  /\ \A e \in archived :
       e < c /\ (\A d \in page.next : e >= d) => \E i \in 1..Len(page.items) : page.items[i] = e

LEMMA KeysetPageIs ==
  ASSUME archived \subseteq Entries, NEW c \in Nat
  PROVE  KeysetPageHas(KeysetPage(c), c)
<1> DEFINE B == Below(c)
           n == Cardinality(B)
           s == NewestFirst(B)
           rows == Slice(s, 0, PageSize + 1)
           items == Slice(rows, 0, PageSize)
           k == Len(items)
<1>1. /\ B \in SUBSET Entries
      /\ \A e \in B : e \in Nat /\ e < c
  <2>1. B \subseteq archived /\ \A e \in B : e < c
    BY DEF Below
  <2>2. \A e \in Entries : e \in Nat
    BY DEF Entries
  <2> QED
    BY <2>1, <2>2
<1>2. PageSize \in Nat /\ PageSize > 0 /\ PageSize + 1 \in Nat
  BY PagerAssumption
<1>3. \A e \in archived : e < c => e \in B
  BY DEF Below
<1>4. KeysetPage(c) = [items |-> items, next |-> NextCursor(rows)]
  BY DEF KeysetPage
<1> HIDE DEF B
<1>5. /\ n \in Nat /\ s \in Seq(Entries) /\ Len(s) = n
      /\ \A i \in 1..n : s[i] \in B /\ Rank(B, s[i]) = i - 1
      /\ \A x \in B : /\ Rank(B, x) \in Nat
                      /\ Rank(B, x) + 1 \in 1..n
                      /\ s[Rank(B, x) + 1] = x
  <2>1. s \in Seq(B) /\ Len(s) = n
    BY <1>1, NewestFirstLists
  <2>2. s \in Seq(Entries)
    BY <1>1, <2>1
  <2> QED
    BY <1>1, <2>1, <2>2, NewestFirstLists, EntriesFinite, RankBound
<1> HIDE DEF n, s
<1>6. /\ rows \in Seq(Entries)
      /\ Len(rows) = IF PageSize + 1 < Len(s) THEN PageSize + 1 ELSE Len(s)
      /\ \A i \in 1..Len(rows) : i \in 1..Len(s) /\ rows[i] = s[i]
  BY <1>2, <1>5, FirstOf
<1> HIDE DEF rows
<1>7. /\ items \in Seq(Entries)
      /\ Len(items) = IF PageSize < Len(rows) THEN PageSize ELSE Len(rows)
      /\ \A i \in 1..Len(items) : i \in 1..Len(rows) /\ items[i] = rows[i]
  BY <1>2, <1>6, FirstOf
<1> HIDE DEF items
<1>8. /\ k \in Nat /\ Len(rows) \in Nat
      /\ Len(rows) = IF PageSize + 1 < n THEN PageSize + 1 ELSE n
      /\ k = IF PageSize < Len(rows) THEN PageSize ELSE Len(rows)
      /\ \A i \in 1..k : i \in 1..n /\ i \in 1..Len(rows) /\ items[i] = rows[i] /\ items[i] = s[i]
  BY <1>2, <1>5, <1>6, <1>7
<1> HIDE DEF k
<1>9. \A i \in 1..k : /\ items[i] \in B /\ Rank(B, items[i]) = i - 1
                      /\ items[i] \in Nat /\ items[i] < c
  BY <1>1, <1>5, <1>8
<1>10. ASSUME NEW i \in 1..k, NEW j \in 1..k, i < j
       PROVE  items[i] > items[j]
  <2>1. /\ Rank(B, items[i]) = i - 1 /\ Rank(B, items[j]) = j - 1
        /\ items[i] \in Nat /\ items[j] \in Nat /\ i \in Nat /\ j \in Nat
    BY <1>8, <1>9
  <2>2. items[j] # items[i]
    BY <1>10, <2>1
  <2>3. ~(items[j] > items[i])
    BY <1>1, <1>10, <2>1, RankOrder
  <2> QED
    BY <2>1, <2>2, <2>3
<1>11. ASSUME NEW e \in B, Rank(B, e) < k
       PROVE  \E i \in 1..k : items[i] = e
  <2>1. /\ Rank(B, e) \in Nat /\ s[Rank(B, e) + 1] = e
    BY <1>5
  <2>2. Rank(B, e) + 1 \in 1..k
    BY <1>8, <1>11, <2>1
  <2>3. items[Rank(B, e) + 1] = e
    BY <1>8, <2>1, <2>2
  <2> QED
    BY <2>2, <2>3
<1>12. /\ NextCursor(rows) = {} \/ (k > 0 /\ NextCursor(rows) = {items[k]})
       /\ \A e \in B : (\A d \in NextCursor(rows) : e >= d) => Rank(B, e) < k
  <2>1. CASE Len(rows) > PageSize
    <3>1. k = PageSize /\ k \in 1..k /\ NextCursor(rows) = {items[k]}
      BY <1>2, <1>8, <2>1 DEF NextCursor
    <3>2. items[k] \in B /\ items[k] \in Nat /\ Rank(B, items[k]) = k - 1
      BY <1>9, <3>1
    <3>3. ASSUME NEW e \in B, e >= items[k]
          PROVE  Rank(B, e) < k
      <4>1. e \in Nat
        BY <1>1
      <4>2. e = items[k] => Rank(B, e) = k - 1
        BY <3>2
      <4>3. e > items[k] => Rank(B, e) \in Nat /\ Rank(B, e) <= Rank(B, items[k])
        BY <1>1, <3>2, <4>1, RankOrder
      <4> QED
        BY <1>8, <3>2, <3>3, <4>1, <4>2, <4>3
    <3> QED
      BY <1>2, <3>1, <3>3
  <2>2. CASE ~(Len(rows) > PageSize)
    <3>1. k = n /\ NextCursor(rows) = {}
      BY <1>2, <1>5, <1>8, <2>2 DEF NextCursor
    <3>2. \A e \in B : Rank(B, e) < k
      BY <1>5, <3>1
    <3> QED
      BY <3>1, <3>2
  <2> QED
    BY <2>1, <2>2
<1>13. \A e \in archived :
         e < c /\ (\A d \in NextCursor(rows) : e >= d) => \E i \in 1..k : items[i] = e
  BY <1>3, <1>11, <1>12
<1>14. /\ KeysetPage(c).items = items /\ KeysetPage(c).next = NextCursor(rows)
       /\ Len(items) = k
  BY <1>4 DEF k
<1> QED
  BY <1>7, <1>8, <1>9, <1>10, <1>12, <1>13, <1>14 DEF KeysetPageHas

------------------------------------------------------------------------------
(* What is held.                                                             *)

HeldIsTrue(h, p, S) == h \in HeldSet /\ HeldTrue(h, p, S)

\* The rows of the page come after those that were held.
ExtendedHas(h, page) ==
  LET g == Extended(h, page)
      n == Len(h.rows)
  IN /\ g.next = page.next /\ g.pages = h.pages + 1
     /\ g.since = IF h.pages = 0 THEN archived ELSE h.since
     /\ g.rows \in Seq(Entries) /\ n \in Nat /\ Len(g.rows) = n + Len(page.items)
     /\ \A i \in 1..n : i \in 1..Len(g.rows) /\ g.rows[i] = h.rows[i]
     /\ \A i \in 1..Len(page.items) : n + i \in 1..Len(g.rows) /\ g.rows[n + i] = page.items[i]
     /\ \A i \in 1..Len(g.rows) : i \notin 1..n => i - n \in 1..Len(page.items)
     /\ \A x : x \in Listed(g) <=> x \in Listed(h) \/ \E i \in 1..Len(page.items) : page.items[i] = x

LEMMA ExtendedIs ==
  ASSUME NEW h \in HeldSet, NEW page, page.items \in Seq(Entries)
  PROVE  ExtendedHas(h, page)
<1> DEFINE g == Extended(h, page)
           n == Len(h.rows)
           items == page.items
           m == Len(items)
<1>1. /\ g.next = page.next /\ g.pages = h.pages + 1 /\ g.rows = h.rows \o items
      /\ g.since = IF h.pages = 0 THEN archived ELSE h.since
  BY DEF Extended, Held
<1>2. h.rows \in Seq(Entries) /\ items \in Seq(Entries)
  BY DEF HeldSet
<1> HIDE DEF g
<1>3. /\ g.rows \in Seq(Entries) /\ n \in Nat /\ m \in Nat /\ Len(g.rows) = n + m
      /\ \A i \in 1..(n + m) : g.rows[i] = IF i <= n THEN h.rows[i] ELSE items[i - n]
  <2> HIDE DEF items
  <2> QED
    BY <1>1, <1>2, ConcatProperties
<1> HIDE DEF n, items, m
<1>4. \A i \in 1..n : i \in 1..Len(g.rows) /\ g.rows[i] = h.rows[i]
  BY <1>3
<1>5. ASSUME NEW i \in 1..m
      PROVE  n + i \in 1..Len(g.rows) /\ g.rows[n + i] = items[i]
  <2>1. n + i \in 1..(n + m) /\ ~(n + i <= n) /\ (n + i) - n = i
    BY <1>3
  <2> QED
    BY <1>3, <2>1
<1>6. ASSUME NEW i \in 1..Len(g.rows), i \notin 1..n
      PROVE  i - n \in 1..m /\ g.rows[i] = items[i - n]
  <2>1. i \in 1..(n + m) /\ ~(i <= n) /\ i - n \in 1..m
    BY <1>3, <1>6
  <2> QED
    BY <1>3, <2>1
<1>7. ASSUME NEW x
      PROVE  x \in Listed(g) <=> x \in Listed(h) \/ \E i \in 1..m : items[i] = x
  <2>1. ASSUME x \in Listed(g)
        PROVE  x \in Listed(h) \/ \E i \in 1..m : items[i] = x
    <3>1. PICK i \in 1..Len(g.rows) : x = g.rows[i]
      BY <2>1 DEF Listed
    <3>2. CASE i \in 1..n
      BY <1>4, <3>1, <3>2 DEF Listed, n
    <3>3. CASE i \notin 1..n
      BY <1>6, <3>1, <3>3
    <3> QED
      BY <3>2, <3>3
  <2>2. ASSUME x \in Listed(h)
        PROVE  x \in Listed(g)
    <3>1. PICK i \in 1..n : x = h.rows[i]
      BY <2>2 DEF Listed, n
    <3> QED
      BY <1>4, <3>1 DEF Listed
  <2>3. ASSUME NEW i \in 1..m, items[i] = x
        PROVE  x \in Listed(g)
    BY <1>5, <2>3 DEF Listed
  <2> QED
    BY <2>1, <2>2, <2>3
<1> QED
  BY <1>1, <1>3, <1>4, <1>5, <1>6, <1>7 DEF ExtendedHas, g, n, m, items

LEMMA KeysetExtended ==
  ASSUME archived \subseteq Entries,
         NEW h \in HeldSet, NEW c \in h.next, NEW page,
         h.since \subseteq archived, h.pages = 0 => h.rows = <<>>,
         KeysetHeld(h), KeysetPageHas(page, c)
  PROVE  KeysetHeld(Extended(h, page))
<1> DEFINE g == Extended(h, page)
           n == Len(h.rows)
           items == page.items
           m == Len(items)
<1>1. /\ h.rows \in Seq(Entries) /\ n \in Nat /\ m \in Nat
      /\ \A i \in 1..n : h.rows[i] \in Nat
      /\ \A i \in 1..m : items[i] \in Nat
      /\ items \in Seq(Entries)
  <2>1. \A e \in Entries : e \in Nat
    BY DEF Entries
  <2> QED
    BY <2>1 DEF HeldSet, KeysetPageHas
<1>2. c \in Nat
  BY DEF HeldSet, Params
<1>3. /\ \A i \in 1..m : items[i] < c
      /\ \A i, j \in 1..m : i < j => items[i] > items[j]
      /\ page.next = {} \/ (m > 0 /\ page.next = {items[m]})
      /\ \A e \in archived :
           e < c /\ (\A d \in page.next : e >= d) => \E i \in 1..m : items[i] = e
  BY DEF KeysetPageHas
<1>4. ExtendedHas(h, page)
  BY <1>1, ExtendedIs
<1>5. /\ g.next = page.next /\ g.since = IF h.pages = 0 THEN archived ELSE h.since
      /\ Len(g.rows) = n + m
      /\ \A i \in 1..n : i \in 1..Len(g.rows) /\ g.rows[i] = h.rows[i]
      /\ \A i \in 1..m : n + i \in 1..Len(g.rows) /\ g.rows[n + i] = items[i]
      /\ \A i \in 1..Len(g.rows) : i \notin 1..n => i - n \in 1..m
      /\ \A x : x \in Listed(g) <=> x \in Listed(h) \/ \E i \in 1..m : items[i] = x
  <2> HIDE DEF g
  <2> QED
    BY <1>4 DEF ExtendedHas, g
<1>6. g.rows # <<>> \/ n + m = 0
  BY <1>5
<1> HIDE DEF g, items
<1>7. ASSUME NEW i \in 1..n
      PROVE  h.rows[i] >= c
  <2>1. h.rows # <<>> /\ n \in 1..n
    BY <1>1
  <2>2. c = h.rows[n]
    BY <2>1 DEF KeysetHeld
  <2>3. i < n => h.rows[i] > h.rows[n]
    BY <2>1 DEF KeysetHeld
  <2>4. i = n \/ i < n
    BY <1>1
  <2> QED
    BY <1>1, <1>2, <2>2, <2>3, <2>4
<1>8. ASSUME NEW i \in 1..Len(g.rows), NEW j \in 1..Len(g.rows), i < j
      PROVE  g.rows[i] > g.rows[j]
  <2>1. CASE j \in 1..n
    <3>1. i \in 1..n
      BY <1>1, <1>5, <1>8, <2>1
    <3>2. h.rows[i] > h.rows[j]
      BY <1>8, <2>1, <3>1 DEF KeysetHeld
    <3> QED
      BY <1>5, <2>1, <3>1, <3>2
  <2>2. CASE j \notin 1..n
    <3>1. j - n \in 1..m /\ n + (j - n) = j
      BY <1>1, <1>5, <2>2
    <3>2. g.rows[j] = items[j - n] /\ items[j - n] < c /\ items[j - n] \in Nat
      BY <1>1, <1>3, <1>5, <3>1
    <3>3. CASE i \in 1..n
      <4>1. g.rows[i] = h.rows[i] /\ h.rows[i] >= c /\ h.rows[i] \in Nat
        BY <1>1, <1>5, <1>7, <3>3
      <4> HIDE DEF n, m
      <4> QED
        BY <1>2, <3>2, <4>1
    <3>4. CASE i \notin 1..n
      <4>1. i - n \in 1..m /\ n + (i - n) = i /\ i - n < j - n
        <5>1. i \in Nat /\ j \in Nat /\ n \in Nat /\ i < j
          <6>1. Len(g.rows) \in Nat
            BY <1>1, <1>5
          <6> QED
            BY <1>1, <1>8, <6>1
        <5>2. i - n \in 1..m
          BY <1>5, <1>8, <3>4
        <5> HIDE DEF n, m
        <5> QED
          BY <5>1, <5>2
      <4>2. g.rows[i] = items[i - n]
        <5>1. g.rows[n + (i - n)] = items[i - n]
          BY <1>5, <4>1
        <5> HIDE DEF n, m
        <5> QED
          BY <4>1, <5>1
      <4>3. items[i - n] > items[j - n]
        BY <1>3, <3>1, <4>1
      <4> QED
        BY <3>2, <4>2, <4>3
    <3> QED
      BY <3>3, <3>4
  <2> QED
    BY <2>1, <2>2
<1>9. ASSUME NEW d \in g.next
      PROVE  g.rows # <<>> /\ d = g.rows[Len(g.rows)]
  <2>1. m > 0 /\ d = items[m] /\ m \in 1..m
    BY <1>1, <1>3, <1>5, <1>9
  <2>2. g.rows[n + m] = items[m]
    BY <1>5, <2>1
  <2> QED
    BY <1>1, <1>5, <1>6, <2>1, <2>2
<1>10. ASSUME NEW e \in g.since, \A d \in g.next : e >= d
       PROVE  e \in Listed(g)
  <2>1. e \in archived /\ e \in Nat /\ e <= MaxEntries
    <3>1. e \in archived
      BY <1>5
    <3>2. e \in Entries
      BY <3>1
    <3> QED
      BY <3>1, <3>2 DEF Entries
  <2>2. CASE e < c
    <3>1. \E i \in 1..m : items[i] = e
      BY <1>3, <1>5, <1>10, <2>1, <2>2
    <3> QED
      BY <1>5, <3>1
  <2>3. CASE e >= c
    <3>1. CASE h.pages = 0
      <4>1. c = MaxEntries + 1
        BY <3>1 DEF KeysetHeld
      <4> QED
        BY <2>1, <2>3, <4>1, PagerAssumption
    <3>2. CASE h.pages # 0
      <4>1. e \in h.since
        BY <1>5, <3>2
      <4>2. e \in Listed(h)
        BY <2>3, <4>1 DEF KeysetHeld
      <4> QED
        BY <1>5, <4>2
    <3> QED
      BY <3>1, <3>2
  <2> QED
    BY <1>2, <2>1, <2>2, <2>3
<1>11. \A d \in g.next, e \in g.since : e >= d => e \in Listed(g)
  <2> SUFFICES ASSUME NEW d \in g.next, NEW e \in g.since, e >= d
               PROVE  e \in Listed(g)
    OBVIOUS
  <2>1. g.next = {d}
    BY <1>3, <1>5
  <2>2. \A x \in g.next : e >= x
    BY <2>1
  <2> QED
    BY <1>10, <2>2
<1>12. g.next = {} => g.since \subseteq Listed(g)
  BY <1>10
<1> QED
  BY <1>8, <1>9, <1>11, <1>12 DEF KeysetHeld, g

LEMMA OffsetExtended ==
  ASSUME archived \subseteq Entries,
         NEW h \in HeldSet, NEW c \in h.next, NEW page,
         h.since \subseteq archived, h.pages = 0 => h.rows = <<>>,
         OffsetHeld(h, archived), OffsetPageHas(page, c)
  PROVE  OffsetHeld(Extended(h, page), archived)
<1> DEFINE g == Extended(h, page)
           n == Len(h.rows)
           items == page.items
           m == Len(items)
<1>1. c = n /\ n \in Nat /\ m \in Nat /\ items \in Seq(Entries)
  BY DEF HeldSet, OffsetHeld, OffsetPageHas
<1>2. /\ \A i \in 1..m : Rank(archived, items[i]) = n + i - 1
      /\ \A x \in archived :
           n <= Rank(archived, x) /\ Rank(archived, x) < n + m => \E i \in 1..m : items[i] = x
      /\ page.next = {} \/ page.next = {n + m}
      /\ page.next = {} => \A x \in archived : Rank(archived, x) < n + m
  <2> HIDE DEF items
  <2> QED
    BY <1>1 DEF OffsetPageHas, items
<1>3. ExtendedHas(h, page)
  BY <1>1, ExtendedIs
<1>4. /\ g.next = page.next /\ g.since = IF h.pages = 0 THEN archived ELSE h.since
      /\ Len(g.rows) = n + m
      /\ \A i \in 1..n : i \in 1..Len(g.rows) /\ g.rows[i] = h.rows[i]
      /\ \A i \in 1..m : n + i \in 1..Len(g.rows) /\ g.rows[n + i] = items[i]
      /\ \A i \in 1..Len(g.rows) : i \notin 1..n => i - n \in 1..m
      /\ \A x : x \in Listed(g) <=> x \in Listed(h) \/ \E i \in 1..m : items[i] = x
  <2> HIDE DEF g
  <2> QED
    BY <1>3 DEF ExtendedHas, g
<1>5. h.pages = 0 => n = 0 /\ Listed(h) = {}
  BY DEF Listed
<1> HIDE DEF g, items, n, m
<1>6. \A x \in archived : x \in Nat /\ Rank(archived, x) \in Nat
  <2>1. \A e \in Entries : e \in Nat
    BY DEF Entries
  <2> QED
    BY <2>1, RankBound
<1>7. g.since \subseteq archived
  BY <1>4
<1>8. ASSUME NEW e \in g.since, Rank(archived, e) < n + m
      PROVE  e \in Listed(g)
  <2>1. e \in archived /\ Rank(archived, e) \in Nat
    BY <1>6, <1>7
  <2>2. CASE Rank(archived, e) < n
    <3>1. h.pages # 0
      BY <1>5, <2>1, <2>2
    <3>2. e \in h.since
      BY <1>4, <3>1
    <3>3. e \in Listed(h)
      BY <2>2, <3>2 DEF OffsetHeld, n
    <3> QED
      BY <1>4, <3>3
  <2>3. CASE n <= Rank(archived, e)
    <3>1. \E i \in 1..m : items[i] = e
      BY <1>2, <1>8, <2>1, <2>3
    <3> QED
      BY <1>4, <3>1
  <2> QED
    BY <1>1, <2>1, <2>2, <2>3
<1>9. ASSUME NEW e \in g.since, NEW r \in Listed(g), r < e
      PROVE  e \in Listed(g)
  <2>1. CASE r \in Listed(h)
    <3>1. h.pages # 0
      BY <1>5, <2>1
    <3>2. e \in h.since
      BY <1>4, <3>1
    <3>3. e \in Listed(h)
      BY <1>9, <2>1, <3>2 DEF OffsetHeld
    <3> QED
      BY <1>4, <3>3
  <2>2. CASE \E i \in 1..m : items[i] = r
    <3>1. PICK i \in 1..m : items[i] = r
      BY <2>2
    <3>2. e \in archived /\ e \in Nat /\ r \in Nat
      <4>1. r \in Entries
        BY <1>1, <3>1 DEF m
      <4>2. r \in Nat
        BY <4>1 DEF Entries
      <4> QED
        BY <1>6, <1>7, <4>2
    <3>3. Rank(archived, r) = n + i - 1 /\ i \in Nat /\ i <= m
      BY <1>1, <1>2, <3>1
    <3>4. Rank(archived, e) <= Rank(archived, r) /\ Rank(archived, e) \in Nat
      BY <1>9, <3>2, RankOrder
    <3>5. Rank(archived, e) < n + m
      BY <1>1, <3>3, <3>4
    <3> QED
      BY <1>8, <3>5
  <2> QED
    BY <1>4, <2>1, <2>2
<1>10. ASSUME g.next = {}
       PROVE  g.since \subseteq Listed(g)
  BY <1>2, <1>4, <1>7, <1>8, <1>10
<1>11. ASSUME archived = g.since, NEW i \in 1..Len(g.rows)
       PROVE  Rank(archived, g.rows[i]) = i - 1
  <2>1. CASE i \in 1..n
    <3>1. h.pages # 0
      BY <1>5, <2>1
    <3>2. archived = h.since
      BY <1>4, <1>11, <3>1
    <3>3. Rank(archived, h.rows[i]) = i - 1
      BY <2>1, <3>2 DEF OffsetHeld, n
    <3> QED
      BY <1>4, <2>1, <3>3
  <2>2. CASE i \notin 1..n
    <3>1. i - n \in 1..m /\ n + (i - n) = i /\ i \in Nat
      BY <1>1, <1>4, <2>2
    <3>2. g.rows[i] = items[i - n]
      BY <1>4, <3>1
    <3>3. Rank(archived, items[i - n]) = n + (i - n) - 1
      BY <1>2, <3>1
    <3> QED
      BY <1>1, <3>1, <3>2, <3>3
  <2> QED
    BY <2>1, <2>2
<1>12. \A d \in g.next : d = Len(g.rows)
  BY <1>2, <1>4
<1>13. \A e \in g.since : Rank(archived, e) < Len(g.rows) => e \in Listed(g)
  BY <1>4, <1>8
<1> QED
  BY <1>9, <1>10, <1>11, <1>12, <1>13 DEF OffsetHeld, g

\* A page that is read leaves what is held true.
LEMMA ExtendedIsTrue ==
  ASSUME PagerTypeOK, NEW h, HeldIsTrue(h, pager, archived), NEW c \in h.next
  PROVE  HeldIsTrue(Extended(h, PageAt(c)), pager, archived)
<1> DEFINE page == PageAt(c)
           g == Extended(h, page)
<1>1. /\ h \in HeldSet /\ h.since \subseteq archived
      /\ h.pages = 0 => h.rows = <<>>
      /\ pager = "daily" => KeysetHeld(h)
      /\ pager = "expedition" => OffsetHeld(h, archived)
      /\ archived \subseteq Entries /\ pager \in {"daily", "expedition"}
  BY DEF HeldIsTrue, HeldTrue, PagerTypeOK
<1>2. c \in Nat
  <2>1. h.next \in Params
    BY <1>1 DEF HeldSet
  <2> QED
    BY <2>1 DEF Params
<1>3. pager = "daily" => KeysetPageHas(page, c)
  BY <1>1, <1>2, KeysetPageIs DEF PageAt
<1>4. pager = "expedition" => OffsetPageHas(page, c)
  BY <1>1, <1>2, OffsetPageIs DEF PageAt
<1> HIDE DEF page
<1>5. page.items \in Seq(Entries) /\ page.next \in Params
  <2>1. \A e \in Entries : e \in Nat
    BY DEF Entries
  <2>2. CASE pager = "daily"
    <3>1. /\ page.items \in Seq(Entries) /\ Len(page.items) \in Nat
          /\ page.next = {} \/ (Len(page.items) > 0 /\ page.next = {page.items[Len(page.items)]})
      BY <1>3, <2>2 DEF KeysetPageHas
    <3>2. Len(page.items) > 0 => page.items[Len(page.items)] \in Entries
      BY <3>1
    <3> QED
      BY <2>1, <3>1, <3>2 DEF Params
  <2>3. CASE pager = "expedition"
    <3>1. /\ page.items \in Seq(Entries) /\ Len(page.items) \in Nat
          /\ page.next = {} \/ page.next = {c + Len(page.items)}
      BY <1>4, <2>3 DEF OffsetPageHas
    <3>2. c + Len(page.items) \in Nat
      BY <1>2, <3>1
    <3> QED
      BY <3>1, <3>2 DEF Params
  <2> QED
    BY <1>1, <2>2, <2>3
<1>6. ExtendedHas(h, page)
  BY <1>1, <1>5, ExtendedIs
<1>7. /\ g = Held(g.rows, g.pages, g.next, g.since)
      /\ g.next = page.next /\ g.pages = h.pages + 1 /\ g.rows \in Seq(Entries)
      /\ g.since = IF h.pages = 0 THEN archived ELSE h.since
  <2>1. g = Held(g.rows, g.pages, g.next, g.since)
    BY DEF Extended, Held
  <2> HIDE DEF g
  <2> QED
    BY <1>6, <2>1 DEF ExtendedHas, g
<1>8. pager = "daily" => KeysetHeld(g)
  BY <1>1, <1>3, KeysetExtended
<1>9. pager = "expedition" => OffsetHeld(g, archived)
  BY <1>1, <1>4, OffsetExtended
<1> HIDE DEF g
<1>10. g.since \subseteq archived /\ g.since \in SUBSET Entries
  BY <1>1, <1>7
<1>11. h.pages \in Nat
  BY <1>1 DEF HeldSet
<1>12. g.pages \in Nat /\ g.pages # 0
  BY <1>7, <1>11
<1>13. g \in HeldSet
  BY <1>5, <1>7, <1>10, <1>12 DEF HeldSet, Held
<1>14. HeldTrue(g, pager, archived)
  BY <1>8, <1>9, <1>10, <1>12 DEF HeldTrue
<1> QED
  BY <1>13, <1>14 DEF HeldIsTrue, g, page

\* Nothing is held, and what is to be read is at most the first page.
LEMMA NothingIsTrue ==
  ASSUME pager \in {"daily", "expedition"}, archived \subseteq Entries,
         NEW next \in {{}, {FirstParam}}
  PROVE  HeldIsTrue(Held(<<>>, 0, next, {}), pager, archived)
<1> DEFINE h == Held(<<>>, 0, next, {})
<1>2. /\ h.rows = <<>> /\ h.pages = 0 /\ h.next = next /\ h.since = {}
      /\ h = [rows |-> <<>>, pages |-> 0, next |-> next, since |-> {}]
  BY DEF Held
<1> HIDE DEF h
<1>3. FirstParam \in Nat /\ FirstParam = IF pager = "daily" THEN MaxEntries + 1 ELSE 0
  BY PagerAssumption DEF FirstParam
<1>4. next \in Params /\ \A c \in next : c = FirstParam
  BY <1>3 DEF Params
<1>5. Len(h.rows) = 0 /\ h.rows \in Seq(Entries) /\ \A i \in 1..Len(h.rows) : FALSE
  BY <1>2
<1>6. h \in HeldSet
  <2>1. <<>> \in Seq(Entries) /\ 0 \in Nat /\ {} \in SUBSET Entries
    OBVIOUS
  <2> QED
    BY <1>2, <1>4, <2>1 DEF HeldSet
<1>7. pager = "daily" => KeysetHeld(h)
  BY <1>2, <1>3, <1>4, <1>5 DEF KeysetHeld
<1>8. pager = "expedition" => OffsetHeld(h, archived)
  BY <1>2, <1>3, <1>4, <1>5 DEF OffsetHeld
<1> QED
  BY <1>2, <1>6, <1>7, <1>8 DEF HeldIsTrue, HeldTrue, h

\* A new entry leaves what is held true: by offset it is above all others.
LEMMA ArchivedIsTrue ==
  ASSUME PagerTypeOK, NEW h, HeldIsTrue(h, pager, archived),
         NEW e \in Entries, Archive(e)
  PROVE  HeldIsTrue(h, pager, archived')
<1>1. /\ h.since \subseteq archived /\ archived \subseteq archived' /\ archived' # h.since
      /\ archived \in SUBSET Entries /\ archived' \in SUBSET Entries
  BY DEF HeldIsTrue, HeldTrue, PagerTypeOK, Archive
<1>2. ASSUME OffsetHeld(h, archived), h \in HeldSet
      PROVE  OffsetHeld(h, archived')
  <2>1. ASSUME NEW x \in h.since, Rank(archived', x) < Len(h.rows)
        PROVE  Rank(archived, x) < Len(h.rows)
    <3>1. Len(h.rows) \in Nat
      BY <1>2 DEF HeldSet
    <3>2. /\ Rank(archived, x) \in Nat /\ Rank(archived', x) \in Nat
          /\ Rank(archived, x) <= Rank(archived', x)
      BY <1>1, RankGrows
    <3> QED
      BY <2>1, <3>1, <3>2
  <2> QED
    BY <1>1, <1>2, <2>1 DEF OffsetHeld
<1> QED
  BY <1>1, <1>2 DEF HeldIsTrue, HeldTrue

------------------------------------------------------------------------------
(* The invariant.                                                            *)

LEMMA PagerInvIs ==
  PagerInv <=> /\ PagerTypeOK
               /\ HeldIsTrue(list.held, pager, archived)
               /\ HeldIsTrue(fetch.held, pager, archived)
BY DEF PagerInv, PagerTypeOK, HeldIsTrue

LEMMA PagerInvIsInitially == PagerInit => PagerInv
<1> SUFFICES ASSUME PagerInit
             PROVE  PagerInv
  OBVIOUS
<1>1. pager \in {"daily", "expedition"} /\ archived \subseteq Entries
  BY DEF PagerInit
<1>2. HeldIsTrue(Nothing, pager, archived)
  BY <1>1, NothingIsTrue DEF Nothing
<1>3. list.held = Nothing /\ fetch.held = Nothing
  BY DEF PagerInit, Empty, NoFetch
<1>4. PagerTypeOK
  <2>1. Nothing \in HeldSet
    BY <1>2 DEF HeldIsTrue
  <2> QED
    BY <1>1, <2>1 DEF PagerInit, Empty, NoFetch, PagerTypeOK
<1> QED
  BY <1>2, <1>3, <1>4, PagerInvIs

\* Whatever the page does, it holds what was held or begins anew.
PageStep ==
  /\ pager' = pager /\ archived' = archived
  /\ list'.held \in {list.held, fetch.held}
  /\ fetch'.held \in {Nothing, Held(<<>>, 0, {FirstParam}, {}), list.held, fetch.held}

LEMMA PageStepKeeps ==
  ASSUME PagerInv, PageStep, PagerTypeOK'
  PROVE  PagerInv'
<1>1. /\ pager \in {"daily", "expedition"} /\ archived \subseteq Entries
      /\ HeldIsTrue(list.held, pager, archived) /\ HeldIsTrue(fetch.held, pager, archived)
  BY PagerInvIs DEF PagerTypeOK
<1>2. /\ HeldIsTrue(Nothing, pager, archived)
      /\ HeldIsTrue(Held(<<>>, 0, {FirstParam}, {}), pager, archived)
  BY <1>1, NothingIsTrue DEF Nothing
<1>3. HeldIsTrue(list'.held, pager', archived') /\ HeldIsTrue(fetch'.held, pager', archived')
  BY <1>1, <1>2 DEF PageStep
<1> QED
  BY <1>3 DEF PagerInv, HeldIsTrue

LEMMA IsPageStep ==
  ASSUME PagerInv,
         Open \/ Leave \/ RetryFirst \/ LoadMore \/ Retry \/ PageArrives \/ FetchFails
  PROVE  PageStep /\ PagerTypeOK'
<1> DEFINE Lists == [loaded : BOOLEAN, fresh : BOOLEAN, failed : BOOLEAN, held : HeldSet]
           Fetches == [phase : {"none", "asked", "answered"}, more : BOOLEAN, wanted : Nat,
                       held : HeldSet]
           first == Held(<<>>, 0, {FirstParam}, {})
<1>1. /\ pager \in {"daily", "expedition"} /\ archived \subseteq Entries
      /\ list \in Lists /\ fetch \in Fetches /\ mounted \in BOOLEAN
  BY DEF PagerInv, PagerTypeOK
<1>2. first \in HeldSet /\ Nothing \in HeldSet
  BY <1>1, NothingIsTrue DEF Nothing, HeldIsTrue
<1>3. list.held.pages \in Nat /\ list.held \in HeldSet /\ fetch.held \in HeldSet
  BY <1>1 DEF HeldSet
<1> HIDE DEF first
<1>4. NoFetch \in Fetches /\ NoFetch.held = Nothing
  BY <1>2 DEF NoFetch
<1>5. ASSUME Reload
      PROVE  fetch' \in Fetches /\ fetch'.held = first
  BY <1>2, <1>3, <1>5 DEF Reload, first
<1>6. ASSUME FetchNextPage
      PROVE  /\ list' \in Lists /\ list'.held = list.held
             /\ fetch' \in Fetches /\ fetch'.held \in {Nothing, list.held}
  <2>1. CASE list.held.next = {}
    BY <1>1, <1>4, <1>6, <2>1 DEF FetchNextPage
  <2>2. CASE list.held.next # {}
    <3>1. /\ fetch' = [phase |-> "asked", more |-> TRUE, wanted |-> 0, held |-> list.held]
          /\ list' = list
      BY <1>6, <2>2 DEF FetchNextPage
    <3>2. fetch' \in Fetches /\ fetch'.held = list.held
      BY <1>3, <3>1
    <3> HIDE DEF Fetches, Lists
    <3> QED
      BY <1>1, <3>1, <3>2
  <2> QED
    BY <2>1, <2>2
<1>7. SUFFICES /\ pager' = pager /\ archived' = archived /\ mounted' \in BOOLEAN
               /\ list' \in Lists /\ list'.held \in {list.held, fetch.held}
               /\ fetch' \in Fetches
               /\ fetch'.held \in {Nothing, first, list.held, fetch.held}
  BY <1>1 DEF PageStep, PagerTypeOK, first
<1> HIDE DEF Fetches, Lists
<1>8. CASE Open
  BY <1>1, <1>5, <1>8 DEF Open
<1>9. CASE Leave
  BY <1>1, <1>4, <1>9 DEF Leave
<1>10. CASE RetryFirst
  BY <1>1, <1>5, <1>10 DEF RetryFirst
<1>11. CASE LoadMore
  BY <1>1, <1>6, <1>11 DEF LoadMore
<1>12. CASE Retry
  BY <1>1, <1>6, <1>12 DEF Retry
<1>13. CASE PageArrives
  <2>1. CASE fetch.held.pages < fetch.wanted /\ fetch.held.next # {}
    <3>1. /\ fetch' = [fetch EXCEPT !.phase = "asked"] /\ list' = list
          /\ UNCHANGED <<pager, archived, mounted>>
      BY <1>13, <2>1 DEF PageArrives
    <3>2. fetch' \in Fetches /\ fetch'.held = fetch.held
      BY <1>1, <3>1 DEF Fetches
    <3> QED
      BY <1>1, <3>1, <3>2
  <2>2. CASE ~(fetch.held.pages < fetch.wanted /\ fetch.held.next # {})
    <3>1. /\ list' = [loaded |-> TRUE, fresh |-> TRUE, failed |-> FALSE, held |-> fetch.held]
          /\ fetch' = NoFetch
          /\ UNCHANGED <<pager, archived, mounted>>
      BY <1>13, <2>2 DEF PageArrives
    <3>2. list' \in Lists /\ list'.held = fetch.held
      BY <1>3, <3>1 DEF Lists
    <3> QED
      BY <1>1, <1>4, <3>1, <3>2
  <2> QED
    BY <2>1, <2>2
<1>14. CASE FetchFails
  <2>1. /\ list' = [list EXCEPT !.failed = TRUE, !.fresh = FALSE]
        /\ fetch' = NoFetch
        /\ UNCHANGED <<pager, archived, mounted>>
    BY <1>14 DEF FetchFails
  <2>2. list' \in Lists /\ list'.held = list.held
    BY <1>1, <2>1 DEF Lists
  <2> QED
    BY <1>1, <1>4, <2>1, <2>2
<1> QED
  BY <1>8, <1>9, <1>10, <1>11, <1>12, <1>13, <1>14

LEMMA PagerInvIsKept == PagerInv /\ [PagerNext]_pagerVars => PagerInv'
<1> SUFFICES ASSUME PagerInv, [PagerNext]_pagerVars
             PROVE  PagerInv'
  OBVIOUS
<1>1. /\ PagerTypeOK
      /\ HeldIsTrue(list.held, pager, archived) /\ HeldIsTrue(fetch.held, pager, archived)
  BY PagerInvIs
<1>2. CASE \E e \in Entries : Archive(e)
  <2>1. PICK e \in Entries : Archive(e)
    BY <1>2
  <2>2. pager' = pager /\ list' = list /\ fetch' = fetch
    BY <2>1 DEF Archive
  <2>3. HeldIsTrue(list'.held, pager', archived') /\ HeldIsTrue(fetch'.held, pager', archived')
    BY <1>1, <2>1, <2>2, ArchivedIsTrue
  <2>4. PagerTypeOK'
    BY <1>1, <2>1 DEF PagerTypeOK, Archive
  <2> QED
    BY <2>3, <2>4 DEF PagerInv, HeldIsTrue
<1>3. CASE ServerReads
  <2>1. PICK c \in fetch.held.next :
          fetch' = [fetch EXCEPT !.phase = "answered", !.held = Extended(@, PageAt(c))]
    BY <1>3 DEF ServerReads
  <2> DEFINE g == Extended(fetch.held, PageAt(c))
  <2>2. HeldIsTrue(g, pager, archived)
    BY <1>1, ExtendedIsTrue
  <2> HIDE DEF g
  <2>3. /\ UNCHANGED <<pager, archived, list, mounted>>
        /\ fetch' = [fetch EXCEPT !.phase = "answered", !.held = g]
    BY <1>3, <2>1 DEF ServerReads, g
  <2>4. fetch'.held = g /\ PagerTypeOK'
    <3>1. g \in HeldSet
      BY <2>2 DEF HeldIsTrue
    <3> QED
      BY <1>1, <2>3, <3>1 DEF PagerTypeOK
  <2>5. HeldIsTrue(list'.held, pager', archived') /\ HeldIsTrue(fetch'.held, pager', archived')
    BY <1>1, <2>2, <2>3, <2>4
  <2> QED
    BY <2>4, <2>5 DEF PagerInv, HeldIsTrue
<1>4. CASE Open \/ Leave \/ RetryFirst \/ LoadMore \/ Retry \/ PageArrives \/ FetchFails
  BY <1>4, IsPageStep, PageStepKeeps
<1>5. CASE UNCHANGED pagerVars
  BY <1>5 DEF pagerVars, PagerInv, PagerTypeOK
<1> QED
  BY <1>2, <1>3, <1>4, <1>5 DEF PagerNext

\* The state of a history page stays well formed: at most one parameter for the
\* next page, and no row that is not an entry.
THEOREM PagerTypeCorrect == PagerSpec => []PagerTypeOK
<1>1. PagerInv => PagerTypeOK
  BY DEF PagerInv
<1> QED
  BY <1>1, PagerInvIsInitially, PagerInvIsKept, PTL DEF PagerSpec

\* Whatever is archived between the pages, and whichever pages are reloaded or
\* continued after a failure, Dailies are listed newest first and once; Expeditions
\* as long as none was launched since the first page was read.
THEOREM ListIsInOrder == PagerSpec => []NewestFirstAndOnce
<1>1. PagerInv => NewestFirstAndOnce
  <2> SUFFICES ASSUME PagerInv, pager = "expedition" => archived = list.held.since,
                      NEW i \in DOMAIN Rows, NEW j \in DOMAIN Rows, i < j
               PROVE  Rows[i] > Rows[j]
    BY DEF NewestFirstAndOnce
  <2>1. /\ list.held \in HeldSet /\ HeldTrue(list.held, pager, archived)
        /\ pager \in {"daily", "expedition"} /\ archived \in SUBSET Entries
    BY DEF PagerInv, PagerTypeOK
  <2>2. /\ Rows \in Seq(Entries) /\ Rows = list.held.rows
        /\ i \in 1..Len(list.held.rows) /\ j \in 1..Len(list.held.rows)
    BY <2>1 DEF HeldSet, Rows
  <2>3. CASE pager = "daily"
    BY <2>1, <2>2, <2>3 DEF HeldTrue, KeysetHeld
  <2>4. CASE pager = "expedition"
    <3>1. Rank(archived, Rows[i]) = i - 1 /\ Rank(archived, Rows[j]) = j - 1
      BY <2>1, <2>2, <2>4 DEF HeldTrue, OffsetHeld
    <3>2. Rows[i] \in Nat /\ Rows[j] \in Nat
      <4>1. Rows[i] \in Entries /\ Rows[j] \in Entries
        BY <2>2
      <4> QED
        BY <4>1 DEF Entries
    <3>3. i \in Nat /\ j \in Nat
      BY <2>2
    <3>4. ~(Rows[j] > Rows[i])
      BY <2>1, <3>1, <3>2, <3>3, RankOrder
    <3>5. Rows[i] # Rows[j]
      BY <3>1, <3>3
    <3> QED
      BY <3>2, <3>4, <3>5
  <2> QED
    BY <2>1, <2>3, <2>4
<1> QED
  BY <1>1, PagerInvIsInitially, PagerInvIsKept, PTL DEF PagerSpec

\* No entry that was there when the first page was read is passed over between
\* two pages.
THEOREM NoEntryIsSkipped == PagerSpec => []NothingSkipped
<1>1. PagerInv => NothingSkipped
  <2> SUFFICES ASSUME PagerInv, NEW e \in list.held.since,
                      list.held.next = {} \/ \E i \in DOMAIN Rows : Rows[i] < e
               PROVE  \E i \in DOMAIN Rows : Rows[i] = e
    BY DEF NothingSkipped
  <2>1. /\ list.held \in HeldSet /\ HeldTrue(list.held, pager, archived)
        /\ pager \in {"daily", "expedition"} /\ archived \in SUBSET Entries
    BY DEF PagerInv, PagerTypeOK
  <2>2. Rows = list.held.rows /\ Rows \in Seq(Entries) /\ DOMAIN Rows = 1..Len(list.held.rows)
    BY <2>1 DEF HeldSet, Rows
  <2>3. SUFFICES e \in Listed(list.held)
    BY <2>2 DEF Listed
  <2>4. CASE list.held.next = {}
    BY <2>1, <2>4 DEF HeldTrue, KeysetHeld, OffsetHeld
  <2>5. CASE list.held.next # {} /\ pager = "daily"
    <3>1. PICK i \in 1..Len(Rows) : Rows[i] < e
      BY <2>2, <2>5
    <3>2. PICK c \in list.held.next : TRUE
      BY <2>5
    <3>3. KeysetHeld(list.held)
      BY <2>1, <2>5 DEF HeldTrue
    <3>4. Rows # <<>> /\ Len(Rows) \in 1..Len(Rows) /\ i \in Nat /\ Len(Rows) \in Nat
      BY <2>2, <3>1
    <3>5. c = Rows[Len(Rows)]
      BY <2>2, <3>2, <3>3, <3>4 DEF KeysetHeld
    <3>6. i = Len(Rows) \/ Rows[i] > Rows[Len(Rows)]
      BY <2>2, <3>1, <3>3, <3>4 DEF KeysetHeld
    <3>7. \A x \in Entries : x \in Nat
      BY DEF Entries
    <3>8. Rows[i] \in Nat /\ c \in Nat /\ e \in Nat
      <4>1. Rows[i] \in Entries /\ c \in Entries
        BY <2>2, <3>4, <3>5
      <4>2. e \in Entries
        BY <2>1 DEF HeldTrue
      <4> QED
        BY <3>7, <4>1, <4>2
    <3>9. e >= c
      BY <3>1, <3>5, <3>6, <3>8
    <3> QED
      BY <3>2, <3>3, <3>9 DEF KeysetHeld
  <2>6. CASE list.held.next # {} /\ pager = "expedition"
    <3>1. PICK i \in 1..Len(Rows) : Rows[i] < e
      BY <2>2, <2>6
    <3>2. Rows[i] \in Listed(list.held)
      BY <2>2, <3>1 DEF Listed
    <3> QED
      BY <2>1, <2>6, <3>1, <3>2 DEF HeldTrue, OffsetHeld
  <2> QED
    BY <2>1, <2>4, <2>5, <2>6
<1> QED
  BY <1>1, PagerInvIsInitially, PagerInvIsKept, PTL DEF PagerSpec
=============================================================================
