------------------------- MODULE EventDeliveryProofs -------------------------
(****************************************************************************)
(* Proofs about EventDelivery, for every set of events, services, drainers  *)
(* and consumers, and every batch size and number of faults.                *)
(****************************************************************************)
EXTENDS EventDelivery, TLAPS

USE EventAssumption, ServiceAssumption DEF EventAssumption, ServiceAssumption

------------------------------------------------------------------------------
(* Type correctness.                                                         *)

LEMMA TypeInit == Init => TypeOK
  BY DEF Init, TypeOK

LEMMA TypeStage ==
  ASSUME TypeOK, NEW e \in Events, Stage(e)
  PROVE  TypeOK'
<1> USE DEF TypeOK, drainVars, brokerVars, consumerVars, historyVars, boundVars
<1>1. CASE BeginMutation(e)
  BY <1>1 DEF BeginMutation
<1>2. CASE CommitMutation(e)
  BY <1>2 DEF CommitMutation
<1>3. CASE AbortMutation(e)
  BY <1>3 DEF AbortMutation
<1>4. QED
  BY <1>1, <1>2, <1>3 DEF Stage

LEMMA TypeDrain ==
  ASSUME TypeOK, NEW d \in Drainers, Drain(d)
  PROVE  TypeOK'
<1> USE DEF TypeOK, stagingVars, drainVars, brokerVars, consumerVars,
            historyVars, boundVars, Fault
<1>1. CASE BeginDrain(d)
  BY <1>1 DEF BeginDrain, OldestClaimable, Claimable
<1>2. CASE SendNext(d)
  <2>1. PICK e \in Events :
          /\ sent' = [sent EXCEPT ![d] = e]
          /\ queue' = [s \in Services |-> IF s \in Route(e)
                                          THEN [queue[s] EXCEPT ![e] = @ + 1]
                                          ELSE queue[s]]
          /\ unroutable' = IF Route(e) = {} THEN unroutable \cup {e}
                                            ELSE unroutable
          /\ reached' = [reached EXCEPT ![e] = @ \cup Route(e)]
          /\ sends' = [sends EXCEPT ![e] = @ + 1]
    BY <1>2 DEF SendNext
  <2>2. Route(e) \in SUBSET Services
    BY DEF Route
  <2>3. queue' \in [Services -> [Events -> Nat]]
    BY <2>1
  <2>4. QED
    BY <1>2, <2>1, <2>2, <2>3 DEF SendNext
<1>3. CASE SendFails(d)
  BY <1>3 DEF SendFails, MarkedAfterError
<1>4. CASE ConfirmAndMark(d)
  BY <1>4 DEF ConfirmAndMark
<1>5. CASE ConfirmLost(d)
  BY <1>5 DEF ConfirmLost, MarkedAfterError
<1>6. CASE CommitDrain(d)
  BY <1>6 DEF CommitDrain, Rollback
<1>7. CASE AbandonDrain(d)
  BY <1>7 DEF AbandonDrain, Rollback, RedoSent
<1>8. CASE LoseChannel(d)
  BY <1>8 DEF LoseChannel
<1>9. CASE RestartDrainer(d)
  BY <1>9 DEF RestartDrainer, Rollback, RedoSent
<1>10. QED
  BY <1>1, <1>2, <1>3, <1>4, <1>5, <1>6, <1>7, <1>8, <1>9 DEF Drain

LEMMA TypeBind ==
  ASSUME TypeOK, NEW s \in Services, Bind(s)
  PROVE  TypeOK'
  BY DEF TypeOK, Bind, stagingVars, drainVars, consumerVars, historyVars,
         boundVars

LEMMA TypeConsume ==
  ASSUME TypeOK, NEW c \in Consumers, Consume(c)
  PROVE  TypeOK'
<1> USE DEF TypeOK, stagingVars, drainVars, brokerVars, consumerVars,
            historyVars, boundVars, Fault
<1>1. CASE Receive(c)
  BY <1>1 DEF Receive
<1>2. CASE InsertProcessedEvent(c)
  BY <1>2 DEF InsertProcessedEvent
<1>3. CASE CommitHandler(c)
  BY <1>3 DEF CommitHandler, Mutate
<1>4. CASE HandlerFails(c)
  BY <1>4 DEF HandlerFails
<1>5. CASE CommitAmbiguous(c)
  BY <1>5 DEF CommitAmbiguous, Mutate
<1>6. CASE Ack(c)
  BY <1>6 DEF Ack
<1>7. CASE Nack(c)
  BY <1>7 DEF Nack, DeadLettered
<1>8. CASE CrashConsumer(c)
  BY <1>8 DEF CrashConsumer
<1>9. QED
  BY <1>1, <1>2, <1>3, <1>4, <1>5, <1>6, <1>7, <1>8 DEF Consume

LEMMA TypeReplay ==
  ASSUME TypeOK, NEW s \in Services, NEW e \in Events, Replay(s, e)
  PROVE  TypeOK'
<1>1. Route(e) \in SUBSET Services
  BY DEF Route
<1>2. queue' \in [Services -> [Events -> Nat]]
  BY DEF TypeOK, Replay
<1>3. dead' \in [Services -> [Events -> Nat]]
  BY DEF TypeOK, Replay
<1>4. reached' \in [Events -> SUBSET Services]
  BY <1>1 DEF TypeOK, Replay
<1>5. QED
  BY <1>2, <1>3, <1>4 DEF TypeOK, Replay, stagingVars, drainVars, consumerVars

LEMMA TypeStep == TypeOK /\ [Next]_vars => TypeOK'
<1>1. ASSUME TypeOK, UNCHANGED vars PROVE TypeOK'
  BY <1>1 DEF TypeOK, vars, stagingVars, drainVars, brokerVars, consumerVars,
              historyVars, boundVars
<1>2. QED
  BY <1>1, TypeStage, TypeDrain, TypeBind, TypeConsume, TypeReplay DEF Next

\* Every reachable state is well typed; in particular a drainer that awaits a
\* confirm and a consumer in its loop always have a message in hand.
THEOREM TypeCorrect == Spec => []TypeOK
  BY TypeInit, TypeStep, PTL DEF Spec

------------------------------------------------------------------------------
(* The drainers: what a transaction has locked, marked and sent.             *)

Batch(d) ==
  /\ todo[d] \subseteq claimed[d]
  /\ marked[d] \subseteq claimed[d]
  /\ todo[d] \cap marked[d] = {}
  /\ drain[d] = "idle" => claimed[d] = {}
  /\ sent[d] # NoEvent <=> drain[d] = "confirming"
  /\ sent[d] # NoEvent => sent[d] \in todo[d]
  /\ \A e \in claimed[d] : row[e] = "PENDING"

\* Row locks are exclusive.
DisjointClaims ==
  \A d1, d2 \in Drainers : d1 # d2 => claimed[d1] \cap claimed[d2] = {}

DrainInv == DisjointClaims /\ \A d \in Drainers : Batch(d)

\* Consumers, operators and queue declarations touch no outbox and no drain.
LEMMA OutboxFrame ==
  ASSUME \/ \E c \in Consumers : Consume(c)
         \/ \E s \in Services : Bind(s)
         \/ \E s \in Services, e \in Events : Replay(s, e)
         \/ UNCHANGED vars
  PROVE  UNCHANGED <<stagingVars, drainVars, sends, disrupted>>
<1> USE DEF stagingVars, drainVars, historyVars, vars
<1>1. ASSUME NEW c \in Consumers, Consume(c)
      PROVE  UNCHANGED <<stagingVars, drainVars, sends, disrupted>>
  BY <1>1 DEF Consume, Receive, InsertProcessedEvent, CommitHandler,
     HandlerFails, CommitAmbiguous, Ack, Nack, CrashConsumer
<1>2. QED
  BY <1>1 DEF Bind, Replay

LEMMA DrainInvStep == TypeOK /\ DrainInv /\ [Next]_vars => DrainInv'
<1> SUFFICES ASSUME TypeOK, DrainInv, [Next]_vars
             PROVE  DrainInv'
  OBVIOUS
<1>1. ASSUME UNCHANGED <<stagingVars, drainVars>>
      PROVE  DrainInv'
  BY <1>1 DEF DrainInv, DisjointClaims, Batch, stagingVars, drainVars
<1>2. ASSUME NEW e \in Events, Stage(e)
      PROVE  DrainInv'
  <2>1. \A f \in Events : row[f] = "PENDING" => row'[f] = "PENDING"
    BY <1>2 DEF Stage, BeginMutation, CommitMutation, AbortMutation, TypeOK
  <2>2. UNCHANGED drainVars
    BY <1>2 DEF Stage, BeginMutation, CommitMutation, AbortMutation
  <2>3. \A d \in Drainers : claimed[d] \subseteq Events
    BY DEF TypeOK
  <2>4. QED
    BY <2>1, <2>2, <2>3 DEF DrainInv, DisjointClaims, Batch, drainVars
<1>3. ASSUME NEW d \in Drainers, Drain(d)
      PROVE  DrainInv'
  <2> USE DEF DrainInv, DisjointClaims, Batch, TypeOK, stagingVars
  <2>1. CASE BeginDrain(d)
    BY <2>1 DEF BeginDrain, OldestClaimable, Claimable
  <2>2. CASE SendNext(d)
    BY <2>2 DEF SendNext, IsNext
  <2>3. CASE SendFails(d)
    BY <2>3 DEF SendFails, MarkedAfterError
  <2>4. CASE ConfirmAndMark(d)
    BY <2>4 DEF ConfirmAndMark
  <2>5. CASE ConfirmLost(d)
    BY <2>5 DEF ConfirmLost, MarkedAfterError
  <2>6. CASE CommitDrain(d)
    BY <2>6 DEF CommitDrain, Rollback
  <2>7. CASE AbandonDrain(d)
    BY <2>7 DEF AbandonDrain, Rollback
  <2>8. CASE LoseChannel(d)
    BY <2>8 DEF LoseChannel
  <2>9. CASE RestartDrainer(d)
    BY <2>9 DEF RestartDrainer, Rollback
  <2>10. QED
    BY <1>3, <2>1, <2>2, <2>3, <2>4, <2>5, <2>6, <2>7, <2>8, <2>9 DEF Drain
<1>4. QED
  BY <1>1, <1>2, <1>3, OutboxFrame DEF Next

LEMMA DrainInvariant == Spec => []DrainInv
<1>1. Init => DrainInv
  BY DEF Init, DrainInv, DisjointClaims, Batch
<1>2. QED
  BY <1>1, DrainInvStep, TypeCorrect, PTL DEF Spec

------------------------------------------------------------------------------
(* Publication: each send is accounted for by a mark or by a fault.          *)

\* A drainer holds e in hand only under its row lock, so at most one does.
LEMMA InHandIsPending ==
  ASSUME TypeOK, DrainInv, NEW d \in Drainers, NEW e \in Events,
         sent[d] = e \/ e \in marked[d]
  PROVE  /\ row[e] = "PENDING"
         /\ e \in claimed[d]
         /\ \A d2 \in Drainers : d2 # d => e \notin claimed[d2]
  BY DEF DrainInv, DisjointClaims, Batch, TypeOK

LEMMA DuplicatesStep ==
  TypeOK /\ DrainInv /\ DrainInv' /\ DuplicatesOnlyByFault /\ [Next]_vars
    => DuplicatesOnlyByFault'
<1> SUFFICES ASSUME TypeOK, DrainInv, DrainInv', DuplicatesOnlyByFault, [Next]_vars
             PROVE  DuplicatesOnlyByFault'
  OBVIOUS
<1>1. ASSUME UNCHANGED <<stagingVars, drainVars, sends, disrupted>>
      PROVE  DuplicatesOnlyByFault'
  BY <1>1 DEF DuplicatesOnlyByFault, InHand, stagingVars, drainVars
<1>2. ASSUME NEW e \in Events, Stage(e)
      PROVE  DuplicatesOnlyByFault'
  <2>1. \A f \in Events : row[f] = "PUBLISHED" <=> row'[f] = "PUBLISHED"
    BY <1>2 DEF Stage, BeginMutation, CommitMutation, AbortMutation, TypeOK
  <2>2. UNCHANGED <<drainVars, sends, disrupted>>
    BY <1>2 DEF Stage, BeginMutation, CommitMutation, AbortMutation, historyVars
  <2>3. QED
    BY <2>1, <2>2 DEF DuplicatesOnlyByFault, InHand, drainVars
<1>3. ASSUME NEW d \in Drainers, Drain(d)
      PROVE  DuplicatesOnlyByFault'
  <2> SUFFICES ASSUME NEW e \in Events
               PROVE  (sends[e] = disrupted[e] +
                        IF row[e] = "PUBLISHED" \/ InHand(e) THEN 1 ELSE 0)'
    BY DEF DuplicatesOnlyByFault
  <2> DEFINE mine == sent[d] = e \/ e \in marked[d]
             others == \E d2 \in Drainers \ {d} : sent[d2] = e \/ e \in marked[d2]
  <2>1. InHand(e) <=> mine \/ others
    BY DEF InHand
  <2>2. InHand(e)' <=> mine' \/ others'
    BY DEF InHand
  <2>3. others' <=> others
    BY <1>3 DEF Drain, BeginDrain, SendNext, SendFails, ConfirmAndMark,
       ConfirmLost, CommitDrain, AbandonDrain, LoseChannel, RestartDrainer,
       Rollback, TypeOK
  <2>4. e \in claimed[d] => row[e] = "PENDING" /\ ~others
    BY DEF DrainInv, DisjointClaims, Batch, TypeOK
  <2>5. mine => e \in claimed[d]
    BY DEF DrainInv, Batch, TypeOK
  <2>6. sends[e] \in Nat /\ disrupted[e] \in Nat
    BY DEF TypeOK
  <2>7. sends[e] = disrupted[e] + IF row[e] = "PUBLISHED" \/ mine \/ others
                                  THEN 1 ELSE 0
    BY <2>1 DEF DuplicatesOnlyByFault
  <2> HIDE DEF others
  <2> USE DEF TypeOK, DrainInv, Batch, stagingVars, historyVars
  <2>8. CASE BeginDrain(d)
    <3>1. mine' <=> mine
      BY <2>8 DEF BeginDrain
    <3>2. UNCHANGED <<row, sends, disrupted>>
      BY <2>8 DEF BeginDrain
    <3>3. QED
      BY <2>2, <2>3, <2>7, <3>1, <3>2
  <2>9. CASE SendNext(d)
    <3>1. PICK f \in Events : /\ f \in todo[d]
                              /\ sent' = [sent EXCEPT ![d] = f]
                              /\ sends' = [sends EXCEPT ![f] = @ + 1]
      BY <2>9 DEF SendNext, IsNext
    <3>2. sent[d] = NoEvent /\ UNCHANGED <<row, disrupted, marked>>
      BY <2>9 DEF SendNext
    <3>3. CASE e = f
      BY <2>2, <2>3, <2>4, <2>5, <2>6, <2>7, <3>1, <3>2, <3>3
    <3>4. CASE e # f
      BY <2>2, <2>3, <2>7, <3>1, <3>2, <3>4
    <3>5. QED
      BY <3>3, <3>4
  <2>10. CASE SendFails(d)
    <3>1. mine' <=> mine
      BY <2>10 DEF SendFails, MarkedAfterError
    <3>2. UNCHANGED <<row, sends, disrupted>>
      BY <2>10 DEF SendFails
    <3>3. QED
      BY <2>2, <2>3, <2>7, <3>1, <3>2
  <2>11. CASE ConfirmAndMark(d)
    <3>1. mine' <=> mine
      BY <2>11 DEF ConfirmAndMark
    <3>2. UNCHANGED <<row, sends, disrupted>>
      BY <2>11 DEF ConfirmAndMark
    <3>3. QED
      BY <2>2, <2>3, <2>7, <3>1, <3>2
  <2>12. CASE ConfirmLost(d)
    <3>1. UNCHANGED <<row, sends, marked>>
      BY <2>12 DEF ConfirmLost, MarkedAfterError
    <3>2. CASE e = sent[d]
      <4>1. ~mine' /\ disrupted'[e] = disrupted[e] + 1
        BY <2>12, <3>1, <3>2 DEF ConfirmLost
      <4>2. QED
        BY <2>2, <2>3, <2>4, <2>5, <2>6, <2>7, <3>1, <3>2, <4>1
    <3>3. CASE e # sent[d]
      <4>1. (mine' <=> mine) /\ disrupted'[e] = disrupted[e]
        BY <2>12, <3>1, <3>3 DEF ConfirmLost
      <4>2. QED
        BY <2>2, <2>3, <2>7, <3>1, <4>1
    <3>4. QED
      BY <3>2, <3>3
  <2>13. CASE CommitDrain(d)
    <3>1. ~mine' /\ UNCHANGED <<sends, disrupted>>
      BY <2>13 DEF CommitDrain, Rollback
    <3>2. mine => row'[e] = "PUBLISHED"
      BY <2>13 DEF CommitDrain
    <3>3. ~mine => row'[e] = row[e]
      BY <2>13 DEF CommitDrain
    <3>4. QED
      BY <2>2, <2>3, <2>4, <2>5, <2>7, <3>1, <3>2, <3>3
  <2>14. CASE AbandonDrain(d) \/ RestartDrainer(d)
    <3>1. ~mine' /\ UNCHANGED <<row, sends>>
      BY <2>14 DEF AbandonDrain, RestartDrainer, Rollback
    <3>2. disrupted'[e] = IF mine THEN disrupted[e] + 1 ELSE disrupted[e]
      BY <2>14 DEF AbandonDrain, RestartDrainer, RedoSent
    <3>3. QED
      BY <2>2, <2>3, <2>4, <2>5, <2>6, <2>7, <3>1, <3>2
  <2>15. CASE LoseChannel(d)
    BY <2>2, <2>3, <2>7, <2>15 DEF LoseChannel
  <2>16. QED
    BY <1>3, <2>8, <2>9, <2>10, <2>11, <2>12, <2>13, <2>14, <2>15 DEF Drain
<1>4. QED
  BY <1>1, <1>2, <1>3, OutboxFrame DEF Next

\* However many drainers share an outbox, an event is handed to the exchange
\* again only after a fault undid the record of an earlier send.
THEOREM NoDuplicateWithoutFault == Spec => []DuplicatesOnlyByFault
<1>1. Init => DuplicatesOnlyByFault
  BY DEF Init, DuplicatesOnlyByFault, InHand
<1>2. QED
  BY <1>1, DuplicatesStep, DrainInvariant, TypeCorrect, PTL DEF Spec

------------------------------------------------------------------------------
(* Consumption: processed_events and the domain mutation move together.      *)

ConsumerInv ==
  /\ \A c \in Consumers :
       /\ pc[c] = "mutating" => msg[c] \notin processed[ServiceOf[c]]
       /\ pc[c] = "acking" => msg[c] \in processed[ServiceOf[c]]
  /\ \A c, k \in Consumers :
       /\ pc[c] = "mutating" /\ pc[k] = "mutating"
       /\ ServiceOf[c] = ServiceOf[k] /\ msg[c] = msg[k]
       => c = k

ConsumptionInv == ConsumerInv /\ EffectsMatchProcessed

\* Staging, draining, binding and replaying touch no consumer.
LEMMA ConsumerFrame ==
  ASSUME \/ \E e \in Events : Stage(e)
         \/ \E d \in Drainers : Drain(d)
         \/ \E s \in Services : Bind(s)
         \/ \E s \in Services, e \in Events : Replay(s, e)
         \/ UNCHANGED vars
  PROVE  UNCHANGED consumerVars
<1>1. ASSUME NEW d \in Drainers, Drain(d)
      PROVE  UNCHANGED consumerVars
  BY <1>1 DEF Drain, BeginDrain, SendNext, SendFails, ConfirmAndMark,
     ConfirmLost, CommitDrain, AbandonDrain, LoseChannel, RestartDrainer
<1>2. QED
  BY <1>1 DEF Stage, BeginMutation, CommitMutation, AbortMutation, Bind, Replay,
     vars

\* The two steps that commit a handler's transaction.
LEMMA MutateStep ==
  ASSUME TypeOK, ConsumptionInv, NEW c \in Consumers, pc[c] = "mutating",
         Mutate(c), UNCHANGED msg,
         pc' = [pc EXCEPT ![c] = "acking"] \/ pc' = [pc EXCEPT ![c] = "nacking"]
  PROVE  ConsumptionInv'
<1> DEFINE s == ServiceOf[c]
           e == msg[c]
<1>1. s \in Services /\ e \in Events /\ e \notin processed[s]
  BY DEF TypeOK, ConsumptionInv, ConsumerInv
<1>2. /\ processed' = [processed EXCEPT ![s] = @ \cup {e}]
      /\ effects' = [effects EXCEPT ![s][e] = @ + 1]
  BY DEF Mutate
<1>3. effects[s][e] = 0
  BY <1>1 DEF ConsumptionInv, EffectsMatchProcessed
<1>4. ConsumerInv'
  <2>1. ASSUME NEW k \in Consumers
        PROVE  /\ pc'[k] = "mutating" => msg[k] \notin processed'[ServiceOf[k]]
               /\ pc'[k] = "acking" => msg[k] \in processed'[ServiceOf[k]]
    <3>1. CASE k = c
      BY <1>1, <1>2, <3>1 DEF TypeOK
    <3>2. CASE k # c
      <4>1. pc'[k] = pc[k]
        BY <3>2 DEF TypeOK
      <4>2. pc[k] = "mutating" => ~(ServiceOf[k] = s /\ msg[k] = e)
        BY <3>2 DEF ConsumptionInv, ConsumerInv
      <4>3. ServiceOf[k] \in Services
        OBVIOUS
      <4>4. CASE ServiceOf[k] = s
        BY <1>1, <1>2, <4>1, <4>2, <4>4 DEF TypeOK, ConsumptionInv, ConsumerInv
      <4>5. CASE ServiceOf[k] # s
        BY <1>1, <1>2, <4>1, <4>3, <4>5 DEF TypeOK, ConsumptionInv, ConsumerInv
      <4>6. QED
        BY <4>4, <4>5
    <3>3. QED
      BY <3>1, <3>2
  <2>2. QED
    BY <2>1 DEF TypeOK, ConsumptionInv, ConsumerInv
<1>5. EffectsMatchProcessed'
  BY <1>1, <1>2, <1>3 DEF TypeOK, ConsumptionInv, EffectsMatchProcessed
<1>6. QED
  BY <1>4, <1>5 DEF ConsumptionInv

LEMMA ConsumptionStep ==
  TypeOK /\ ConsumptionInv /\ [Next]_vars => ConsumptionInv'
<1> SUFFICES ASSUME TypeOK, ConsumptionInv, [Next]_vars
             PROVE  ConsumptionInv'
  OBVIOUS
<1>1. ASSUME UNCHANGED consumerVars
      PROVE  ConsumptionInv'
  BY <1>1 DEF ConsumptionInv, ConsumerInv, EffectsMatchProcessed, consumerVars
<1>2. ASSUME NEW c \in Consumers, Consume(c)
      PROVE  ConsumptionInv'
  <2>1. CASE Receive(c)
    BY <2>1 DEF Receive, ConsumptionInv, ConsumerInv, EffectsMatchProcessed, TypeOK
  <2>2. CASE InsertProcessedEvent(c)
    BY <2>2 DEF InsertProcessedEvent, InsertBlocked, AlreadyProcessed,
       ConsumptionInv, ConsumerInv, EffectsMatchProcessed, TypeOK
  <2>3. CASE CommitHandler(c) \/ CommitAmbiguous(c)
    BY <2>3, MutateStep DEF CommitHandler, CommitAmbiguous
  <2>4. CASE HandlerFails(c)
    BY <2>4 DEF HandlerFails, ConsumptionInv, ConsumerInv, EffectsMatchProcessed,
       TypeOK
  <2>5. CASE Ack(c) \/ Nack(c) \/ CrashConsumer(c)
    <3>1. /\ pc' = [pc EXCEPT ![c] = "idle"]
          /\ msg' = [msg EXCEPT ![c] = NoEvent]
          /\ UNCHANGED <<processed, effects>>
      BY <2>5 DEF Ack, Nack, CrashConsumer
    <3>2. QED
      BY <3>1 DEF ConsumptionInv, ConsumerInv, EffectsMatchProcessed, TypeOK
  <2>6. QED
    BY <1>2, <2>1, <2>2, <2>3, <2>4, <2>5 DEF Consume
<1>3. QED
  BY <1>1, <1>2, ConsumerFrame DEF Next

LEMMA ConsumptionInvariant == Spec => []ConsumptionInv
<1>1. Init => ConsumptionInv
  BY DEF Init, ConsumptionInv, ConsumerInv, EffectsMatchProcessed
<1>2. QED
  BY <1>1, ConsumptionStep, TypeCorrect, PTL DEF Spec

\* Whatever is redelivered, replayed, sent twice or consumed by two replicas at
\* once, a service performs an event's mutation once, exactly when its
\* processed_events records the event.
THEOREM ExactlyOnceMutation == Spec => []EffectsMatchProcessed
  BY ConsumptionInvariant, PTL DEF ConsumptionInv

------------------------------------------------------------------------------
(* Routing: where the copies of an event came from and what became of them.  *)

\* What an event must have gone through before it can be seen anywhere.
Provenance ==
  /\ InitiallyBound \subseteq bound
  /\ \A e \in Events :
       /\ reached[e] \subseteq Subscribers[e] \cap bound
       /\ e \notin Committed => reached[e] = {}
       /\ sends[e] > 0 => /\ Subscribers[e] \cap InitiallyBound \subseteq reached[e]
                          /\ reached[e] # {} \/ e \in unroutable
  /\ \A s \in Services, e \in Events : Accounted(s, e) <=> s \in reached[e]

LEMMA CommittedStays ==
  ASSUME TypeOK, DrainInv, [Next]_vars, NEW e \in Committed
  PROVE  e \in Committed'
<1>1. ASSUME NEW f \in Events, Stage(f) PROVE e \in Committed'
  BY <1>1 DEF Stage, BeginMutation, CommitMutation, AbortMutation, Committed, TypeOK
<1>2. ASSUME NEW d \in Drainers, Drain(d) PROVE e \in Committed'
  BY <1>2 DEF Drain, BeginDrain, SendNext, SendFails, ConfirmAndMark,
     ConfirmLost, CommitDrain, AbandonDrain, LoseChannel, RestartDrainer,
     stagingVars, Committed, TypeOK
<1>3. ASSUME UNCHANGED <<stagingVars, drainVars, sends, disrupted>>
      PROVE  e \in Committed'
  BY <1>3 DEF stagingVars, Committed
<1>4. QED
  BY <1>1, <1>2, <1>3, OutboxFrame DEF Next

\* The part of Provenance that concerns the copies held by consumers.
LEMMA ConsumeProvenance ==
  ASSUME TypeOK, ConsumptionInv, Provenance, NEW c \in Consumers, Consume(c)
  PROVE  \A s \in Services, e \in Events : Accounted(s, e)' <=> Accounted(s, e)
<1> SUFFICES ASSUME NEW s \in Services, NEW e \in Events
             PROVE  Accounted(s, e)' <=> Accounted(s, e)
  OBVIOUS
<1> DEFINE own == Holds(c, s, e)
           other == \E k \in Consumers \ {c} : Holds(k, s, e)
           rest == queue[s][e] > 0 \/ e \in processed[s] \/ dead[s][e] > 0
<1>1. Accounted(s, e) <=> own \/ other \/ rest
  BY DEF Accounted
<1>2. Accounted(s, e)' <=> own' \/ other' \/ rest'
  BY DEF Accounted
<1>3. /\ \E p \in {"idle", "received", "mutating", "acking", "nacking"} :
            pc' = [pc EXCEPT ![c] = p]
      /\ \E m \in Events \cup {NoEvent} : msg' = [msg EXCEPT ![c] = m]
  <2>1. \E m \in Events \cup {NoEvent} : msg = [msg EXCEPT ![c] = m]
    BY DEF TypeOK
  <2>2. CASE Receive(c)
    BY <2>2 DEF Receive
  <2>3. CASE ~Receive(c)
    BY <2>1, <2>3 DEF Consume, InsertProcessedEvent, CommitHandler, HandlerFails,
       CommitAmbiguous, Ack, Nack, CrashConsumer
  <2>4. QED
    BY <2>2, <2>3
<1>4. other' <=> other
  BY <1>3 DEF Holds, TypeOK
<1> HIDE DEF other
<1> USE DEF Holds, TypeOK
<1>5. CASE Receive(c)
  <2>1. PICK f \in Events :
          /\ queue[ServiceOf[c]][f] > 0
          /\ queue' = [queue EXCEPT ![ServiceOf[c]][f] = @ - 1]
          /\ msg' = [msg EXCEPT ![c] = f]
    BY <1>5 DEF Receive
  <2>2. CASE s = ServiceOf[c] /\ e = f
    BY <1>1, <1>2, <1>5, <2>1, <2>2 DEF Receive
  <2>3. CASE ~(s = ServiceOf[c] /\ e = f)
    BY <1>1, <1>2, <1>4, <1>5, <2>1, <2>3 DEF Receive
  <2>4. QED
    BY <2>2, <2>3
<1>6. CASE InsertProcessedEvent(c) \/ HandlerFails(c)
  BY <1>1, <1>2, <1>4, <1>6 DEF InsertProcessedEvent, HandlerFails, brokerVars
<1>7. CASE CommitHandler(c) \/ CommitAmbiguous(c)
  <2>1. own' <=> own
    BY <1>7 DEF CommitHandler, CommitAmbiguous
  <2>2. /\ processed' = [processed EXCEPT ![ServiceOf[c]] = @ \cup {msg[c]}]
        /\ UNCHANGED <<queue, dead>>
        /\ pc[c] # "idle"
    BY <1>7 DEF CommitHandler, CommitAmbiguous, Mutate, brokerVars
  <2>3. rest' => rest \/ own
    BY <2>2
  <2>4. rest => rest'
    BY <2>2
  <2>5. QED
    BY <1>1, <1>2, <1>4, <2>1, <2>3, <2>4
<1>8. CASE Ack(c)
  <2>1. own => e \in processed[s]
    BY <1>8 DEF Ack, ConsumptionInv, ConsumerInv
  <2>2. ~own' /\ (rest' <=> rest)
    BY <1>8 DEF Ack, brokerVars
  <2>3. QED
    BY <1>1, <1>2, <1>4, <2>1, <2>2
<1>9. CASE Nack(c)
  <2>1. ~own' /\ UNCHANGED <<queue, processed>>
    BY <1>9 DEF Nack
  <2>2. dead'[s][e] = IF own THEN dead[s][e] + 1 ELSE dead[s][e]
    BY <1>9 DEF Nack, DeadLettered
  <2>3. dead[s][e] \in Nat
    OBVIOUS
  <2>4. QED
    BY <1>1, <1>2, <1>4, <2>1, <2>2, <2>3
<1>10. CASE CrashConsumer(c)
  <2>1. ~own' /\ UNCHANGED <<dead, processed>>
    BY <1>10 DEF CrashConsumer
  <2>2. queue'[s][e] = IF own THEN queue[s][e] + 1 ELSE queue[s][e]
    BY <1>10 DEF CrashConsumer
  <2>3. queue[s][e] \in Nat
    OBVIOUS
  <2>4. QED
    BY <1>1, <1>2, <1>4, <2>1, <2>2, <2>3
<1>11. QED
  BY <1>5, <1>6, <1>7, <1>8, <1>9, <1>10 DEF Consume

LEMMA ProvenanceStep ==
  TypeOK /\ DrainInv /\ DuplicatesOnlyByFault /\ ConsumptionInv /\ Provenance
    /\ [Next]_vars => Provenance'
<1> SUFFICES ASSUME TypeOK, DrainInv, DuplicatesOnlyByFault, ConsumptionInv,
                    Provenance, [Next]_vars
             PROVE  Provenance'
  OBVIOUS
<1>1. \A e \in Committed : e \in Committed'
  BY CommittedStays
<1>2. ASSUME UNCHANGED <<drainVars, brokerVars, consumerVars, historyVars>>
      PROVE  Provenance'
  BY <1>1, <1>2 DEF Provenance, Accounted, Holds, drainVars, brokerVars,
     consumerVars, historyVars
<1>3. ASSUME UNCHANGED <<brokerVars, consumerVars, sends, reached>>
      PROVE  Provenance'
  BY <1>1, <1>3 DEF Provenance, Accounted, Holds, brokerVars, consumerVars
<1>4. ASSUME NEW d \in Drainers, SendNext(d)
      PROVE  Provenance'
  <2>1. PICK f \in Events :
          /\ IsNext(d, f)
          /\ queue' = [s \in Services |-> IF s \in Route(f)
                                          THEN [queue[s] EXCEPT ![f] = @ + 1]
                                          ELSE queue[s]]
          /\ unroutable' = IF Route(f) = {} THEN unroutable \cup {f}
                                            ELSE unroutable
          /\ reached' = [reached EXCEPT ![f] = @ \cup Route(f)]
          /\ sends' = [sends EXCEPT ![f] = @ + 1]
    BY <1>4 DEF SendNext
  <2>2. f \in Committed /\ UNCHANGED <<bound, dead, consumerVars>>
    BY <1>4, <2>1 DEF SendNext, IsNext, DrainInv, Batch, Committed, TypeOK
  <2>3. /\ Route(f) \subseteq Subscribers[f] \cap bound
        /\ Subscribers[f] \subseteq Services
    BY DEF Route
  <2>4. Subscribers[f] \cap InitiallyBound \subseteq Route(f)
    BY DEF Route, Provenance
  <2>5. ASSUME NEW s \in Services, NEW e \in Events
        PROVE  Accounted(s, e)' <=> s \in reached'[e]
    <3>1. CASE e = f /\ s \in Route(f)
      <4>1. queue'[s][e] > 0
        BY <2>1, <3>1 DEF TypeOK
      <4>2. s \in reached'[e]
        BY <2>1, <3>1 DEF TypeOK
      <4>3. QED
        BY <4>1, <4>2 DEF Accounted
    <3>2. CASE ~(e = f /\ s \in Route(f))
      <4>1. queue'[s][e] = queue[s][e]
        BY <2>1, <3>2 DEF TypeOK
      <4>2. s \in reached'[e] <=> s \in reached[e]
        BY <2>1, <3>2 DEF TypeOK
      <4>3. QED
        BY <2>2, <4>1, <4>2 DEF Accounted, Holds, consumerVars, Provenance
    <3>3. QED
      BY <3>1, <3>2
  <2>6. ASSUME NEW e \in Events
        PROVE  /\ reached'[e] \subseteq Subscribers[e] \cap bound
               /\ e \notin Committed' => reached'[e] = {}
               /\ sends'[e] > 0 =>
                    /\ Subscribers[e] \cap InitiallyBound \subseteq reached'[e]
                    /\ reached'[e] # {} \/ e \in unroutable'
    BY <1>1, <2>1, <2>2, <2>3, <2>4 DEF Provenance, TypeOK
  <2>7. QED
    BY <2>2, <2>5, <2>6 DEF Provenance
<1>5. ASSUME NEW d \in Drainers, Drain(d), ~SendNext(d)
      PROVE  Provenance'
  <2>1. UNCHANGED <<brokerVars, consumerVars, sends, reached>>
    BY <1>5 DEF Drain, BeginDrain, SendFails, ConfirmAndMark, ConfirmLost,
       CommitDrain, AbandonDrain, LoseChannel, RestartDrainer, historyVars
  <2>2. QED
    BY <1>3, <2>1
<1>6. ASSUME NEW e \in Events, Stage(e)
      PROVE  Provenance'
  BY <1>2, <1>6 DEF Stage, BeginMutation, CommitMutation, AbortMutation
<1>7. ASSUME NEW s \in Services, Bind(s)
      PROVE  Provenance'
  BY <1>1, <1>7 DEF Bind, Provenance, Accounted, Holds, consumerVars, historyVars
<1>8. ASSUME NEW c \in Consumers, Consume(c)
      PROVE  Provenance'
  <2>1. UNCHANGED <<bound, unroutable, sends, reached>>
    BY <1>8 DEF Consume, Receive, InsertProcessedEvent, CommitHandler,
       HandlerFails, CommitAmbiguous, Ack, Nack, CrashConsumer, brokerVars,
       historyVars
  <2>2. QED
    BY <1>1, <1>8, <2>1, ConsumeProvenance DEF Provenance
<1>9. ASSUME NEW s \in Services, NEW f \in Events, Replay(s, f)
      PROVE  Provenance'
  <2>1. /\ dead[s][f] > 0
        /\ dead' = [dead EXCEPT ![s][f] = @ - 1]
        /\ queue' = [t \in Services |-> IF t \in Route(f)
                                        THEN [queue[t] EXCEPT ![f] = @ + 1]
                                        ELSE queue[t]]
        /\ reached' = [reached EXCEPT ![f] = @ \cup Route(f)]
        /\ UNCHANGED <<bound, unroutable, consumerVars, sends>>
    BY <1>9 DEF Replay
  <2>2. s \in reached[f] /\ s \in Route(f) /\ f \in Committed
    BY <2>1 DEF Provenance, Accounted, Route
  <2>3. Route(f) \subseteq Subscribers[f] \cap bound /\ Route(f) \subseteq Services
    BY DEF Route
  <2>4. ASSUME NEW t \in Services, NEW e \in Events
        PROVE  Accounted(t, e)' <=> t \in reached'[e]
    <3>1. CASE e = f /\ t \in Route(f)
      <4>1. queue'[t][e] > 0 /\ t \in reached'[e]
        BY <2>1, <3>1 DEF TypeOK
      <4>2. QED
        BY <4>1 DEF Accounted
    <3>2. CASE ~(e = f /\ t \in Route(f))
      <4>1. queue'[t][e] = queue[t][e] /\ dead'[t][e] = dead[t][e]
        BY <2>1, <2>2, <3>2 DEF TypeOK
      <4>2. t \in reached'[e] <=> t \in reached[e]
        BY <2>1, <3>2 DEF TypeOK
      <4>3. QED
        BY <2>1, <4>1, <4>2 DEF Accounted, Holds, consumerVars, Provenance
    <3>3. QED
      BY <3>1, <3>2
  <2>5. ASSUME NEW e \in Events
        PROVE  /\ reached'[e] \subseteq Subscribers[e] \cap bound
               /\ e \notin Committed' => reached'[e] = {}
               /\ sends'[e] > 0 =>
                    /\ Subscribers[e] \cap InitiallyBound \subseteq reached'[e]
                    /\ reached'[e] # {} \/ e \in unroutable'
    BY <1>1, <2>1, <2>2, <2>3 DEF Provenance, TypeOK
  <2>6. QED
    BY <2>1, <2>4, <2>5 DEF Provenance
<1>10. QED
  BY <1>2, <1>4, <1>5, <1>6, <1>7, <1>8, <1>9 DEF Next, vars

LEMMA ProvenanceInvariant == Spec => []Provenance
<1>1. Init => Provenance
  <2> SUFFICES ASSUME Init PROVE Provenance
    OBVIOUS
  <2>1. \A s \in Services, e \in Events : ~Accounted(s, e)
    BY DEF Init, Accounted, Holds
  <2>2. QED
    BY <2>1 DEF Init, Provenance, Committed
<1>2. QED
  BY <1>1, ProvenanceStep, NoDuplicateWithoutFault, ConsumptionInvariant,
     DrainInvariant, TypeCorrect, PTL DEF Spec

\* Every copy a queue was given is still there, in a consumer's hands, performed
\* or dead-lettered.
THEOREM NothingIsDropped == Spec => []NothingDropped
<1>1. TypeOK /\ Provenance => NothingDropped
  BY DEF Provenance, NothingDropped, TypeOK
<1>2. QED
  BY <1>1, ProvenanceInvariant, TypeCorrect, PTL

\* A row is PUBLISHED only once every queue bound from the start has its copy.
THEOREM PublishedIsRouted == Spec => []PublishedWasRouted
<1>1. TypeOK /\ DuplicatesOnlyByFault /\ Provenance => PublishedWasRouted
  <2> SUFFICES ASSUME TypeOK, DuplicatesOnlyByFault, Provenance,
                      NEW e \in Events, row[e] = "PUBLISHED"
               PROVE  /\ Subscribers[e] \cap InitiallyBound \subseteq reached[e]
                      /\ reached[e] # {} \/ e \in unroutable
    BY DEF PublishedWasRouted
  <2>1. sends[e] > 0
    BY DEF DuplicatesOnlyByFault, TypeOK
  <2>2. QED
    BY <2>1 DEF Provenance
<1>2. QED
  BY <1>1, ProvenanceInvariant, NoDuplicateWithoutFault, TypeCorrect, PTL

------------------------------------------------------------------------------
(* The pipeline implements its contract.                                     *)

LEMMA ContractStep ==
  TypeOK /\ DrainInv /\ ConsumptionInv /\ Provenance /\ [Next]_vars
    => [Contract!Next]_Contract!vars
<1> SUFFICES ASSUME TypeOK, DrainInv, ConsumptionInv, Provenance, [Next]_vars
             PROVE  [Contract!Next]_Contract!vars
  OBVIOUS
<1> USE DEF Contract!Next, Contract!vars, Contract!Commit, Contract!Apply
<1>1. ASSUME NEW c \in Consumers, Consume(c)
      PROVE  [Contract!Next]_Contract!vars
  <2>1. UNCHANGED Committed
    BY <1>1, OutboxFrame DEF stagingVars, Committed
  <2>2. CASE CommitHandler(c) \/ CommitAmbiguous(c)
    <3> DEFINE s == ServiceOf[c]
               e == msg[c]
    <3>1. s \in Services /\ e \in Events /\ e \notin processed[s] /\ Holds(c, s, e)
      BY <2>2 DEF CommitHandler, CommitAmbiguous, TypeOK, ConsumptionInv,
         ConsumerInv, Holds
    <3>2. e \in Committed /\ s \in Subscribers[e]
      BY <3>1 DEF Provenance, Accounted
    <3>3. effects[s][e] = 0 /\ effects' = [effects EXCEPT ![s][e] = 1]
      BY <2>2, <3>1 DEF CommitHandler, CommitAmbiguous, Mutate, ConsumptionInv,
         EffectsMatchProcessed
    <3>4. Contract!Apply(s, e)
      BY <2>1, <3>2, <3>3
    <3>5. QED
      BY <3>1, <3>4
  <2>3. CASE ~(CommitHandler(c) \/ CommitAmbiguous(c))
    <3>1. UNCHANGED effects
      BY <1>1, <2>3 DEF Consume, Receive, InsertProcessedEvent, HandlerFails,
         Ack, Nack, CrashConsumer
    <3>2. QED
      BY <2>1, <3>1
  <2>4. QED
    BY <2>2, <2>3
<1>2. ASSUME NEW e \in Events, Stage(e)
      PROVE  [Contract!Next]_Contract!vars
  <2>1. UNCHANGED effects
    BY <1>2, ConsumerFrame DEF consumerVars
  <2>2. CASE CommitMutation(e)
    <3>1. e \notin Committed /\ Committed' = Committed \cup {e}
      BY <2>2 DEF CommitMutation, Committed, TypeOK
    <3>2. QED
      BY <2>1, <3>1
  <2>3. CASE BeginMutation(e) \/ AbortMutation(e)
    <3>1. UNCHANGED Committed
      BY <2>3 DEF BeginMutation, AbortMutation, Committed, TypeOK
    <3>2. QED
      BY <2>1, <3>1
  <2>4. QED
    BY <1>2, <2>2, <2>3 DEF Stage
<1>3. ASSUME NEW d \in Drainers, Drain(d)
      PROVE  [Contract!Next]_Contract!vars
  <2>1. UNCHANGED effects
    BY <1>3, ConsumerFrame DEF consumerVars
  <2>2. UNCHANGED Committed
    <3>1. CASE CommitDrain(d)
      BY <3>1 DEF CommitDrain, Committed, DrainInv, Batch, TypeOK
    <3>2. CASE ~CommitDrain(d)
      BY <1>3, <3>2 DEF Drain, BeginDrain, SendNext, SendFails, ConfirmAndMark,
         ConfirmLost, AbandonDrain, LoseChannel, RestartDrainer, stagingVars,
         Committed
    <3>3. QED
      BY <3>1, <3>2
  <2>3. QED
    BY <2>1, <2>2
<1>4. ASSUME \/ \E s \in Services : Bind(s)
             \/ \E s \in Services, e \in Events : Replay(s, e)
             \/ UNCHANGED vars
      PROVE  [Contract!Next]_Contract!vars
  BY <1>4, OutboxFrame, ConsumerFrame DEF stagingVars, consumerVars, Committed
<1>5. QED
  BY <1>1, <1>2, <1>3, <1>4 DEF Next

\* Outbox, drainers, broker and idempotent consumers together implement the
\* contract: a committed event is performed at most once per subscriber, an
\* uncommitted one never.
THEOREM PipelineImplementsContract == Spec => ImplementsContract
<1>1. Init => Contract!Init
  BY DEF Init, Contract!Init, Committed
<1>2. QED
  BY <1>1, ContractStep, ProvenanceInvariant, ConsumptionInvariant,
     DrainInvariant, TypeCorrect, PTL
  DEF Spec, ImplementsContract, Contract!Spec
==============================================================================
