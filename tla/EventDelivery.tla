---------------------------- MODULE EventDelivery ----------------------------
(****************************************************************************)
(* The event pipeline every Galaxify service is built on: the transactional *)
(* outbox, its drainers (pkg/events/outbox.go), the confirming publisher    *)
(* (publisher.go), the broker's queues and dead letters (subscriber.go) and *)
(* the idempotent consumer (idempotent_consumer.go).                        *)
(*                                                                          *)
(* One outbox, any number of drainers of it (the replicas of a service and  *)
(* its worker share a database), any number of consuming services with any  *)
(* number of consumer goroutines each.  A payload is its event identity.    *)
(****************************************************************************)
EXTENDS Naturals, FiniteSets

CONSTANTS Events,         \* event identities (event_id)
          NoEvent,        \* "no message in hand"
          Services,       \* services that subscribe to some event
          Subscribers,    \* Subscribers[e]: the services with a handler for e
          InitiallyBound, \* services whose queues were declared beforehand
          Drainers,       \* processes with an OutboxDrainer on this outbox
          Consumers,      \* delivery loops, one per service, queue and replica
          ServiceOf,      \* ServiceOf[c]: the service consumer c runs in
          MaxRows,        \* the batch bound given to Drain
          MaxFaults,      \* bound: failures of processes and connections
          MaxReplays      \* bound: dead letters moved back by an operator

ASSUME EventAssumption == NoEvent \notin Events
ASSUME ServiceAssumption == /\ Subscribers \in [Events -> SUBSET Services]
                            /\ InitiallyBound \subseteq Services
                            /\ ServiceOf \in [Consumers -> Services]
ASSUME BoundAssumption == /\ MaxRows \in Nat \ {0}
                          /\ MaxFaults \in Nat
                          /\ MaxReplays \in Nat

VARIABLES row,         \* row[e]: state of e's outbox row
          createdAt,   \* createdAt[e]: created_at, the start of e's transaction
          clock,       \* the database clock, one tick per transaction start
          drain,       \* drain[d]: where drainer d stands in Drain
          claimed,     \* claimed[d]: rows d's transaction has locked
          todo,        \* todo[d]: claimed rows the loop has not reached
          sent,        \* sent[d]: the message d awaits a confirm for
          marked,      \* marked[d]: rows d's open transaction updated
          channel,     \* channel[d]: d's AMQP channel
          bound,       \* services whose queues exist and are bound
          queue,       \* queue[s][e]: copies of e ready in s's queue
          unroutable,  \* events in galaxify.unroutable
          dead,        \* dead[s][e]: copies of e that s dead-lettered
          pc,          \* pc[c]: where consumer c stands in its delivery loop
          msg,         \* msg[c]: the delivery c holds unacknowledged
          processed,   \* processed[s]: committed processed_events of s
          effects,     \* effects[s][e]: committed domain mutations of e in s
          sends,       \* history: times e reached the exchange
          disrupted,   \* history: sends of e whose mark was lost to a fault
          reached,     \* history: services whose queue was given a copy of e
          faults,      \* faults so far
          replays      \* replays so far

stagingVars  == <<row, createdAt, clock>>
drainVars    == <<drain, claimed, todo, sent, marked, channel>>
brokerVars   == <<bound, queue, unroutable, dead>>
consumerVars == <<pc, msg, processed, effects>>
historyVars  == <<sends, disrupted, reached>>
boundVars    == <<faults, replays>>
vars == <<stagingVars, drainVars, brokerVars, consumerVars, historyVars,
          boundVars>>

Committed == {e \in Events : row[e] \in {"PENDING", "PUBLISHED"}}

TypeOK ==
  /\ row \in [Events -> {"absent", "open", "aborted", "PENDING", "PUBLISHED"}]
  /\ createdAt \in [Events -> Nat]
  /\ clock \in Nat
  /\ drain \in [Drainers -> {"idle", "publishing", "confirming"}]
  /\ claimed \in [Drainers -> SUBSET Events]
  /\ todo \in [Drainers -> SUBSET Events]
  /\ sent \in [Drainers -> Events \cup {NoEvent}]
  /\ \A d \in Drainers : drain[d] = "confirming" => sent[d] \in Events
  /\ marked \in [Drainers -> SUBSET Events]
  /\ channel \in [Drainers -> {"open", "closed"}]
  /\ bound \in SUBSET Services
  /\ queue \in [Services -> [Events -> Nat]]
  /\ unroutable \in SUBSET Events
  /\ dead \in [Services -> [Events -> Nat]]
  /\ pc \in [Consumers -> {"idle", "received", "mutating", "acking", "nacking"}]
  /\ msg \in [Consumers -> Events \cup {NoEvent}]
  /\ \A c \in Consumers : pc[c] # "idle" => msg[c] \in Events
  /\ processed \in [Services -> SUBSET Events]
  /\ effects \in [Services -> [Events -> Nat]]
  /\ sends \in [Events -> Nat]
  /\ disrupted \in [Events -> Nat]
  /\ reached \in [Events -> SUBSET Services]
  /\ faults \in Nat
  /\ replays \in Nat

Init ==
  /\ row = [e \in Events |-> "absent"]
  /\ createdAt = [e \in Events |-> 0]
  /\ clock = 0
  /\ drain = [d \in Drainers |-> "idle"]
  /\ claimed = [d \in Drainers |-> {}]
  /\ todo = [d \in Drainers |-> {}]
  /\ sent = [d \in Drainers |-> NoEvent]
  /\ marked = [d \in Drainers |-> {}]
  /\ channel = [d \in Drainers |-> "open"]
  /\ bound = InitiallyBound
  /\ queue = [s \in Services |-> [e \in Events |-> 0]]
  /\ unroutable = {}
  /\ dead = [s \in Services |-> [e \in Events |-> 0]]
  /\ pc = [c \in Consumers |-> "idle"]
  /\ msg = [c \in Consumers |-> NoEvent]
  /\ processed = [s \in Services |-> {}]
  /\ effects = [s \in Services |-> [e \in Events |-> 0]]
  /\ sends = [e \in Events |-> 0]
  /\ disrupted = [e \in Events |-> 0]
  /\ reached = [e \in Events |-> {}]
  /\ faults = 0
  /\ replays = 0

Fault == faults < MaxFaults /\ faults' = faults + 1 /\ UNCHANGED replays

------------------------------------------------------------------------------
(* A handler's transaction: the state change and the outbox row commit      *)
(* together or not at all.  created_at defaults to now(), which Postgres     *)
(* fixes when the transaction starts.                                        *)

BeginMutation(e) ==
  /\ row[e] = "absent"
  /\ row' = [row EXCEPT ![e] = "open"]
  /\ createdAt' = [createdAt EXCEPT ![e] = clock]
  /\ clock' = clock + 1
  /\ UNCHANGED <<drainVars, brokerVars, consumerVars, historyVars, boundVars>>

CommitMutation(e) ==
  /\ row[e] = "open"
  /\ row' = [row EXCEPT ![e] = "PENDING"]
  /\ UNCHANGED <<createdAt, clock, drainVars, brokerVars, consumerVars,
                 historyVars, boundVars>>

AbortMutation(e) ==
  /\ row[e] = "open"
  /\ row' = [row EXCEPT ![e] = "aborted"]
  /\ UNCHANGED <<createdAt, clock, drainVars, brokerVars, consumerVars,
                 historyVars, boundVars>>

------------------------------------------------------------------------------
(* Drain.  The drainer's mutex is its program counter: one Drain at a time.  *)

\* Mutation: the claim query without SKIP LOCKED (or without row locks).
ClaimableWithLocked == {e \in Events : row[e] = "PENDING"}

\* Mutation: the claim query reads rows of transactions still open.
ClaimableUncommitted ==
  {e \in Events : /\ row[e] \in {"open", "PENDING"}
                  /\ \A d \in Drainers : e \notin claimed[d]}

\* Pending rows that no drainer's transaction has locked.
Claimable == {e \in Events : /\ row[e] = "PENDING"
                             /\ \A d \in Drainers : e \notin claimed[d]}

\* ORDER BY created_at ASC LIMIT MaxRows over the claimable rows.
OldestClaimable(S) ==
  /\ S \subseteq Claimable
  /\ S # {}
  /\ Cardinality(S) <= MaxRows
  /\ S # Claimable => Cardinality(S) = MaxRows
  /\ \A e \in S, f \in Claimable \ S : createdAt[e] <= createdAt[f]

BeginDrain(d) ==
  /\ drain[d] = "idle"
  /\ \E S \in SUBSET Claimable :
       /\ OldestClaimable(S)
       /\ claimed' = [claimed EXCEPT ![d] = S]
       /\ todo' = [todo EXCEPT ![d] = S]
  /\ drain' = [drain EXCEPT ![d] = "publishing"]
  /\ UNCHANGED <<stagingVars, sent, marked, channel, brokerVars, consumerVars,
                 historyVars, boundVars>>

\* The record the loop over the claimed rows is at.
IsNext(d, e) == e \in todo[d] /\ \A f \in todo[d] : createdAt[e] <= createdAt[f]

\* The queues the exchange routes e to.
Route(e) == Subscribers[e] \cap bound

(* channel.Publish: the exchange copies the message into every bound queue,  *)
(* or into galaxify.unroutable when no queue is bound.                       *)
SendNext(d) ==
  /\ drain[d] = "publishing"
  /\ channel[d] = "open"
  /\ \E e \in Events :
       /\ IsNext(d, e)
       /\ sent' = [sent EXCEPT ![d] = e]
       /\ queue' = [s \in Services |->
                      IF s \in Route(e)
                      THEN [queue[s] EXCEPT ![e] = @ + 1]
                      ELSE queue[s]]
       /\ unroutable' = IF Route(e) = {} THEN unroutable \cup {e} ELSE unroutable
       /\ reached' = [reached EXCEPT ![e] = @ \cup Route(e)]
       /\ sends' = [sends EXCEPT ![e] = @ + 1]
  /\ drain' = [drain EXCEPT ![d] = "confirming"]
  /\ UNCHANGED <<stagingVars, claimed, todo, marked, channel, bound, dead,
                 consumerVars, disrupted, boundVars>>

(* The broker's ack arrives and MarkPublished succeeds.                      *)
ConfirmAndMark(d) ==
  /\ drain[d] = "confirming"
  /\ marked' = [marked EXCEPT ![d] = @ \cup {sent[d]}]
  /\ todo' = [todo EXCEPT ![d] = @ \ {sent[d]}]
  /\ sent' = [sent EXCEPT ![d] = NoEvent]
  /\ drain' = [drain EXCEPT ![d] = "publishing"]
  /\ UNCHANGED <<stagingVars, claimed, channel, brokerVars, consumerVars,
                 historyVars, boundVars>>

\* Mutation: a failed publish is marked like a confirmed one.
MarkedAfterErrorAnyway(d, e) == marked[d] \cup {e}

\* A publish error is logged and the loop continues: the row stays unmarked.
MarkedAfterError(d, e) == marked[d]

(* Publish fails before the exchange has the message: the channel is closed, *)
(* or the broker nacks.                                                       *)
SendFails(d) ==
  /\ drain[d] = "publishing"
  /\ IF channel[d] = "closed" THEN UNCHANGED boundVars ELSE Fault
  /\ \E e \in Events :
       /\ IsNext(d, e)
       /\ todo' = [todo EXCEPT ![d] = @ \ {e}]
       /\ marked' = [marked EXCEPT ![d] = MarkedAfterError(d, e)]
  /\ UNCHANGED <<stagingVars, drain, claimed, sent, channel, brokerVars,
                 consumerVars, historyVars>>

(* Publish fails although the exchange took the message: the confirm is lost *)
(* with the channel, or the context ends first.                              *)
ConfirmLost(d) ==
  /\ drain[d] = "confirming"
  /\ IF channel[d] = "closed" THEN UNCHANGED boundVars ELSE Fault
  /\ disrupted' = [disrupted EXCEPT ![sent[d]] = @ + 1]
  /\ todo' = [todo EXCEPT ![d] = @ \ {sent[d]}]
  /\ marked' = [marked EXCEPT ![d] = MarkedAfterError(d, sent[d])]
  /\ sent' = [sent EXCEPT ![d] = NoEvent]
  /\ drain' = [drain EXCEPT ![d] = "publishing"]
  /\ UNCHANGED <<stagingVars, claimed, channel, brokerVars, consumerVars,
                 sends, reached>>

\* Mutation: no deferred Rollback, so the row locks of the batch stay.
RollbackForgotten(d) ==
  /\ todo' = [todo EXCEPT ![d] = {}]
  /\ marked' = [marked EXCEPT ![d] = {}]
  /\ sent' = [sent EXCEPT ![d] = NoEvent]
  /\ drain' = [drain EXCEPT ![d] = "idle"]
  /\ UNCHANGED claimed

\* The open transaction ends without a commit.
Rollback(d) ==
  /\ claimed' = [claimed EXCEPT ![d] = {}]
  /\ todo' = [todo EXCEPT ![d] = {}]
  /\ marked' = [marked EXCEPT ![d] = {}]
  /\ sent' = [sent EXCEPT ![d] = NoEvent]
  /\ drain' = [drain EXCEPT ![d] = "idle"]

\* Every message the rolled-back batch sent will be sent again.
RedoSent(d) ==
  disrupted' = [e \in Events |-> IF e \in marked[d] \/ e = sent[d]
                                 THEN disrupted[e] + 1 ELSE disrupted[e]]

(* MarkPublished or Commit fails, or the process dies in mid-drain: Postgres *)
(* rolls the whole batch back.                                               *)
AbandonDrain(d) ==
  /\ drain[d] # "idle"
  /\ Fault
  /\ Rollback(d)
  /\ RedoSent(d)
  /\ UNCHANGED <<stagingVars, channel, brokerVars, consumerVars, sends, reached>>

CommitDrain(d) ==
  /\ drain[d] = "publishing"
  /\ todo[d] = {}
  /\ row' = [e \in Events |-> IF e \in marked[d] THEN "PUBLISHED" ELSE row[e]]
  /\ Rollback(d)
  /\ UNCHANGED <<createdAt, clock, channel, brokerVars, consumerVars,
                 historyVars, boundVars>>

(* The channel closes; nothing in Publisher reopens it, only a new process   *)
(* does.                                                                     *)
LoseChannel(d) ==
  /\ channel[d] = "open"
  /\ Fault
  /\ channel' = [channel EXCEPT ![d] = "closed"]
  /\ UNCHANGED <<stagingVars, drain, claimed, todo, sent, marked, brokerVars,
                 consumerVars, historyVars>>

RestartDrainer(d) ==
  /\ channel[d] = "closed"
  /\ channel' = [channel EXCEPT ![d] = "open"]
  /\ Rollback(d)
  /\ RedoSent(d)
  /\ UNCHANGED <<stagingVars, brokerVars, consumerVars, sends, reached, boundVars>>

------------------------------------------------------------------------------
(* Subscriber.Start: the service declares and binds its queues, durably.     *)
Bind(s) ==
  /\ s \notin bound
  /\ bound' = bound \cup {s}
  /\ UNCHANGED <<stagingVars, drainVars, queue, unroutable, dead, consumerVars,
                 historyVars, boundVars>>

Receive(c) ==
  /\ pc[c] = "idle"
  /\ ServiceOf[c] \in bound
  /\ \E e \in Events :
       /\ queue[ServiceOf[c]][e] > 0
       /\ queue' = [queue EXCEPT ![ServiceOf[c]][e] = @ - 1]
       /\ msg' = [msg EXCEPT ![c] = e]
  /\ pc' = [pc EXCEPT ![c] = "received"]
  /\ UNCHANGED <<stagingVars, drainVars, bound, unroutable, dead, processed,
                 effects, historyVars, boundVars>>

\* Mutation: no waiting on the unique index (a SELECT before the INSERT).
InsertBlockedNever(s, e) == FALSE

\* Another transaction of the service holds an uncommitted insert of e, and
\* ON CONFLICT waits for it.
InsertBlocked(s, e) ==
  \E k \in Consumers : ServiceOf[k] = s /\ pc[k] = "mutating" /\ msg[k] = e

\* InsertProcessedEvent affects no row.
AlreadyProcessed(s, e) == e \in processed[s]

(* Begin and InsertProcessedEvent: a duplicate is acknowledged, a first       *)
(* delivery goes on to the domain handler in the same transaction.           *)
InsertProcessedEvent(c) ==
  /\ pc[c] = "received"
  /\ ~InsertBlocked(ServiceOf[c], msg[c])
  /\ pc' = [pc EXCEPT ![c] = IF AlreadyProcessed(ServiceOf[c], msg[c])
                             THEN "acking" ELSE "mutating"]
  /\ UNCHANGED <<stagingVars, drainVars, brokerVars, msg, processed, effects,
                 historyVars, boundVars>>

\* The handler's transaction commits the mutation with its processed_events row.
Mutate(c) ==
  /\ processed' = [processed EXCEPT ![ServiceOf[c]] = @ \cup {msg[c]}]
  /\ effects' = [effects EXCEPT ![ServiceOf[c]][msg[c]] = @ + 1]

CommitHandler(c) ==
  /\ pc[c] = "mutating"
  /\ Mutate(c)
  /\ pc' = [pc EXCEPT ![c] = "acking"]
  /\ UNCHANGED <<stagingVars, drainVars, brokerVars, msg, historyVars, boundVars>>

(* Decoding, Begin, the insert or the domain handler fails: the transaction  *)
(* rolls back, the processed_events row with it.                             *)
HandlerFails(c) ==
  /\ pc[c] \in {"received", "mutating"}
  /\ pc' = [pc EXCEPT ![c] = "nacking"]
  /\ UNCHANGED <<stagingVars, drainVars, brokerVars, msg, processed, effects,
                 historyVars, boundVars>>

(* Commit reports an error after the server committed: the delivery is        *)
(* dead-lettered although the mutation took effect.                          *)
CommitAmbiguous(c) ==
  /\ pc[c] = "mutating"
  /\ Fault
  /\ Mutate(c)
  /\ pc' = [pc EXCEPT ![c] = "nacking"]
  /\ UNCHANGED <<stagingVars, drainVars, brokerVars, msg, historyVars>>

Ack(c) ==
  /\ pc[c] = "acking"
  /\ pc' = [pc EXCEPT ![c] = "idle"]
  /\ msg' = [msg EXCEPT ![c] = NoEvent]
  /\ UNCHANGED <<stagingVars, drainVars, brokerVars, processed, effects,
                 historyVars, boundVars>>

\* Mutation: a queue without x-dead-letter-exchange drops what is rejected.
DropRejected(s, e) == dead[s][e]

\* x-dead-letter-exchange: a rejected message gains a copy in dead_letters.
DeadLettered(s, e) == dead[s][e] + 1

Nack(c) ==
  /\ pc[c] = "nacking"
  /\ dead' = [dead EXCEPT ![ServiceOf[c]][msg[c]] =
                DeadLettered(ServiceOf[c], msg[c])]
  /\ pc' = [pc EXCEPT ![c] = "idle"]
  /\ msg' = [msg EXCEPT ![c] = NoEvent]
  /\ UNCHANGED <<stagingVars, drainVars, bound, queue, unroutable, processed,
                 effects, historyVars, boundVars>>

(* The process dies: its transaction is rolled back and the broker returns    *)
(* the unacknowledged delivery to the queue.                                 *)
CrashConsumer(c) ==
  /\ pc[c] # "idle"
  /\ Fault
  /\ queue' = [queue EXCEPT ![ServiceOf[c]][msg[c]] = @ + 1]
  /\ pc' = [pc EXCEPT ![c] = "idle"]
  /\ msg' = [msg EXCEPT ![c] = NoEvent]
  /\ UNCHANGED <<stagingVars, drainVars, bound, unroutable, dead, processed,
                 effects, historyVars>>

(* An operator shovels a dead letter back to galaxify.events (ADR-0009): it   *)
(* goes to every bound queue of its routing key, not only to where it failed. *)
Replay(s, e) ==
  /\ dead[s][e] > 0
  /\ replays < MaxReplays
  /\ replays' = replays + 1
  /\ dead' = [dead EXCEPT ![s][e] = @ - 1]
  /\ queue' = [t \in Services |-> IF t \in Route(e)
                                  THEN [queue[t] EXCEPT ![e] = @ + 1]
                                  ELSE queue[t]]
  /\ reached' = [reached EXCEPT ![e] = @ \cup Route(e)]
  /\ UNCHANGED <<stagingVars, drainVars, bound, unroutable, consumerVars, sends,
                 disrupted, faults>>

------------------------------------------------------------------------------
Stage(e) == BeginMutation(e) \/ CommitMutation(e) \/ AbortMutation(e)

Drain(d) == \/ BeginDrain(d)
            \/ SendNext(d)
            \/ SendFails(d)
            \/ ConfirmAndMark(d)
            \/ ConfirmLost(d)
            \/ CommitDrain(d)
            \/ AbandonDrain(d)
            \/ LoseChannel(d)
            \/ RestartDrainer(d)

Consume(c) == \/ Receive(c)
              \/ InsertProcessedEvent(c)
              \/ CommitHandler(c)
              \/ HandlerFails(c)
              \/ CommitAmbiguous(c)
              \/ Ack(c)
              \/ Nack(c)
              \/ CrashConsumer(c)

Next == \/ \E e \in Events : Stage(e)
        \/ \E d \in Drainers : Drain(d)
        \/ \E s \in Services : Bind(s)
        \/ \E c \in Consumers : Consume(c)
        \/ \E s \in Services, e \in Events : Replay(s, e)

Spec == Init /\ [][Next]_vars

(* Fairness.  Requests keep arriving, and each ends in a Drain               *)
(* (DrainAfterRequest); a drain's own steps and a delivery loop's run on;    *)
(* the platform replaces a process whose channel is gone.  Nothing is        *)
(* assumed of mutations, of faults, of queue declaration or of replays.      *)
Fairness ==
  /\ \A d \in Drainers : /\ WF_vars(BeginDrain(d))
                         /\ WF_vars(SendNext(d) \/ SendFails(d))
                         /\ WF_vars(ConfirmAndMark(d) \/ ConfirmLost(d))
                         /\ WF_vars(CommitDrain(d))
                         /\ WF_vars(RestartDrainer(d))
  /\ \A c \in Consumers : /\ WF_vars(Receive(c))
                          /\ WF_vars(InsertProcessedEvent(c))
                          /\ WF_vars(CommitHandler(c) \/ HandlerFails(c))
                          /\ WF_vars(Ack(c))
                          /\ WF_vars(Nack(c))

FairSpec == Spec /\ Fairness

------------------------------------------------------------------------------
(* Properties.                                                               *)

Holds(c, s, e) == ServiceOf[c] = s /\ pc[c] # "idle" /\ msg[c] = e

\* What may have become of a copy of e that s's queue was given.
Accounted(s, e) == \/ queue[s][e] > 0
                   \/ \E c \in Consumers : Holds(c, s, e)
                   \/ e \in processed[s]
                   \/ dead[s][e] > 0

\* An event's domain mutation has been performed in a service exactly when the
\* service's processed_events says so, and then once: no crash, redelivery,
\* replay or concurrent duplicate repeats it, and no failed attempt leaves a
\* mark that would make a replayed dead letter look like a duplicate
\* (NewIdempotentHandler; ADR-0010 section 3).
EffectsMatchProcessed ==
  \A s \in Services, e \in Events :
    effects[s][e] = IF e \in processed[s] THEN 1 ELSE 0

\* A row marked PUBLISHED was given to every queue that was bound all along, and
\* to galaxify.unroutable if no queue took it (Drain marks only what Publish
\* confirmed; ADR-0009's alternate exchange).
PublishedWasRouted ==
  \A e \in Events : row[e] = "PUBLISHED" =>
    /\ Subscribers[e] \cap InitiallyBound \subseteq reached[e]
    /\ reached[e] # {} \/ e \in unroutable

\* A copy a queue was given is never dropped silently: it is ready, in some
\* consumer's hands, performed or in the dead letters (manual Ack after Commit,
\* Nack without requeue into galaxify.dlx).
NothingDropped ==
  \A e \in Events : \A s \in reached[e] : Accounted(s, e)

\* The claim on e's send: some drainer awaits e's confirm or has marked e.
InHand(e) == \E d \in Drainers : sent[d] = e \/ e \in marked[d]

\* An event reaches the exchange a second time only when a fault undid the
\* record of the first: concurrent drainers alone never publish it twice
\* (FOR UPDATE SKIP LOCKED; ADR-0004 "to avoid double-publish across replicas").
DuplicatesOnlyByFault ==
  \A e \in Events :
    sends[e] = disrupted[e] + IF row[e] = "PUBLISHED" \/ InHand(e) THEN 1 ELSE 0

Contract == INSTANCE EventContract WITH committed <- Committed,
                                        applied <- effects

\* The pipeline implements its contract: each subscriber performs a committed
\* event at most once and an event of an aborted transaction never.
ImplementsContract == Contract!Spec

Settled(s, e) == e \in processed[s] \/ dead[s][e] > 0

\* A committed event is eventually performed or dead-lettered by every subscriber
\* whose queue is bound, however drains, connections and consumers fail in
\* between, as long as requests keep triggering drains (DrainAfterRequest) and
\* failures end.
EventuallySettled ==
  \A e \in Events : \A s \in Subscribers[e] \cap InitiallyBound :
    row[e] = "PENDING" ~> Settled(s, e)
==============================================================================
