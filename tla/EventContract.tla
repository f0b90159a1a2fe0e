---------------------------- MODULE EventContract ----------------------------
(****************************************************************************)
(* What the event pipeline of pkg/events promises its services, with no     *)
(* outbox, broker or transaction in sight: an event exists once the         *)
(* transaction that stages it has committed, and every subscribed service   *)
(* performs the event's domain mutation at most once, and never before the  *)
(* event exists.  ADR-0010 calls this exactly-once domain mutation; that    *)
(* the mutation (or a dead letter) eventually happens is the liveness       *)
(* property of EventDelivery, because it depends on fairness.               *)
(****************************************************************************)
EXTENDS Naturals

CONSTANTS Events,        \* event identities, the event_id of an outbox row
          Services,      \* consuming services
          Subscribers    \* Subscribers[e]: the services with a handler for e

VARIABLES committed,     \* events whose staging transaction has committed
          applied        \* applied[s][e]: times s performed e's mutation

vars == <<committed, applied>>

Init == /\ committed = {}
        /\ applied = [s \in Services |-> [e \in Events |-> 0]]

Commit(e) == /\ e \notin committed
             /\ committed' = committed \cup {e}
             /\ UNCHANGED applied

Apply(s, e) == /\ e \in committed
               /\ s \in Subscribers[e]
               /\ applied[s][e] = 0
               /\ applied' = [applied EXCEPT ![s][e] = 1]
               /\ UNCHANGED committed

Next == \E e \in Events : Commit(e) \/ \E s \in Services : Apply(s, e)

Spec == Init /\ [][Next]_vars
==============================================================================
