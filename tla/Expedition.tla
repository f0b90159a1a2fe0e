----------------------------- MODULE Expedition -----------------------------
(****************************************************************************)
(* Expeditions from launch to settlement.  POST /expeditions launches in    *)
(* one READ COMMITTED transaction (internal/expedition/launch.go), the      *)
(* expedition worker settles what has come due in batches                   *)
(* (workers/expedition-worker/internal/expedition/worker.go), and both      *)
(* stage their events in the one outbox of expedition_db, which each        *)
(* drains in its own way: the service after a request, the worker after a   *)
(* batch that was not empty.                                                *)
(*                                                                          *)
(* An expedition is identified with the request that launches it.  A unit   *)
(* of time is large (hours): requests and ticks begin and end within one.   *)
(****************************************************************************)
EXTENDS Integers, FiniteSets

CONSTANTS Launches,   \* launch requests
          Players,
          PlayerOf,   \* PlayerOf[l]: the Player who asks for l
          Workers,    \* replicas of expedition-worker
          Length,     \* expeditionLength, also the cooldown
          Jitter,     \* jitterRange
          BatchSize,  \* expeditions settled per transaction (100)
          DrainSize,  \* outbox rows per drain (50)
          MaxTime,    \* bound: last instant
          MaxFaults   \* bound: failed transactions and publishes

ASSUME LaunchAssumption == PlayerOf \in [Launches -> Players]
ASSUME TimeAssumption == /\ Length \in Nat /\ Jitter \in Nat
                         /\ Jitter < Length
                         /\ MaxTime \in Nat
ASSUME SizeAssumption == /\ BatchSize \in Nat \ {0}
                         /\ DrainSize \in Nat \ {0}
                         /\ MaxFaults \in Nat

VARIABLES now,       \* the clock
          pc,        \* pc[l]: where launch l stands
          status,    \* status[l]: committed row of expeditions, or "none"
          createdAt, \* createdAt[l], resolveAt[l]: its columns
          resolveAt,
          wpc,       \* wpc[w]: where worker w stands in Tick
          batch,     \* batch[w]: the rows w's transaction has locked
          rolled,    \* rolled[w]: those it has settled, uncommitted
          won,       \* won[w]: those of them that succeed
          results,   \* results[l]: rows of expedition_results for l
          pending,   \* PENDING outbox rows: launched or completed events
          published, \* PUBLISHED ones
          faults

launchVars == <<pc, status, createdAt, resolveAt>>
workVars   == <<wpc, batch, rolled, won>>
outboxVars == <<pending, published>>
vars == <<now, launchVars, workVars, results, outboxVars, faults>>

\* Two events per expedition: expedition.launched and expedition.completed.
EventRows == {"launched", "completed"} \X Launches

TypeOK ==
  /\ now \in 0..MaxTime
  /\ pc \in [Launches -> {"new", "began", "checked", "inserted",
                          "launched", "refused"}]
  /\ status \in [Launches -> {"none", "IN_FLIGHT", "RESOLVED", "FAILED"}]
  /\ createdAt \in [Launches -> 0..MaxTime]
  /\ resolveAt \in [Launches -> Int]
  /\ wpc \in [Workers -> {"idle", "listing", "settling", "draining"}]
  /\ batch \in [Workers -> SUBSET Launches]
  /\ rolled \in [Workers -> SUBSET Launches]
  /\ won \in [Workers -> SUBSET Launches]
  /\ results \in [Launches -> Nat]
  /\ pending \in SUBSET EventRows
  /\ published \in SUBSET EventRows
  /\ faults \in 0..MaxFaults

Init ==
  /\ now = 0
  /\ pc = [l \in Launches |-> "new"]
  /\ status = [l \in Launches |-> "none"]
  /\ createdAt = [l \in Launches |-> 0]
  /\ resolveAt = [l \in Launches |-> 0]
  /\ wpc = [w \in Workers |-> "idle"]
  /\ batch = [w \in Workers |-> {}]
  /\ rolled = [w \in Workers |-> {}]
  /\ won = [w \in Workers |-> {}]
  /\ results = [l \in Launches |-> 0]
  /\ pending = {}
  /\ published = {}
  /\ faults = 0

Fault == faults < MaxFaults /\ faults' = faults + 1

Underway(l) == pc[l] \in {"began", "checked", "inserted"}

\* Time passes between requests and ticks, not during them.
PassTime ==
  /\ now < MaxTime
  /\ \A l \in Launches : ~Underway(l)
  /\ \A w \in Workers : wpc[w] = "idle"
  /\ now' = now + 1
  /\ UNCHANGED <<launchVars, workVars, results, outboxVars, faults>>

------------------------------------------------------------------------------
(* Launch: three reads, each of the rows committed by then, and two inserts. *)

\* Committed expeditions of l's Player.
Others(l) == {k \in Launches \ {l} : PlayerOf[k] = PlayerOf[l] /\ status[k] # "none"}

InFlight(l) == {k \in Others(l) : status[k] = "IN_FLIGHT"}

(* GetShipCache and GetCurrentByUser.  An investment above the mirrored       *)
(* balance, or no mirror yet, refuses the launch.                            *)
LaunchBegin(l) ==
  /\ pc[l] = "new"
  /\ pc' = [pc EXCEPT ![l] = "began"]
  /\ InFlight(l) = {}
  /\ UNCHANGED <<now, status, createdAt, resolveAt, workVars, results,
                 outboxVars, faults>>

LaunchRefused(l) ==
  /\ pc[l] = "new"
  /\ pc' = [pc EXCEPT ![l] = "refused"]
  /\ UNCHANGED <<now, status, createdAt, resolveAt, workVars, results,
                 outboxVars, faults>>

\* ORDER BY created_at DESC LIMIT 1.
Latest(l) == {k \in Others(l) : \A j \in Others(l) : createdAt[j] <= createdAt[k]}

\* Mutation: the cooldown counts from the launch, not from resolve_at.
CoolingFromLaunch(l) == \E k \in Latest(l) : createdAt[k] >= now - Length

\* !lastResolveAt.Before(now.Add(-expeditionLength)).
Cooling(l) == \E k \in Latest(l) : resolveAt[k] >= now - Length

(* GetLastResolveAt and evaluateLaunch.                                       *)
LaunchCheck(l) ==
  /\ pc[l] = "began"
  /\ pc' = [pc EXCEPT ![l] = IF Cooling(l) THEN "refused" ELSE "checked"]
  /\ UNCHANGED <<now, status, createdAt, resolveAt, workVars, results,
                 outboxVars, faults>>

\* Mutation: no unique index on the Player's IN_FLIGHT expedition.
IndexFreeAlways(l) == TRUE

\* expeditions_current_idx: at most one IN_FLIGHT row per user; an uncommitted
\* one makes the insert wait.
IndexFree(l) ==
  /\ InFlight(l) = {}
  /\ \A k \in Launches \ {l} : PlayerOf[k] = PlayerOf[l] => pc[k] # "inserted"

LaunchInsert(l) ==
  /\ pc[l] = "checked"
  /\ IndexFree(l)
  /\ pc' = [pc EXCEPT ![l] = "inserted"]
  /\ createdAt' = [createdAt EXCEPT ![l] = now]
  /\ \E jitter \in -Jitter..Jitter :
       resolveAt' = [resolveAt EXCEPT ![l] = now + Length + jitter]
  /\ UNCHANGED <<now, status, workVars, results, outboxVars, faults>>

(* The unique index refuses the row: ErrAlreadyActive.                        *)
LaunchConflict(l) ==
  /\ pc[l] = "checked"
  /\ InFlight(l) # {}
  /\ pc' = [pc EXCEPT ![l] = "refused"]
  /\ UNCHANGED <<now, status, createdAt, resolveAt, workVars, results,
                 outboxVars, faults>>

LaunchCommit(l) ==
  /\ pc[l] = "inserted"
  /\ pc' = [pc EXCEPT ![l] = "launched"]
  /\ status' = [status EXCEPT ![l] = "IN_FLIGHT"]
  /\ pending' = pending \cup {<<"launched", l>>}
  /\ UNCHANGED <<now, createdAt, resolveAt, workVars, results, published, faults>>

(* A statement or Commit fails; the deferred Rollback leaves nothing.         *)
LaunchFails(l) ==
  /\ Underway(l)
  /\ Fault
  /\ pc' = [pc EXCEPT ![l] = "refused"]
  /\ UNCHANGED <<now, status, createdAt, resolveAt, workVars, results, outboxVars>>

Launch(l) == \/ LaunchBegin(l)
             \/ LaunchRefused(l)
             \/ LaunchCheck(l)
             \/ LaunchInsert(l)
             \/ LaunchConflict(l)
             \/ LaunchCommit(l)
             \/ LaunchFails(l)

------------------------------------------------------------------------------
(* Tick: settle batches until one is empty, draining after each.             *)

WorkerAt(w, place) == wpc' = [wpc EXCEPT ![w] = place]

\* The ticker fires, or the process starts: a restarted worker ticks at once.
TickStart(w) ==
  /\ wpc[w] = "idle"
  /\ WorkerAt(w, "listing")
  /\ UNCHANGED <<now, launchVars, batch, rolled, won, results, outboxVars, faults>>

\* status = 'IN_FLIGHT' AND resolve_at < now.
Due(l) == status[l] = "IN_FLIGHT" /\ resolveAt[l] < now

\* Due rows no worker's transaction has locked (SKIP LOCKED).
Listable == {l \in Launches : Due(l) /\ \A w \in Workers : l \notin batch[w]}

ListPendingExpeditions(w) ==
  /\ wpc[w] = "listing"
  /\ \E S \in SUBSET Listable :
       /\ S # {}
       /\ Cardinality(S) <= BatchSize
       /\ S # Listable => Cardinality(S) = BatchSize
       /\ \A l \in S, k \in Listable \ S : resolveAt[l] <= resolveAt[k]
       /\ batch' = [batch EXCEPT ![w] = S]
  /\ WorkerAt(w, "settling")
  /\ UNCHANGED <<now, launchVars, rolled, won, results, outboxVars, faults>>

TickEnds(w) ==
  /\ wpc[w] = "listing"
  /\ Listable = {}
  /\ WorkerAt(w, "idle")
  /\ UNCHANGED <<now, launchVars, batch, rolled, won, results, outboxVars, faults>>

\* settleExpedition, ResolveExpedition, InsertExpeditionResult, InsertOutbox for
\* the next expedition of the batch.
Settle(w) ==
  /\ wpc[w] = "settling"
  /\ \E l \in batch[w] \ rolled[w] :
       /\ rolled' = [rolled EXCEPT ![w] = @ \cup {l}]
       /\ \E success \in BOOLEAN :
            won' = [won EXCEPT ![w] = IF success THEN @ \cup {l} ELSE @]
  /\ UNCHANGED <<now, launchVars, wpc, batch, results, outboxVars, faults>>

\* Mutation: the transaction is not rolled back, its row locks stay.
ReleaseForgotten(w) == /\ UNCHANGED batch
                       /\ rolled' = [rolled EXCEPT ![w] = {}]
                       /\ won' = [won EXCEPT ![w] = {}]

ReleaseBatch(w) == /\ batch' = [batch EXCEPT ![w] = {}]
                   /\ rolled' = [rolled EXCEPT ![w] = {}]
                   /\ won' = [won EXCEPT ![w] = {}]

\* The status that w's transaction gives l.
Outcome(w, l) == IF l \in won[w] THEN "RESOLVED" ELSE "FAILED"

SettleCommit(w) ==
  /\ wpc[w] = "settling"
  /\ rolled[w] = batch[w]
  /\ status' = [l \in Launches |-> IF l \in rolled[w] THEN Outcome(w, l) ELSE status[l]]
  /\ results' = [l \in Launches |-> results[l] + IF l \in rolled[w] THEN 1 ELSE 0]
  /\ pending' = pending \cup ({"completed"} \X rolled[w])
  /\ ReleaseBatch(w)
  /\ WorkerAt(w, "draining")
  /\ UNCHANGED <<now, pc, createdAt, resolveAt, published, faults>>

\* Mutation: statements that ran before the failure stay (no transaction).
KeptOnFailurePartial(w) ==
  [l \in Launches |-> IF l \in rolled[w] THEN Outcome(w, l) ELSE status[l]]

\* The statuses a failed batch leaves behind: WithTx rolled it back.
KeptOnFailure(w) == status

(* The list, a statement or Commit of the batch fails, and Tick with it, until *)
(* the next.                                                                  *)
SettleFails(w) ==
  /\ wpc[w] \in {"listing", "settling"}
  /\ Fault
  /\ status' = KeptOnFailure(w)
  /\ ReleaseBatch(w)
  /\ WorkerAt(w, "idle")
  /\ UNCHANGED <<now, pc, createdAt, resolveAt, results, outboxVars>>

------------------------------------------------------------------------------
(* Drains, here in one step (EventDelivery has their steps): of a claim of   *)
(* DrainSize rows all are published, or by a fault only some.  Which rows    *)
(* are oldest is left open: rows of one unit of time have no order here.     *)

Drained ==
  \E claim \in SUBSET pending :
    /\ Cardinality(claim) <= DrainSize
    /\ claim # pending => Cardinality(claim) = DrainSize
    /\ \E sent \in SUBSET claim :
         /\ IF sent = claim THEN UNCHANGED faults ELSE Fault
         /\ pending' = pending \ sent
         /\ published' = published \cup sent

WorkerDrain(w) ==
  /\ wpc[w] = "draining"
  /\ Drained
  /\ WorkerAt(w, "listing")
  /\ UNCHANGED <<now, launchVars, batch, rolled, won, results>>

\* DrainAfterRequest of expedition-service, on the same outbox.
ServiceDrain ==
  /\ pending # {}
  /\ Drained
  /\ UNCHANGED <<now, launchVars, workVars, results>>

Tick(w) == \/ TickStart(w)
           \/ ListPendingExpeditions(w)
           \/ Settle(w)
           \/ SettleCommit(w)
           \/ SettleFails(w)
           \/ WorkerDrain(w)
           \/ TickEnds(w)

Next == \/ PassTime
        \/ \E l \in Launches : Launch(l)
        \/ \E w \in Workers : Tick(w)
        \/ ServiceDrain

Spec == Init /\ [][Next]_vars

(* Time goes on, and in every unit of it a worker's ticker may fire; a tick   *)
(* that started and a request that began run on; requests keep arriving and  *)
(* end in a drain.  Launches need not be asked for.  The ticker fires and    *)
(* ends its tick again and again while time waits for both, so that time     *)
(* passes needs strong fairness.                                             *)
Fairness ==
  /\ SF_vars(PassTime)
  /\ WF_vars(ServiceDrain)
  /\ \A w \in Workers :
       /\ WF_vars(TickStart(w))
       /\ WF_vars(ListPendingExpeditions(w) \/ TickEnds(w))
       /\ WF_vars(Settle(w))
       /\ WF_vars(SettleCommit(w))
       /\ WF_vars(WorkerDrain(w))
  /\ \A l \in Launches :
       /\ WF_vars(LaunchCheck(l))
       /\ WF_vars(LaunchInsert(l) \/ LaunchConflict(l))
       /\ WF_vars(LaunchCommit(l))

FairSpec == Spec /\ Fairness

------------------------------------------------------------------------------
(* Properties.                                                               *)

Settled(l) == status[l] \in {"RESOLVED", "FAILED"}
Staged == pending \cup published

\* However requests and worker replicas interleave, a Player has one expedition
\* in flight (the reads of Launch race with each other; expeditions_current_idx
\* decides).
OneInFlight ==
  \A l, k \in Launches :
    l # k /\ PlayerOf[l] = PlayerOf[k] =>
      ~(status[l] = "IN_FLIGHT" /\ status[k] = "IN_FLIGHT")

\* A Player's expeditions are apart: the later was launched more than the
\* cooldown after the earlier was due, also when both launches passed their
\* checks before either inserted its row (evaluateLaunch, GetLastResolveAt).
CooldownKept ==
  \A l, k \in Launches :
    /\ l # k /\ PlayerOf[l] = PlayerOf[k]
    /\ status[l] # "none" /\ status[k] # "none"
    => \/ createdAt[k] > resolveAt[l] + Length
       \/ createdAt[l] > resolveAt[k] + Length

\* An expedition is settled together with its one result and its one
\* expedition.completed row, or not at all, and never before it is due: replicas
\* that tick at once and batches that fail half way neither pay twice nor lose a
\* reward (resolveBatch in one transaction, ADR-0013).
SettledOnceAndPaid ==
  \A l \in Launches :
    /\ results[l] = IF Settled(l) THEN 1 ELSE 0
    /\ Settled(l) <=> <<"completed", l>> \in Staged
    /\ Settled(l) => resolveAt[l] < now
    /\ status[l] # "none" <=> <<"launched", l>> \in Staged

\* A launched expedition that becomes due while time goes on is settled, and its
\* events are published, whatever failed before (TickStart after a failed tick;
\* DrainAfterRequest for what the worker's drains left).
EventuallySettled ==
  \A l \in Launches :
    status[l] = "IN_FLIGHT" ~>
      \/ Settled(l) /\ ({"launched", "completed"} \X {l}) \subseteq published
      \/ resolveAt[l] >= MaxTime
=============================================================================
