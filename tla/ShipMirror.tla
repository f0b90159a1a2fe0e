----------------------------- MODULE ShipMirror -----------------------------
(****************************************************************************)
(* The expedition service's mirror of a ship.  Ship stages a                *)
(* ship.status_updated row per change; ship-service drains them to one      *)
(* queue; expedition-service upserts user_ship_state_cache with whatever    *)
(* state it takes from the queue, and user.created seeds it                 *)
(* (apps/expedition-service/internal/consumer, sql/queries/ship_cache.sql). *)
(*                                                                          *)
(* Of the pipeline in EventDelivery only the order of first copies matters  *)
(* here: a second copy is discarded by processed_events.  One replica of    *)
(* expedition-service takes the statuses from the queue in their order.     *)
(****************************************************************************)
EXTENDS Ship, FiniteSets

CONSTANT MaxSkips   \* bound: drains that leave a pending row behind

ASSUME SkipAssumption == MaxSkips \in Nat

VARIABLES published, \* indices of outbox rows marked PUBLISHED
          queue,     \* expedition.ship.status_updated: states in broker order
          cached,    \* the Player's row of user_ship_state_cache exists
          cache,     \* its hull and materials
          seeded,    \* user.created has been handled by expedition-service
          skips,     \* drains so far that left a pending row behind
          dropped    \* dead-lettered statuses

mirrorVars == <<published, queue, cached, cache, seeded, skips, dropped>>
allVars == <<vars, mirrorVars>>

MirrorInit ==
  /\ Init
  /\ published = {}
  /\ queue = <<>>
  /\ cached = FALSE
  /\ cache = NewShip
  /\ seeded = FALSE
  /\ skips = 0
  /\ dropped = 0

Pending == DOMAIN outbox \ published

\* The rows of S, listed with ORDER BY created_at ASC.
Orderings(S) ==
  {f \in [1..Cardinality(S) -> S] :
     \A i, j \in 1..Cardinality(S) : i < j => outbox[f[i]].at < outbox[f[j]].at}
DrainOrder(S) == CHOOSE f \in Orderings(S) : TRUE

(* One Drain.  The rows it leaves behind are those whose publish failed (the  *)
(* loop goes on with the next row) or that another drainer has locked (SKIP   *)
(* LOCKED); a later drain publishes them behind their successors.            *)
DrainStatuses ==
  \E S \in SUBSET Pending :
    /\ S # {}
    /\ IF S = Pending THEN UNCHANGED skips
                      ELSE skips < MaxSkips /\ skips' = skips + 1
    /\ queue' = queue \o [i \in 1..Cardinality(S) |-> outbox[DrainOrder(S)[i]].state]
    /\ published' = published \cup S
    /\ UNCHANGED <<vars, cached, cache, seeded, dropped>>

\* Mutation: ON CONFLICT updates the hull only.
UpsertedHullOnly(s) == [s EXCEPT !.materials = cache.materials]

\* UpsertShipCache: both columns from the event, whatever the row held before.
Upserted(s) == s

HandleShipStatusUpdated ==
  /\ queue # <<>>
  /\ cached' = TRUE
  /\ cache' = Upserted(Head(queue))
  /\ queue' = Tail(queue)
  /\ UNCHANGED <<vars, published, seeded, skips, dropped>>

\* The handler fails and the status is dead-lettered.
DropStatus ==
  /\ queue # <<>>
  /\ faults < MaxFaults
  /\ faults' = faults + 1
  /\ queue' = Tail(queue)
  /\ dropped' = dropped + 1
  /\ UNCHANGED <<txVars, shipVars, replays, published, cached, cache, seeded, skips>>

\* Mutation: the seed overwrites (ON CONFLICT DO UPDATE).
SeedOverwrites == NewShip

\* SeedShipCache: ON CONFLICT (user_id) DO NOTHING.
Seed == IF cached THEN cache ELSE NewShip

(* expedition-service's own handler of user.created, at its own time.         *)
SeedOnUserCreated ==
  /\ ~seeded
  /\ seeded' = TRUE
  /\ cached' = TRUE
  /\ cache' = Seed
  /\ UNCHANGED <<vars, published, queue, skips, dropped>>

MirrorNext == \/ Next /\ UNCHANGED mirrorVars
              \/ DrainStatuses
              \/ HandleShipStatusUpdated
              \/ DropStatus
              \/ SeedOnUserCreated

MirrorSpec == MirrorInit /\ [][MirrorNext]_allVars

------------------------------------------------------------------------------
(* Properties.                                                               *)

\* Nothing is on its way any more.
AtRest == /\ lock = NoTx
          /\ Pending = {}
          /\ queue = <<>>
          /\ seeded

\* Transactions on the ship started in the order in which they committed.
StartedInCommitOrder ==
  \A i, j \in DOMAIN outbox : i < j => outbox[i].at < outbox[j].at

\* Once everything staged has arrived the mirror equals the ship, provided that
\* the transactions on the ship started in commit order, no drain left a row
\* behind and no status was dead-lettered: last-writer-wins without a version
\* number needs as much to be right (UpsertShipCache).
MirrorFaithfulInOrder ==
  AtRest /\ StartedInCommitOrder /\ skips = 0 /\ dropped = 0 => cache = ship

\* The mirror never shows a state the ship did not have, also when it is late or
\* out of order: launch decisions rest on some real past state.
MirrorShowsRealStates ==
  cached => cache = NewShip \/ \E i \in published : outbox[i].state = cache

\* expedition-service.md: user_ship_state_cache is a "Read-only mirror of the
\* user's ship state": once everything has arrived it equals the ship.
MirrorConverges == AtRest => cache = ship
==============================================================================
