------------------------------ MODULE BalanceGate ------------------------------
(****************************************************************************)
(* What one tab believes about its Player's Ship                            *)
(* (apps/web-frontend/src): the rounds that watch for an effect of a command *)
(* on the Ship (shared/reconciliation), the one shared Ship query            *)
(* (features/ship/api) and the gate that keeps Repair and Launch closed      *)
(* while an award is on its way (useShipBalanceGate).                        *)
(*                                                                          *)
(* A step is one macro task: the answer of a request, a timer, a click or a *)
(* React effect, with the promise continuations that it settles.  The Ship  *)
(* is a version number, raised by each repair.  Whether a read shows the    *)
(* change a round waits for is left open: other awards and spending move    *)
(* the same balance.  The Ship is assumed to be provisioned.                *)
(****************************************************************************)
EXTENDS Naturals, FiniteSets

CONSTANTS Dailies,
          Marks,        \* reads that a round may start (OBSERVATION_MARKS_MS: 5)
          MaxRounds,    \* bound: rounds started or retried
          MaxSessions,  \* bound: Player sessions of this tab
          MaxRepairs,   \* bound: repairs that ship-service applies
          MaxSent       \* bound: commands that await their answer

ASSUME BoundAssumption ==
  /\ Marks \in Nat \ {0}
  /\ MaxRounds \in Nat
  /\ MaxSessions \in Nat \ {0}
  /\ MaxRepairs \in Nat
  /\ MaxSent \in Nat

ASSUME DailyAssumption ==
  /\ IsFiniteSet(Dailies)
  /\ Dailies \cap {"repair", "launch", "gate", "panel", "nobody"} = {}

Keys == Dailies \cup {"repair", "launch"}   \* a command, and the round that follows it
Sessions == 1..MaxSessions
Versions == 1..(MaxRepairs + 1)

VARIABLES session,   \* the session generation
          view,      \* "dailies", "ship" (any page with the gate and the Ship query) or "other"
          visible,   \* the page is visible and online
          round,     \* the observation entry of each key
          fetch,     \* the fetch of the Ship query under way, and who waits for it
          cache,     \* the Ship query
          registry,  \* balanceGate: expiry generation, whether an expiry stands, newer data
          approval,  \* module state of useShipBalanceGate
          sent,      \* the commands that await an answer, each with its session
          server,    \* version of the Ship at ship-service
          repaired,  \* version that the repair of a session produced, 0 before it is applied
          published, \* history: version of the last repair published in this session
          begun      \* rounds started or retried

clientVars == <<round, fetch, cache, registry, approval>>
commandVars == <<sent, server, repaired, published>>
vars == <<session, view, visible, clientVars, commandVars, begun>>

Idle == [phase |-> "idle", mark |-> 0, ticking |-> FALSE, session |-> 0]
NoFetch == [owner |-> "nobody", version |-> 0, readers |-> {}, session |-> 0]
NoData == [version |-> 0, error |-> FALSE, session |-> 0]
NoExpiry == [generation |-> 0, epoch |-> FALSE, newer |-> FALSE]

\* fresh compares freshEpoch with expiryEpoch; 0 stands for no generation.
NoApproval == [handled |-> 0, fresh |-> "none", attempted |-> 0, failed |-> 0]

TypeOK ==
  /\ session \in Sessions
  /\ view \in {"other", "dailies", "ship"}
  /\ visible \in BOOLEAN
  /\ round \in [Keys -> [phase : {"idle", "updating", "delayed"}, mark : 0..Marks,
                         ticking : BOOLEAN, session : 0..MaxSessions]]
  /\ fetch \in [owner : Keys \cup {"gate", "panel", "nobody"}, version : 0..(MaxRepairs + 1),
                readers : SUBSET (Keys \cup {"gate"}), session : 0..MaxSessions]
  /\ cache \in [version : 0..(MaxRepairs + 1), error : BOOLEAN, session : 0..MaxSessions]
  /\ registry \in [generation : Nat, epoch : BOOLEAN, newer : BOOLEAN]
  /\ approval \in [handled : Nat, fresh : {"none", "old", "new"}, attempted : Nat, failed : Nat]
  /\ sent \subseteq Keys \X Sessions
  /\ server \in Versions
  /\ repaired \in [Sessions -> 0..(MaxRepairs + 1)]
  /\ published \in 0..(MaxRepairs + 1)
  /\ begun \in 0..MaxRounds

Init ==
  /\ session = 1
  /\ view = "other"
  /\ visible = TRUE
  /\ round = [k \in Keys |-> Idle]
  /\ fetch = NoFetch
  /\ cache = NoData
  /\ registry = NoExpiry
  /\ approval = NoApproval
  /\ sent = {}
  /\ server = 1
  /\ repaired = [s \in Sessions |-> 0]
  /\ published = 0
  /\ begun = 0

------------------------------------------------------------------------------
(* Rounds.                                                                   *)

\* A visible observer of the key: a completed row or the gate for an award,
\* the page that shows the effect for the other commands.
ObservedOn(v, k) == v = "ship" \/ (v = "dailies" /\ k \in Dailies)
Observed(k) == ObservedOn(view, k)
Watched(k) == Observed(k) /\ visible        \* not isPaused

Reading(k) == k \in fetch.readers

\* register and retry: a full budget; a timer runs only while somebody observes.
NewRound(k, s) == [phase |-> "updating", mark |-> 1, ticking |-> Observed(k), session |-> s]

(* How a read ends for its round (readOnce, expire): 0 when the change was    *)
(* seen, else the next mark ahead of the time that has passed; past the last  *)
(* mark the round is delayed.                                                *)
After(k, m) ==
  IF m = 0 THEN Idle
  ELSE IF m > Marks THEN [round[k] EXCEPT !.phase = "delayed", !.ticking = FALSE]
  ELSE [round[k] EXCEPT !.mark = m]

Outcomes(readers, ok) ==
  {f \in [readers \cap Keys -> 0..(Marks + 1)] :
     \A k \in readers \cap Keys : f[k] > round[k].mark \/ (ok /\ f[k] = 0)}

RoundsAfter(f) == [k \in Keys |-> IF k \in DOMAIN f THEN After(k, f[k]) ELSE round[k]]

\* The Dailies whose round expires, and those the gate knows, when rounds become r.
ExpiredIn(r) == {d \in Dailies : r[d].phase = "delayed" /\ round[d].phase # "delayed"}
RegisteredIn(r) == {d \in Dailies : r[d].phase # "idle"}

(* The rounds become r and the gate's bookkeeping a.  notifyPhase tells the   *)
(* registry: each expiry is a generation that revokes the approval, and the   *)
(* last key to leave takes the expiry with it.  received: the Ship query got  *)
(* data in this step (its dataUpdatedAt is not later than an expiry of the    *)
(* same step).                                                               *)
Move(r, a, received) ==
  LET n == Cardinality(ExpiredIn(r))
      epoch == RegisteredIn(r) # {} /\ (registry.epoch \/ n > 0)
  IN /\ round' = r
     /\ registry' = [generation |-> registry.generation + n,
                     epoch |-> epoch,
                     newer |-> epoch /\ n = 0 /\ (registry.newer \/ received)]
     /\ approval' = IF a.fresh = "new" /\ ~(epoch /\ n = 0) THEN [a EXCEPT !.fresh = "old"] ELSE a

\* Mutation: a read that settles without having reached ship-service counts as one.
GateToldAnyway(ok, g) ==
  IF "gate" \notin fetch.readers \/ approval.attempted # g THEN approval
  ELSE [approval EXCEPT !.fresh = "new", !.failed = 0]

\* The gate's read settles while generation g stands; one of an older generation is dropped.
GateTold(ok, g) ==
  IF "gate" \notin fetch.readers \/ approval.attempted # g THEN approval
  ELSE IF ok THEN [approval EXCEPT !.fresh = "new", !.failed = 0]
  ELSE [approval EXCEPT !.failed = g]

Settle(f, ok) ==
  LET r == RoundsAfter(f)
  IN Move(r, GateTold(ok, registry.generation + Cardinality(ExpiredIn(r))), ok)

\* The fetch is gone without data: an abort by its owner, or a cancel that reverts.
FetchLost == fetch' = NoFetch /\ \E f \in Outcomes(fetch.readers, FALSE) : Settle(f, FALSE)

\* The fetch is aborted through the signal of the read that began it: all who joined fail.
FetchAborted(f) == fetch' = NoFetch /\ cache' = [cache EXCEPT !.error = TRUE]

(* The gate abandons its read and its bookkeeping becomes a (abortActiveRead). *)
GateLeaves(a) ==
  IF fetch.owner = "gate"
    THEN \E f \in Outcomes(fetch.readers, FALSE) :
           FetchAborted(f) /\ Move(RoundsAfter(f), a, FALSE)
    ELSE /\ fetch' = [fetch EXCEPT !.readers = @ \ {"gate"}]
         /\ approval' = a
         /\ UNCHANGED <<cache, round, registry>>

\* observeShip: join the fetch under way, or begin one that carries the signal of who.
ReadShip(who) ==
  fetch' = IF fetch.owner = "nobody"
             THEN [owner |-> who, version |-> 0, readers |-> {who}, session |-> session]
             ELSE [fetch EXCEPT !.readers = @ \cup {who}]

\* A round of key k starts, or starts again, for a command of session s.
Begin(k, s) ==
  /\ begun < MaxRounds
  /\ begun' = begun + 1
  /\ Move([round EXCEPT ![k] = NewRound(k, s)], approval, FALSE)

------------------------------------------------------------------------------
(* The schedule of a round and its reads.                                    *)

\* scheduleTick, tick, pump: nothing is read while the page is hidden or while a read is under way.
Tick(k) ==
  /\ round[k].phase = "updating" /\ round[k].ticking
  /\ Watched(k) /\ ~Reading(k)
  /\ ReadShip(k)
  /\ UNCHANGED <<session, view, visible, round, cache, registry, approval, commandVars, begun>>

\* The bounded read times out: the round expires at once, and its signal aborts.
ReadTimesOut(k) ==
  /\ Reading(k)
  /\ IF fetch.owner = k
       THEN \E f \in Outcomes(fetch.readers, FALSE) :
              f[k] = Marks + 1 /\ FetchAborted(f) /\ Settle(f, FALSE)
       ELSE /\ fetch' = [fetch EXCEPT !.readers = @ \ {k}]
            /\ UNCHANGED cache
            /\ Move([round EXCEPT ![k] = After(k, Marks + 1)], approval, FALSE)
  /\ UNCHANGED <<session, view, visible, commandVars, begun>>

\* Retry on a delayed round (DailyRow, ShipStatusPanel).
RetryRound(k) ==
  /\ round[k].phase = "delayed" /\ Observed(k)
  /\ Begin(k, session)
  /\ UNCHANGED <<session, view, visible, fetch, cache, commandVars>>

ServerAnswers ==
  /\ fetch.owner # "nobody" /\ fetch.version = 0
  /\ fetch' = [fetch EXCEPT !.version = server]
  /\ UNCHANGED <<session, view, visible, round, cache, registry, approval, commandVars, begun>>

FetchArrives ==
  /\ fetch.version # 0
  /\ cache' = [version |-> fetch.version, error |-> FALSE, session |-> fetch.session]
  /\ fetch' = NoFetch
  /\ \E f \in Outcomes(fetch.readers, TRUE) : Settle(f, TRUE)
  /\ UNCHANGED <<session, view, visible, commandVars, begun>>

FetchFails ==
  /\ fetch.owner # "nobody"
  /\ cache' = [cache EXCEPT !.error = TRUE]
  /\ FetchLost
  /\ UNCHANGED <<session, view, visible, commandVars, begun>>

(* A page reads the Ship (useQuery, confirmShipBalance), or asks again: with   *)
(* data in the cache a refetch silently replaces the fetch under way, and all  *)
(* who waited wait for the new one.                                          *)
PanelFetch == [owner |-> "panel", version |-> 0, readers |-> {}, session |-> session]

PanelReads ==
  /\ view # "other" /\ visible
  /\ fetch.owner = "nobody"
  /\ fetch' = PanelFetch
  /\ UNCHANGED <<session, view, visible, round, cache, registry, approval, commandVars, begun>>

Refetch ==
  fetch' = IF fetch.owner # "nobody" /\ cache.version = 0 THEN fetch
           ELSE [PanelFetch EXCEPT !.readers = fetch.readers]

\* Retry on a stale Ship, or an invalidation of the query.
PanelRefetches ==
  /\ view = "ship" /\ fetch.owner # "nobody"
  /\ Refetch
  /\ UNCHANGED <<session, view, visible, round, cache, registry, approval, commandVars, begun>>

------------------------------------------------------------------------------
(* The gate (useShipBalanceGate).  Each effect is an action of its own.       *)

GateState ==
  IF \E d \in Dailies : round[d].phase = "updating" THEN "updating"
  ELSE IF \A d \in Dailies : round[d].phase # "delayed" THEN "open"
  ELSE IF cache.error /\ approval.fresh # "none" THEN "stale"
  ELSE IF approval.fresh = "new" THEN "open"
  ELSE IF approval.failed = registry.generation THEN "stale"
  ELSE "refreshing"

GateMounted == view = "ship"
GateReading == "gate" \in fetch.readers

\* A new expiry generation drops the approval and the attempt.
EffectReset ==
  /\ GateMounted /\ approval.handled # registry.generation
  /\ GateLeaves([NoApproval EXCEPT !.handled = registry.generation])
  /\ UNCHANGED <<session, view, visible, commandVars, begun>>

\* Data that the query got after the expiry approves.
EffectApprove ==
  /\ GateMounted /\ approval.handled = registry.generation
  /\ registry.newer /\ cache.version # 0 /\ ~cache.error
  /\ approval.fresh # "new"
  /\ approval' = [approval EXCEPT !.fresh = "new", !.failed = 0]
  /\ UNCHANGED <<session, view, visible, round, fetch, cache, registry, commandVars, begun>>

EffectCancel ==
  /\ GateMounted /\ approval.fresh = "new" /\ GateReading
  /\ GateLeaves(approval)
  /\ UNCHANGED <<session, view, visible, commandVars, begun>>

\* One automatic read per expiry generation.
EffectRead ==
  /\ GateMounted /\ approval.handled = registry.generation
  /\ approval.fresh # "new"
  /\ \E d \in Dailies : round[d].phase = "delayed"
  /\ \A d \in Dailies : round[d].phase # "updating"
  /\ registry.epoch /\ visible
  /\ approval.attempted # registry.generation
  /\ approval' = [approval EXCEPT !.attempted = registry.generation]
  /\ ReadShip("gate")
  /\ UNCHANGED <<session, view, visible, round, cache, registry, commandVars, begun>>

GateReadTimesOut ==
  /\ GateReading
  /\ GateLeaves([approval EXCEPT !.failed = approval.attempted])
  /\ UNCHANGED <<session, view, visible, commandVars, begun>>

\* The Player's Retry on a stale gate (resetAttempts).
GateRetry ==
  /\ GateMounted /\ GateState = "stale"
  /\ GateLeaves([NoApproval EXCEPT !.handled = approval.handled])
  /\ UNCHANGED <<session, view, visible, commandVars, begun>>

\* A hidden or offline page abandons the gate's read, to be made again on return.
Hide ==
  /\ visible
  /\ visible' = FALSE
  /\ GateLeaves(IF GateReading THEN [approval EXCEPT !.attempted = 0] ELSE approval)
  /\ UNCHANGED <<session, view, commandVars, begun>>

Show ==
  /\ ~visible
  /\ visible' = TRUE
  /\ UNCHANGED <<session, view, clientVars, commandVars, begun>>

------------------------------------------------------------------------------
(* Pages, sessions, commands.                                                *)

\* Mutation: a new observer starts the round afresh.
WatchedAfresh(v, r) ==
  [k \in Keys |-> IF r[k].phase = "updating" /\ ObservedOn(v, k)
                    THEN [r[k] EXCEPT !.ticking = TRUE, !.mark = 1]
                    ELSE [r[k] EXCEPT !.ticking = FALSE]]

\* Mutation: subscribe does not wake the round.
WatchedAsleep(v, r) ==
  [k \in Keys |-> [r[k] EXCEPT !.ticking = @ /\ ObservedOn(v, k)]]

\* subscribe wakes a round, the last unsubscribe stops its timer.
WatchedFrom(v, r) ==
  [k \in Keys |-> [r[k] EXCEPT !.ticking = r[k].phase = "updating" /\ ObservedOn(v, k)]]

\* A query that loses its last observer reverts the fetch under way.
Navigate(v) ==
  /\ v # view
  /\ view' = v
  /\ IF view = "ship" /\ fetch.owner # "nobody"
       THEN /\ fetch' = NoFetch
            /\ \E f \in Outcomes(fetch.readers, FALSE) :
                 LET r == RoundsAfter(f)
                 IN Move(WatchedFrom(v, r),
                         GateTold(FALSE, registry.generation + Cardinality(ExpiredIn(r))), FALSE)
       ELSE /\ Move(WatchedFrom(v, round), approval, FALSE)
            /\ UNCHANGED fetch
  /\ UNCHANGED <<session, visible, cache, commandVars, begun>>

(* onCleared and onAuthenticated: the query cache and the rounds are cleared,  *)
(* and the adapters with them.  Commands that were sent stay under way.        *)
SwitchSession ==
  /\ session < MaxSessions
  /\ session' = session + 1
  /\ view' = "other"
  /\ round' = [k \in Keys |-> Idle]
  /\ fetch' = NoFetch
  /\ cache' = NoData
  /\ registry' = NoExpiry
  /\ approval' = NoApproval
  /\ published' = 0
  /\ UNCHANGED <<visible, sent, server, repaired, begun>>

Send(k) ==
  /\ <<k, session>> \notin sent /\ Cardinality(sent) < MaxSent
  /\ IF k \in Dailies THEN view = "dailies" ELSE view = "ship" /\ GateState = "open"
  /\ sent' = sent \cup {<<k, session>>}
  /\ UNCHANGED <<session, view, visible, clientVars, server, repaired, published, begun>>

ServerRepairs(s) ==
  /\ <<"repair", s>> \in sent /\ repaired[s] = 0
  /\ server <= MaxRepairs
  /\ server' = server + 1
  /\ repaired' = [repaired EXCEPT ![s] = server + 1]
  /\ UNCHANGED <<session, view, visible, clientVars, sent, published, begun>>

Answer(k, s) == <<k, s>> \in sent /\ sent' = sent \ {<<k, s>>}

\* Refused, failed, or answered when another session generation stands.
Refused(k, s) ==
  /\ Answer(k, s)
  /\ repaired' = IF k = "repair" THEN [repaired EXCEPT ![s] = 0] ELSE repaired
  /\ UNCHANGED <<session, view, visible, clientVars, server, published, begun>>

\* Mutation: the answer is not compared with the session generation.
CompletedLate(d, s) ==
  /\ Answer(d, s)
  /\ IF round[d].phase = "updating" THEN UNCHANGED <<round, registry, approval, begun>>
                                    ELSE Begin(d, s)
  /\ UNCHANGED <<session, view, visible, fetch, cache, server, repaired, published>>

\* A completion, or one that another tab made first: a round that runs stays as it is.
Completed(d, s) ==
  /\ Answer(d, s)
  /\ s = session
  /\ IF round[d].phase = "updating" THEN UNCHANGED <<round, registry, approval, begun>>
                                    ELSE Begin(d, s)
  /\ UNCHANGED <<session, view, visible, fetch, cache, server, repaired, published>>

\* Mutation: the repaired Ship is published without cancelling the read under way.
FetchKept == [fetch EXCEPT !.readers = {}]

FetchAfterRepair == NoFetch

(* repairShipAndCache: the fetch under way is cancelled and reverted before    *)
(* the repaired Ship is published; then the readiness round starts or starts   *)
(* again, its read abandoned.                                                *)
RepairAnswered(s) ==
  /\ repaired[s] # 0 /\ Answer("repair", s)
  /\ s = session
  /\ begun < MaxRounds
  /\ begun' = begun + 1
  /\ repaired' = [repaired EXCEPT ![s] = 0]
  /\ published' = repaired[s]
  /\ cache' = [version |-> repaired[s], error |-> FALSE, session |-> s]
  /\ fetch' = FetchAfterRepair
  /\ \E f \in Outcomes(fetch.readers, FALSE) :
       LET r == [RoundsAfter(f) EXCEPT !["repair"] = NewRound("repair", s)]
       IN Move(r, GateTold(FALSE, registry.generation + Cardinality(ExpiredIn(r))), TRUE)
  /\ UNCHANGED <<session, view, visible, server>>

\* registerLaunchDeduction, then invalidateQueries: pages that show the Ship ask again.
LaunchAnswered(s) ==
  /\ Answer("launch", s)
  /\ s = session
  /\ round["launch"].phase = "idle"
  /\ Begin("launch", s)
  /\ IF view = "ship" THEN Refetch ELSE UNCHANGED fetch
  /\ UNCHANGED <<session, view, visible, cache, server, repaired, published>>

Next ==
  \/ \E k \in Keys : Tick(k) \/ ReadTimesOut(k) \/ RetryRound(k) \/ Send(k)
  \/ ServerAnswers \/ FetchArrives \/ FetchFails \/ PanelReads \/ PanelRefetches
  \/ EffectReset \/ EffectApprove \/ EffectCancel \/ EffectRead \/ GateReadTimesOut
  \/ GateRetry \/ Hide \/ Show \/ SwitchSession
  \/ \E v \in {"other", "dailies", "ship"} : Navigate(v)
  \/ \E k \in Keys, s \in Sessions : Refused(k, s)
  \/ \E d \in Dailies, s \in Sessions : Completed(d, s)
  \/ \E s \in Sessions : ServerRepairs(s) \/ RepairAnswered(s) \/ LaunchAnswered(s)

Spec == Init /\ [][Next]_vars

\* Timers fire and effects run; no request needs to be answered.
Fairness ==
  /\ \A k \in Keys : WF_vars(Tick(k)) /\ WF_vars(ReadTimesOut(k))
  /\ WF_vars(EffectReset) /\ WF_vars(EffectRead) /\ WF_vars(GateReadTimesOut)

FairSpec == Spec /\ Fairness

------------------------------------------------------------------------------
(* Properties.                                                               *)

\* While an award is delayed, Repair and Launch open only on a Ship that the
\* tab received after the last expiry: not on a read that was aborted, reverted,
\* or begun for an earlier expiry, and not on an approval given before a retry.
OpenOnlyOnReceipt ==
  (GateState = "open" /\ \E d \in Dailies : round[d].phase = "delayed") => registry.newer

\* A read that ship-service answered before a repair never replaces the
\* repaired Ship that the page shows.
RepairNotUndone == cache.version # 0 => cache.version >= published

\* Nothing of an earlier Player session shows up in this one: no round for a
\* command sent then, no Ship read or repaired then, however late the answers.
SessionsApart ==
  /\ \A k \in Keys : round[k].phase # "idle" => round[k].session = session
  /\ cache.version # 0 => cache.session = session

\* The reads a running award round has used up are never given back, whatever
\* pages come and go and however often the Daily is completed again meanwhile.
BudgetKept ==
  [][\A d \in Dailies : (round[d].phase = "updating" /\ round'[d].phase = "updating")
                          => round'[d].mark >= round[d].mark]_vars

\* Nothing hangs on an answer that never comes: a round that somebody watches
\* ends, and a gate that says it is checking the balance comes to a decision, or
\* the Player may retry, as long as its page stays in view.
RoundsAndGateSettle ==
  /\ \A k \in Keys : (round[k].phase = "updating") ~> (round[k].phase # "updating" \/ ~Watched(k))
  /\ (GateState = "refreshing") ~> (GateState # "refreshing" \/ ~(GateMounted /\ visible))
=============================================================================
