-------------------------- MODULE BalanceGateProofs --------------------------
(* Proofs about BalanceGate, for any Dailies, marks and bounds.              *)
EXTENDS BalanceGate, FiniteSetTheorems, TLAPS

Rounds == [phase : {"idle", "updating", "delayed"}, mark : 0..Marks,
           ticking : BOOLEAN, session : 0..MaxSessions]
Registries == [generation : Nat, epoch : BOOLEAN, newer : BOOLEAN]
Approvals == [handled : Nat, fresh : {"none", "old", "new"}, attempted : Nat, failed : Nat]
Fetches == [owner : Keys \cup {"gate", "panel", "nobody"}, version : 0..(MaxRepairs + 1),
            readers : SUBSET (Keys \cup {"gate"}), session : 0..MaxSessions]
Caches == [version : 0..(MaxRepairs + 1), error : BOOLEAN, session : 0..MaxSessions]

\* The rounds r belong to session s.
RoundsOf(r, s) ==
  /\ r \in [Keys -> Rounds]
  /\ \A k \in Keys : r[k].phase # "idle" => r[k].session = s

\* A fetch belongs to this session, and what it brings is no older than the last repair.
FetchOK ==
  /\ fetch \in Fetches
  /\ fetch.owner # "nobody" => fetch.session = session
  /\ fetch.version # 0 => fetch.owner # "nobody" /\ published <= fetch.version

CacheOK ==
  /\ cache \in Caches
  /\ cache.version # 0 => cache.session = session /\ published <= cache.version

\* An approval that stands rests on data that came after the expiry.
GateOK ==
  /\ registry \in Registries
  /\ approval \in Approvals
  /\ approval.fresh = "new" => registry.newer

CommandsOK ==
  /\ session \in Sessions
  /\ view \in {"other", "dailies", "ship"}
  /\ visible \in BOOLEAN
  /\ sent \subseteq Keys \X Sessions
  /\ server \in Versions
  /\ repaired \in [Sessions -> 0..(MaxRepairs + 1)]
  /\ \A s \in Sessions : repaired[s] <= server
  /\ published \in 0..(MaxRepairs + 1) /\ published <= server
  /\ begun \in 0..MaxRounds

\* Only rounds that are updating wait for a read.
ReadersUpdate == \A k \in Keys : k \in fetch.readers => round[k].phase = "updating"

IInv == RoundsOf(round, session) /\ ReadersUpdate /\ FetchOK /\ CacheOK /\ GateOK /\ CommandsOK

LEMMA KeysNamed == /\ {"repair", "launch"} \subseteq Keys /\ Dailies \subseteq Keys
                   /\ "gate" \notin Keys /\ "panel" \notin Keys /\ "nobody" \notin Keys
                   /\ "repair" \notin Dailies /\ "launch" \notin Dailies
  BY DailyAssumption DEF Keys

LEMMA IInvImplies == IInv => TypeOK /\ SessionsApart /\ RepairNotUndone /\ OpenOnlyOnReceipt
<1> SUFFICES ASSUME IInv PROVE TypeOK /\ SessionsApart /\ RepairNotUndone /\ OpenOnlyOnReceipt
  OBVIOUS
<1>1. TypeOK
  BY DEF IInv, TypeOK, RoundsOf, FetchOK, CacheOK, GateOK, CommandsOK, Rounds, Registries, Approvals, Fetches, Caches
<1>2. SessionsApart
  BY DEF IInv, SessionsApart, RoundsOf, CacheOK
<1>3. RepairNotUndone
  BY DEF IInv, RepairNotUndone, CacheOK, Caches, CommandsOK
<1>4. OpenOnlyOnReceipt
  BY DEF IInv, GateOK, OpenOnlyOnReceipt, GateState
<1> QED
  BY <1>1, <1>2, <1>3, <1>4

LEMMA InitIInv == Init => IInv
<1> SUFFICES ASSUME Init PROVE IInv
  OBVIOUS
<1>0. Idle \in Rounds
  BY BoundAssumption DEF Idle, Rounds
<1>1. RoundsOf(round, session)
  <2>1. round = [k \in Keys |-> Idle]
    BY DEF Init
  <2> QED
    BY <1>0, <2>1 DEF RoundsOf, Idle
<1>2. FetchOK
  BY BoundAssumption DEF Init, FetchOK, Fetches, NoFetch
<1>3. CacheOK
  BY BoundAssumption DEF Init, CacheOK, Caches, NoData
<1>4. GateOK
  BY DEF Init, GateOK, Registries, Approvals, NoExpiry, NoApproval
<1>5. CommandsOK
  BY BoundAssumption DEF Init, CommandsOK, Sessions, Versions
<1>6. ReadersUpdate
  BY DEF Init, ReadersUpdate, NoFetch
<1> QED
  BY <1>1, <1>2, <1>3, <1>4, <1>5, <1>6 DEF IInv

------------------------------------------------------------------------------
(* The operators that the actions are built from.                            *)

LEMMA AfterIsRound ==
  ASSUME NEW k \in Keys, NEW m \in 0..(Marks + 1), round[k] \in Rounds, round[k].phase = "updating"
  PROVE  /\ After(k, m) \in Rounds
         /\ After(k, m).phase # "idle" => After(k, m).session = round[k].session
<1>0. Marks \in Nat /\ 0 \in 0..Marks /\ 0 \in 0..MaxSessions
  BY BoundAssumption
<1>1. CASE m = 0
  BY <1>0, <1>1 DEF After, Idle, Rounds
<1>2. CASE m > Marks
  <2>1. After(k, m) = [round[k] EXCEPT !.phase = "delayed", !.ticking = FALSE]
    BY <1>0, <1>2 DEF After
  <2> QED
    BY <2>1 DEF Rounds
<1>3. CASE m # 0 /\ ~(m > Marks)
  <2>1. m \in 0..Marks
    BY <1>3, BoundAssumption
  <2> QED
    BY <1>3, <2>1 DEF After, Rounds
<1> QED
  BY <1>1, <1>2, <1>3

LEMMA RoundsAfterOK ==
  ASSUME IInv, NEW ok \in BOOLEAN, NEW readers \in SUBSET fetch.readers, NEW f \in Outcomes(readers, ok)
  PROVE  RoundsOf(RoundsAfter(f), session)
<1>1. f \in [readers \cap Keys -> 0..(Marks + 1)]
  BY DEF Outcomes
<1>2. ASSUME NEW k \in Keys
      PROVE /\ RoundsAfter(f)[k] \in Rounds
            /\ RoundsAfter(f)[k].phase # "idle" => RoundsAfter(f)[k].session = session
  <2>1. round[k] \in Rounds /\ (round[k].phase # "idle" => round[k].session = session)
    BY DEF IInv, RoundsOf
  <2>2. CASE k \in DOMAIN f
    <3>1. k \in fetch.readers /\ f[k] \in 0..(Marks + 1)
      BY <1>1, <2>2
    <3>2. round[k].phase = "updating"
      BY <3>1 DEF IInv, ReadersUpdate
    <3>3. RoundsAfter(f)[k] = After(k, f[k])
      BY <2>2 DEF RoundsAfter
    <3>4. /\ After(k, f[k]) \in Rounds
          /\ After(k, f[k]).phase # "idle" => After(k, f[k]).session = round[k].session
      BY <2>1, <3>1, <3>2, AfterIsRound
    <3> QED
      BY <2>1, <3>2, <3>3, <3>4
  <2>3. CASE k \notin DOMAIN f
    BY <2>1, <2>3 DEF RoundsAfter
  <2> QED
    BY <2>2, <2>3
<1> QED
  BY <1>2 DEF RoundsOf, RoundsAfter

LEMMA WatchedFromOK ==
  ASSUME NEW r, RoundsOf(r, session), NEW v
  PROVE  RoundsOf(WatchedFrom(v, r), session)
<1>1. ASSUME NEW k \in Keys
      PROVE /\ WatchedFrom(v, r)[k] \in Rounds
            /\ WatchedFrom(v, r)[k].phase = r[k].phase
            /\ WatchedFrom(v, r)[k].session = r[k].session
  <2>1. r[k] \in Rounds
    BY DEF RoundsOf
  <2>2. (r[k].phase = "updating" /\ ObservedOn(v, k)) \in BOOLEAN
    BY DEF ObservedOn
  <2> QED
    BY <2>1, <2>2 DEF WatchedFrom, Rounds
<1> QED
  BY <1>1 DEF RoundsOf, WatchedFrom

LEMMA NewRoundOK ==
  ASSUME CommandsOK, NEW r, RoundsOf(r, session), NEW k \in Keys
  PROVE  RoundsOf([r EXCEPT ![k] = NewRound(k, session)], session)
<1>1. NewRound(k, session) \in Rounds
  <2>1. session \in 0..MaxSessions
    BY BoundAssumption DEF CommandsOK, Sessions
  <2>2. Observed(k) \in BOOLEAN
    BY DEF Observed, ObservedOn
  <2> QED
    BY <2>1, <2>2, BoundAssumption DEF NewRound, Rounds
<1>2. NewRound(k, session).session = session
  BY DEF NewRound
<1> QED
  BY <1>1, <1>2 DEF RoundsOf

LEMMA MoveOK ==
  ASSUME GateOK, NEW r, RoundsOf(r, session), NEW received \in BOOLEAN,
         NEW a \in Approvals, a.fresh = "new" => registry.newer \/ received,
         Move(r, a, received), session' = session
  PROVE  RoundsOf(round', session') /\ GateOK'
<1> DEFINE n == Cardinality(ExpiredIn(r))
           epoch == RegisteredIn(r) # {} /\ (registry.epoch \/ n > 0)
<1>1. n \in Nat
  BY DailyAssumption, FS_Subset, FS_CardinalityType DEF ExpiredIn
<1>2. epoch \in BOOLEAN
  OBVIOUS
<1>3. /\ round' = r
      /\ registry' = [generation |-> registry.generation + n, epoch |-> epoch,
                      newer |-> epoch /\ n = 0 /\ (registry.newer \/ received)]
      /\ approval' = IF a.fresh = "new" /\ ~(epoch /\ n = 0) THEN [a EXCEPT !.fresh = "old"] ELSE a
  BY DEF Move
<1> HIDE DEF n, epoch
<1>4. registry' \in Registries
  BY <1>1, <1>2, <1>3 DEF GateOK, Registries
<1>5. approval' \in Approvals
  BY <1>3 DEF Approvals
<1>6. approval'.fresh = "new" => registry'.newer
  BY <1>3 DEF Approvals
<1> QED
  BY <1>3, <1>4, <1>5, <1>6 DEF GateOK

LEMMA GateToldOK ==
  ASSUME GateOK, NEW ok \in BOOLEAN, NEW g \in Nat
  PROVE  /\ GateTold(ok, g) \in Approvals
         /\ GateTold(ok, g).fresh = "new" => registry.newer \/ ok
  BY DEF GateOK, GateTold, Approvals

LEMMA ExpiriesCount == ASSUME GateOK, NEW r PROVE registry.generation + Cardinality(ExpiredIn(r)) \in Nat
<1>1. Cardinality(ExpiredIn(r)) \in Nat
  BY DailyAssumption, FS_Subset, FS_CardinalityType DEF ExpiredIn
<1> QED
  BY <1>1 DEF GateOK, Registries

LEMMA SettleOK ==
  ASSUME IInv, NEW ok \in BOOLEAN, NEW f \in Outcomes(fetch.readers, ok), Settle(f, ok), session' = session
  PROVE  RoundsOf(round', session') /\ GateOK'
<1> DEFINE r == RoundsAfter(f)
           a == GateTold(ok, registry.generation + Cardinality(ExpiredIn(r)))
<1>1. GateOK
  BY DEF IInv
<1>2. RoundsOf(r, session)
  BY RoundsAfterOK
<1>3. a \in Approvals /\ (a.fresh = "new" => registry.newer \/ ok)
  BY <1>1, ExpiriesCount, GateToldOK
<1>4. Move(r, a, ok)
  BY DEF Settle
<1> HIDE DEF r, a
<1> QED
  BY <1>1, <1>2, <1>3, <1>4, MoveOK

\* What an action that leaves the Ship read and the commands alone has to show.
LEMMA FetchGone ==
  ASSUME IInv, fetch' = NoFetch
  PROVE  FetchOK' /\ ReadersUpdate'
<1>1. fetch' \in Fetches
  BY BoundAssumption DEF NoFetch, Fetches
<1> QED
  BY <1>1 DEF FetchOK, ReadersUpdate, NoFetch

LEMMA CacheStays ==
  ASSUME IInv, cache' = cache \/ cache' = [cache EXCEPT !.error = TRUE],
         session' = session, published' = published
  PROVE  CacheOK'
  BY DEF IInv, CacheOK, Caches

LEMMA CommandsStay ==
  ASSUME IInv, UNCHANGED <<session, view, visible, commandVars, begun>>
  PROVE  CommandsOK'
  BY DEF IInv, CommandsOK, commandVars

\* The gate leaves its read, with an approval that does not rest on this step.
LEMMA GateLeavesOK ==
  ASSUME IInv, NEW a \in Approvals, a.fresh = "new" => registry.newer, GateLeaves(a),
         session' = session, published' = published
  PROVE  RoundsOf(round', session') /\ ReadersUpdate' /\ FetchOK' /\ CacheOK' /\ GateOK'
<1>0. GateOK /\ RoundsOf(round, session)
  BY DEF IInv
<1>1. CASE fetch.owner = "gate"
  <2>1. PICK f \in Outcomes(fetch.readers, FALSE) : FetchAborted(f) /\ Move(RoundsAfter(f), a, FALSE)
    BY <1>1 DEF GateLeaves
  <2>2. RoundsOf(RoundsAfter(f), session)
    BY RoundsAfterOK
  <2>3. RoundsOf(round', session') /\ GateOK'
    BY <1>0, <2>1, <2>2, MoveOK
  <2> QED
    BY <2>1, <2>3, FetchGone, CacheStays DEF FetchAborted
<1>2. CASE fetch.owner # "gate"
  <2>1. /\ fetch' = [fetch EXCEPT !.readers = @ \ {"gate"}]
        /\ approval' = a
        /\ UNCHANGED <<cache, round, registry>>
    BY <1>2 DEF GateLeaves
  <2>2. FetchOK'
    BY <2>1 DEF IInv, FetchOK, Fetches
  <2>3. ReadersUpdate'
    BY <2>1 DEF IInv, ReadersUpdate, FetchOK, Fetches
  <2> QED
    BY <1>0, <2>1, <2>2, <2>3, CacheStays DEF GateOK
<1> QED
  BY <1>1, <1>2

\* Somebody joins or begins a fetch, or a page asks again.
LEMMA ReadShipOK ==
  ASSUME IInv, NEW who \in Keys \cup {"gate"}, who \in Keys => round[who].phase = "updating",
         ReadShip(who), UNCHANGED <<session, published, round>>
  PROVE  FetchOK' /\ ReadersUpdate'
<1>1. CASE fetch.owner = "nobody"
  <2>1. fetch' = [owner |-> who, version |-> 0, readers |-> {who}, session |-> session]
    BY <1>1 DEF ReadShip
  <2>2. session \in 0..MaxSessions /\ 0 \in 0..(MaxRepairs + 1)
    BY BoundAssumption DEF IInv, CommandsOK, Sessions
  <2>3. who \in Keys \cup {"gate", "panel", "nobody"} /\ {who} \in SUBSET (Keys \cup {"gate"})
    OBVIOUS
  <2>4. fetch' \in Fetches
    BY <2>1, <2>2, <2>3 DEF Fetches
  <2> QED
    BY <2>1, <2>4 DEF FetchOK, ReadersUpdate
<1>2. CASE fetch.owner # "nobody"
  <2>1. fetch' = [fetch EXCEPT !.readers = @ \cup {who}]
    BY <1>2 DEF ReadShip
  <2>2. FetchOK'
    BY <2>1 DEF IInv, FetchOK, Fetches
  <2> QED
    BY <2>1, <2>2 DEF IInv, ReadersUpdate, FetchOK, Fetches
<1> QED
  BY <1>1, <1>2

LEMMA FetchRecord ==
  ASSUME NEW o \in Keys \cup {"gate", "panel", "nobody"}, NEW v \in 0..(MaxRepairs + 1),
         NEW R \in SUBSET (Keys \cup {"gate"}), NEW s \in 0..MaxSessions
  PROVE  [owner |-> o, version |-> v, readers |-> R, session |-> s] \in Fetches
  BY DEF Fetches

LEMMA PanelFetchOK ==
  ASSUME IInv, fetch' = [PanelFetch EXCEPT !.readers = fetch.readers], UNCHANGED <<session, published>>
  PROVE  FetchOK' /\ fetch'.readers = fetch.readers
<1>1. session \in 0..MaxSessions /\ 0 \in 0..(MaxRepairs + 1) /\ fetch.readers \in SUBSET (Keys \cup {"gate"})
  BY BoundAssumption DEF IInv, CommandsOK, Sessions, FetchOK, Fetches
<1>2. fetch' = [owner |-> "panel", version |-> 0, readers |-> fetch.readers, session |-> session]
  BY DEF PanelFetch
<1>3. [owner |-> "panel", version |-> 0, readers |-> fetch.readers, session |-> session] \in Fetches
  <2>1. "panel" \in Keys \cup {"gate", "panel", "nobody"}
    OBVIOUS
  <2> QED
    BY ONLY <1>1, <2>1, FetchRecord
<1>4. fetch' \in Fetches
  BY ONLY <1>2, <1>3
<1> QED
  BY <1>2, <1>4 DEF FetchOK

LEMMA RefetchOK ==
  ASSUME IInv, Refetch, UNCHANGED <<session, published>>
  PROVE  FetchOK' /\ fetch'.readers = fetch.readers
<1>1. CASE fetch' = fetch
  BY <1>1 DEF IInv, FetchOK
<1>2. CASE fetch' # fetch
  BY <1>2, PanelFetchOK DEF Refetch
<1> QED
  BY <1>1, <1>2

\* A round of this session starts, and nobody reads for it yet.
LEMMA BeginOK ==
  ASSUME IInv, NEW k \in Keys, Begin(k, session), session' = session
  PROVE  RoundsOf(round', session') /\ GateOK' /\ begun' \in 0..MaxRounds
         /\ \A j \in Keys : round[j].phase = "updating" => round'[j].phase = "updating"
<1> DEFINE r == [round EXCEPT ![k] = NewRound(k, session)]
<1>0. GateOK /\ CommandsOK /\ RoundsOf(round, session)
  BY DEF IInv
<1>1. RoundsOf(r, session)
  BY <1>0, NewRoundOK
<1>2. Move(r, approval, FALSE) /\ approval \in Approvals /\ (approval.fresh = "new" => registry.newer)
  BY <1>0 DEF Begin, GateOK
<1>3. RoundsOf(round', session') /\ GateOK'
  <2> HIDE DEF r
  <2> QED
    BY <1>0, <1>1, <1>2, MoveOK
<1>4. begun' \in 0..MaxRounds
  BY <1>0, BoundAssumption DEF Begin, CommandsOK
<1>5. round' = r
  BY <1>2 DEF Move
<1>6. \A j \in Keys : round[j].phase = "updating" => round'[j].phase = "updating"
  BY <1>0, <1>5 DEF RoundsOf, NewRound
<1> QED
  BY <1>3, <1>4, <1>6

------------------------------------------------------------------------------
(* Every step keeps the invariant.                                           *)

LEMMA RoundSteps ==
  ASSUME IInv, NEW k \in Keys, Tick(k) \/ ReadTimesOut(k) \/ RetryRound(k) \/ Send(k)
  PROVE  IInv'
<1>0. GateOK /\ CommandsOK /\ RoundsOf(round, session) /\ FetchOK /\ CacheOK /\ ReadersUpdate
  BY DEF IInv
<1>1. CASE Tick(k)
  <2>1. round[k].phase = "updating" /\ ReadShip(k) /\ UNCHANGED <<session, published, round>>
    BY <1>1 DEF Tick, commandVars
  <2>2. FetchOK' /\ ReadersUpdate'
    BY <2>1, ReadShipOK
  <2>3. CommandsOK'
    BY <1>1, CommandsStay DEF Tick
  <2>4. RoundsOf(round', session') /\ CacheOK' /\ GateOK'
    BY <1>0, <1>1 DEF Tick, commandVars, CacheOK, GateOK
  <2> QED
    BY <2>2, <2>3, <2>4 DEF IInv
<1>2. CASE ReadTimesOut(k)
  <2>1. UNCHANGED <<session, published>> /\ CommandsOK'
    BY <1>2, CommandsStay DEF ReadTimesOut, commandVars
  <2>2. CASE fetch.owner = k
    <3>1. PICK f \in Outcomes(fetch.readers, FALSE) : FetchAborted(f) /\ Settle(f, FALSE)
      BY <1>2, <2>2 DEF ReadTimesOut
    <3>2. RoundsOf(round', session') /\ GateOK'
      BY <2>1, <3>1, SettleOK
    <3>3. FetchOK' /\ ReadersUpdate' /\ CacheOK'
      BY <2>1, <3>1, FetchGone, CacheStays DEF FetchAborted
    <3> QED
      BY <2>1, <3>2, <3>3 DEF IInv
  <2>3. CASE fetch.owner # k
    <3> DEFINE r == [round EXCEPT ![k] = After(k, Marks + 1)]
    <3>1. /\ fetch' = [fetch EXCEPT !.readers = @ \ {k}]
          /\ UNCHANGED cache
          /\ Move(r, approval, FALSE)
      BY <1>2, <2>3 DEF ReadTimesOut
    <3>2. k \in fetch.readers /\ round[k].phase = "updating" /\ round[k] \in Rounds /\ round[k].session = session
      BY <1>0, <1>2 DEF ReadTimesOut, Reading, ReadersUpdate, RoundsOf
    <3>3. After(k, Marks + 1) \in Rounds /\ (After(k, Marks + 1).phase # "idle" => After(k, Marks + 1).session = session)
      <4>1. Marks + 1 \in 0..(Marks + 1)
        BY BoundAssumption
      <4> QED
        BY <3>2, <4>1, AfterIsRound
    <3>4. RoundsOf(r, session)
      BY <1>0, <3>3 DEF RoundsOf
    <3>5. round' = r
      BY <3>1 DEF Move
    <3>6. RoundsOf(round', session') /\ GateOK'
      <4> HIDE DEF r
      <4> QED
        BY <1>0, <2>1, <3>1, <3>4, MoveOK DEF GateOK
    <3>7. FetchOK'
      BY <1>0, <2>1, <3>1 DEF FetchOK, Fetches
    <3>8. ReadersUpdate'
      BY <1>0, <3>1, <3>5 DEF ReadersUpdate, FetchOK, Fetches, RoundsOf
    <3> QED
      BY <2>1, <3>1, <3>6, <3>7, <3>8, CacheStays DEF IInv
  <2> QED
    BY <2>2, <2>3
<1>3. CASE RetryRound(k)
  <2>1. Begin(k, session) /\ UNCHANGED <<session, view, visible, fetch, cache, commandVars>>
    BY <1>3 DEF RetryRound
  <2>2. /\ RoundsOf(round', session') /\ GateOK' /\ begun' \in 0..MaxRounds
        /\ \A j \in Keys : round[j].phase = "updating" => round'[j].phase = "updating"
    BY <2>1, BeginOK
  <2>3. ReadersUpdate' /\ FetchOK' /\ CacheOK' /\ CommandsOK'
    BY <1>0, <2>1, <2>2 DEF ReadersUpdate, FetchOK, CacheOK, CommandsOK, commandVars
  <2> QED
    BY <2>2, <2>3 DEF IInv
<1>4. CASE Send(k)
  <2>1. sent' \subseteq Keys \X Sessions
    BY <1>0, <1>4 DEF Send, CommandsOK
  <2>2. UNCHANGED <<session, view, visible, clientVars, server, repaired, published, begun>>
    BY <1>4 DEF Send
  <2> QED
    BY <1>0, <2>1, <2>2 DEF IInv, clientVars, RoundsOf, ReadersUpdate, FetchOK, CacheOK, GateOK, CommandsOK
<1> QED
  BY <1>1, <1>2, <1>3, <1>4

LEMMA FetchSteps ==
  ASSUME IInv, ServerAnswers \/ FetchArrives \/ FetchFails \/ PanelReads \/ PanelRefetches
  PROVE  IInv'
<1>0. GateOK /\ CommandsOK /\ RoundsOf(round, session) /\ FetchOK /\ CacheOK /\ ReadersUpdate
  BY DEF IInv
<1>1. CASE ServerAnswers
  <2>1. /\ fetch.owner # "nobody" /\ fetch' = [fetch EXCEPT !.version = server]
        /\ UNCHANGED <<session, view, visible, round, cache, registry, approval, commandVars, begun>>
    BY <1>1 DEF ServerAnswers
  <2>2. server \in 0..(MaxRepairs + 1) /\ published <= server
    BY <1>0, BoundAssumption DEF CommandsOK, Versions
  <2>3. FetchOK'
    BY <1>0, <2>1, <2>2 DEF FetchOK, Fetches, commandVars
  <2>4. ReadersUpdate'
    BY <1>0, <2>1 DEF ReadersUpdate, FetchOK, Fetches
  <2>5. RoundsOf(round', session') /\ CacheOK' /\ GateOK' /\ CommandsOK'
    BY <1>0, <2>1 DEF CacheOK, GateOK, CommandsOK, commandVars
  <2> QED
    BY <2>3, <2>4, <2>5 DEF IInv
<1>2. CASE FetchArrives
  <2>1. /\ fetch.version # 0 /\ fetch' = NoFetch
        /\ cache' = [version |-> fetch.version, error |-> FALSE, session |-> fetch.session]
        /\ UNCHANGED <<session, view, visible, commandVars, begun>>
    BY <1>2 DEF FetchArrives
  <2>2. PICK f \in Outcomes(fetch.readers, TRUE) : Settle(f, TRUE)
    BY <1>2 DEF FetchArrives
  <2>3. RoundsOf(round', session') /\ GateOK'
    BY <2>1, <2>2, SettleOK
  <2>4. CacheOK'
    <3>1. fetch.version \in 0..(MaxRepairs + 1) /\ fetch.session \in 0..MaxSessions
      BY <1>0 DEF FetchOK, Fetches
    <3>2. cache' \in Caches
      BY <2>1, <3>1 DEF Caches
    <3> QED
      BY <1>0, <2>1, <3>2 DEF CacheOK, FetchOK, commandVars
  <2> QED
    BY <2>1, <2>3, <2>4, FetchGone, CommandsStay DEF IInv
<1>3. CASE FetchFails
  <2>1. /\ fetch' = NoFetch /\ cache' = [cache EXCEPT !.error = TRUE]
        /\ UNCHANGED <<session, view, visible, commandVars, begun>>
    BY <1>3 DEF FetchFails, FetchLost
  <2>2. PICK f \in Outcomes(fetch.readers, FALSE) : Settle(f, FALSE)
    BY <1>3 DEF FetchFails, FetchLost
  <2>3. RoundsOf(round', session') /\ GateOK'
    BY <2>1, <2>2, SettleOK
  <2>4. CacheOK'
    BY <2>1, CacheStays DEF commandVars
  <2> QED
    BY <2>1, <2>3, <2>4, FetchGone, CommandsStay DEF IInv
<1>4. CASE PanelReads
  <2>1. /\ fetch' = PanelFetch
        /\ UNCHANGED <<session, view, visible, round, cache, registry, approval, commandVars, begun>>
    BY <1>4 DEF PanelReads
  <2>2. session \in 0..MaxSessions /\ 0 \in 0..(MaxRepairs + 1) /\ {} \in SUBSET (Keys \cup {"gate"})
    BY <1>0, BoundAssumption DEF CommandsOK, Sessions
  <2>3. "panel" \in Keys \cup {"gate", "panel", "nobody"}
    OBVIOUS
  <2>4. PanelFetch \in Fetches
    BY <2>2, <2>3, FetchRecord DEF PanelFetch
  <2>5. FetchOK' /\ ReadersUpdate'
    BY <2>1, <2>4 DEF FetchOK, ReadersUpdate, PanelFetch, commandVars
  <2>6. RoundsOf(round', session') /\ CacheOK' /\ GateOK' /\ CommandsOK'
    BY <1>0, <2>1 DEF CacheOK, GateOK, CommandsOK, commandVars
  <2> QED
    BY <2>5, <2>6 DEF IInv
<1>5. CASE PanelRefetches
  <2>1. Refetch /\ UNCHANGED <<session, view, visible, round, cache, registry, approval, commandVars, begun>>
    BY <1>5 DEF PanelRefetches
  <2>2. FetchOK' /\ fetch'.readers = fetch.readers
    BY <2>1, RefetchOK DEF commandVars
  <2>3. RoundsOf(round', session') /\ ReadersUpdate' /\ CacheOK' /\ GateOK' /\ CommandsOK'
    BY <1>0, <2>1, <2>2 DEF CacheOK, GateOK, CommandsOK, commandVars, ReadersUpdate
  <2> QED
    BY <2>2, <2>3 DEF IInv
<1> QED
  BY <1>1, <1>2, <1>3, <1>4, <1>5

\* The steps in which the gate leaves its read; a is its bookkeeping afterwards.
LEMMA GateStep ==
  ASSUME IInv, NEW a \in Approvals, a.fresh = "new" => registry.newer, GateLeaves(a),
         UNCHANGED <<session, view, commandVars, begun>>, visible' \in BOOLEAN
  PROVE  IInv'
<1>1. RoundsOf(round', session') /\ ReadersUpdate' /\ FetchOK' /\ CacheOK' /\ GateOK'
  BY GateLeavesOK DEF commandVars
<1>2. CommandsOK'
  BY DEF IInv, CommandsOK, commandVars
<1> QED
  BY <1>1, <1>2 DEF IInv

LEMMA Bookkeeping ==
  ASSUME GateOK, NEW h \in Nat
  PROVE  /\ [NoApproval EXCEPT !.handled = h] \in Approvals
         /\ [NoApproval EXCEPT !.handled = h].fresh # "new"
         /\ [approval EXCEPT !.failed = h] \in Approvals
         /\ [approval EXCEPT !.failed = h].fresh = approval.fresh
         /\ [approval EXCEPT !.attempted = h] \in Approvals
         /\ [approval EXCEPT !.attempted = h].fresh = approval.fresh
  BY DEF GateOK, Approvals, NoApproval

LEMMA GateSteps ==
  ASSUME IInv, EffectReset \/ EffectApprove \/ EffectCancel \/ EffectRead \/ GateReadTimesOut
               \/ GateRetry \/ Hide \/ Show
  PROVE  IInv'
<1>0. GateOK /\ CommandsOK /\ RoundsOf(round, session) /\ FetchOK /\ CacheOK /\ ReadersUpdate
  BY DEF IInv
<1>a. /\ visible \in BOOLEAN /\ registry.generation \in Nat /\ approval \in Approvals
      /\ approval.handled \in Nat /\ approval.attempted \in Nat
      /\ approval.fresh = "new" => registry.newer
  BY <1>0 DEF CommandsOK, GateOK, Registries, Approvals
<1>1. CASE EffectReset
  <2>1. GateLeaves([NoApproval EXCEPT !.handled = registry.generation])
        /\ UNCHANGED <<session, view, visible, commandVars, begun>>
    BY <1>1 DEF EffectReset
  <2> QED
    BY <1>0, <1>a, <2>1, Bookkeeping, GateStep
<1>2. CASE EffectApprove
  <2>1. /\ registry.newer /\ approval' = [approval EXCEPT !.fresh = "new", !.failed = 0]
        /\ UNCHANGED <<session, view, visible, round, fetch, cache, registry, commandVars, begun>>
    BY <1>2 DEF EffectApprove
  <2>2. GateOK'
    BY <1>0, <2>1 DEF GateOK, Approvals
  <2>3. RoundsOf(round', session') /\ ReadersUpdate' /\ FetchOK' /\ CacheOK' /\ CommandsOK'
    BY <1>0, <2>1 DEF ReadersUpdate, FetchOK, CacheOK, CommandsOK, commandVars
  <2> QED
    BY <2>2, <2>3 DEF IInv
<1>3. CASE EffectCancel
  <2>1. GateLeaves(approval) /\ UNCHANGED <<session, view, visible, commandVars, begun>>
    BY <1>3 DEF EffectCancel
  <2> QED
    BY <1>a, <2>1, GateStep
<1>4. CASE EffectRead
  <2>1. /\ ReadShip("gate") /\ approval' = [approval EXCEPT !.attempted = registry.generation]
        /\ UNCHANGED <<session, view, visible, round, cache, registry, commandVars, begun>>
    BY <1>4 DEF EffectRead
  <2>2. FetchOK' /\ ReadersUpdate'
    BY <2>1, KeysNamed, ReadShipOK DEF commandVars
  <2>3. GateOK'
    BY <1>0, <1>a, <2>1, Bookkeeping DEF GateOK
  <2>4. RoundsOf(round', session') /\ CacheOK' /\ CommandsOK'
    BY <1>0, <2>1 DEF CacheOK, CommandsOK, commandVars
  <2> QED
    BY <2>2, <2>3, <2>4 DEF IInv
<1>5. CASE GateReadTimesOut
  <2>1. GateLeaves([approval EXCEPT !.failed = approval.attempted])
        /\ UNCHANGED <<session, view, visible, commandVars, begun>>
    BY <1>5 DEF GateReadTimesOut
  <2>2. /\ [approval EXCEPT !.failed = approval.attempted] \in Approvals
        /\ [approval EXCEPT !.failed = approval.attempted].fresh = approval.fresh
    BY <1>0, <1>a, Bookkeeping
  <2> QED
    BY <1>a, <2>1, <2>2, GateStep
<1>6. CASE GateRetry
  <2>1. GateLeaves([NoApproval EXCEPT !.handled = approval.handled])
        /\ UNCHANGED <<session, view, visible, commandVars, begun>>
    BY <1>6 DEF GateRetry
  <2> QED
    BY <1>0, <1>a, <2>1, Bookkeeping, GateStep
<1>7. CASE Hide
  <2> DEFINE a == IF GateReading THEN [approval EXCEPT !.attempted = 0] ELSE approval
  <2>1. GateLeaves(a) /\ visible' \in BOOLEAN /\ UNCHANGED <<session, view, commandVars, begun>>
    BY <1>7 DEF Hide
  <2>2. a \in Approvals /\ a.fresh = approval.fresh
    BY <1>0, <1>a, Bookkeeping
  <2> HIDE DEF a
  <2> QED
    BY <1>a, <2>1, <2>2, GateStep
<1>8. CASE Show
  BY <1>0, <1>8 DEF Show, clientVars, commandVars, IInv, RoundsOf, ReadersUpdate, FetchOK, CacheOK, GateOK, CommandsOK
<1> QED
  BY <1>1, <1>2, <1>3, <1>4, <1>5, <1>6, <1>7, <1>8

LEMMA SwitchStep == ASSUME IInv, SwitchSession PROVE IInv'
<1>0. Idle \in Rounds
  BY BoundAssumption DEF Idle, Rounds
<1>1. /\ round' = [k \in Keys |-> Idle] /\ fetch' = NoFetch /\ cache' = NoData
      /\ registry' = NoExpiry /\ approval' = NoApproval
  BY DEF SwitchSession
<1>2. RoundsOf(round', session')
  BY <1>0, <1>1 DEF RoundsOf, Idle
<1>3. FetchOK' /\ ReadersUpdate'
  BY <1>1, FetchGone
<1>4. CacheOK'
  <2>1. NoData \in Caches
    BY BoundAssumption DEF Caches, NoData
  <2> QED
    BY <1>1, <2>1 DEF CacheOK, NoData
<1>5. GateOK'
  BY <1>1 DEF GateOK, Registries, Approvals, NoExpiry, NoApproval
<1>6. CommandsOK'
  BY BoundAssumption DEF SwitchSession, IInv, CommandsOK, Sessions, Versions
<1> QED
  BY <1>2, <1>3, <1>4, <1>5, <1>6 DEF IInv

LEMMA NavigateStep == ASSUME IInv, NEW v \in {"other", "dailies", "ship"}, Navigate(v) PROVE IInv'
<1>0. GateOK /\ CommandsOK /\ RoundsOf(round, session) /\ FetchOK /\ CacheOK /\ ReadersUpdate
  BY DEF IInv
<1>1. view' = v /\ UNCHANGED <<session, visible, cache, commandVars, begun>>
  BY DEF Navigate
<1>2. CommandsOK' /\ CacheOK'
  BY <1>0, <1>1, CacheStays DEF CommandsOK, commandVars
<1>3. CASE view = "ship" /\ fetch.owner # "nobody"
  <2>1. fetch' = NoFetch
    BY <1>3 DEF Navigate
  <2>2. PICK f \in Outcomes(fetch.readers, FALSE) :
          Move(WatchedFrom(v, RoundsAfter(f)),
               GateTold(FALSE, registry.generation + Cardinality(ExpiredIn(RoundsAfter(f)))), FALSE)
    BY <1>3 DEF Navigate
  <2> DEFINE r == RoundsAfter(f)
             w == WatchedFrom(v, r)
             a == GateTold(FALSE, registry.generation + Cardinality(ExpiredIn(r)))
  <2>3. RoundsOf(r, session)
    BY RoundsAfterOK
  <2>4. RoundsOf(w, session)
    BY <2>3, WatchedFromOK
  <2>5. a \in Approvals /\ (a.fresh = "new" => registry.newer)
    BY <1>0, ExpiriesCount, GateToldOK
  <2>6. Move(w, a, FALSE)
    BY <2>2
  <2> HIDE DEF r, w, a
  <2>7. RoundsOf(round', session') /\ GateOK'
    BY <1>0, <1>1, <2>4, <2>5, <2>6, MoveOK
  <2> QED
    BY <1>2, <2>1, <2>7, FetchGone DEF IInv
<1>4. CASE ~(view = "ship" /\ fetch.owner # "nobody")
  <2>1. Move(WatchedFrom(v, round), approval, FALSE) /\ UNCHANGED fetch
    BY <1>4 DEF Navigate
  <2>2. RoundsOf(WatchedFrom(v, round), session)
    BY <1>0, WatchedFromOK
  <2>3. RoundsOf(round', session') /\ GateOK'
    BY <1>0, <1>1, <2>1, <2>2, MoveOK DEF GateOK
  <2>4. FetchOK'
    BY <1>0, <1>1, <2>1 DEF FetchOK, commandVars
  <2>5. ReadersUpdate'
    <3>1. round' = WatchedFrom(v, round)
      BY <2>1 DEF Move
    <3>2. \A k \in Keys : round'[k].phase = round[k].phase
      BY <1>0, <3>1 DEF WatchedFrom, RoundsOf, Rounds
    <3> QED
      BY <1>0, <2>1, <3>2 DEF ReadersUpdate
  <2> QED
    BY <1>2, <2>3, <2>4, <2>5 DEF IInv
<1> QED
  BY <1>3, <1>4

\* The answers.  Only that of a repair touches the Ship that the page shows.
LEMMA AnswerSteps ==
  ASSUME IInv, NEW s \in Sessions, NEW k \in Keys,
         Refused(k, s) \/ (k \in Dailies /\ Completed(k, s)) \/ ServerRepairs(s) \/ LaunchAnswered(s)
  PROVE  IInv'
<1>0. GateOK /\ CommandsOK /\ RoundsOf(round, session) /\ FetchOK /\ CacheOK /\ ReadersUpdate
  BY DEF IInv
<1>a. server \in Nat /\ 0 <= server /\ 0 \in 0..(MaxRepairs + 1)
  BY <1>0, BoundAssumption DEF CommandsOK, Versions
<1>1. CASE Refused(k, s)
  <2>1. /\ sent' \subseteq sent
        /\ repaired' = repaired \/ repaired' = [repaired EXCEPT ![s] = 0]
        /\ UNCHANGED <<session, view, visible, clientVars, server, published, begun>>
    BY <1>1 DEF Refused, Answer
  <2>2. CommandsOK'
    BY <1>0, <1>a, <2>1 DEF CommandsOK
  <2> QED
    BY <1>0, <2>1, <2>2 DEF IInv, clientVars, RoundsOf, ReadersUpdate, FetchOK, CacheOK, GateOK
<1>2. CASE k \in Dailies /\ Completed(k, s)
  <2>1. /\ s = session /\ sent' \subseteq sent
        /\ UNCHANGED <<session, view, visible, fetch, cache, server, repaired, published>>
    BY <1>2 DEF Completed, Answer
  <2>2. CASE round[k].phase = "updating"
    BY <1>0, <1>2, <2>1, <2>2 DEF Completed, IInv, RoundsOf, ReadersUpdate, FetchOK, CacheOK, GateOK, CommandsOK
  <2>3. CASE round[k].phase # "updating"
    <3>1. Begin(k, session)
      BY <1>2, <2>1, <2>3 DEF Completed
    <3>2. /\ RoundsOf(round', session') /\ GateOK' /\ begun' \in 0..MaxRounds
          /\ \A j \in Keys : round[j].phase = "updating" => round'[j].phase = "updating"
      BY <2>1, <3>1, BeginOK
    <3>3. ReadersUpdate' /\ FetchOK' /\ CacheOK' /\ CommandsOK'
      BY <1>0, <2>1, <3>2 DEF ReadersUpdate, FetchOK, CacheOK, CommandsOK
    <3> QED
      BY <3>2, <3>3 DEF IInv
  <2> QED
    BY <2>2, <2>3
<1>3. CASE ServerRepairs(s)
  <2>1. /\ server <= MaxRepairs /\ server' = server + 1
        /\ repaired' = [repaired EXCEPT ![s] = server + 1]
        /\ UNCHANGED <<session, view, visible, clientVars, sent, published, begun>>
    BY <1>3 DEF ServerRepairs
  <2>2. server' \in Versions /\ server + 1 \in 0..(MaxRepairs + 1)
    BY <1>0, <2>1, BoundAssumption DEF CommandsOK, Versions
  <2>3. published' <= server' /\ \A i \in Sessions : repaired'[i] <= server'
    BY <1>0, <1>a, <2>1, BoundAssumption DEF CommandsOK
  <2>4. CommandsOK'
    BY <1>0, <2>1, <2>2, <2>3 DEF CommandsOK
  <2> QED
    BY <1>0, <2>1, <2>4 DEF IInv, clientVars, RoundsOf, ReadersUpdate, FetchOK, CacheOK, GateOK
<1>4. CASE LaunchAnswered(s)
  <2>1. /\ s = session /\ sent' \subseteq sent /\ Begin("launch", s)
        /\ Refetch \/ UNCHANGED fetch
        /\ UNCHANGED <<session, view, visible, cache, server, repaired, published>>
    BY <1>4 DEF LaunchAnswered, Answer
  <2>2. /\ RoundsOf(round', session') /\ GateOK' /\ begun' \in 0..MaxRounds
        /\ \A j \in Keys : round[j].phase = "updating" => round'[j].phase = "updating"
    BY <2>1, KeysNamed, BeginOK
  <2>3. FetchOK' /\ fetch'.readers = fetch.readers
    <3>1. CASE Refetch
      BY <2>1, <3>1, RefetchOK
    <3>2. CASE UNCHANGED fetch
      BY <1>0, <2>1, <3>2 DEF FetchOK
    <3> QED
      BY <2>1, <3>1, <3>2
  <2>4. ReadersUpdate' /\ CacheOK' /\ CommandsOK'
    BY <1>0, <2>1, <2>2, <2>3 DEF ReadersUpdate, CacheOK, CommandsOK
  <2> QED
    BY <2>2, <2>3, <2>4 DEF IInv
<1> QED
  BY <1>1, <1>2, <1>3, <1>4

\* The repaired Ship is published, and no read that began before it is left.
LEMMA RepairStep == ASSUME IInv, NEW s \in Sessions, RepairAnswered(s) PROVE IInv'
<1>0. GateOK /\ CommandsOK /\ RoundsOf(round, session) /\ FetchOK /\ CacheOK /\ ReadersUpdate
  BY DEF IInv
<1>1. /\ s = session /\ sent' \subseteq sent /\ begun < MaxRounds /\ begun' = begun + 1
      /\ repaired' = [repaired EXCEPT ![s] = 0] /\ published' = repaired[s]
      /\ cache' = [version |-> repaired[s], error |-> FALSE, session |-> s]
      /\ fetch' = NoFetch
      /\ UNCHANGED <<session, view, visible, server>>
  BY DEF RepairAnswered, Answer, FetchAfterRepair
<1>2. PICK f \in Outcomes(fetch.readers, FALSE) :
        Move([RoundsAfter(f) EXCEPT !["repair"] = NewRound("repair", s)],
             GateTold(FALSE, registry.generation
                               + Cardinality(ExpiredIn([RoundsAfter(f) EXCEPT !["repair"] = NewRound("repair", s)]))),
             TRUE)
  BY DEF RepairAnswered
<1> DEFINE r == [RoundsAfter(f) EXCEPT !["repair"] = NewRound("repair", s)]
           a == GateTold(FALSE, registry.generation + Cardinality(ExpiredIn(r)))
<1>3. RoundsOf(r, session)
  BY <1>0, <1>1, RoundsAfterOK, NewRoundOK, KeysNamed
<1>4. a \in Approvals /\ (a.fresh = "new" => registry.newer)
  BY <1>0, ExpiriesCount, GateToldOK
<1>5. Move(r, a, TRUE)
  BY <1>2
<1>6. RoundsOf(round', session') /\ GateOK'
  <2> HIDE DEF r, a
  <2> QED
    BY <1>0, <1>1, <1>3, <1>4, <1>5, MoveOK
<1>7. CommandsOK'
  <2>1. begun' \in 0..MaxRounds
    BY <1>0, <1>1, BoundAssumption DEF CommandsOK
  <2>2. published' \in 0..(MaxRepairs + 1) /\ published' <= server'
    BY <1>0, <1>1 DEF CommandsOK
  <2>3. 0 \in 0..(MaxRepairs + 1) /\ 0 <= server
    BY <1>0, BoundAssumption DEF CommandsOK, Versions
  <2> QED
    BY <1>0, <1>1, <2>1, <2>2, <2>3 DEF CommandsOK
<1>8. CacheOK'
  <2>1. repaired[s] \in 0..(MaxRepairs + 1) /\ s \in 0..MaxSessions
    BY <1>0, <1>1, BoundAssumption DEF CommandsOK, Sessions
  <2>2. cache' \in Caches
    BY <1>1, <2>1 DEF Caches
  <2> QED
    BY <1>1, <2>1, <2>2 DEF CacheOK
<1> QED
  BY <1>1, <1>6, <1>7, <1>8, FetchGone DEF IInv

LEMMA NextIInv == IInv /\ [Next]_vars => IInv'
<1> SUFFICES ASSUME IInv, [Next]_vars PROVE IInv'
  OBVIOUS
<1>1. ASSUME NEW k \in Keys, Tick(k) \/ ReadTimesOut(k) \/ RetryRound(k) \/ Send(k) PROVE IInv'
  BY <1>1, RoundSteps
<1>2. ASSUME ServerAnswers \/ FetchArrives \/ FetchFails \/ PanelReads \/ PanelRefetches PROVE IInv'
  BY <1>2, FetchSteps
<1>3. ASSUME EffectReset \/ EffectApprove \/ EffectCancel \/ EffectRead \/ GateReadTimesOut
             \/ GateRetry \/ Hide \/ Show
      PROVE IInv'
  BY <1>3, GateSteps
<1>4. ASSUME NEW v \in {"other", "dailies", "ship"}, Navigate(v) PROVE IInv'
  BY <1>4, NavigateStep
<1>5. ASSUME NEW k \in Keys, NEW s \in Sessions, Refused(k, s) \/ (k \in Dailies /\ Completed(k, s)) PROVE IInv'
  BY <1>5, AnswerSteps
<1>6. ASSUME NEW s \in Sessions, ServerRepairs(s) \/ LaunchAnswered(s) PROVE IInv'
  BY <1>6, AnswerSteps, KeysNamed
<1>7. ASSUME NEW s \in Sessions, RepairAnswered(s) PROVE IInv'
  BY <1>7, RepairStep
<1>8. ASSUME UNCHANGED vars PROVE IInv'
  BY <1>8 DEF vars, clientVars, commandVars, IInv, RoundsOf, ReadersUpdate, FetchOK, CacheOK, GateOK, CommandsOK
<1>9. ASSUME SwitchSession PROVE IInv'
  BY <1>9, SwitchStep
<1> QED
  BY <1>1, <1>2, <1>3, <1>4, <1>5, <1>6, <1>7, <1>8, <1>9, KeysNamed DEF Next

------------------------------------------------------------------------------
(* Theorems.                                                                 *)

\* The tab's view of the Ship keeps its shape for any number of Dailies, marks,
\* sessions and commands.
THEOREM TypeCorrect == Spec => []TypeOK
<1>1. IInv => TypeOK
  BY IInvImplies
<1> QED
  BY InitIInv, NextIInv, <1>1, PTL DEF Spec

\* No late answer shows an earlier session's round or Ship (SwitchSession,
\* Completed, RepairAnswered, LaunchAnswered, FetchArrives).
THEOREM SessionsStayApart == Spec => []SessionsApart
<1>1. IInv => SessionsApart
  BY IInvImplies
<1> QED
  BY InitIInv, NextIInv, <1>1, PTL DEF Spec

\* The repaired Ship stays on the page whatever reads are under way
\* (repairShipAndCache cancels before it publishes).
THEOREM RepairStands == Spec => []RepairNotUndone
<1>1. IInv => RepairNotUndone
  BY IInvImplies
<1> QED
  BY InitIInv, NextIInv, <1>1, PTL DEF Spec

\* The gate opens on a delayed award only with data received after the last
\* expiry, however many awards expire (notifyPhase, useShipBalanceGate).
THEOREM OpensOnReceipt == Spec => []OpenOnlyOnReceipt
<1>1. IInv => OpenOnlyOnReceipt
  BY IInvImplies
<1> QED
  BY InitIInv, NextIInv, <1>1, PTL DEF Spec

------------------------------------------------------------------------------
(* The budget of reads.                                                      *)

\* r takes no read of a running award round back.
Spent(r) ==
  \A d \in Dailies : (round[d].phase = "updating" /\ r[d].phase = "updating") => r[d].mark >= round[d].mark

LEMMA RoundsAfterSpent ==
  ASSUME IInv, NEW ok \in BOOLEAN, NEW f \in Outcomes(fetch.readers, ok)
  PROVE  Spent(RoundsAfter(f))
<1> SUFFICES ASSUME NEW d \in Dailies, round[d].phase = "updating", RoundsAfter(f)[d].phase = "updating"
             PROVE  RoundsAfter(f)[d].mark >= round[d].mark
  BY DEF Spent
<1>1. d \in Keys /\ round[d] \in Rounds
  BY KeysNamed DEF IInv, RoundsOf
<1>2. round[d].mark \in Nat /\ Marks \in Nat
  BY <1>1, BoundAssumption DEF Rounds
<1>3. CASE d \in DOMAIN f
  <2>1. d \in fetch.readers \cap Keys /\ f[d] \in 0..(Marks + 1) /\ (f[d] > round[d].mark \/ f[d] = 0)
    BY <1>3 DEF Outcomes
  <2>2. RoundsAfter(f)[d] = After(d, f[d])
    BY <1>1, <1>3 DEF RoundsAfter
  <2>3. f[d] # 0 /\ ~(f[d] > Marks)
    BY <1>1, <2>2 DEF After, Idle, Rounds
  <2> QED
    BY <1>1, <1>2, <2>1, <2>2, <2>3 DEF After, Rounds
<1>4. CASE d \notin DOMAIN f
  BY <1>1, <1>2, <1>4 DEF RoundsAfter
<1> QED
  BY <1>3, <1>4

\* A round that starts was not running, unless it is that of a repair.
LEMMA BeginSpent ==
  ASSUME IInv, NEW k \in Keys, NEW s, k \notin Dailies \/ round[k].phase # "updating", Begin(k, s)
  PROVE  Spent(round')
<1>1. round' = [round EXCEPT ![k] = NewRound(k, s)]
  BY DEF Begin, Move
<1> QED
  BY <1>1, KeysNamed DEF Spent, IInv, RoundsOf, Rounds

LEMMA SameSpent == ASSUME IInv, UNCHANGED round PROVE Spent(round')
<1>1. \A d \in Dailies : round[d].mark \in Nat
  BY KeysNamed, BoundAssumption DEF IInv, RoundsOf, Rounds
<1> QED
  BY <1>1 DEF Spent

LEMMA GateLeavesSpent == ASSUME IInv, NEW a, GateLeaves(a) PROVE Spent(round')
<1>1. CASE fetch.owner = "gate"
  <2>1. PICK f \in Outcomes(fetch.readers, FALSE) : Move(RoundsAfter(f), a, FALSE)
    BY <1>1 DEF GateLeaves
  <2>2. round' = RoundsAfter(f)
    BY <2>1 DEF Move
  <2> QED
    BY <2>2, RoundsAfterSpent
<1>2. CASE fetch.owner # "gate"
  BY <1>2, SameSpent DEF GateLeaves
<1> QED
  BY <1>1, <1>2

LEMMA SettleSpent ==
  ASSUME IInv, NEW ok \in BOOLEAN, NEW f \in Outcomes(fetch.readers, ok), Settle(f, ok)
  PROVE  Spent(round')
<1>1. round' = RoundsAfter(f)
  BY DEF Settle, Move
<1> QED
  BY <1>1, RoundsAfterSpent

\* Watching changes no mark.
LEMMA WatchedSpent ==
  ASSUME NEW r, Spent(r), RoundsOf(r, session), NEW v
  PROVE  Spent(WatchedFrom(v, r))
<1>1. \A d \in Dailies : /\ WatchedFrom(v, r)[d].phase = r[d].phase
                         /\ WatchedFrom(v, r)[d].mark = r[d].mark
  BY KeysNamed DEF WatchedFrom, RoundsOf, Rounds
<1> QED
  BY <1>1 DEF Spent

LEMMA NextSpent == IInv /\ [Next]_vars => Spent(round')
<1> SUFFICES ASSUME IInv, [Next]_vars PROVE Spent(round')
  OBVIOUS
<1>1. ASSUME NEW k \in Keys, Tick(k) \/ Send(k) PROVE Spent(round')
  BY <1>1, SameSpent DEF Tick, Send, clientVars
<1>2. ASSUME NEW k \in Keys, ReadTimesOut(k) PROVE Spent(round')
  <2>1. CASE fetch.owner = k
    BY <1>2, <2>1, SettleSpent DEF ReadTimesOut
  <2>2. CASE fetch.owner # k
    <3>1. round' = [round EXCEPT ![k] = After(k, Marks + 1)]
      BY <1>2, <2>2 DEF ReadTimesOut, Move
    <3>2. round[k] \in Rounds /\ After(k, Marks + 1).phase # "updating"
      BY BoundAssumption DEF IInv, RoundsOf, After, Idle, Rounds
    <3>3. \A d \in Dailies : round[d].mark \in Nat
      BY KeysNamed, BoundAssumption DEF IInv, RoundsOf, Rounds
    <3>4. \A d \in Dailies : d # k => round'[d] = round[d]
      BY <3>1, KeysNamed DEF IInv, RoundsOf
    <3>5. round'[k].phase # "updating"
      BY <3>1, <3>2 DEF IInv, RoundsOf
    <3> QED
      BY <3>3, <3>4, <3>5 DEF Spent
  <2> QED
    BY <2>1, <2>2
<1>3. ASSUME NEW k \in Keys, RetryRound(k) PROVE Spent(round')
  BY <1>3, BeginSpent DEF RetryRound
<1>4. ASSUME ServerAnswers \/ PanelReads \/ PanelRefetches \/ EffectApprove \/ EffectRead \/ Show
      PROVE Spent(round')
  BY <1>4, SameSpent DEF ServerAnswers, PanelReads, PanelRefetches, EffectApprove, EffectRead, Show, clientVars
<1>5. ASSUME FetchArrives \/ FetchFails PROVE Spent(round')
  BY <1>5, SettleSpent DEF FetchArrives, FetchFails, FetchLost
<1>6. ASSUME EffectReset \/ EffectCancel \/ GateReadTimesOut \/ GateRetry \/ Hide PROVE Spent(round')
  BY <1>6, GateLeavesSpent DEF EffectReset, EffectCancel, GateReadTimesOut, GateRetry, Hide
<1>7. ASSUME SwitchSession PROVE Spent(round')
  BY <1>7, KeysNamed DEF SwitchSession, Spent, Idle
<1>8. ASSUME NEW v \in {"other", "dailies", "ship"}, Navigate(v) PROVE Spent(round')
  <2>1. CASE view = "ship" /\ fetch.owner # "nobody"
    <3>1. PICK f \in Outcomes(fetch.readers, FALSE) : round' = WatchedFrom(v, RoundsAfter(f))
      BY <1>8, <2>1 DEF Navigate, Move
    <3>2. Spent(RoundsAfter(f)) /\ RoundsOf(RoundsAfter(f), session)
      BY RoundsAfterSpent, RoundsAfterOK
    <3> QED
      BY <3>1, <3>2, WatchedSpent
  <2>2. CASE ~(view = "ship" /\ fetch.owner # "nobody")
    <3>1. round' = WatchedFrom(v, round)
      BY <1>8, <2>2 DEF Navigate, Move
    <3>2. RoundsOf(round, session)
      BY DEF IInv
    <3>3. Spent(round)
      BY KeysNamed, BoundAssumption DEF Spent, IInv, RoundsOf, Rounds
    <3> QED
      BY <3>1, <3>2, <3>3, WatchedSpent
  <2> QED
    BY <2>1, <2>2
<1>9. ASSUME NEW k \in Keys, NEW s \in Sessions, Refused(k, s) PROVE Spent(round')
  BY <1>9, SameSpent DEF Refused, clientVars
<1>10. ASSUME NEW d \in Dailies, NEW s \in Sessions, Completed(d, s) PROVE Spent(round')
  BY <1>10, SameSpent, BeginSpent, KeysNamed DEF Completed
<1>11. ASSUME NEW s \in Sessions, ServerRepairs(s) PROVE Spent(round')
  BY <1>11, SameSpent DEF ServerRepairs, clientVars
<1>12. ASSUME NEW s \in Sessions, LaunchAnswered(s) PROVE Spent(round')
  BY <1>12, BeginSpent, KeysNamed DEF LaunchAnswered
<1>13. ASSUME NEW s \in Sessions, RepairAnswered(s) PROVE Spent(round')
  <2>1. PICK f \in Outcomes(fetch.readers, FALSE) :
          round' = [RoundsAfter(f) EXCEPT !["repair"] = NewRound("repair", s)]
    BY <1>13 DEF RepairAnswered, Move
  <2>2. Spent(RoundsAfter(f))
    BY RoundsAfterSpent
  <2>3. \A d \in Dailies : round'[d] = RoundsAfter(f)[d]
    BY <2>1, KeysNamed DEF RoundsAfter
  <2> QED
    BY <2>2, <2>3 DEF Spent
<1>14. ASSUME UNCHANGED vars PROVE Spent(round')
  BY <1>14, SameSpent DEF vars, clientVars
<1> QED
  BY <1>1, <1>2, <1>3, <1>4, <1>5, <1>6, <1>7, <1>8, <1>9, <1>10, <1>11, <1>12, <1>13, <1>14 DEF Next

\* No page that comes or goes and no completion made twice gives a running
\* award round a read back (subscribe, register, readOnce, expire).
THEOREM BudgetIsKept == Spec => BudgetKept
<1>1. IInv /\ [Next]_vars
        => [\A d \in Dailies : (round[d].phase = "updating" /\ round'[d].phase = "updating")
                                 => round'[d].mark >= round[d].mark]_vars
  BY NextSpent DEF Spent
<1> QED
  BY InitIInv, NextIInv, <1>1, PTL DEF Spec, BudgetKept
==============================================================================
