------------------------------ MODULE TabProofs ------------------------------
(****************************************************************************)
(* Proofs about what a tab of the web application keeps: its tokens         *)
(* (SessionManager), for any set of tabs and any bounds, and its lists of   *)
(* Dailies (DailyBoard), for any Dailies, lists, requests and failures.     *)
(****************************************************************************)
EXTENDS SessionManager, DailyBoard, TLAPS

------------------------------------------------------------------------------
(* The session and its tokens (SessionManager).                              *)

Issued(tok) == tok.family \in 1..logins /\ tok.serial \in 1..MaxRotations

\* Only tokens that a login or a rotation issued are stored and presented.
TokensIssued ==
  /\ storage # NoToken => Issued(storage)
  /\ \A t \in Tabs : Rotating(t) => Issued(rotation[t].token)

Holding(t) == rotation[t].phase \in {"sent", "rotated", "invalid", "unavailable"}

\* The Web Lock has one holder.
LockOwned == \A t, u \in Tabs : Holding(t) /\ Holding(u) => t = u

\* Until an answer is lost, a token is consumed only while its rotation is
\* on the way back to the tab that holds the lock.
NeverConsumed ==
  ~lost =>
    /\ orphans = {}
    /\ \A t \in Tabs : Rotating(t) => ~Reused(rotation[t].token)
    /\ storage # NoToken /\ Reused(storage)
         => \E t \in Tabs : rotation[t].phase = "rotated"

\* No ended family is stored, or on its way back into the storage.
EndedGone ==
  /\ ended \subseteq 1..logins
  /\ storage.family \notin ended
  /\ \A t \in Tabs : Rotating(t) => rotation[t].token.family \notin ended

\* A tab that is gone waits for no answer.
ClosedAsksNothing == \A t \in Tabs : Status(t) = "closed" => ~AsksMe(t)

\* Without a session in the browser, a tab that shows protected content, or is
\* about to, has yet to hear of the end from the tab that ended it.
ProtectedHears ==
  \A t \in Tabs :
    (Status(t) = "authenticated" \/ AsksMe(t)) /\ ~crossed[t] /\ ~inbox[t] => storage # NoToken

IInv ==
  /\ TypeOK /\ TokensIssued /\ LockOwned /\ NeverConsumed /\ EndedGone
  /\ ClosedAsksNothing /\ ProtectedHears

LEMMA IInvImplies == IInv => TypeOK /\ PresentedFresh /\ EndedStaysEnded /\ ProtectedOnlyInSession
<1> SUFFICES ASSUME IInv PROVE TypeOK /\ PresentedFresh /\ EndedStaysEnded /\ ProtectedOnlyInSession
  OBVIOUS
<1>1. TypeOK
  BY DEF IInv
<1>2. PresentedFresh
  BY DEF IInv, NeverConsumed, PresentedFresh, Rotating
<1>3. EndedStaysEnded
  BY DEF IInv, EndedGone, EndedStaysEnded
<1>4. ProtectedOnlyInSession
  BY DEF IInv, ProtectedHears, ProtectedOnlyInSession
<1> QED
  BY <1>1, <1>2, <1>3, <1>4

LEMMA InitIInv == Init => IInv
<1> SUFFICES ASSUME Init PROVE IInv
  OBVIOUS
<1>0. NoToken \in Tokens /\ NoToken.family = 0 /\ 0 \in 0..MaxLogins
  BY BoundAssumption DEF NoToken, Token, Tokens
<1>1. TypeOK
  <2>1. tab \in [Tabs -> Snapshots]
    BY <1>0 DEF Init, Closed, Snapshots, Statuses
  <2>2. rotation \in [Tabs -> [phase : Phases, token : Tokens]]
    BY <1>0 DEF Init, NoRotation, Rotation, Phases
  <2>3. /\ storage \in Tokens /\ orphans \subseteq Tokens /\ ended \subseteq Families
        /\ current \in [Families -> 0..MaxRotations] /\ logins \in 0..MaxLogins
    BY <1>0, BoundAssumption DEF Init
  <2>4. /\ boots \in [Tabs -> Nat] /\ me \in [Tabs -> [Families -> Nat]]
        /\ entering \in [Tabs -> BOOLEAN] /\ leaving \in [Tabs -> 0..MaxLogins] /\ deleting \in [Tabs -> 0..MaxLogins]
    BY <1>0 DEF Init, NobodyAsks
  <2>5. /\ cleared \in [Tabs -> BOOLEAN] /\ inbox \in [Tabs -> BOOLEAN] /\ crossed \in [Tabs -> BOOLEAN]
        /\ lost \in BOOLEAN
    BY DEF Init
  <2>6. faults \in 0..MaxFaults
    BY BoundAssumption DEF Init
  <2> QED
    BY <2>1, <2>2, <2>3, <2>4, <2>5, <2>6 DEF TypeOK
<1>2. \A t \in Tabs : rotation[t].phase = "none" /\ Status(t) = "closed" /\ ~AsksMe(t)
  <2>1. \A t \in Tabs : me[t] = NobodyAsks
    BY DEF Init
  <2>2. \A t \in Tabs : ~AsksMe(t)
    <3> SUFFICES ASSUME NEW t \in Tabs PROVE ~AsksMe(t)
      OBVIOUS
    <3>1. \A f \in Families : me[t][f] = 0
      BY <2>1 DEF NobodyAsks
    <3> QED
      BY <3>1 DEF AsksMe
  <2> QED
    BY <2>2 DEF Init, NoRotation, Rotation, Status, Closed
<1>3. TokensIssued /\ LockOwned
  BY <1>2 DEF Init, TokensIssued, LockOwned, Rotating, Holding
<1>4. NeverConsumed /\ EndedGone
  BY <1>0, <1>2 DEF Init, NeverConsumed, EndedGone, Rotating
<1>5. ClosedAsksNothing /\ ProtectedHears
  BY <1>2 DEF ClosedAsksNothing, ProtectedHears
<1> QED
  BY <1>1, <1>3, <1>4, <1>5 DEF IInv

------------------------------------------------------------------------------
(* Types.                                                                    *)

LEMMA NoTokenType == NoToken \in Tokens /\ NoToken.family = 0
  BY BoundAssumption DEF NoToken, Token, Tokens

LEMMA EndInType ==
  ASSUME TypeOK, NEW t \in Tabs, EndIn(t)
  PROVE  tab' \in [Tabs -> Snapshots] /\ crossed' \in [Tabs -> BOOLEAN]
<1>1. tab[t] \in Snapshots /\ 0 \in 0..MaxLogins /\ "anonymous" \in Statuses
  BY BoundAssumption DEF TypeOK, Statuses
<1>2. [tab[t] EXCEPT !.status = "anonymous", !.user = 0, !.access = 0] \in Snapshots
  BY <1>1 DEF Snapshots
<1>3. tab' \in [Tabs -> Snapshots]
  <2>1. tab' = [tab EXCEPT ![t] = [tab[t] EXCEPT !.status = "anonymous", !.user = 0, !.access = 0]]
    BY DEF EndIn, TypeOK
  <2> QED
    BY <1>2, <2>1 DEF TypeOK
<1>4. AsksMe(t) \in BOOLEAN
  BY DEF AsksMe
<1> QED
  BY <1>3, <1>4 DEF TypeOK, EndIn

LEMMA EndInEffect ==
  ASSUME TypeOK, NEW t \in Tabs, EndIn(t)
  PROVE  /\ tab'[t].status = "anonymous" /\ crossed'[t] = AsksMe(t)
         /\ \A u \in Tabs \ {t} : tab'[u] = tab[u] /\ crossed'[u] = crossed[u]
<1>1. tab[t] \in Snapshots
  BY DEF TypeOK
<1>2. tab'[t].status = "anonymous"
  BY <1>1 DEF EndIn, TypeOK, Snapshots
<1> QED
  BY <1>2 DEF EndIn, TypeOK

LEMMA EndSessionType ==
  ASSUME TypeOK, NEW t \in Tabs, EndSession(t)
  PROVE  /\ storage' \in Tokens /\ tab' \in [Tabs -> Snapshots] /\ crossed' \in [Tabs -> BOOLEAN]
         /\ cleared' \in [Tabs -> BOOLEAN] /\ inbox' \in [Tabs -> BOOLEAN] /\ ended' \subseteq Families
<1>1. tab' \in [Tabs -> Snapshots] /\ crossed' \in [Tabs -> BOOLEAN]
  BY EndInType DEF EndSession
<1>2. storage' = NoToken
  BY DEF EndSession, ClearStorage
<1>3. cleared' \in [Tabs -> BOOLEAN]
  <2>1. \A u \in Tabs : (IF u \in Others(t) THEN cleared[u] \/ storage # NoToken ELSE cleared[u]) \in BOOLEAN
    BY DEF TypeOK
  <2> QED
    BY <2>1 DEF EndSession, ClearStorage
<1>4. inbox' \in [Tabs -> BOOLEAN]
  <2>1. \A u \in Tabs : (inbox[u] \/ u \in Others(t)) \in BOOLEAN
    OBVIOUS
  <2> QED
    BY <2>1 DEF EndSession, Announce
<1>5. ended' \subseteq Families
  <2>1. storage.family \in 0..MaxLogins
    BY DEF TypeOK, Tokens
  <2>2. ended' \subseteq ended \cup ({storage.family} \ {0})
    BY DEF EndSession, ClearStorage
  <2>3. {storage.family} \ {0} \subseteq Families
    BY <2>1, BoundAssumption DEF Families
  <2> QED
    BY <2>2, <2>3 DEF TypeOK
<1> QED
  BY <1>1, <1>2, <1>3, <1>4, <1>5, NoTokenType

Rotations == [phase : Phases, token : Tokens]

\* Where a rotation may stand after a step of its tab.
LEMMA RotationType ==
  ASSUME TypeOK, NEW t \in Tabs, NEW p \in Phases, NEW tok \in Tokens
  PROVE  /\ [rotation EXCEPT ![t] = Rotation(p, tok)] \in [Tabs -> Rotations]
         /\ [rotation EXCEPT ![t] = NoRotation] \in [Tabs -> Rotations]
         /\ [rotation EXCEPT ![t].phase = p] \in [Tabs -> Rotations]
<1>1. Rotation(p, tok) \in Rotations /\ NoRotation \in Rotations
  BY NoTokenType DEF Rotation, Rotations, NoRotation, Phases
<1>2. [rotation[t] EXCEPT !.phase = p] \in Rotations
  BY DEF TypeOK, Rotations
<1> QED
  BY <1>1, <1>2 DEF TypeOK, Rotations

\* The rotation of t joins the one under way, or waits for the lock.
LEMMA QueuedType ==
  ASSUME TypeOK, NEW t \in Tabs
  PROVE  [rotation EXCEPT ![t] = IF @.phase = "none" THEN Rotation("queued", NoToken) ELSE @] \in [Tabs -> Rotations]
<1>1. rotation[t] \in Rotations /\ Rotation("queued", NoToken) \in Rotations
  BY NoTokenType DEF TypeOK, Rotation, Rotations, Phases
<1> QED
  BY <1>1 DEF TypeOK, Rotations

LEMMA FaultType == ASSUME TypeOK, Fault PROVE faults' \in 0..MaxFaults
  BY BoundAssumption DEF TypeOK, Fault

LEMMA SnapshotType ==
  ASSUME NEW x \in Snapshots, NEW s \in Statuses, NEW f \in 0..MaxLogins, NEW g \in 0..MaxLogins
  PROVE  /\ [x EXCEPT !.status = s] \in Snapshots
         /\ [x EXCEPT !.access = f] \in Snapshots
         /\ [[x EXCEPT !.access = f] EXCEPT !.status = s] \in Snapshots
         /\ [x EXCEPT !.status = s, !.user = f] \in Snapshots
         /\ [status |-> s, user |-> f, access |-> g] \in Snapshots
  BY DEF Snapshots

LEMMA TabType ==
  ASSUME TypeOK, NEW t \in Tabs, NEW x \in Snapshots
  PROVE  [tab EXCEPT ![t] = x] \in [Tabs -> Snapshots]
  BY DEF TypeOK

LEMMA TabStatusType ==
  ASSUME TypeOK, NEW t \in Tabs, NEW s \in Statuses
  PROVE  [tab EXCEPT ![t].status = s] \in [Tabs -> Snapshots]
<1>1. tab[t] \in Snapshots
  BY DEF TypeOK
<1>2. [tab[t] EXCEPT !.status = s] \in Snapshots
  BY <1>1 DEF Snapshots
<1> QED
  BY <1>2 DEF TypeOK

LEMMA BootstrapType ==
  ASSUME TypeOK, NEW t \in Tabs, NEW x \in Snapshots, Bootstrap(t, x)
  PROVE  /\ tab' \in [Tabs -> Snapshots]
         /\ storage # NoToken \/ (rotation' = rotation /\ boots' = boots)
         /\ storage = NoToken \/ (rotation' \in [Tabs -> Rotations] /\ boots' \in [Tabs -> Nat])
<1>1. CASE storage = NoToken
  <2>0. "anonymous" \in Statuses /\ 0 \in 0..MaxLogins
    BY BoundAssumption DEF Statuses
  <2>1. [x EXCEPT !.status = "anonymous", !.user = 0] \in Snapshots
    BY <2>0, SnapshotType
  <2> QED
    BY <1>1, <2>1, TabType DEF Bootstrap
<1>2. CASE storage # NoToken
  <2>1. /\ tab' = [tab EXCEPT ![t] = x] /\ boots' = [boots EXCEPT ![t] = @ + 1]
        /\ rotation' = [rotation EXCEPT ![t] = IF @.phase = "none" THEN Rotation("queued", NoToken) ELSE @]
    BY <1>2 DEF Bootstrap
  <2>2. boots' \in [Tabs -> Nat]
    BY <2>1 DEF TypeOK
  <2>3. tab' \in [Tabs -> Snapshots]
    BY <2>1, TabType
  <2>4. rotation' \in [Tabs -> Rotations]
    BY <2>1, QueuedType
  <2> QED
    BY <1>2, <2>2, <2>3, <2>4
<1> QED
  BY <1>1, <1>2

LEMMA AskedMore ==
  ASSUME NEW g \in [Families -> Nat], NEW f, NEW n \in Nat
  PROVE  [g EXCEPT ![f] = @ + n] \in [Families -> Nat]
<1>1. \A h \in Families : g[h] + n \in Nat
  OBVIOUS
<1> QED
  BY <1>1

LEMMA RevokedType == ASSUME TypeOK, NEW f PROVE Revoked(f) \in [Families -> 0..MaxRotations]
<1>1. 0 \in 0..MaxRotations
  BY BoundAssumption
<1> QED
  BY <1>1 DEF Revoked, TypeOK

\* The steps that rotate a token, and those that the lock orders.
LEMMA RotationTypes ==
  ASSUME TypeOK, NEW t \in Tabs,
         AcquireLock(t) \/ FindsNoToken(t) \/ RefreshRefused(t) \/ FinishRefresh(t) \/ RefreshUnavailable(t)
           \/ ServerRotates(t) \/ ServerUnavailable(t) \/ AnswerLost(t)
  PROVE  TypeOK'
<1>a. /\ rotation \in [Tabs -> Rotations] /\ rotation[t].token \in Tokens /\ tab[t] \in Snapshots
      /\ tab[t].user \in 0..MaxLogins
      /\ "authenticated" \in Statuses /\ "unavailable" \in Statuses
      /\ {"sent", "rotated", "invalid", "unavailable"} \subseteq Phases
  BY DEF TypeOK, Rotations, Snapshots, Statuses, Phases
<1>1. CASE AcquireLock(t)
  <2>1. rotation' = [rotation EXCEPT ![t] = Rotation("sent", storage)]
        /\ UNCHANGED <<storage, serverVars, tab, waitVars, eventVars, faults, historyVars>>
    BY <1>1 DEF AcquireLock
  <2>2. storage \in Tokens
    BY DEF TypeOK
  <2>3. rotation' \in [Tabs -> Rotations]
    BY <1>a, <2>1, <2>2, RotationType
  <2> QED
    BY <2>1, <2>3 DEF TypeOK, Rotations, serverVars, bootVars, waitVars, eventVars, historyVars
<1>2. CASE FindsNoToken(t) \/ RefreshRefused(t)
  <2>1. /\ rotation' = [rotation EXCEPT ![t] = NoRotation] /\ EndSession(t)
        /\ boots' = [boots EXCEPT ![t] = 0]
        /\ UNCHANGED <<serverVars, me, entering, leaving, deleting, faults, lost>>
    BY <1>2 DEF FindsNoToken, RefreshRefused, RefreshTerminates
  <2>2. rotation' \in [Tabs -> Rotations]
    BY <1>a, <2>1, RotationType
  <2>3. boots' \in [Tabs -> Nat]
    BY <2>1 DEF TypeOK
  <2> QED
    BY <2>1, <2>2, <2>3, EndSessionType DEF TypeOK, Rotations, serverVars
<1>3. CASE FinishRefresh(t)
  <2> DEFINE f == rotation[t].token.family
             done == [tab[t] EXCEPT !.access = f]
             x == IF Status(t) # "bootstrapping" \/ (boots[t] > 0 /\ tab[t].user # 0)
                    THEN [done EXCEPT !.status = "authenticated"] ELSE done
  <2>1. f \in 0..MaxLogins
    BY <1>a DEF Tokens
  <2>2. x \in Snapshots
    BY <1>a, <2>1, SnapshotType
  <2>3. tab' = [tab EXCEPT ![t] = x]
    BY <1>3 DEF FinishRefresh
  <2>4. storage' \in Tokens /\ rotation' \in [Tabs -> Rotations]
    BY <1>3, <1>a, RotationType DEF FinishRefresh
  <2>5. boots' \in [Tabs -> Nat] /\ me' \in [Tabs -> [Families -> Nat]]
    <3>1. me[t] \in [Families -> Nat] /\ boots[t] \in Nat
      BY DEF TypeOK
    <3>2. [me[t] EXCEPT ![f] = @ + boots[t]] \in [Families -> Nat]
      BY <3>1, AskedMore
    <3>3. me' = me \/ me' = [me EXCEPT ![t] = [me[t] EXCEPT ![f] = @ + boots[t]]]
      BY <1>3 DEF FinishRefresh, TypeOK
    <3>4. boots' = [boots EXCEPT ![t] = 0]
      BY <1>3 DEF FinishRefresh
    <3> HIDE DEF f
    <3> QED
      BY <3>2, <3>3, <3>4 DEF TypeOK
  <2>6. tab' \in [Tabs -> Snapshots]
    <3> HIDE DEF x
    <3> QED
      BY <2>2, <2>3, TabType
  <2>7. UNCHANGED <<serverVars, entering, leaving, deleting, eventVars, faults, historyVars>>
    BY <1>3 DEF FinishRefresh
  <2> QED
    BY <2>4, <2>5, <2>6, <2>7 DEF TypeOK, Rotations, serverVars, eventVars, historyVars
<1>4. CASE RefreshUnavailable(t)
  <2>1. rotation' \in [Tabs -> Rotations] /\ tab' \in [Tabs -> Snapshots]
    BY <1>4, <1>a, RotationType, TabStatusType DEF RefreshUnavailable
  <2>2. boots' \in [Tabs -> Nat]
    BY <1>4 DEF RefreshUnavailable, TypeOK
  <2> QED
    BY <1>4, <2>1, <2>2 DEF RefreshUnavailable, TypeOK, Rotations, serverVars, eventVars, historyVars
<1>5. CASE ServerRotates(t)
  <2> DEFINE tok == rotation[t].token
  <2>1. UNCHANGED <<storage, logins, orphans, tab, waitVars, eventVars, faults, historyVars>>
    BY <1>5 DEF ServerRotates
  <2>2. CASE Live(tok) /\ tok.serial < MaxRotations /\ current' = Rotated(tok)
             /\ rotation' = [rotation EXCEPT ![t] = Rotation("rotated", Token(tok.family, tok.serial + 1))]
    <3>1. Token(tok.family, tok.serial + 1) \in Tokens
      BY <1>a, <2>2, BoundAssumption DEF Token, Tokens
    <3>2. rotation' \in [Tabs -> Rotations]
      BY <1>a, <2>2, <3>1, RotationType
    <3>3. current' \in [Families -> 0..MaxRotations]
      <4>1. current[tok.family] < MaxRotations /\ current \in [Families -> 0..MaxRotations] /\ tok.family \in 0..MaxLogins
        BY <1>a, <2>2 DEF TypeOK, Live, Tokens
      <4>2. current' = [current EXCEPT ![tok.family] = @ + 1]
        BY <2>2 DEF Rotated
      <4>3. \A g \in Families : g = tok.family => current[g] + 1 \in 0..MaxRotations
        BY <4>1, BoundAssumption
      <4> HIDE DEF tok
      <4> QED
        BY <4>1, <4>2, <4>3
    <3> QED
      BY <2>1, <3>2, <3>3 DEF TypeOK, Rotations, bootVars, waitVars, eventVars, historyVars
  <2>3. CASE (current' = Revoked(tok.family) \/ UNCHANGED current)
             /\ rotation' = [rotation EXCEPT ![t].phase = "invalid"]
    <3>1. rotation' \in [Tabs -> Rotations]
      BY <1>a, <2>3, RotationType
    <3>2. current' \in [Families -> 0..MaxRotations]
      BY <2>3, RevokedType DEF TypeOK
    <3> QED
      BY <2>1, <3>1, <3>2 DEF TypeOK, Rotations, bootVars, waitVars, eventVars, historyVars
  <2> QED
    BY <1>5, <2>2, <2>3 DEF ServerRotates, Revoke
<1>6. CASE ServerUnavailable(t) \/ AnswerLost(t)
  <2>1. rotation' = [rotation EXCEPT ![t].phase = "unavailable"]
    BY <1>6 DEF ServerUnavailable, AnswerLost
  <2>2. rotation' \in [Tabs -> Rotations]
    BY <1>a, <2>1, RotationType
  <2>3. faults' \in 0..MaxFaults /\ lost' \in BOOLEAN
    <3>1. UNCHANGED faults \/ Fault
      BY <1>6 DEF ServerUnavailable, AnswerLost
    <3>2. UNCHANGED lost \/ lost' = TRUE
      BY <1>6 DEF ServerUnavailable, AnswerLost, historyVars
    <3>3. lost' \in BOOLEAN
      BY <3>2 DEF TypeOK
    <3> QED
      BY <3>1, <3>3, FaultType DEF TypeOK
  <2> QED
    BY <1>6, <2>2, <2>3 DEF ServerUnavailable, AnswerLost, TypeOK, Rotations, serverVars, bootVars, waitVars, eventVars, historyVars
<1> QED
  BY <1>1, <1>2, <1>3, <1>4, <1>5, <1>6

LEMMA MeEndsType ==
  ASSUME TypeOK, NEW t \in Tabs, NEW f \in Families, MeEnds(t, f)
  PROVE  me' \in [Tabs -> [Families -> Nat]]
<1>1. me[t] \in [Families -> Nat] /\ me[t][f] > 0
  BY DEF TypeOK, MeEnds
<1>2. [me[t] EXCEPT ![f] = @ - 1] \in [Families -> Nat]
  BY <1>1
<1>3. me' = [me EXCEPT ![t] = [me[t] EXCEPT ![f] = @ - 1]]
  BY DEF MeEnds, TypeOK
<1> QED
  BY <1>2, <1>3 DEF TypeOK

LEMMA OpeningTypes ==
  ASSUME TypeOK, NEW t \in Tabs,
         \/ OpenTab(t) \/ RetryBootstrap(t) \/ CloseTab(t)
         \/ \E f \in Families : BootstrapDone(t, f) \/ BootstrapFails(t, f)
  PROVE  TypeOK'
<1>a. /\ tab[t] \in Snapshots /\ tab[t].user \in 0..MaxLogins /\ 0 \in 0..MaxLogins
      /\ {"bootstrapping", "closed", "authenticated", "unavailable"} \subseteq Statuses
  BY BoundAssumption DEF TypeOK, Snapshots, Statuses
<1>b. Closed \in Snapshots
  BY <1>a, SnapshotType DEF Closed
<1>1. CASE OpenTab(t) \/ RetryBootstrap(t)
  <2>1. PICK x \in Snapshots : Bootstrap(t, x)
    BY <1>1, <1>a, <1>b, SnapshotType DEF OpenTab, RetryBootstrap
  <2>2. /\ tab' \in [Tabs -> Snapshots]
        /\ rotation' \in [Tabs -> Rotations]
        /\ boots' \in [Tabs -> Nat]
    BY <2>1, BootstrapType DEF TypeOK, Rotations
  <2>3. crossed' \in [Tabs -> BOOLEAN]
    BY <1>1 DEF OpenTab, RetryBootstrap, TypeOK, historyVars
  <2> QED
    BY <1>1, <2>2, <2>3 DEF OpenTab, RetryBootstrap, TypeOK, Rotations, serverVars, eventVars, historyVars
<1>2. CASE CloseTab(t)
  <2>1. tab' \in [Tabs -> Snapshots]
    BY <1>2, <1>b, TabType DEF CloseTab
  <2>2. rotation' \in [Tabs -> Rotations]
    <3>1. NoToken \in Tokens /\ "none" \in Phases
      BY NoTokenType DEF Phases
    <3> QED
      BY <1>2, <3>1, RotationType DEF CloseTab
  <2>3. orphans' \subseteq Tokens
    <3>1. rotation[t].token \in Tokens
      BY DEF TypeOK
    <3> QED
      BY <1>2, <3>1 DEF CloseTab, TypeOK
  <2>4. /\ boots' \in [Tabs -> Nat] /\ me' \in [Tabs -> [Families -> Nat]]
        /\ entering' \in [Tabs -> BOOLEAN] /\ leaving' \in [Tabs -> 0..MaxLogins] /\ deleting' \in [Tabs -> 0..MaxLogins]
    BY <1>2, <1>a DEF CloseTab, TypeOK, NobodyAsks
  <2>5. cleared' \in [Tabs -> BOOLEAN] /\ inbox' \in [Tabs -> BOOLEAN] /\ crossed' \in [Tabs -> BOOLEAN]
    BY <1>2 DEF CloseTab, TypeOK
  <2>6. lost' \in BOOLEAN
    <3>1. (lost \/ Rotating(t)) \in BOOLEAN
      OBVIOUS
    <3> QED
      BY <1>2, <3>1 DEF CloseTab
  <2>7. faults' \in 0..MaxFaults /\ UNCHANGED <<storage, current, logins, ended>>
    BY <1>2, FaultType DEF CloseTab
  <2> QED
    BY <2>1, <2>2, <2>3, <2>4, <2>5, <2>6, <2>7 DEF TypeOK, Rotations
<1>3. ASSUME NEW f \in Families, BootstrapDone(t, f) PROVE TypeOK'
  <2> DEFINE x == [tab[t] EXCEPT !.status = "authenticated", !.user = f]
  <2>1. x \in Snapshots
    <3>1. f \in 0..MaxLogins
      BY BoundAssumption DEF Families
    <3> QED
      BY <1>a, <3>1, SnapshotType
  <2>2. tab' = [tab EXCEPT ![t] = x]
    BY <1>3 DEF BootstrapDone, TypeOK
  <2>3. tab' \in [Tabs -> Snapshots]
    <3> HIDE DEF x
    <3> QED
      BY <2>1, <2>2, TabType
  <2>4. me' \in [Tabs -> [Families -> Nat]] /\ UNCHANGED <<boots, entering, leaving, deleting>>
    BY <1>3, MeEndsType DEF BootstrapDone, MeEnds
  <2> QED
    BY <1>3, <2>3, <2>4 DEF BootstrapDone, TypeOK, serverVars, eventVars, historyVars
<1>4. ASSUME NEW f \in Families, BootstrapFails(t, f) PROVE TypeOK'
  <2>1. /\ me' \in [Tabs -> [Families -> Nat]] /\ UNCHANGED <<boots, entering, leaving, deleting>>
        /\ faults' \in 0..MaxFaults
    BY <1>4, FaultType, MeEndsType DEF BootstrapFails, MeEnds
  <2>2. UNCHANGED <<serverVars, rotation, lost>>
    BY <1>4 DEF BootstrapFails
  <2>3. CASE EndSession(t)
    BY <2>1, <2>2, <2>3, EndSessionType DEF TypeOK, serverVars
  <2>4. CASE /\ tab' = [tab EXCEPT ![t].status = "unavailable"]
             /\ UNCHANGED <<storage, eventVars, crossed, ended>>
    <3>1. tab' \in [Tabs -> Snapshots]
      BY <1>a, <2>4, TabStatusType
    <3> QED
      BY <2>1, <2>2, <2>4, <3>1 DEF TypeOK, serverVars, eventVars
  <2> QED
    BY <1>4, <2>3, <2>4 DEF BootstrapFails
<1> QED
  BY <1>1, <1>2, <1>3, <1>4

LEMMA SessionTypes ==
  ASSUME TypeOK, NEW t \in Tabs,
         \/ StartLogin(t) \/ LoginFails(t) \/ Login(t) \/ RefreshDue(t)
         \/ StartLogout(t) \/ ServerRevokes(t) \/ LogoutEnds(t)
         \/ StartDelete(t) \/ AccountDeleted(t) \/ DeleteDone(t) \/ DeleteFails(t)
         \/ DeliverStorageEvent(t) \/ DeliverBroadcast(t)
  PROVE  TypeOK'
<1>a. /\ tab[t] \in Snapshots /\ tab[t].access \in 0..MaxLogins /\ leaving[t] \in 0..MaxLogins
      /\ storage.family \in 0..MaxLogins /\ 0 \in 0..MaxLogins /\ 0 \in 0..MaxRotations
  BY BoundAssumption DEF TypeOK, Snapshots, Tokens
<1>r. \A f : Revoked(f) \in [Families -> 0..MaxRotations]
  BY RevokedType
<1>1. CASE Login(t)
  <2> DEFINE f == logins + 1
  <2>1. f \in 0..MaxLogins /\ f \in Families /\ 1 \in 0..MaxRotations
    BY <1>1, BoundAssumption DEF Login, TypeOK, Families
  <2>2. Token(f, 1) \in Tokens
    BY <2>1 DEF Token, Tokens
  <2>3. [status |-> "authenticated", user |-> f, access |-> f] \in Snapshots
    BY <2>1 DEF Snapshots, Statuses
  <2>4. tab' \in [Tabs -> Snapshots]
    <3>1. tab' = [tab EXCEPT ![t] = [status |-> "authenticated", user |-> f, access |-> f]]
      BY <1>1 DEF Login
    <3> HIDE DEF f
    <3> QED
      BY <2>3, <3>1, TabType
  <2>5. current' \in [Families -> 0..MaxRotations] /\ crossed' \in [Tabs -> BOOLEAN]
    BY <1>1, <2>1 DEF Login, TypeOK
  <2>6. storage' \in Tokens /\ logins' \in 0..MaxLogins
        /\ entering' \in [Tabs -> BOOLEAN]
        /\ UNCHANGED <<orphans, rotation, bootVars, leaving, deleting, eventVars, faults, lost, ended>>
    BY <1>1, <2>1, <2>2 DEF Login, TypeOK
  <2> QED
    BY <2>4, <2>5, <2>6 DEF TypeOK, bootVars, eventVars
<1>2. CASE RefreshDue(t)
  <2>1. Refresh(t) /\ UNCHANGED <<serverVars, waitVars, faults, lost>>
    BY <1>2 DEF RefreshDue
  <2>2. CASE HasToken(t)
    <3>1. rotation' \in [Tabs -> Rotations] /\ UNCHANGED <<storage, tab, eventVars, crossed, ended>>
      BY <2>1, <2>2, QueuedType DEF Refresh
    <3> QED
      BY <2>1, <3>1 DEF TypeOK, Rotations, serverVars, bootVars, waitVars, eventVars
  <2>3. CASE ~HasToken(t)
    <3>1. EndSession(t) /\ UNCHANGED rotation
      BY <2>1, <2>3 DEF Refresh
    <3> QED
      BY <2>1, <3>1, EndSessionType DEF TypeOK, serverVars, bootVars, waitVars
  <2> QED
    BY <2>2, <2>3
<1>3. CASE StartLogout(t)
  <2>1. UNCHANGED <<serverVars, rotation, boots, me, entering, deleting, faults, lost>>
    BY <1>3 DEF StartLogout, bootVars
  <2>2. CASE storage = NoToken
    BY <1>3, <2>1, <2>2, EndSessionType DEF StartLogout, TypeOK, serverVars
  <2>3. CASE storage # NoToken
    BY <1>3, <1>a, <2>1, <2>3 DEF StartLogout, TypeOK, serverVars, eventVars
  <2> QED
    BY <2>2, <2>3
<1>4. CASE ServerRevokes(t)
  BY <1>4, <1>r DEF ServerRevokes, Revoke, TypeOK, bootVars, waitVars, eventVars, historyVars
<1>5. CASE LogoutEnds(t)
  <2>1. leaving' \in [Tabs -> 0..MaxLogins]
    BY <1>5, <1>a DEF LogoutEnds, TypeOK
  <2> QED
    BY <1>5, <2>1, EndSessionType DEF LogoutEnds, TypeOK, serverVars, bootVars
<1>6. CASE DeleteDone(t)
  <2>1. deleting' \in [Tabs -> 0..MaxLogins]
    BY <1>6, <1>a DEF DeleteDone, TypeOK
  <2> QED
    BY <1>6, <2>1, EndSessionType DEF DeleteDone, TypeOK, serverVars, bootVars
<1>7. CASE DeliverStorageEvent(t)
  <2>1. cleared' \in [Tabs -> BOOLEAN]
    BY <1>7 DEF DeliverStorageEvent, TypeOK
  <2>2. tab' \in [Tabs -> Snapshots] /\ crossed' \in [Tabs -> BOOLEAN]
    BY <1>7, EndInType DEF DeliverStorageEvent, TypeOK
  <2> QED
    BY <1>7, <2>1, <2>2 DEF DeliverStorageEvent, TypeOK, serverVars, bootVars, waitVars
<1>8. CASE DeliverBroadcast(t)
  <2>1. inbox' \in [Tabs -> BOOLEAN]
    BY <1>8 DEF DeliverBroadcast, TypeOK
  <2>2. tab' \in [Tabs -> Snapshots] /\ crossed' \in [Tabs -> BOOLEAN]
    BY <1>8, EndInType DEF DeliverBroadcast, TypeOK
  <2> QED
    BY <1>8, <2>1, <2>2 DEF DeliverBroadcast, TypeOK, serverVars, bootVars, waitVars
<1>9. CASE StartLogin(t) \/ LoginFails(t)
  <2>1. /\ entering' \in [Tabs -> BOOLEAN]
        /\ UNCHANGED <<storage, serverVars, tab, rotation, bootVars, leaving, deleting, eventVars, faults, historyVars>>
    BY <1>9 DEF StartLogin, LoginFails, TypeOK
  <2> QED
    BY <2>1 DEF TypeOK, serverVars, bootVars, eventVars, historyVars
<1>10. CASE StartDelete(t) \/ DeleteFails(t)
  <2>1. /\ deleting' \in [Tabs -> 0..MaxLogins] /\ faults' \in 0..MaxFaults
        /\ UNCHANGED <<storage, serverVars, tab, rotation, bootVars, entering, leaving, eventVars, historyVars>>
    BY <1>10, <1>a, FaultType DEF StartDelete, DeleteFails, TypeOK
  <2> QED
    BY <2>1 DEF TypeOK, serverVars, bootVars, eventVars, historyVars
<1>11. CASE AccountDeleted(t)
  BY <1>11, <1>r DEF AccountDeleted, TypeOK, bootVars, waitVars, eventVars, historyVars
<1> QED
  BY <1>1, <1>2, <1>3, <1>4, <1>5, <1>6, <1>7, <1>8, <1>9, <1>10, <1>11

LEMMA NextType == TypeOK /\ [Next]_vars => TypeOK'
<1> SUFFICES ASSUME TypeOK, [Next]_vars PROVE TypeOK'
  OBVIOUS
<1>r. \A f : Revoked(f) \in [Families -> 0..MaxRotations]
  BY RevokedType
<1>1. ASSUME NEW tok \in orphans, ServerHandlesOrphan(tok) PROVE TypeOK'
  <2>1. orphans' \subseteq Tokens /\ UNCHANGED <<storage, logins, tab, rotation, waitVars, eventVars, faults, historyVars>>
    BY <1>1 DEF ServerHandlesOrphan, TypeOK
  <2>2. current' \in [Families -> 0..MaxRotations]
    <3>1. CASE Live(tok) /\ tok.serial < MaxRotations /\ current' = Rotated(tok)
      <4>1. current[tok.family] < MaxRotations /\ current \in [Families -> 0..MaxRotations]
        BY <3>1 DEF Live, TypeOK
      <4>2. current' = [current EXCEPT ![tok.family] = @ + 1]
        BY <3>1 DEF Rotated
      <4>3. \A g \in Families : g = tok.family => current[g] + 1 \in 0..MaxRotations
        BY <4>1, BoundAssumption
      <4> QED
        BY <4>1, <4>2, <4>3
    <3>2. CASE current' = Revoked(tok.family) \/ UNCHANGED current
      BY <1>r, <3>2 DEF TypeOK
    <3> QED
      BY <1>1, <3>1, <3>2 DEF ServerHandlesOrphan, Revoke
  <2> QED
    BY <2>1, <2>2 DEF TypeOK, bootVars, waitVars, eventVars, historyVars
<1>2. ASSUME NEW f \in Families, FamilyExpires(f) PROVE TypeOK'
  BY <1>2, <1>r, FaultType DEF FamilyExpires, TypeOK, bootVars, waitVars, eventVars, historyVars
<1>3. ASSUME NEW t \in Tabs,
             AcquireLock(t) \/ FindsNoToken(t) \/ RefreshRefused(t) \/ FinishRefresh(t) \/ RefreshUnavailable(t)
               \/ ServerRotates(t) \/ ServerUnavailable(t) \/ AnswerLost(t)
      PROVE TypeOK'
  BY <1>3, RotationTypes
<1>4. ASSUME NEW t \in Tabs,
             \/ OpenTab(t) \/ RetryBootstrap(t) \/ CloseTab(t)
             \/ \E f \in Families : BootstrapDone(t, f) \/ BootstrapFails(t, f)
      PROVE TypeOK'
  BY <1>4, OpeningTypes
<1>5. ASSUME NEW t \in Tabs,
             \/ StartLogin(t) \/ LoginFails(t) \/ Login(t) \/ RefreshDue(t)
             \/ StartLogout(t) \/ ServerRevokes(t) \/ LogoutEnds(t)
             \/ StartDelete(t) \/ AccountDeleted(t) \/ DeleteDone(t) \/ DeleteFails(t)
             \/ DeliverStorageEvent(t) \/ DeliverBroadcast(t)
      PROVE TypeOK'
  BY <1>5, SessionTypes
<1>6. ASSUME UNCHANGED vars PROVE TypeOK'
  BY <1>6 DEF vars, serverVars, bootVars, waitVars, eventVars, historyVars, TypeOK
<1> QED
  BY <1>1, <1>2, <1>3, <1>4, <1>5, <1>6 DEF Next

------------------------------------------------------------------------------
(* Tokens.                                                                   *)

TokenInv == TokensIssued /\ LockOwned /\ NeverConsumed /\ EndedGone

LEMMA IssuedTokens ==
  ASSUME TypeOK, TokensIssued
  PROVE  /\ logins \in 0..MaxLogins /\ 1..logins \subseteq Families
         /\ storage.family \in 0..logins /\ (storage.family = 0 => storage = NoToken)
         /\ \A f \in Families : current[f] \in Nat
         /\ \A tok : Issued(tok) => tok.family \in Families /\ tok.serial \in Nat \ {0}
<1>1. logins \in 0..MaxLogins /\ MaxLogins \in Nat /\ MaxRotations \in Nat
  BY BoundAssumption DEF TypeOK
<1>2. storage.family \in 0..logins /\ (storage.family = 0 => storage = NoToken)
  <2>1. CASE storage = NoToken
    BY <1>1, <2>1, NoTokenType
  <2>2. CASE storage # NoToken
    BY <1>1, <2>2 DEF TokensIssued, Issued
  <2> QED
    BY <2>1, <2>2
<1>3. \A f \in Families : current[f] \in Nat
  BY <1>1 DEF TypeOK
<1> QED
  BY <1>1, <1>2, <1>3 DEF Families, Issued

\* A token that is revoked is not one that was consumed.
LEMMA RevokedIsNotReused ==
  ASSUME TypeOK, TokensIssued, NEW tok, Issued(tok), current' = current \/ \E f : current' = Revoked(f),
         tok.serial < current'[tok.family]
  PROVE  Reused(tok)
<1>1. tok.family \in Families /\ tok.serial \in Nat \ {0}
  BY IssuedTokens
<1>2. current'[tok.family] = current[tok.family] \/ current'[tok.family] = 0
  BY <1>1 DEF Revoked, TypeOK
<1> QED
  BY <1>1, <1>2 DEF Reused

\* The step lets nobody hold or present a token who did not before.
NobodyPresents ==
  \A u \in Tabs :
    \/ rotation'[u] = rotation[u]
    \/ /\ rotation[u].phase # "rotated" \/ lost'
       /\ ~Rotating(u)'
       /\ Holding(u)' => Holding(u)

StoredOrEnded ==
  \/ storage' = storage /\ ended' = ended
  \/ storage' = NoToken /\ ended' = IF \E u \in Tabs : Rotating(u) THEN ended
                                      ELSE ended \cup ({storage.family} \ {0})

(* A step after which nobody holds or presents a token who did not before:    *)
(* rotations end or come to nothing, sessions end, families are revoked.      *)
LEMMA CalmStep ==
  ASSUME TypeOK, TokenInv, logins' = logins,
         lost => lost', orphans' = orphans \/ lost',
         current' = current \/ (\E f : current' = Revoked(f)) \/ lost',
         NobodyPresents, StoredOrEnded
  PROVE  TokenInv'
<1> USE DEF NobodyPresents, StoredOrEnded
<1>0. TokensIssued /\ LockOwned /\ NeverConsumed /\ EndedGone
  BY DEF TokenInv
<1>1. \A u \in Tabs : Rotating(u)' => rotation'[u] = rotation[u] /\ Rotating(u)
  BY DEF Rotating
<1>2. TokensIssued'
  BY <1>0, <1>1 DEF TokensIssued, Issued
<1>3. LockOwned'
  <2>1. \A u \in Tabs : Holding(u)' => Holding(u)
    BY DEF Holding
  <2> QED
    BY <1>0, <2>1 DEF LockOwned
<1>4. NeverConsumed'
  <2> SUFFICES ASSUME ~lost' PROVE NeverConsumed'
    BY DEF NeverConsumed
  <2>1. orphans' = {} /\ ~lost
    BY <1>0 DEF NeverConsumed
  <2>2. \A t \in Tabs : Rotating(t)' => ~Reused(rotation[t].token)'
    <3> SUFFICES ASSUME NEW t \in Tabs, Rotating(t)', Reused(rotation[t].token)' PROVE FALSE
      OBVIOUS
    <3>1. rotation'[t].token = rotation[t].token /\ Rotating(t) /\ Issued(rotation[t].token)
      BY <1>0, <1>1 DEF TokensIssued
    <3>2. ~Reused(rotation[t].token)
      BY <1>0, <2>1, <3>1 DEF NeverConsumed
    <3>3. rotation'[t].token.serial < current'[rotation'[t].token.family]
      BY DEF Reused
    <3>4. Reused(rotation[t].token)
      BY <1>0, <3>1, <3>3, RevokedIsNotReused
    <3> QED
      BY <3>2, <3>4
  <2>3. ASSUME storage' # NoToken, Reused(storage)' PROVE \E t \in Tabs : rotation'[t].phase = "rotated"
    <3>1. storage' = storage /\ Issued(storage)
      BY <1>0, <2>3 DEF TokensIssued
    <3>2. storage.family \in Families /\ storage.serial \in Nat \ {0}
      BY <1>0, <3>1, IssuedTokens
    <3>3. storage.serial < current'[storage.family]
      BY <2>3, <3>1 DEF Reused
    <3>6. Reused(storage)
      BY <1>0, <3>1, <3>3, RevokedIsNotReused
    <3>7. PICK t \in Tabs : rotation[t].phase = "rotated"
      BY <1>0, <2>1, <2>3, <3>1, <3>6 DEF NeverConsumed
    <3>8. rotation'[t] = rotation[t]
      BY <3>7
    <3> QED
      BY <3>7, <3>8
  <2> QED
    BY <2>1, <2>2, <2>3 DEF NeverConsumed
<1>5. EndedGone'
  <2>1. CASE storage' = storage /\ ended' = ended
    BY <1>0, <1>1, <2>1 DEF EndedGone
  <2>2. CASE storage' = NoToken /\ ended' = IF \E u \in Tabs : Rotating(u) THEN ended
                                             ELSE ended \cup ({storage.family} \ {0})
    <3>1. ended' \subseteq 1..logins /\ storage'.family = 0 /\ 0 \notin 1..logins
      <4>1. storage.family \in 0..logins /\ logins \in Nat
        BY <1>0, IssuedTokens
      <4>2. {storage.family} \ {0} \subseteq 1..logins
        BY <4>1
      <4>3. ended' \subseteq ended \cup ({storage.family} \ {0})
        BY <2>2
      <4>4. ended' \subseteq 1..logins
        BY <1>0, <4>2, <4>3 DEF EndedGone
      <4>5. storage'.family = 0
        BY <2>2, NoTokenType
      <4>6. 0 \notin 1..logins
        BY <4>1
      <4> QED
        BY <4>4, <4>5, <4>6
    <3>2. \A t \in Tabs : Rotating(t)' => ended' = ended
      BY <1>1, <2>2
    <3> QED
      BY <1>0, <1>1, <3>1, <3>2 DEF EndedGone
  <2> QED
    BY <2>1, <2>2
<1> QED
  BY <1>2, <1>3, <1>4, <1>5 DEF TokenInv

\* EndSession, seen from the tokens.
LEMMA EndSessionTokens ==
  ASSUME NEW t, EndSession(t)
  PROVE  StoredOrEnded
  BY DEF EndSession, ClearStorage, StoredOrEnded

\* A tab waits for the lock: it holds nothing yet.
LEMMA QueuedHoldsNothing ==
  ASSUME TypeOK, NEW t \in Tabs,
         rotation' = [rotation EXCEPT ![t] = IF @.phase = "none" THEN Rotation("queued", NoToken) ELSE @]
  PROVE  NobodyPresents
<1>1. ASSUME rotation[t].phase = "none" PROVE rotation'[t].phase = "queued"
  BY <1>1 DEF TypeOK, Rotation
<1>2. ASSUME rotation[t].phase # "none" PROVE rotation'[t] = rotation[t]
  BY <1>2 DEF TypeOK
<1>3. \A u \in Tabs : u # t => rotation'[u] = rotation[u]
  BY DEF TypeOK
<1> QED
  BY <1>1, <1>2, <1>3 DEF Rotating, Holding, NobodyPresents

\* The holder of t's rotation comes to nothing.
LEMMA PhaseEnds ==
  ASSUME TypeOK, NEW t \in Tabs,
         \/ rotation' = [rotation EXCEPT ![t] = NoRotation]
         \/ Holding(t) /\ \E p \in {"invalid", "unavailable"} : rotation' = [rotation EXCEPT ![t].phase = p],
         rotation[t].phase # "rotated" \/ lost'
  PROVE  NobodyPresents
<1>1. \A u \in Tabs : u # t => rotation'[u] = rotation[u]
  BY DEF TypeOK
<1>2. CASE rotation' = [rotation EXCEPT ![t] = NoRotation]
  <2>1. rotation'[t].phase = "none"
    BY <1>2 DEF TypeOK, NoRotation, Rotation
  <2> QED
    BY <1>1, <2>1 DEF Rotating, Holding, NobodyPresents
<1>3. CASE Holding(t) /\ \E p \in {"invalid", "unavailable"} : rotation' = [rotation EXCEPT ![t].phase = p]
  <2>1. rotation'[t].phase \in {"invalid", "unavailable"}
    BY <1>3 DEF TypeOK
  <2> QED
    BY <1>1, <1>3, <2>1 DEF Rotating, Holding, NobodyPresents
<1> QED
  BY <1>2, <1>3

LEMMA CalmActions ==
  ASSUME TypeOK, TokenInv, NEW t \in Tabs,
         \/ OpenTab(t) \/ RetryBootstrap(t) \/ CloseTab(t)
         \/ \E f \in Families : BootstrapDone(t, f) \/ BootstrapFails(t, f)
         \/ FindsNoToken(t) \/ RefreshRefused(t) \/ RefreshUnavailable(t) \/ ServerUnavailable(t) \/ AnswerLost(t)
         \/ StartLogin(t) \/ LoginFails(t) \/ RefreshDue(t)
         \/ StartLogout(t) \/ ServerRevokes(t) \/ LogoutEnds(t)
         \/ StartDelete(t) \/ AccountDeleted(t) \/ DeleteDone(t) \/ DeleteFails(t)
         \/ DeliverStorageEvent(t) \/ DeliverBroadcast(t)
  PROVE  TokenInv'
<1>1. CASE OpenTab(t) \/ RetryBootstrap(t)
  <2>1. PICK x : Bootstrap(t, x)
    BY <1>1 DEF OpenTab, RetryBootstrap
  <2>2. rotation' = rotation
          \/ rotation' = [rotation EXCEPT ![t] = IF @.phase = "none" THEN Rotation("queued", NoToken) ELSE @]
    BY <2>1 DEF Bootstrap
  <2>3. UNCHANGED <<storage, serverVars, lost, ended>>
    BY <1>1 DEF OpenTab, RetryBootstrap, historyVars
  <2> QED
    BY <2>2, <2>3, QueuedHoldsNothing, CalmStep DEF serverVars, NobodyPresents, StoredOrEnded
<1>2. CASE CloseTab(t)
  <2>1. /\ rotation' = [rotation EXCEPT ![t] = NoRotation] /\ lost' = (lost \/ Rotating(t))
        /\ UNCHANGED <<storage, current, logins, ended>>
        /\ orphans' = IF rotation[t].phase = "sent" THEN orphans \cup {rotation[t].token} ELSE orphans
    BY <1>2 DEF CloseTab
  <2>2. orphans' = orphans \/ lost'
    BY <2>1 DEF Rotating
  <2>3. rotation[t].phase # "rotated" \/ lost'
    BY <2>1 DEF Rotating
  <2>4. lost => lost'
    BY <2>1
  <2> QED
    BY <2>1, <2>2, <2>3, <2>4, PhaseEnds, CalmStep DEF StoredOrEnded
<1>3. CASE FindsNoToken(t) \/ RefreshRefused(t)
  <2>1. /\ rotation' = [rotation EXCEPT ![t] = NoRotation] /\ rotation[t].phase \in {"queued", "invalid"}
        /\ EndSession(t) /\ UNCHANGED <<serverVars, lost>>
    BY <1>3 DEF FindsNoToken, RefreshRefused, RefreshTerminates
  <2> QED
    BY <2>1, EndSessionTokens, PhaseEnds, CalmStep DEF serverVars
<1>4. CASE RefreshUnavailable(t)
  <2>1. /\ rotation' = [rotation EXCEPT ![t] = NoRotation] /\ rotation[t].phase = "unavailable"
        /\ UNCHANGED <<storage, serverVars, lost, ended>>
    BY <1>4 DEF RefreshUnavailable, historyVars
  <2> QED
    BY <2>1, PhaseEnds, CalmStep DEF serverVars, StoredOrEnded
<1>5. CASE ServerUnavailable(t) \/ AnswerLost(t)
  <2>1. /\ rotation' = [rotation EXCEPT ![t].phase = "unavailable"] /\ Holding(t)
        /\ rotation[t].phase # "rotated" \/ lost'
        /\ lost => lost'
        /\ UNCHANGED <<storage, serverVars, ended>>
    BY <1>5 DEF ServerUnavailable, AnswerLost, historyVars, Holding
  <2> QED
    BY <2>1, PhaseEnds, CalmStep DEF serverVars, StoredOrEnded
<1>6. CASE \/ \E f \in Families : BootstrapDone(t, f) \/ BootstrapFails(t, f)
           \/ StartLogin(t) \/ LoginFails(t) \/ StartLogout(t) \/ LogoutEnds(t)
           \/ StartDelete(t) \/ DeleteDone(t) \/ DeleteFails(t)
           \/ DeliverStorageEvent(t) \/ DeliverBroadcast(t)
  <2>1. /\ UNCHANGED <<serverVars, rotation, lost>>
        /\ EndSession(t) \/ UNCHANGED <<storage, ended>>
    BY <1>6 DEF BootstrapDone, BootstrapFails, StartLogin, LoginFails, StartLogout, LogoutEnds,
                StartDelete, DeleteDone, DeleteFails, DeliverStorageEvent, DeliverBroadcast, historyVars
  <2> QED
    BY <2>1, EndSessionTokens, CalmStep DEF serverVars, NobodyPresents, StoredOrEnded
<1>7. CASE RefreshDue(t)
  <2>1. Refresh(t) /\ UNCHANGED <<serverVars, lost>>
    BY <1>7 DEF RefreshDue
  <2>2. \/ EndSession(t) /\ UNCHANGED rotation
        \/ /\ rotation' = [rotation EXCEPT ![t] = IF @.phase = "none" THEN Rotation("queued", NoToken) ELSE @]
           /\ UNCHANGED <<storage, ended>>
    BY <2>1 DEF Refresh
  <2> QED
    BY <2>1, <2>2, EndSessionTokens, QueuedHoldsNothing, CalmStep DEF serverVars, NobodyPresents, StoredOrEnded
<1>8. CASE ServerRevokes(t) \/ AccountDeleted(t)
  <2>1. /\ current' = current \/ \E f : current' = Revoked(f)
        /\ UNCHANGED <<storage, ended, logins, orphans, rotation, lost>>
    BY <1>8 DEF ServerRevokes, AccountDeleted, Revoke, historyVars
  <2> QED
    BY <2>1, CalmStep DEF NobodyPresents, StoredOrEnded
<1> QED
  BY <1>1, <1>2, <1>3, <1>4, <1>5, <1>6, <1>7, <1>8

\* The lock is free, so no rotation is on its way back: the token that is read
\* inside the lock was not consumed.
LEMMA LockedStep == ASSUME TypeOK, TokenInv, NEW t \in Tabs, AcquireLock(t) PROVE TokenInv'
<1>0. TokensIssued /\ LockOwned /\ NeverConsumed /\ EndedGone
  BY DEF TokenInv
<1>1. /\ storage # NoToken /\ \A u \in Tabs : ~Holding(u)
      /\ rotation' = [rotation EXCEPT ![t] = Rotation("sent", storage)]
      /\ UNCHANGED <<storage, current, logins, orphans, lost, ended>>
  BY DEF AcquireLock, LockFree, Holding, serverVars, historyVars
<1>2. rotation'[t].phase = "sent" /\ rotation'[t].token = storage
  BY <1>1 DEF TypeOK, Rotation
<1>3. \A u \in Tabs : u # t => rotation'[u] = rotation[u] /\ ~Holding(u)'
  BY <1>1 DEF TypeOK, Holding
<1>4. \A u \in Tabs : Rotating(u)' => u = t
  BY <1>3 DEF Rotating, Holding
<1>5. TokensIssued'
  BY <1>0, <1>1, <1>2, <1>4 DEF TokensIssued, Issued
<1>6. LockOwned'
  BY <1>3 DEF LockOwned
<1>7. NeverConsumed'
  <2>1. ASSUME ~lost PROVE ~Reused(storage)
    BY <1>0, <1>1, <2>1 DEF NeverConsumed, Holding
  <2> QED
    BY <1>0, <1>1, <1>2, <1>4, <2>1 DEF NeverConsumed, Reused
<1>8. EndedGone'
  BY <1>0, <1>1, <1>2, <1>4 DEF EndedGone
<1> QED
  BY <1>5, <1>6, <1>7, <1>8 DEF TokenInv

\* user-service consumes the token that t presented: what is stored is stale
\* from here on, and t holds the lock.
LEMMA RotatedStep ==
  ASSUME TypeOK, TokenInv, NEW t \in Tabs, rotation[t].phase = "sent",
         Live(rotation[t].token), rotation[t].token.serial < MaxRotations,
         current' = Rotated(rotation[t].token),
         rotation' = [rotation EXCEPT ![t] = Rotation("rotated", Token(rotation[t].token.family,
                                                                       rotation[t].token.serial + 1))],
         UNCHANGED <<storage, logins, orphans, lost, ended>>
  PROVE  TokenInv'
<1> DEFINE f == rotation[t].token.family
           n == rotation[t].token.serial
<1>0. TokensIssued /\ LockOwned /\ NeverConsumed /\ EndedGone
  BY DEF TokenInv
<1>1. Rotating(t) /\ Holding(t) /\ Issued(rotation[t].token)
  BY <1>0 DEF TokensIssued, Rotating, Holding
<1>2. f \in Families /\ f \in 1..logins /\ n \in 1..MaxRotations /\ n + 1 \in 1..MaxRotations /\ n \in Nat
  BY <1>0, <1>1, IssuedTokens, BoundAssumption DEF Issued
<1>3. current'[f] = n + 1 /\ \A g \in Families : g # f => current'[g] = current[g]
  BY <1>2 DEF Rotated, TypeOK, Live
<1>4. rotation'[t].phase = "rotated" /\ rotation'[t].token.family = f /\ rotation'[t].token.serial = n + 1
  BY DEF TypeOK, Rotation, Token
<1>5. \A u \in Tabs : u # t => rotation'[u] = rotation[u] /\ ~Holding(u)'
  BY <1>0, <1>1 DEF LockOwned, TypeOK, Holding
<1>6. \A u \in Tabs : Rotating(u)' => u = t
  BY <1>5 DEF Rotating, Holding
<1> HIDE DEF f, n
<1>7. TokensIssued'
  BY <1>0, <1>2, <1>4, <1>6 DEF TokensIssued, Issued
<1>8. LockOwned'
  BY <1>5 DEF LockOwned
<1>9. NeverConsumed'
  <2>1. ~Reused(rotation[t].token)'
    BY <1>2, <1>3, <1>4 DEF Reused
  <2> QED
    BY <1>0, <1>4, <1>6, <2>1 DEF NeverConsumed
<1>10. EndedGone'
  BY <1>0, <1>1, <1>4, <1>6 DEF EndedGone, f
<1> QED
  BY <1>7, <1>8, <1>9, <1>10 DEF TokenInv

LEMMA RotateStep == ASSUME TypeOK, TokenInv, NEW t \in Tabs, ServerRotates(t) PROVE TokenInv'
<1> DEFINE tok == rotation[t].token
<1>1. rotation[t].phase = "sent" /\ UNCHANGED <<storage, logins, orphans, lost, ended>>
  BY DEF ServerRotates, historyVars
<1>2. CASE /\ Live(tok) /\ tok.serial < MaxRotations /\ current' = Rotated(tok)
           /\ rotation' = [rotation EXCEPT ![t] = Rotation("rotated", Token(tok.family, tok.serial + 1))]
  BY <1>1, <1>2, RotatedStep
<1>3. CASE /\ current' = Revoked(tok.family) \/ UNCHANGED current
           /\ rotation' = [rotation EXCEPT ![t].phase = "invalid"]
  <2>1. NobodyPresents
    BY <1>1, <1>3, PhaseEnds DEF Holding
  <2>2. StoredOrEnded
    BY <1>1 DEF StoredOrEnded
  <2>3. current' = current \/ \E f : current' = Revoked(f)
    BY <1>3
  <2> QED
    BY <1>1, <2>1, <2>2, <2>3, CalmStep
<1> QED
  BY <1>2, <1>3 DEF ServerRotates, Revoke

\* The answer reaches the storage while t still holds the lock.
LEMMA AppliedStep == ASSUME TypeOK, TokenInv, NEW t \in Tabs, FinishRefresh(t) PROVE TokenInv'
<1>0. TokensIssued /\ LockOwned /\ NeverConsumed /\ EndedGone
  BY DEF TokenInv
<1>1. /\ rotation[t].phase = "rotated" /\ storage' = rotation[t].token
      /\ rotation' = [rotation EXCEPT ![t] = NoRotation]
      /\ UNCHANGED <<current, logins, orphans, lost, ended>>
  BY DEF FinishRefresh, serverVars, historyVars
<1>2. Rotating(t) /\ Holding(t) /\ Issued(rotation[t].token)
  BY <1>0, <1>1 DEF TokensIssued, Rotating, Holding
<1>3. rotation'[t].phase = "none" /\ \A u \in Tabs : u # t => rotation'[u] = rotation[u] /\ ~Holding(u)
  BY <1>0, <1>1, <1>2 DEF LockOwned, TypeOK, NoRotation, Rotation
<1>4. \A u \in Tabs : ~Holding(u)' /\ ~Rotating(u)'
  BY <1>3 DEF Holding, Rotating
<1>5. TokensIssued' /\ LockOwned'
  BY <1>1, <1>2, <1>4 DEF TokensIssued, LockOwned, Issued
<1>6. NeverConsumed'
  <2>1. ASSUME ~lost PROVE ~Reused(rotation[t].token)
    BY <1>0, <1>2, <2>1 DEF NeverConsumed
  <2> QED
    BY <1>0, <1>1, <1>4, <2>1 DEF NeverConsumed, Reused
<1>7. EndedGone'
  BY <1>0, <1>1, <1>2, <1>4 DEF EndedGone
<1> QED
  BY <1>5, <1>6, <1>7 DEF TokenInv

\* A login starts a family that nobody knows yet.
LEMMA LoginStep == ASSUME TypeOK, TokenInv, NEW t \in Tabs, Login(t) PROVE TokenInv'
<1> DEFINE f == logins + 1
<1>0. TokensIssued /\ LockOwned /\ NeverConsumed /\ EndedGone
  BY DEF TokenInv
<1>1. /\ logins < MaxLogins /\ MaxRotations > 0 /\ logins' = f /\ current' = [current EXCEPT ![f] = 1]
      /\ storage' = Token(f, 1) /\ UNCHANGED <<orphans, rotation, lost, ended>>
  BY DEF Login
<1>2. logins \in Nat /\ f \in Families /\ 1..logins \subseteq 1..f /\ f \in 1..f /\ f \notin 1..logins
      /\ 1 \in 1..MaxRotations
  BY <1>1, BoundAssumption DEF TypeOK, Families
<1>3. storage'.family = f /\ storage'.serial = 1 /\ current'[f] = 1
  BY <1>1, <1>2 DEF Token, TypeOK
<1>4. \A g \in 1..logins : current'[g] = current[g]
  BY <1>0, <1>1, <1>2, IssuedTokens DEF TypeOK
<1> HIDE DEF f
<1>5. TokensIssued' /\ LockOwned'
  BY <1>0, <1>1, <1>2, <1>3 DEF TokensIssued, LockOwned, Issued, Rotating, Holding
<1>6. NeverConsumed'
  <2>1. ~Reused(storage)'
    BY <1>3 DEF Reused
  <2>2. \A u \in Tabs : Rotating(u) => (Reused(rotation[u].token)' => Reused(rotation[u].token))
    BY <1>0, <1>1, <1>4 DEF TokensIssued, Issued, Reused
  <2> QED
    BY <1>0, <1>1, <2>1, <2>2 DEF NeverConsumed, Rotating
<1>7. EndedGone'
  BY <1>0, <1>1, <1>2, <1>3 DEF EndedGone, Rotating
<1> QED
  BY <1>5, <1>6, <1>7 DEF TokenInv

LEMMA OrphanStep ==
  ASSUME TypeOK, TokenInv, NEW tok \in orphans, ServerHandlesOrphan(tok)
  PROVE  TokenInv'
<1>1. UNCHANGED <<storage, logins, rotation, lost, ended>>
  BY DEF ServerHandlesOrphan, historyVars
<1>2. lost'
  BY <1>1 DEF TokenInv, NeverConsumed
<1> QED
  BY <1>1, <1>2, CalmStep DEF NobodyPresents, StoredOrEnded

LEMMA NextTokens == TypeOK /\ TokenInv /\ [Next]_vars => TokenInv'
<1> SUFFICES ASSUME TypeOK, TokenInv, [Next]_vars PROVE TokenInv'
  OBVIOUS
<1>1. ASSUME NEW tok \in orphans, ServerHandlesOrphan(tok) PROVE TokenInv'
  BY <1>1, OrphanStep
<1>2. ASSUME NEW f \in Families, FamilyExpires(f) PROVE TokenInv'
  <2>1. (\E g : current' = Revoked(g)) /\ UNCHANGED <<storage, logins, orphans, rotation, lost, ended>>
    BY <1>2 DEF FamilyExpires, historyVars
  <2> QED
    BY <2>1, CalmStep DEF NobodyPresents, StoredOrEnded
<1>3. ASSUME NEW t \in Tabs, AcquireLock(t) \/ FinishRefresh(t) \/ ServerRotates(t) \/ Login(t) PROVE TokenInv'
  BY <1>3, LockedStep, AppliedStep, RotateStep, LoginStep
<1>4. ASSUME NEW t \in Tabs,
             \/ OpenTab(t) \/ RetryBootstrap(t) \/ CloseTab(t)
             \/ \E f \in Families : BootstrapDone(t, f) \/ BootstrapFails(t, f)
             \/ FindsNoToken(t) \/ RefreshRefused(t) \/ RefreshUnavailable(t) \/ ServerUnavailable(t) \/ AnswerLost(t)
             \/ StartLogin(t) \/ LoginFails(t) \/ RefreshDue(t)
             \/ StartLogout(t) \/ ServerRevokes(t) \/ LogoutEnds(t)
             \/ StartDelete(t) \/ AccountDeleted(t) \/ DeleteDone(t) \/ DeleteFails(t)
             \/ DeliverStorageEvent(t) \/ DeliverBroadcast(t)
      PROVE TokenInv'
  BY <1>4, CalmActions
<1>5. ASSUME UNCHANGED vars PROVE TokenInv'
  <2>1. UNCHANGED <<storage, current, logins, orphans, rotation, lost, ended>>
    BY <1>5 DEF vars, serverVars, historyVars
  <2> QED
    BY <2>1, CalmStep DEF NobodyPresents, StoredOrEnded
<1> QED
  BY <1>1, <1>2, <1>3, <1>4, <1>5 DEF Next

------------------------------------------------------------------------------
(* What the tabs show.                                                       *)

Hears(t) ==
  /\ Status(t) = "closed" => ~AsksMe(t)
  /\ (Status(t) = "authenticated" \/ AsksMe(t)) /\ ~crossed[t] /\ ~inbox[t] => storage # NoToken

LEMMA HearsAll == (\A t \in Tabs : Hears(t)) <=> ClosedAsksNothing /\ ProtectedHears
  BY DEF Hears, ClosedAsksNothing, ProtectedHears

\* The other tabs, when the storage keeps a token, or they are told.
LEMMA OthersHear ==
  ASSUME NEW u \in Tabs, Hears(u),
         tab'[u] = tab[u], me'[u] = me[u], crossed'[u] = crossed[u],
         inbox[u] => inbox'[u],
         storage' = storage \/ storage' # NoToken \/ inbox'[u] \/ Status(u) = "closed"
  PROVE  Hears(u)'
<1>1. Status(u)' = Status(u) /\ (AsksMe(u)' <=> AsksMe(u))
  BY DEF Status, AsksMe
<1> QED
  BY <1>1 DEF Hears

\* The tab t is left without a session, and with it whatever it asked for.
LEMMA EndedHears ==
  ASSUME TypeOK, NEW t \in Tabs, EndIn(t), AsksMe(t)' => AsksMe(t)
  PROVE  Hears(t)'
<1>1. Status(t)' = "anonymous" /\ crossed'[t] = AsksMe(t)
  BY EndInEffect DEF Status
<1> QED
  BY <1>1 DEF Hears

\* The session ends in t, and everybody else hears of it.
LEMMA EndSessionHears ==
  ASSUME TypeOK, NEW t \in Tabs, \A u \in Tabs : Hears(u), EndSession(t),
         AsksMe(t)' => AsksMe(t), \A u \in Tabs \ {t} : me'[u] = me[u]
  PROVE  \A u \in Tabs : Hears(u)'
<1>1. EndIn(t) /\ storage' = NoToken
  BY DEF EndSession, ClearStorage
<1>2. Hears(t)'
  BY <1>1, EndedHears
<1>3. ASSUME NEW u \in Tabs, u # t PROVE Hears(u)'
  <2>1. tab'[u] = tab[u] /\ crossed'[u] = crossed[u] /\ me'[u] = me[u]
    BY <1>1, <1>3, EndInEffect
  <2>2. inbox[u] => inbox'[u]
    BY DEF EndSession, Announce
  <2>3. inbox'[u] \/ Status(u) = "closed"
    BY <1>3 DEF EndSession, Announce, Others
  <2> QED
    BY <2>1, <2>2, <2>3, OthersHear
<1> QED
  BY <1>2, <1>3

\* What concerns t alone, while the storage stays as it is or gets a token.
LEMMA OwnStep ==
  ASSUME NEW t \in Tabs, \A u \in Tabs : Hears(u),
         \A u \in Tabs \ {t} : /\ tab'[u] = tab[u] /\ me'[u] = me[u] /\ crossed'[u] = crossed[u]
                               /\ inbox'[u] = inbox[u],
         storage' = storage \/ storage' # NoToken,
         Hears(t)'
  PROVE  \A u \in Tabs : Hears(u)'
<1>1. ASSUME NEW u \in Tabs, u # t PROVE Hears(u)'
  BY <1>1, OthersHear
<1> QED
  BY <1>1

\* An answer of getMe leaves the tab no more to wait for than it had.
LEMMA MeEndsAsked ==
  ASSUME TypeOK, NEW t \in Tabs, NEW f \in Families, MeEnds(t, f)
  PROVE  AsksMe(t) /\ \A u \in Tabs \ {t} : me'[u] = me[u]
<1>1. AsksMe(t)
  BY DEF MeEnds, AsksMe
<1> QED
  BY <1>1 DEF MeEnds, TypeOK

LEMMA ShownSteps ==
  ASSUME TypeOK, TokenInv, \A u \in Tabs : Hears(u), NEW t \in Tabs,
         \/ OpenTab(t) \/ RetryBootstrap(t) \/ CloseTab(t)
         \/ \E f \in Families : BootstrapDone(t, f) \/ BootstrapFails(t, f)
         \/ FindsNoToken(t) \/ RefreshRefused(t) \/ FinishRefresh(t) \/ RefreshUnavailable(t) \/ Login(t)
  PROVE  \A u \in Tabs : Hears(u)'
<1>0. tab[t] \in Snapshots /\ Hears(t)
  BY DEF TypeOK
<1>1. CASE OpenTab(t) \/ RetryBootstrap(t)
  <2>1. PICK x : Bootstrap(t, x) /\ x.status = "bootstrapping" /\ x \in Snapshots
    <3>1. [Closed EXCEPT !.status = "bootstrapping"].status = "bootstrapping"
          /\ [Closed EXCEPT !.status = "bootstrapping"] \in Snapshots
      BY BoundAssumption DEF Closed, Snapshots, Statuses
    <3>2. [tab[t] EXCEPT !.status = "bootstrapping"].status = "bootstrapping"
          /\ [tab[t] EXCEPT !.status = "bootstrapping"] \in Snapshots
      BY <1>0 DEF Snapshots, Statuses
    <3> QED
      BY <1>1, <3>1, <3>2 DEF OpenTab, RetryBootstrap
  <2>2. ~AsksMe(t) \/ crossed'[t] = crossed[t]
    BY <1>0, <1>1 DEF OpenTab, RetryBootstrap, Hears, historyVars
  <2>3. /\ UNCHANGED <<storage, me, eventVars>>
        /\ \A u \in Tabs \ {t} : crossed'[u] = crossed[u]
    BY <1>1 DEF OpenTab, RetryBootstrap, historyVars, TypeOK
  <2>4. /\ tab'[t].status \in {"anonymous", "bootstrapping"}
        /\ \A u \in Tabs \ {t} : tab'[u] = tab[u]
    <3>1. CASE storage = NoToken
      <4>1. tab' = [tab EXCEPT ![t] = [x EXCEPT !.status = "anonymous", !.user = 0]]
        BY <2>1, <3>1 DEF Bootstrap
      <4>2. [x EXCEPT !.status = "anonymous", !.user = 0].status = "anonymous"
        BY <2>1 DEF Snapshots
      <4> QED
        BY <4>1, <4>2 DEF TypeOK
    <3>2. CASE storage # NoToken
      BY <2>1, <3>2 DEF Bootstrap, TypeOK
    <3> QED
      BY <3>1, <3>2
  <2>5. Hears(t)'
    <3>1. AsksMe(t)' <=> AsksMe(t)
      BY <2>3 DEF AsksMe
    <3> QED
      BY <1>0, <2>2, <2>3, <2>4, <3>1 DEF Hears, Status, eventVars
  <2> QED
    BY <2>3, <2>4, <2>5, OwnStep DEF eventVars
<1>2. CASE CloseTab(t)
  <2>1. tab'[t].status = "closed" /\ me'[t] = NobodyAsks
    BY <1>2 DEF CloseTab, Closed, TypeOK
  <2>2. /\ storage' = storage
        /\ \A u \in Tabs \ {t} : /\ tab'[u] = tab[u] /\ me'[u] = me[u] /\ crossed'[u] = crossed[u]
                                 /\ inbox'[u] = inbox[u]
    BY <1>2 DEF CloseTab, TypeOK
  <2>3. ~AsksMe(t)'
    BY <2>1 DEF AsksMe, NobodyAsks
  <2>4. Hears(t)'
    BY <2>1, <2>3 DEF Hears, Status
  <2> QED
    BY <2>2, <2>4, OwnStep
<1>3. ASSUME NEW f \in Families, BootstrapDone(t, f) PROVE \A u \in Tabs : Hears(u)'
  <2>1. /\ AsksMe(t) /\ UNCHANGED <<storage, eventVars, crossed>>
        /\ \A u \in Tabs \ {t} : me'[u] = me[u]
    BY <1>3, MeEndsAsked DEF BootstrapDone, historyVars
  <2>2. tab'[t].status = "authenticated"
    BY <1>0, <1>3 DEF BootstrapDone, TypeOK, Snapshots
  <2>3. \A u \in Tabs \ {t} : tab'[u] = tab[u]
    BY <1>3 DEF BootstrapDone, TypeOK
  <2>4. Hears(t)'
    BY <1>0, <2>1, <2>2 DEF Hears, Status, eventVars
  <2> QED
    BY <2>1, <2>3, <2>4, OwnStep DEF eventVars
<1>4. ASSUME NEW f \in Families, BootstrapFails(t, f) PROVE \A u \in Tabs : Hears(u)'
  <2>1. AsksMe(t) /\ \A u \in Tabs \ {t} : me'[u] = me[u]
    BY <1>4, MeEndsAsked DEF BootstrapFails
  <2>2. CASE EndSession(t)
    BY <2>1, <2>2, EndSessionHears
  <2>3. CASE /\ tab' = [tab EXCEPT ![t].status = "unavailable"]
             /\ UNCHANGED <<storage, eventVars, crossed, ended>>
    <3>1. tab'[t].status = "unavailable"
      BY <1>0, <2>3 DEF TypeOK, Snapshots
    <3>2. \A u \in Tabs \ {t} : tab'[u] = tab[u]
      BY <2>3 DEF TypeOK
    <3>3. Hears(t)'
      BY <1>0, <2>1, <2>3, <3>1 DEF Hears, Status, eventVars
    <3> QED
      BY <2>1, <2>3, <3>2, <3>3, OwnStep DEF eventVars
  <2> QED
    BY <1>4, <2>2, <2>3 DEF BootstrapFails
<1>5. CASE FindsNoToken(t) \/ RefreshRefused(t)
  <2>1. EndSession(t) /\ me' = me
    BY <1>5 DEF FindsNoToken, RefreshRefused, RefreshTerminates
  <2>2. AsksMe(t)' => AsksMe(t)
    BY <2>1 DEF AsksMe
  <2> QED
    BY <2>1, <2>2, EndSessionHears
<1>6. CASE FinishRefresh(t)
  <2>1. storage' # NoToken
    <3>1. Issued(rotation[t].token)
      BY <1>6 DEF FinishRefresh, TokenInv, TokensIssued, Rotating
    <3> QED
      BY <1>6, <3>1, BoundAssumption DEF FinishRefresh, Issued, NoToken, Token, TypeOK
  <2>2. /\ UNCHANGED <<eventVars, crossed>>
        /\ \A u \in Tabs \ {t} : tab'[u] = tab[u]
    BY <1>6 DEF FinishRefresh, TypeOK, historyVars
  <2>3. \A u \in Tabs \ {t} : me'[u] = me[u]
    BY <1>6 DEF FinishRefresh, TypeOK
  <2>4. tab'[t].status \in {"authenticated", "bootstrapping"}
    BY <1>0, <1>6 DEF FinishRefresh, TypeOK, Snapshots, Status
  <2>5. Hears(t)'
    BY <2>1, <2>4 DEF Hears, Status
  <2> QED
    BY <2>1, <2>2, <2>3, <2>5, OwnStep DEF eventVars
<1>7. CASE RefreshUnavailable(t)
  <2>1. /\ UNCHANGED <<storage, me, eventVars, crossed>>
        /\ \A u \in Tabs \ {t} : tab'[u] = tab[u]
    BY <1>7 DEF RefreshUnavailable, TypeOK, historyVars
  <2>2. tab'[t].status = "unavailable" /\ (AsksMe(t)' <=> AsksMe(t))
    BY <1>0, <1>7, <2>1 DEF RefreshUnavailable, TypeOK, Snapshots, AsksMe
  <2>3. Hears(t)'
    BY <1>0, <2>1, <2>2 DEF Hears, Status, eventVars
  <2> QED
    BY <2>1, <2>3, OwnStep DEF eventVars
<1>8. CASE Login(t)
  <2>1. storage' # NoToken
    BY <1>8, BoundAssumption DEF Login, Token, NoToken, TypeOK
  <2>2. /\ UNCHANGED <<eventVars, me>> /\ tab'[t].status = "authenticated"
        /\ \A u \in Tabs \ {t} : tab'[u] = tab[u] /\ crossed'[u] = crossed[u]
    BY <1>8 DEF Login, TypeOK, bootVars
  <2>3. Hears(t)'
    BY <2>1, <2>2 DEF Hears, Status
  <2> QED
    BY <2>1, <2>2, <2>3, OwnStep DEF eventVars
<1> QED
  BY <1>1, <1>2, <1>3, <1>4, <1>5, <1>6, <1>7, <1>8

LEMMA EndingSteps ==
  ASSUME TypeOK, \A u \in Tabs : Hears(u), NEW t \in Tabs,
         RefreshDue(t) \/ StartLogout(t) \/ LogoutEnds(t) \/ DeleteDone(t)
           \/ DeliverStorageEvent(t) \/ DeliverBroadcast(t)
  PROVE  \A u \in Tabs : Hears(u)'
<1>0. me' = me
  BY DEF RefreshDue, StartLogout, LogoutEnds, DeleteDone, DeliverStorageEvent, DeliverBroadcast, waitVars, bootVars
<1>a. \A u \in Tabs : AsksMe(u)' <=> AsksMe(u)
  BY <1>0 DEF AsksMe
<1>1. CASE RefreshDue(t) \/ StartLogout(t) \/ LogoutEnds(t) \/ DeleteDone(t)
  <2>1. EndSession(t) \/ UNCHANGED <<storage, tab, eventVars, crossed>>
    BY <1>1 DEF RefreshDue, Refresh, StartLogout, LogoutEnds, DeleteDone
  <2>2. CASE UNCHANGED <<storage, tab, eventVars, crossed>>
    BY <1>a, <2>2 DEF Hears, Status, eventVars
  <2>3. CASE EndSession(t)
    BY <1>0, <1>a, <2>3, EndSessionHears
  <2> QED
    BY <2>1, <2>2, <2>3
<1>2. CASE DeliverBroadcast(t)
  <2>1. /\ storage' = storage
        /\ \A u \in Tabs \ {t} : inbox'[u] = inbox[u]
    BY <1>2 DEF DeliverBroadcast, TypeOK
  <2>2. CASE EndIn(t)
    <3>1. \A u \in Tabs \ {t} : tab'[u] = tab[u] /\ crossed'[u] = crossed[u]
      BY <2>2, EndInEffect
    <3>2. Hears(t)'
      BY <1>a, <2>2, EndedHears
    <3> QED
      BY <1>0, <2>1, <3>1, <3>2, OwnStep
  <2>3. CASE Status(t) = "unavailable" /\ (AsksMe(t) => crossed[t]) /\ UNCHANGED <<tab, crossed>>
    <3>1. Hears(t)'
      BY <1>a, <2>3 DEF Hears, Status
    <3> QED
      BY <1>0, <2>1, <2>3, <3>1, OwnStep
  <2> QED
    BY <1>2, <2>2, <2>3 DEF DeliverBroadcast
<1>3. CASE DeliverStorageEvent(t)
  <2>1. storage' = storage /\ inbox' = inbox
    BY <1>3 DEF DeliverStorageEvent
  <2>2. CASE EndIn(t)
    <3>1. \A u \in Tabs \ {t} : tab'[u] = tab[u] /\ crossed'[u] = crossed[u]
      BY <2>2, EndInEffect
    <3>2. Hears(t)'
      BY <1>a, <2>2, EndedHears
    <3> QED
      BY <1>0, <2>1, <3>1, <3>2, OwnStep
  <2>3. CASE UNCHANGED <<tab, crossed>>
    BY <1>a, <2>1, <2>3 DEF Hears, Status
  <2> QED
    BY <1>3, <2>2, <2>3 DEF DeliverStorageEvent
<1> QED
  BY <1>1, <1>2, <1>3

\* What the server does, a lock, and requests that begin or come to nothing.
LEMMA SilentStep ==
  ASSUME \A u \in Tabs : Hears(u), UNCHANGED <<storage, tab, me, eventVars, crossed>>
  PROVE  \A u \in Tabs : Hears(u)'
<1>1. \A u \in Tabs : AsksMe(u)' <=> AsksMe(u)
  BY DEF AsksMe
<1> QED
  BY <1>1 DEF Hears, Status, eventVars

LEMMA NextHears ==
  TypeOK /\ TokenInv /\ (\A u \in Tabs : Hears(u)) /\ [Next]_vars => \A u \in Tabs : Hears(u)'
<1> SUFFICES ASSUME TypeOK, TokenInv, \A u \in Tabs : Hears(u), [Next]_vars
             PROVE  \A u \in Tabs : Hears(u)'
  OBVIOUS
<1>1. ASSUME NEW tok \in orphans, ServerHandlesOrphan(tok) PROVE \A u \in Tabs : Hears(u)'
  BY <1>1, SilentStep DEF ServerHandlesOrphan, bootVars, waitVars, historyVars
<1>2. ASSUME NEW f \in Families, FamilyExpires(f) PROVE \A u \in Tabs : Hears(u)'
  BY <1>2, SilentStep DEF FamilyExpires, bootVars, waitVars, historyVars
<1>3. ASSUME NEW t \in Tabs,
             \/ AcquireLock(t) \/ ServerRotates(t) \/ ServerUnavailable(t) \/ AnswerLost(t) \/ ServerRevokes(t)
             \/ StartLogin(t) \/ LoginFails(t) \/ StartDelete(t) \/ AccountDeleted(t) \/ DeleteFails(t)
      PROVE \A u \in Tabs : Hears(u)'
  <2>1. UNCHANGED <<storage, tab, me, eventVars, crossed>>
    BY <1>3 DEF AcquireLock, ServerRotates, ServerUnavailable, AnswerLost, ServerRevokes, StartLogin, LoginFails,
                StartDelete, AccountDeleted, DeleteFails, bootVars, waitVars, historyVars
  <2> QED
    BY <2>1, SilentStep
<1>4. ASSUME NEW t \in Tabs,
             \/ OpenTab(t) \/ RetryBootstrap(t) \/ CloseTab(t)
             \/ \E f \in Families : BootstrapDone(t, f) \/ BootstrapFails(t, f)
             \/ FindsNoToken(t) \/ RefreshRefused(t) \/ FinishRefresh(t) \/ RefreshUnavailable(t) \/ Login(t)
      PROVE \A u \in Tabs : Hears(u)'
  BY <1>4, ShownSteps
<1>5. ASSUME NEW t \in Tabs,
             RefreshDue(t) \/ StartLogout(t) \/ LogoutEnds(t) \/ DeleteDone(t)
               \/ DeliverStorageEvent(t) \/ DeliverBroadcast(t)
      PROVE \A u \in Tabs : Hears(u)'
  BY <1>5, EndingSteps
<1>6. ASSUME UNCHANGED vars PROVE \A u \in Tabs : Hears(u)'
  BY <1>6, SilentStep DEF vars, bootVars, waitVars, historyVars
<1> QED
  BY <1>1, <1>2, <1>3, <1>4, <1>5, <1>6 DEF Next

LEMMA NextIInv == IInv /\ [Next]_vars => IInv'
<1> SUFFICES ASSUME IInv, [Next]_vars PROVE IInv'
  OBVIOUS
<1>1. TypeOK /\ TokenInv /\ \A u \in Tabs : Hears(u)
  BY HearsAll DEF IInv, TokenInv
<1>2. TypeOK' /\ TokenInv' /\ \A u \in Tabs : Hears(u)'
  BY <1>1, NextType, NextTokens, NextHears
<1>3. ClosedAsksNothing' /\ ProtectedHears'
  BY <1>2 DEF Hears, ClosedAsksNothing, ProtectedHears
<1> QED
  BY <1>2, <1>3 DEF IInv, TokenInv

------------------------------------------------------------------------------
(* Theorems.                                                                 *)

\* Tabs, storage and user-service keep their shape, for any number of tabs.
THEOREM TypeCorrect == Spec => []TypeOK
<1>1. IInv => TypeOK
  BY IInvImplies
<1> QED
  BY InitIInv, NextIInv, <1>1, PTL DEF Spec

\* However many tabs refresh at once, none presents a consumed token unless an
\* answer was lost (performRefresh under the Web Lock, Manager.Rotate).
THEOREM TokensPresentedFresh == Spec => []PresentedFresh
<1>1. IInv => PresentedFresh
  BY IInvImplies
<1> QED
  BY InitIInv, NextIInv, <1>1, PTL DEF Spec

\* A session that ended while no tab was rotating stays out of localStorage
\* (terminate, clearLocalSession, performRefresh).
THEOREM EndedSessionsStayEnded == Spec => []EndedStaysEnded
<1>1. IInv => EndedStaysEnded
  BY IInvImplies
<1> QED
  BY InitIInv, NextIInv, <1>1, PTL DEF Spec

\* A tab that has heard of everything shows protected content only in a session
\* (handleRemoteEnd, applyRemoteEnd, broadcastSessionEnded).
THEOREM ProtectedContentInSession == Spec => []ProtectedOnlyInSession
<1>1. IInv => ProtectedOnlyInSession
  BY IInvImplies
<1> QED
  BY InitIInv, NextIInv, <1>1, PTL DEF Spec

------------------------------------------------------------------------------
(* The lists of Dailies (DailyBoard): the invariant.                         *)

USE BoardAssumption, UpsetAssumption, NameAssumption

ListSet == [rows : Rows, loaded : BOOLEAN, fresh : BOOLEAN, failed : BOOLEAN]
FetchSet == [phase : {"none", "asked", "answered"}, rows : Rows, early : BOOLEAN]
CommandSet == [phase : {"idle", "sent", "done", "already", "failed", "spent"},
               kind : {"none", "complete", "delete", "save"},
               daily : Dailies \cup {NoDaily}, key : Filters,
               before : RowStatuses, home : BOOLEAN, reread : BOOLEAN]

Completes(c) == command[c].kind = "complete"
Changes(c) == command[c].kind \in {"complete", "delete"}

\* A request that is under way is about a Daily; a completion began on a row.
RequestsKnown ==
  /\ \A c \in Commands : command[c].phase \in {"idle", "spent"} <=> command[c].kind = "none"
  /\ \A c \in Commands : command[c].kind # "none" => command[c].daily \in Dailies
  /\ \A c \in Commands : Completes(c) => command[c].before # "none"
  /\ \A c \in latest : Changes(c)

\* Two requests that change one Daily leave it tangled.
OneRequest ==
  \A c, x \in Commands :
    (Changes(c) /\ Changes(x) /\ command[c].daily = command[x].daily)
      => c = x \/ command[c].daily \in tangled

\* A list on the page is fresh, being fetched, or says that it could not be; a
\* fetch that is under way began after every completion that is.
ListsKnown ==
  /\ \A k \in Filters : /\ lists[k].failed => ~lists[k].fresh
                        /\ lists[k].fresh => lists[k].loaded
                        /\ ~lists[k].loaded => lists[k].rows = NoRows
  /\ Fetching => OnBoard
  /\ OnBoard /\ ~Fetching => Shown.fresh \/ Shown.failed
  /\ Fetching => \A c \in Commands : Completes(c) => command[c].reread

Final(s) == s \in {"COMPLETED", "gone"}

\* What is listed, read, answered or captured comes from daily-service, where a
\* Daily is never pending again.
Served ==
  /\ \A d \in Dailies, k \in Filters : lists[k].rows[d] # "none" => server[d] # "none"
  /\ \A d \in Dailies : fetch.rows[d] # "none" => server[d] # "none"
  /\ \A d \in Dailies : fetch.rows[d] = "COMPLETED" => Final(server[d])
  /\ \A c \in Commands : Completes(c) => server[command[c].daily] # "none"
  /\ \A c \in Commands :
       (Completes(c) /\ command[c].phase \in {"done", "already"})
         => Final(server[command[c].daily])
  /\ \A c \in Commands :
       (command[c].kind = "delete" /\ command[c].phase = "done")
         => server[command[c].daily] = "gone"
  /\ \A c \in Commands :
       (command[c].kind = "save" /\ command[c].phase = "done")
         => server[command[c].daily] # "none"
  /\ \A c \in Commands :
       (Completes(c) /\ command[c].daily \notin tangled /\ command[c].before = "COMPLETED")
         => server[command[c].daily] # "PENDING"

\* A mark without a completion at daily-service is that of a request which will
\* write to the very list when it is answered.
MarksOwned ==
  \A d \in Dailies \ tangled, k \in Filters :
    (lists[k].rows[d] = "COMPLETED" /\ server[d] = "PENDING") =>
      \E c \in Commands : Completes(c) /\ command[c].daily = d /\ command[c].key = k

ToldTrue ==
  \A d \in Dailies : /\ told[d] = "COMPLETED" => Final(server[d])
                     /\ told[d] = "gone" => server[d] = "gone"
                     /\ told[d] = "PENDING" => server[d] # "none"

\* A row of d in list k agrees with what was told of d.
Agrees(k, d, row) ==
  /\ told[d] = "COMPLETED" => row # "PENDING"
  /\ told[d] = "gone" => row = "none"
  /\ told[d] = "PENDING" /\ k = "all" => row # "none" \/ server[d] = "gone"

\* A list that will not be read again of itself.
Trusted(k) == lists[k].fresh /\ k \notin owed /\ ~(Fetching /\ KeyOf(view) = k)

ListsTrue ==
  \A k \in Filters, d \in Dailies \ tangled : Trusted(k) => Agrees(k, d, lists[k].rows[d])

FetchTrue ==
  (fetch.phase = "answered" /\ ~fetch.early) =>
    \A d \in Dailies \ tangled : Agrees(KeyOf(view), d, fetch.rows[d])

\* What a failing completion will put back.
SnapshotsTrue ==
  \A c \in Commands :
    (/\ Completes(c) /\ command[c].daily \notin tangled
     /\ ~command[c].reread /\ Trusted(command[c].key))
      => Agrees(command[c].key, command[c].daily, command[c].before)

BoardInv == /\ BoardTypeOK
            /\ RequestsKnown
            /\ OneRequest
            /\ ListsKnown
            /\ Served
            /\ MarksOwned
            /\ ToldTrue
            /\ ListsTrue
            /\ FetchTrue
            /\ SnapshotsTrue
            /\ MarkHolds

------------------------------------------------------------------------------
(* What the operators of the board return.                                   *)

LEMMA KeyInFilters == \A v \in Boards : KeyOf(v) \in Filters
  BY DEF KeyOf, Filters

LEMMA ListedRows ==
  ASSUME NEW k
  PROVE  /\ Listed(k) \in Rows
         /\ \A d \in Dailies : Listed(k)[d] # "none" => Listed(k)[d] = server[d]
         /\ k = "all" =>
              \A d \in Dailies : server[d] \in {"PENDING", "COMPLETED"} => Listed(k)[d] # "none"
  BY DEF Listed, Rows, RowStatuses

LEMMA Constants ==
  /\ NoRows \in Rows /\ NoList \in ListSet
  /\ NoFetch \in FetchSet /\ Asked \in FetchSet
  /\ Idle \in CommandSet
  /\ [Idle EXCEPT !.phase = "spent"] \in CommandSet
<1>1. NoRows \in Rows
  BY DEF NoRows, Rows, RowStatuses
<1>2. "all" \in Filters /\ NoDaily \in Dailies \cup {NoDaily} /\ "none" \in RowStatuses
  BY DEF Filters, RowStatuses
<1> QED
  BY <1>1, <1>2 DEF NoList, ListSet, NoFetch, Asked, FetchSet, Idle, CommandSet

LEMMA TypesOf ==
  ASSUME BoardTypeOK
  PROVE  /\ lists \in [Filters -> ListSet]
         /\ fetch \in FetchSet
         /\ command \in [Commands -> CommandSet]
  BY DEF BoardTypeOK, ListSet, FetchSet, CommandSet

LEMMA TypesFrom ==
  ASSUME server \in [Dailies -> RowStatuses \cup {"gone"}],
         view \in Boards \cup {"form"},
         lists \in [Filters -> ListSet], fetch \in FetchSet,
         command \in [Commands -> CommandSet], latest \subseteq Commands,
         failures \subseteq Dailies, upsets \in 0..MaxUpsets,
         told \in [Dailies -> RowStatuses \cup {"gone"}],
         owed \subseteq Filters, tangled \subseteq Dailies
  PROVE  BoardTypeOK
  BY DEF BoardTypeOK, ListSet, FetchSet, CommandSet

LEMMA FollowedOnes == BoardInv => latest \subseteq Commands
  BY DEF BoardInv, BoardTypeOK

\* A read of daily-service: rows that it has.
LEMMA ServerReadsStep ==
  ASSUME BoardInv, ServerReads
  PROVE  BoardInv'
<1>1. /\ fetch.phase = "asked"
      /\ fetch' = [fetch EXCEPT !.phase = "answered", !.rows = Listed(KeyOf(view))]
      /\ UNCHANGED <<server, view, lists, command, latest, failures, upsets, told, owed, tangled>>
  BY DEF ServerReads, pageVars, boardHistory
<1>2. BoardTypeOK
  BY DEF BoardInv
<1>3. /\ fetch' \in FetchSet
      /\ fetch'.phase = "answered" /\ fetch'.rows = Listed(KeyOf(view))
  BY <1>1, <1>2, TypesOf, ListedRows DEF FetchSet
<1>4. BoardTypeOK'
  BY <1>1, <1>2, <1>3 DEF BoardTypeOK, FetchSet
<1>5. RequestsKnown' /\ OneRequest' /\ MarksOwned' /\ ToldTrue' /\ MarkHolds'
  BY <1>1 DEF BoardInv, RequestsKnown, OneRequest, MarksOwned, ToldTrue, MarkHolds,
              Completes, Changes, UnderWay
<1>6. ListsKnown'
  BY <1>1, <1>3 DEF BoardInv, ListsKnown, Completes, Fetching, OnBoard, Shown
<1>7. Served'
  BY <1>1, <1>2, <1>3, ListedRows
  DEF BoardInv, Served, Completes, Final, BoardTypeOK, RowStatuses
<1>8. ListsTrue' /\ SnapshotsTrue'
  BY <1>1, <1>3 DEF BoardInv, ListsTrue, SnapshotsTrue, Trusted, Agrees, Completes, Fetching
<1>9. FetchTrue'
  <2> SUFFICES ASSUME NEW d \in Dailies
               PROVE  Agrees(KeyOf(view), d, Listed(KeyOf(view))[d])
    BY <1>1, <1>3 DEF FetchTrue, Agrees
  <2>1. server[d] \in {"none", "PENDING", "COMPLETED", "gone"}
    BY <1>2 DEF BoardTypeOK, RowStatuses
  <2>2. Listed(KeyOf(view))[d] \in {"none", "PENDING", "COMPLETED"}
    BY ListedRows DEF Rows, RowStatuses
  <2>3. /\ Listed(KeyOf(view))[d] # "none" => Listed(KeyOf(view))[d] = server[d]
        /\ KeyOf(view) = "all" /\ server[d] \in {"PENDING", "COMPLETED"} =>
             Listed(KeyOf(view))[d] # "none"
    BY ListedRows
  <2>4. /\ told[d] = "COMPLETED" => Final(server[d])
        /\ told[d] = "gone" => server[d] = "gone"
        /\ told[d] = "PENDING" => server[d] # "none"
    BY DEF BoardInv, ToldTrue
  <2> QED
    BY <2>1, <2>2, <2>3, <2>4 DEF Agrees, Final
<1> QED
  BY <1>4, <1>5, <1>6, <1>7, <1>8, <1>9 DEF BoardInv

\* The requests go on as cs says; a fetch may have begun.
Continues(cs) ==
  /\ command' \in [Commands -> CommandSet]
  /\ \A c \in Commands :
       /\ command'[c].phase = cs[c].phase
       /\ command'[c].kind = cs[c].kind
       /\ command'[c].daily = cs[c].daily
       /\ command'[c].key = cs[c].key
       /\ command'[c].before = cs[c].before
       /\ (cs[c].kind = "complete" /\ cs[c].reread) => command'[c].reread

LEMMA RereadTyped ==
  ASSUME NEW r \in CommandSet, NEW b \in BOOLEAN
  PROVE  [r EXCEPT !.reread = b] \in CommandSet
  BY DEF CommandSet

LEMMA FetchBegins ==
  ASSUME NEW cs \in [Commands -> CommandSet], Fetch(cs)
  PROVE  /\ fetch' = Asked /\ fetch' \in FetchSet
         /\ fetch'.phase = "asked" /\ fetch'.rows = NoRows
         /\ Continues(cs)
         /\ \A c \in Commands : cs[c].kind = "complete" => command'[c].reread
<1>1. \A c \in Commands :
        [cs[c] EXCEPT !.reread = cs[c].kind = "complete"] \in CommandSet
  <2>1. SUFFICES ASSUME NEW c \in Commands
                 PROVE  [cs[c] EXCEPT !.reread = cs[c].kind = "complete"] \in CommandSet
    OBVIOUS
  <2>2. cs[c] \in CommandSet /\ (cs[c].kind = "complete") \in BOOLEAN
    OBVIOUS
  <2> QED
    BY <2>2, RereadTyped
<1>2. command' = [c \in Commands |-> [cs[c] EXCEPT !.reread = cs[c].kind = "complete"]]
  BY DEF Fetch
<1>3. \A c \in Commands : cs[c] \in CommandSet
  OBVIOUS
<1>4. Continues(cs) /\ \A c \in Commands : cs[c].kind = "complete" => command'[c].reread
  BY <1>1, <1>2, <1>3 DEF Continues, CommandSet
<1>5. fetch' = Asked /\ fetch' \in FetchSet
  BY Constants DEF Fetch
<1>6. Asked.phase = "asked" /\ Asked.rows = NoRows
  BY DEF Asked, NoFetch
<1> QED
  BY <1>4, <1>5, <1>6

LEMMA RetryListStep ==
  ASSUME BoardInv, RetryList
  PROVE  BoardInv'
<1>1. /\ OnBoard /\ Fetch(command)
      /\ UNCHANGED <<server, view, lists, latest, failures, upsets, told, owed, tangled>>
  BY DEF RetryList, pageVars, boardHistory
<1>2. BoardTypeOK
  BY DEF BoardInv
<1>3. /\ fetch' \in FetchSet /\ fetch'.phase = "asked" /\ fetch'.rows = NoRows
      /\ Continues(command)
      /\ \A c \in Commands : command[c].kind = "complete" => command'[c].reread
  BY <1>1, <1>2, TypesOf, FetchBegins
<1>4. BoardTypeOK'
  BY <1>1, <1>2, <1>3 DEF BoardTypeOK, FetchSet, CommandSet, Continues
<1>5. RequestsKnown' /\ OneRequest' /\ MarksOwned' /\ ToldTrue' /\ MarkHolds'
  <2>1. RequestsKnown'
    BY <1>1, <1>2, <1>3, FollowedOnes DEF BoardInv, RequestsKnown, Completes, Changes, Continues
  <2>2. OneRequest'
    BY <1>1, <1>3 DEF BoardInv, OneRequest, Changes, Continues
  <2>3. MarksOwned' /\ ToldTrue'
    BY <1>1, <1>3 DEF BoardInv, MarksOwned, ToldTrue, Completes, Continues
  <2>4. MarkHolds'
    BY <1>1, <1>3 DEF BoardInv, MarkHolds, UnderWay, Continues
  <2> QED
    BY <2>1, <2>2, <2>3, <2>4
<1>6. ListsKnown'
  BY <1>1, <1>3 DEF BoardInv, ListsKnown, Completes, Fetching, OnBoard, Shown, Continues
<1>7. Served'
  BY <1>1, <1>3 DEF BoardInv, Served, Completes, Final, NoRows, Continues
<1>8. ListsTrue' /\ SnapshotsTrue'
  <2>1. \A k \in Filters : Trusted(k)' => Trusted(k)
    BY <1>1, <1>3 DEF Trusted, Fetching
  <2> QED
    BY <1>1, <1>3, <2>1
    DEF BoardInv, ListsTrue, SnapshotsTrue, Agrees, Completes, Continues
<1>9. FetchTrue'
  BY <1>3 DEF FetchTrue
<1> QED
  BY <1>4, <1>5, <1>6, <1>7, <1>8, <1>9 DEF BoardInv

------------------------------------------------------------------------------
(* daily-service.                                                            *)

\* A Daily is created, completed and gone, in this order.
Onward(s, t) == \/ t = s
                \/ s = "none" /\ t = "PENDING"
                \/ s = "PENDING" /\ t = "COMPLETED"
                \/ s \in {"PENDING", "COMPLETED"} /\ t = "gone"

\* daily-service moves Dailies on and answers requests truly.
LEMMA ServerStep ==
  ASSUME BoardInv, BoardTypeOK',
         \A d \in Dailies : Onward(server[d], server'[d]),
         UNCHANGED <<view, lists, fetch, latest, failures, told, owed, tangled>>,
         \A c \in Commands :
           /\ command'[c].kind = command[c].kind
           /\ command'[c].daily = command[c].daily
           /\ command'[c].key = command[c].key
           /\ command'[c].before = command[c].before
           /\ command'[c].reread = command[c].reread
           /\ command'[c].phase \in {"idle", "spent"} <=> command[c].phase \in {"idle", "spent"}
           /\ (Completes(c) /\ command'[c].phase \in {"done", "already"})
                 => Final(server'[command[c].daily])
           /\ (command[c].kind = "delete" /\ command'[c].phase = "done")
                 => server'[command[c].daily] = "gone"
           /\ (command[c].kind = "save" /\ command'[c].phase = "done")
                 => server'[command[c].daily] # "none"
  PROVE  BoardInv'
<1>1. /\ \A d \in Dailies : /\ server[d] # "none" => server'[d] # "none"
                            /\ Final(server[d]) => Final(server'[d])
                            /\ server[d] = "gone" => server'[d] = "gone"
                            /\ server'[d] = "PENDING" => server[d] \in {"none", "PENDING"}
  BY DEF Onward, Final
<1>2. RequestsKnown' /\ OneRequest' /\ ToldTrue' /\ MarkHolds'
  <2>1. RequestsKnown'
    BY FollowedOnes DEF BoardInv, RequestsKnown, Completes, Changes
  <2>2. OneRequest'
    BY DEF BoardInv, OneRequest, Changes
  <2>3. ToldTrue'
    BY <1>1 DEF BoardInv, ToldTrue
  <2>4. MarkHolds'
    BY DEF BoardInv, MarkHolds, UnderWay
  <2> QED
    BY <2>1, <2>2, <2>3, <2>4
<1>3. ListsKnown'
  BY DEF BoardInv, ListsKnown, Completes, Fetching, OnBoard, Shown
<1>4. \A c \in Commands : Completes(c) =>
        /\ command[c].daily \in Dailies
        /\ server[command[c].daily] # "none"
  BY DEF BoardInv, RequestsKnown, Completes, Served
<1>5. Served'
  <2>1. /\ \A d \in Dailies, k \in Filters : lists[k].rows[d] # "none" => server'[d] # "none"
        /\ \A d \in Dailies : fetch.rows[d] # "none" => server'[d] # "none"
        /\ \A d \in Dailies : fetch.rows[d] = "COMPLETED" => Final(server'[d])
    BY <1>1 DEF BoardInv, Served
  <2>2. \A c \in Commands : Completes(c) =>
          /\ server'[command[c].daily] # "none"
          /\ (command[c].daily \notin tangled /\ command[c].before = "COMPLETED")
               => server'[command[c].daily] # "PENDING"
    BY <1>1, <1>4 DEF BoardInv, Served
  <2> QED
    BY <2>1, <2>2 DEF Served, Completes, Final
<1>6. MarksOwned'
  BY <1>1 DEF BoardInv, MarksOwned, Served, Completes
<1>7. ListsTrue' /\ FetchTrue'
  BY <1>1 DEF BoardInv, ListsTrue, FetchTrue, Trusted, Agrees, Fetching
<1>8. SnapshotsTrue'
  BY <1>1, <1>4 DEF BoardInv, SnapshotsTrue, Trusted, Agrees, Fetching, Completes
<1> QED
  BY <1>2, <1>3, <1>5, <1>6, <1>7, <1>8 DEF BoardInv

\* Carrying out a request moves its Daily on.
LEMMA AfterOnward ==
  ASSUME BoardTypeOK, NEW c \in Commands, command[c].daily \in Dailies,
         server' \in {server, [server EXCEPT ![command[c].daily] = After(c)]}
  PROVE  /\ \A d \in Dailies : Onward(server[d], server'[d])
         /\ server' \in [Dailies -> RowStatuses \cup {"gone"}]
<1>1. server \in [Dailies -> {"none", "PENDING", "COMPLETED", "gone"}]
  BY DEF BoardTypeOK, RowStatuses
<1>2. /\ After(c) \in {"none", "PENDING", "COMPLETED", "gone"}
      /\ Onward(server[command[c].daily], After(c))
  BY <1>1 DEF After, Onward
<1>3. \A d \in Dailies :
        server'[d] = server[d] \/ (d = command[c].daily /\ server'[d] = After(c))
  BY <1>1
<1> QED
  BY <1>1, <1>2, <1>3 DEF Onward, RowStatuses

LEMMA ServeStep ==
  ASSUME BoardInv, NEW c \in Commands, Serve(c)
  PROVE  BoardInv'
<1>1. /\ command[c].phase = "sent"
      /\ server' = [server EXCEPT ![command[c].daily] = After(c)]
      /\ command' = [command EXCEPT ![c].phase = Reply(c)]
      /\ UNCHANGED <<view, lists, fetch, latest, failures, upsets, told, owed, tangled>>
  BY DEF Serve, pageVars, boardHistory
<1>2. BoardTypeOK /\ command \in [Commands -> CommandSet] /\ command[c] \in CommandSet
  BY TypesOf DEF BoardInv
<1>3. command[c].kind # "none" /\ command[c].daily \in Dailies
  BY <1>1 DEF BoardInv, RequestsKnown
<1>4. /\ \A d \in Dailies : Onward(server[d], server'[d])
      /\ server' \in [Dailies -> RowStatuses \cup {"gone"}]
  BY <1>1, <1>2, <1>3, AfterOnward
<1>5. server'[command[c].daily] = After(c)
  BY <1>1, <1>2, <1>3 DEF BoardTypeOK
<1>6. /\ Reply(c) \in {"done", "already", "failed"}
      /\ command[c].kind = "complete" /\ Reply(c) \in {"done", "already"} => Final(After(c))
      /\ command[c].kind = "delete" /\ Reply(c) = "done" => After(c) = "gone"
      /\ command[c].kind = "save" /\ Reply(c) = "done" => After(c) # "none"
  BY <1>2, <1>3 DEF Reply, After, Final, CommandSet
<1>7. /\ command' \in [Commands -> CommandSet]
      /\ \A x \in Commands \ {c} : command'[x] = command[x]
      /\ command'[c].phase = Reply(c)
      /\ command'[c].kind = command[c].kind
      /\ command'[c].daily = command[c].daily
      /\ command'[c].key = command[c].key
      /\ command'[c].before = command[c].before
      /\ command'[c].reread = command[c].reread
  BY <1>1, <1>2, <1>6 DEF CommandSet
<1>8. BoardTypeOK'
  BY <1>1, <1>2, <1>4, <1>7 DEF BoardTypeOK, CommandSet
<1>9. ASSUME NEW x \in Commands \ {c}
      PROVE  /\ (Completes(x) /\ command[x].phase \in {"done", "already"})
                   => Final(server'[command[x].daily])
             /\ (command[x].kind = "delete" /\ command[x].phase = "done")
                   => server'[command[x].daily] = "gone"
             /\ (command[x].kind = "save" /\ command[x].phase = "done")
                   => server'[command[x].daily] # "none"
  <2>1. command[x].kind # "none" => command[x].daily \in Dailies
    BY DEF BoardInv, RequestsKnown
  <2> QED
    BY <1>4, <2>1 DEF BoardInv, Served, Completes, Onward, Final
<1> QED
  BY <1>1, <1>4, <1>5, <1>6, <1>7, <1>8, <1>9, ServerStep DEF Completes

LEMMA UpsetType == ASSUME BoardTypeOK, Upset PROVE upsets' \in 0..MaxUpsets
  BY DEF Upset, BoardTypeOK

LEMMA RequestFailsStep ==
  ASSUME BoardInv, NEW c \in Commands, RequestFails(c)
  PROVE  BoardInv'
<1>1. /\ command[c].phase = "sent" /\ Upset
      /\ server' \in {server, [server EXCEPT ![command[c].daily] = After(c)]}
      /\ command' = [command EXCEPT ![c].phase = "failed"]
      /\ UNCHANGED <<view, lists, fetch, latest, failures, told, owed, tangled>>
  BY DEF RequestFails, pageVars, boardHistory
<1>2. BoardTypeOK /\ command \in [Commands -> CommandSet] /\ command[c] \in CommandSet
  BY TypesOf DEF BoardInv
<1>3. command[c].kind # "none" /\ command[c].daily \in Dailies
  BY <1>1 DEF BoardInv, RequestsKnown
<1>4. /\ \A d \in Dailies : Onward(server[d], server'[d])
      /\ server' \in [Dailies -> RowStatuses \cup {"gone"}]
  BY <1>1, <1>2, <1>3, AfterOnward
<1>5. /\ command' \in [Commands -> CommandSet]
      /\ \A x \in Commands \ {c} : command'[x] = command[x]
      /\ command'[c].phase = "failed"
      /\ command'[c].kind = command[c].kind
      /\ command'[c].daily = command[c].daily
      /\ command'[c].key = command[c].key
      /\ command'[c].before = command[c].before
      /\ command'[c].reread = command[c].reread
  BY <1>1, <1>2 DEF CommandSet
<1>6. BoardTypeOK'
  BY <1>1, <1>2, <1>4, <1>5, UpsetType DEF BoardTypeOK, CommandSet
<1>7. ASSUME NEW x \in Commands \ {c}
      PROVE  /\ (Completes(x) /\ command[x].phase \in {"done", "already"})
                   => Final(server'[command[x].daily])
             /\ (command[x].kind = "delete" /\ command[x].phase = "done")
                   => server'[command[x].daily] = "gone"
             /\ (command[x].kind = "save" /\ command[x].phase = "done")
                   => server'[command[x].daily] # "none"
  <2>1. command[x].kind # "none" => command[x].daily \in Dailies
    BY DEF BoardInv, RequestsKnown
  <2> QED
    BY <1>4, <2>1 DEF BoardInv, Served, Completes, Onward, Final
<1> QED
  BY <1>1, <1>4, <1>5, <1>6, <1>7, ServerStep DEF Completes

LEMMA ElsewhereStep ==
  ASSUME BoardInv, NEW d \in Dailies, Elsewhere(d)
  PROVE  BoardInv'
<1>1. /\ Upset /\ server[d] \in {"PENDING", "COMPLETED"}
      /\ server' \in {[server EXCEPT ![d] = s] : s \in {"COMPLETED", "gone"} \ {server[d]}}
      /\ UNCHANGED <<view, lists, fetch, command, latest, failures, told, owed, tangled>>
  BY DEF Elsewhere, pageVars, boardHistory
<1>2. BoardTypeOK
  BY DEF BoardInv
<1>3. PICK s \in {"COMPLETED", "gone"} \ {server[d]} : server' = [server EXCEPT ![d] = s]
  BY <1>1
<1>4. /\ \A e \in Dailies : Onward(server[e], server'[e])
      /\ server' \in [Dailies -> RowStatuses \cup {"gone"}]
  BY <1>1, <1>2, <1>3 DEF BoardTypeOK, RowStatuses, Onward
<1>5. BoardTypeOK'
  BY <1>1, <1>2, <1>4, UpsetType DEF BoardTypeOK
<1>6. ASSUME NEW x \in Commands
      PROVE  /\ (Completes(x) /\ command[x].phase \in {"done", "already"})
                   => Final(server'[command[x].daily])
             /\ (command[x].kind = "delete" /\ command[x].phase = "done")
                   => server'[command[x].daily] = "gone"
             /\ (command[x].kind = "save" /\ command[x].phase = "done")
                   => server'[command[x].daily] # "none"
  <2>1. command[x].kind # "none" => command[x].daily \in Dailies
    BY DEF BoardInv, RequestsKnown
  <2> QED
    BY <1>4, <2>1 DEF BoardInv, Served, Completes, Onward, Final
<1> QED
  BY <1>1, <1>4, <1>5, <1>6, ServerStep

------------------------------------------------------------------------------
(* Requests that change no list.                                             *)

\* A request other than a completion is sent, or its answer has been handled.
LEMMA OtherRequestStep ==
  ASSUME BoardInv, BoardTypeOK', NEW c \in Commands, ~Completes(c),
         UNCHANGED <<server, view, lists, fetch, told, owed>>,
         tangled \subseteq tangled',
         \A x \in Commands \ {c} : command'[x] = command[x],
         command'[c].kind # "complete", command'[c].phase # "done",
         RequestsKnown', OneRequest'
  PROVE  BoardInv'
<1>1. \A x \in Commands :
        /\ command'[x].kind = "complete" => command[x].kind = "complete"
        /\ command[x].kind = "complete" => x # c /\ command'[x] = command[x]
  BY DEF Completes
<1>2. ListsKnown'
  BY <1>1 DEF BoardInv, ListsKnown, Fetching, OnBoard, Shown, Completes
<1>3. Served'
  BY <1>1 DEF BoardInv, Served, Final, Completes
<1>4. MarksOwned' /\ ToldTrue'
  BY <1>1 DEF BoardInv, MarksOwned, ToldTrue, Final, Completes
<1>5. ListsTrue' /\ FetchTrue'
  BY DEF BoardInv, ListsTrue, FetchTrue, Trusted, Agrees, Fetching
<1>6. SnapshotsTrue'
  BY <1>1 DEF BoardInv, SnapshotsTrue, Trusted, Agrees, Fetching, Completes
<1>7. MarkHolds'
  BY <1>1 DEF BoardInv, MarkHolds, UnderWay
<1> QED
  BY <1>2, <1>3, <1>4, <1>5, <1>6, <1>7 DEF BoardInv

\* c is handled: it is about nothing any more.
LEMMA SettledRequest ==
  ASSUME BoardInv, NEW c \in Commands
  PROVE  /\ Settled(c) \in [Commands -> CommandSet]
         /\ \A x \in Commands \ {c} : Settled(c)[x] = command[x]
         /\ Settled(c)[c].kind = "none" /\ Settled(c)[c].phase = "spent"
         /\ Settled(c)[c].daily = NoDaily
  BY TypesOf, Constants DEF BoardInv, Settled, Idle

LEMMA CommandFailsStep ==
  ASSUME BoardInv, NEW c \in Commands, CommandFails(c)
  PROVE  BoardInv'
<1>1. /\ command[c].kind \in {"delete", "save"}
      /\ latest' = latest \ {c} /\ command' = Settled(c)
      /\ UNCHANGED <<server, view, lists, fetch, failures, upsets, told, owed, tangled>>
  BY DEF CommandFails, Answered, boardHistory
<1>2. BoardTypeOK'
  BY <1>1, SettledRequest, TypesOf, TypesFrom DEF BoardInv, BoardTypeOK, ListSet, FetchSet, CommandSet
<1>3. RequestsKnown' /\ OneRequest'
  BY <1>1, SettledRequest, FollowedOnes
  DEF BoardInv, RequestsKnown, OneRequest, Completes, Changes
<1> QED
  BY <1>1, <1>2, <1>3, SettledRequest, OtherRequestStep DEF Completes

\* The idle c sends r.
LEMMA Sent ==
  ASSUME BoardInv, NEW c \in Commands, NEW r \in CommandSet,
         command[c] = Idle, command' = [command EXCEPT ![c] = r]
  PROVE  /\ command' \in [Commands -> CommandSet]
         /\ \A x \in Commands \ {c} : command'[x] = command[x]
         /\ command'[c] = r /\ command[c].kind = "none"
<1>1. command \in [Commands -> CommandSet]
  BY TypesOf DEF BoardInv
<1> QED
  BY <1>1 DEF Idle

\* A second request about d leaves it tangled.
LEMMA TangledRequests ==
  ASSUME BoardInv, NEW c \in Commands, NEW d \in Dailies, Tangle(d),
         command[c].kind = "none",
         \A x \in Commands \ {c} : command'[x] = command[x],
         command'[c].daily = d
  PROVE  /\ OneRequest'
         /\ tangled' \subseteq Dailies /\ tangled \subseteq tangled'
<1>1. tangled \subseteq tangled' /\ tangled' \subseteq Dailies
  BY DEF Tangle, BoardInv, BoardTypeOK
<1>2. \A x \in Commands : command[x].daily = d => d \in tangled'
  BY DEF Tangle
<1>3. OneRequest'
  BY <1>1, <1>2 DEF BoardInv, OneRequest, Changes
<1> QED
  BY <1>1, <1>3

LEMMA DeleteStep ==
  ASSUME BoardInv, NEW c \in Commands, NEW d \in Dailies, Delete(c, d)
  PROVE  BoardInv'
<1>1. /\ command[c] = Idle /\ OnBoard /\ Tangle(d)
      /\ command' = [command EXCEPT ![c] = [Send(c, "delete", d) EXCEPT !.key = KeyOf(view)]]
      /\ latest' = {c} \cup Followed("complete")
      /\ UNCHANGED <<server, view, lists, fetch, failures, upsets, told, owed>>
  BY DEF Delete, Visible
<1>2. KeyOf(view) \in Filters
  BY <1>1, KeyInFilters DEF OnBoard
<1> DEFINE r == [Send(c, "delete", d) EXCEPT !.key = KeyOf(view)]
<1>3. /\ r \in CommandSet
      /\ r.phase = "sent" /\ r.kind = "delete" /\ r.daily = d
  BY <1>2 DEF Send, Idle, CommandSet, RowStatuses
<1>4. /\ command' \in [Commands -> CommandSet]
      /\ \A x \in Commands \ {c} : command'[x] = command[x]
      /\ command'[c].phase = "sent" /\ command'[c].kind = "delete"
      /\ command'[c].daily = d /\ command[c].kind = "none"
  <2>1. command' = [command EXCEPT ![c] = r]
    BY <1>1
  <2> HIDE DEF r
  <2> QED
    BY <1>1, <1>3, <2>1, Sent
<1>5. OneRequest' /\ tangled' \subseteq Dailies /\ tangled \subseteq tangled'
  BY <1>1, <1>4, TangledRequests
<1>6. Followed("complete") \subseteq latest /\ \A x \in Followed("complete") : Completes(x) /\ x # c
  BY <1>4 DEF Followed, Completes
<1>7. BoardTypeOK'
  BY <1>1, <1>4, <1>5, <1>6, TypesOf, TypesFrom
  DEF BoardInv, BoardTypeOK, ListSet, FetchSet, CommandSet
<1>8. RequestsKnown'
  BY <1>1, <1>4, <1>6, FollowedOnes DEF BoardInv, RequestsKnown, Completes, Changes
<1> QED
  BY <1>1, <1>4, <1>5, <1>7, <1>8, OtherRequestStep DEF Completes

LEMMA SaveStep ==
  ASSUME BoardInv, NEW c \in Commands, NEW d \in Dailies, Save(c, d)
  PROVE  BoardInv'
<1>1. /\ command[c] = Idle
      /\ command' = [command EXCEPT ![c] = Send(c, "save", d)]
      /\ UNCHANGED <<server, view, lists, fetch, latest, failures, upsets, told, owed, tangled>>
  BY DEF Save, pageVars, boardHistory
<1> DEFINE r == Send(c, "save", d)
<1>2. /\ r \in CommandSet
      /\ r.phase = "sent" /\ r.kind = "save" /\ r.daily = d
  BY DEF Send, Idle, CommandSet, RowStatuses, Filters
<1>3. /\ command' \in [Commands -> CommandSet]
      /\ \A x \in Commands \ {c} : command'[x] = command[x]
      /\ command'[c].phase = "sent" /\ command'[c].kind = "save"
      /\ command'[c].daily = d /\ command[c].kind = "none"
  <2>1. command' = [command EXCEPT ![c] = r]
    BY <1>1
  <2> HIDE DEF r
  <2> QED
    BY <1>1, <1>2, <2>1, Sent
<1>4. BoardTypeOK'
  BY <1>1, <1>3, TypesOf, TypesFrom
  DEF BoardInv, BoardTypeOK, ListSet, FetchSet, CommandSet
<1>5. RequestsKnown' /\ OneRequest'
  BY <1>1, <1>3, FollowedOnes DEF BoardInv, RequestsKnown, OneRequest, Completes, Changes
<1> QED
  BY <1>1, <1>3, <1>4, <1>5, OtherRequestStep DEF Completes

------------------------------------------------------------------------------
(* Fetches that end.                                                         *)

LEMMA ListFields ==
  ASSUME BoardTypeOK, NEW k \in Filters
  PROVE  /\ lists[k] \in ListSet /\ lists[k].rows \in Rows
         /\ lists[k].loaded \in BOOLEAN /\ lists[k].fresh \in BOOLEAN
         /\ lists[k].failed \in BOOLEAN
  BY DEF BoardTypeOK, ListSet

LEMMA FetchArrivesStep ==
  ASSUME BoardInv, FetchArrives
  PROVE  BoardInv'
<1> DEFINE key == KeyOf(view)
<1>1. /\ fetch.phase = "answered"
      /\ lists' = [lists EXCEPT ![key] =
                    [rows |-> fetch.rows, loaded |-> TRUE, fresh |-> TRUE, failed |-> FALSE]]
      /\ Owe(IF fetch.early THEN owed \cup {key} ELSE owed \ {key})
      /\ fetch' = NoFetch
      /\ UNCHANGED <<server, view, command, latest, failures, upsets, told, tangled>>
  BY DEF FetchArrives, pageVars
<1>2. BoardTypeOK /\ fetch \in FetchSet /\ fetch.rows \in Rows /\ fetch.early \in BOOLEAN
  BY TypesOf DEF BoardInv, FetchSet
<1>3. OnBoard /\ key \in Filters
  BY <1>1, KeyInFilters DEF BoardInv, ListsKnown, Fetching, OnBoard
<1>4. \A c \in Commands : command[c].kind = "complete" => command[c].reread
  BY <1>1 DEF BoardInv, ListsKnown, Fetching, Completes
<1> HIDE DEF key
<1>5. /\ lists' \in [Filters -> ListSet]
      /\ \A k \in Filters \ {key} : lists'[k] = lists[k]
      /\ lists'[key].rows = fetch.rows /\ lists'[key].loaded
      /\ lists'[key].fresh /\ ~lists'[key].failed
  BY <1>1, <1>2, <1>3, TypesOf DEF ListSet
<1>6. /\ fetch' \in FetchSet /\ fetch'.phase = "none" /\ fetch'.rows = NoRows
  BY <1>1, Constants DEF NoFetch
<1>7. /\ owed' \subseteq Filters
      /\ \A k \in Filters \ {key} : k \in owed' <=> k \in owed /\ lists'[k].fresh
      /\ key \in owed' <=> fetch.early
  BY <1>1, <1>2, <1>3, <1>5 DEF Owe, BoardTypeOK
<1>8. BoardTypeOK'
  BY <1>1, <1>2, <1>5, <1>6, <1>7 DEF BoardTypeOK, ListSet, FetchSet
<1>9. RequestsKnown' /\ OneRequest' /\ ToldTrue'
  BY <1>1 DEF BoardInv, RequestsKnown, OneRequest, ToldTrue, Completes, Changes
<1>10. ListsKnown'
  BY <1>1, <1>3, <1>5, <1>6 DEF BoardInv, ListsKnown, Fetching, OnBoard, Shown, key
<1>11. Served'
  <2>1. \A d \in Dailies, k \in Filters : lists'[k].rows[d] # "none" => server[d] # "none"
    BY <1>5 DEF BoardInv, Served
  <2> QED
    BY <1>1, <1>6, <2>1 DEF BoardInv, Served, Completes, NoRows, Final
<1>12. MarksOwned'
  <2> SUFFICES ASSUME NEW d \in Dailies \ tangled, NEW k \in Filters,
                      lists'[k].rows[d] = "COMPLETED", server[d] = "PENDING"
               PROVE  \E c \in Commands : Completes(c) /\ command[c].daily = d /\ command[c].key = k
    BY <1>1 DEF MarksOwned, Completes
  <2>1. k # key
    BY <1>5 DEF BoardInv, Served, Final
  <2> QED
    BY <1>5, <2>1 DEF BoardInv, MarksOwned
<1>13. ListsTrue'
  <2> SUFFICES ASSUME NEW k \in Filters, NEW d \in Dailies \ tangled, Trusted(k)'
               PROVE  Agrees(k, d, lists'[k].rows[d])
    BY <1>1 DEF ListsTrue, Agrees
  <2>1. CASE k = key
    <3>1. ~fetch.early
      BY <1>7, <2>1 DEF Trusted
    <3> QED
      BY <1>1, <1>5, <2>1, <3>1 DEF BoardInv, FetchTrue, key
  <2>2. CASE k # key
    <3>1. Trusted(k)
      BY <1>5, <1>7, <2>2 DEF Trusted, key
    <3> QED
      BY <1>5, <2>2, <3>1 DEF BoardInv, ListsTrue
  <2> QED
    BY <2>1, <2>2
<1>14. FetchTrue'
  BY <1>6 DEF FetchTrue
<1>15. SnapshotsTrue' /\ MarkHolds'
  BY <1>1, <1>4 DEF SnapshotsTrue, MarkHolds, Completes
<1> QED
  BY <1>8, <1>9, <1>10, <1>11, <1>12, <1>13, <1>14, <1>15 DEF BoardInv

LEMMA FetchFailsStep ==
  ASSUME BoardInv, FetchFails
  PROVE  BoardInv'
<1> DEFINE key == KeyOf(view)
<1>1. /\ Fetching /\ Upset
      /\ lists' = [lists EXCEPT ![key].fresh = FALSE, ![key].failed = TRUE]
      /\ fetch' = NoFetch
      /\ Owe(owed)
      /\ UNCHANGED <<server, view, command, latest, failures, told, tangled>>
  BY DEF FetchFails, pageVars
<1>2. BoardTypeOK
  BY DEF BoardInv
<1>3. OnBoard /\ key \in Filters
  BY <1>1, KeyInFilters DEF BoardInv, ListsKnown, OnBoard
<1>4. \A c \in Commands : command[c].kind = "complete" => command[c].reread
  BY <1>1 DEF BoardInv, ListsKnown, Completes
<1> HIDE DEF key
<1>5. /\ lists' \in [Filters -> ListSet]
      /\ \A k \in Filters \ {key} : lists'[k] = lists[k]
      /\ lists'[key].rows = lists[key].rows /\ lists'[key].loaded = lists[key].loaded
      /\ ~lists'[key].fresh /\ lists'[key].failed
  BY <1>1, <1>2, <1>3, TypesOf, ListFields DEF ListSet
<1>6. /\ fetch' \in FetchSet /\ fetch'.phase = "none" /\ fetch'.rows = NoRows
  BY <1>1, Constants DEF NoFetch
<1>7. /\ owed' \subseteq Filters
      /\ \A k \in Filters : k \in owed' <=> k \in owed /\ lists'[k].fresh
  BY <1>1, <1>2 DEF Owe, BoardTypeOK
<1>8. BoardTypeOK'
  BY <1>1, <1>2, <1>5, <1>6, <1>7, UpsetType DEF BoardTypeOK, ListSet, FetchSet
<1>9. RequestsKnown' /\ OneRequest' /\ ToldTrue'
  BY <1>1 DEF BoardInv, RequestsKnown, OneRequest, ToldTrue, Completes, Changes
<1>10. \A k \in Filters : lists'[k].rows = lists[k].rows
  BY <1>5
<1>11. ListsKnown'
  BY <1>1, <1>3, <1>5, <1>6 DEF BoardInv, ListsKnown, Fetching, OnBoard, Shown, key
<1>12. Served' /\ MarksOwned'
  <2>1. Served'
    <3>1. \A d \in Dailies, k \in Filters : lists'[k].rows[d] # "none" => server[d] # "none"
      BY <1>10 DEF BoardInv, Served
    <3> QED
      BY <1>1, <1>6, <3>1 DEF BoardInv, Served, Completes, NoRows, Final
  <2>2. MarksOwned'
    BY <1>1, <1>10 DEF BoardInv, MarksOwned, Completes
  <2> QED
    BY <2>1, <2>2
<1>13. ListsTrue'
  <2>1. \A k \in Filters : Trusted(k)' => Trusted(k)
    BY <1>5, <1>7 DEF Trusted, key
  <2> QED
    BY <1>1, <1>10, <2>1 DEF BoardInv, ListsTrue, Agrees
<1>14. FetchTrue'
  BY <1>6 DEF FetchTrue
<1>15. SnapshotsTrue' /\ MarkHolds'
  BY <1>1, <1>4 DEF SnapshotsTrue, MarkHolds, Completes
<1> QED
  BY <1>8, <1>9, <1>11, <1>12, <1>13, <1>14, <1>15 DEF BoardInv

------------------------------------------------------------------------------
(* Changes of page.                                                          *)

LEMMA StaysOnLists ==
  ASSUME BoardTypeOK, NEW v \in Boards \cup {"form"}, v # view, Page(v) = Page(view)
  PROVE  v \in Filters
<1>1. "list" \notin Boards \cup {"form"}
  OBVIOUS
<1> QED
  BY <1>1 DEF Page, BoardTypeOK

\* A list may have grown stale; nothing else of it changes with time.
LEMMA AgedLists ==
  ASSUME BoardTypeOK, NEW v \in Boards \cup {"form"}, NEW ls \in Aged(v)
  PROVE  /\ ls \in [Filters -> ListSet]
         /\ \A k \in Filters : ls[k].rows = lists[k].rows
         /\ \A k \in Filters : ls[k].fresh => lists[k].fresh
         /\ \A k \in Filters : ls[k].loaded = lists[k].loaded /\ ls[k].failed = lists[k].failed
<1>1. lists \in [Filters -> ListSet]
  BY TypesOf
<1>2. CASE ls = lists
  BY <1>1, <1>2
<1>3. CASE v \in Boards /\ ls = [lists EXCEPT ![KeyOf(v)].fresh = FALSE]
  BY <1>1, <1>3, KeyInFilters DEF ListSet
<1> QED
  BY <1>2, <1>3 DEF Aged

\* The requests cs go on when page v is shown, and its list is fetched when due.
Shows(v, ls, always, cs) ==
  /\ latest' \subseteq latest /\ failures' \subseteq Dailies
  /\ tangled \subseteq tangled' /\ tangled' \subseteq Dailies
  /\ fetch' \in FetchSet /\ fetch'.phase # "answered" /\ fetch'.rows = NoRows
  /\ fetch'.phase # "none" => v \in Boards
  /\ fetch'.phase = "none" /\ v \in Boards => always = FALSE /\ ls[KeyOf(v)].fresh
  /\ command' \in [Commands -> CommandSet]
  /\ \A c \in Commands :
       /\ command'[c].phase = cs[c].phase
       /\ command'[c].kind = cs[c].kind
       /\ command'[c].daily = cs[c].daily
       /\ command'[c].before = cs[c].before
       /\ cs[c].kind = "complete" /\ cs[c].reread => command'[c].reread
       /\ cs[c].kind = "complete" /\ fetch'.phase # "none" => command'[c].reread
       /\ command'[c].key = cs[c].key \/ cs[c].daily \in tangled'

LEMMA ShownRequests ==
  ASSUME BoardInv, NEW v \in Boards \cup {"form"}, v # view, NEW ls,
         NEW always \in BOOLEAN,
         NEW cs \in [Commands -> CommandSet], Show(v, ls, always, cs),
         \A x \in latest : cs[x] = command[x]
  PROVE  Shows(v, ls, always, cs)
<1> DEFINE stays == Page(v) = Page(view)
           moved == [c \in Commands |-> IF ~stays THEN [cs[c] EXCEPT !.home = FALSE]
                                        ELSE IF c \in latest THEN [cs[c] EXCEPT !.key = v]
                                        ELSE cs[c]]
<1>1. /\ IF v \in Boards /\ (always \/ ~ls[KeyOf(v)].fresh)
            THEN Fetch(moved)
            ELSE fetch' = NoFetch /\ command' = moved
      /\ tangled' = IF stays THEN tangled \cup {command[c].daily : c \in latest} ELSE tangled
      /\ IF stays THEN UNCHANGED pageVars ELSE latest' = {} /\ failures' = {}
  BY DEF Show
<1>2. BoardTypeOK /\ latest \subseteq Commands
  BY FollowedOnes DEF BoardInv
<1>3. stays => v \in Filters
  BY <1>2, StaysOnLists
<1>4. \A c \in latest : command[c].daily \in Dailies
  BY <1>2 DEF BoardInv, RequestsKnown, Changes
<1>5. tangled \subseteq tangled' /\ tangled' \subseteq Dailies
  BY <1>1, <1>2, <1>4 DEF BoardTypeOK
<1>6. latest' \subseteq latest /\ failures' \subseteq Dailies
  BY <1>1, <1>2 DEF BoardTypeOK, pageVars
<1>7. /\ moved \in [Commands -> CommandSet]
      /\ \A c \in Commands :
           /\ moved[c].phase = cs[c].phase /\ moved[c].kind = cs[c].kind
           /\ moved[c].daily = cs[c].daily /\ moved[c].before = cs[c].before
           /\ moved[c].reread = cs[c].reread
           /\ moved[c].key = cs[c].key \/ (stays /\ c \in latest)
  <2>1. ASSUME NEW c \in Commands
        PROVE  /\ [cs[c] EXCEPT !.home = FALSE] \in CommandSet
               /\ stays => [cs[c] EXCEPT !.key = v] \in CommandSet
    <3>1. cs[c] \in CommandSet
      OBVIOUS
    <3> HIDE DEF stays
    <3> QED
      BY <1>3, <3>1 DEF CommandSet
  <2>2. moved \in [Commands -> CommandSet]
    BY <2>1
  <2>3. \A c \in Commands : cs[c] \in CommandSet
    OBVIOUS
  <2>4. ASSUME NEW c \in Commands
        PROVE  /\ moved[c].phase = cs[c].phase /\ moved[c].kind = cs[c].kind
               /\ moved[c].daily = cs[c].daily /\ moved[c].before = cs[c].before
               /\ moved[c].reread = cs[c].reread
               /\ moved[c].key = cs[c].key \/ (stays /\ c \in latest)
    BY <2>3 DEF CommandSet
  <2> QED
    BY <2>2, <2>4
<1>8. \A c \in Commands : (stays /\ c \in latest) => cs[c].daily \in tangled'
  BY <1>1
<1> HIDE DEF moved, stays
<1>9. CASE v \in Boards /\ (always \/ ~ls[KeyOf(v)].fresh)
  <2>1. /\ fetch' \in FetchSet /\ fetch'.phase = "asked" /\ fetch'.rows = NoRows
        /\ Continues(moved)
        /\ \A c \in Commands : moved[c].kind = "complete" => command'[c].reread
    BY <1>1, <1>7, <1>9, FetchBegins
  <2> QED
    BY <1>5, <1>6, <1>7, <1>8, <1>9, <2>1 DEF Continues, Shows
<1>10. CASE ~(v \in Boards /\ (always \/ ~ls[KeyOf(v)].fresh))
  <2>0. fetch' = NoFetch /\ command' = moved
    BY <1>1, <1>10, Zenon
  <2>1. fetch' \in FetchSet /\ fetch'.phase = "none" /\ fetch'.rows = NoRows /\ command' = moved
    BY <2>0, Constants DEF NoFetch
  <2> QED
    BY <1>5, <1>6, <1>7, <1>8, <1>10, <2>1 DEF Shows
<1> QED
  BY <1>9, <1>10

\* Another page is shown, by the Player or because a form was saved: then its
\* request ends, and a list page that is mounted afresh is asked for.
LEMMA ShowStep ==
  ASSUME BoardInv, NEW v \in Boards \cup {"form"}, v # view, NEW ls \in Aged(v),
         NEW always \in BOOLEAN, NEW cs \in [Commands -> CommandSet],
         \A x \in Commands :
           \/ cs[x] = command[x]
           \/ /\ command[x].kind = "save"
              /\ cs[x].kind = "none" /\ cs[x].phase = "spent",
         Show(v, ls, always, cs), UNCHANGED <<server, upsets>>,
         told' \in [Dailies -> RowStatuses \cup {"gone"}],
         \A d \in Dailies :
           \/ told'[d] = told[d]
           \/ /\ told[d] = "none" /\ told'[d] = "PENDING" /\ server[d] # "none"
              /\ v = "all" /\ always
  PROVE  BoardInv'
<1>1. view' = v /\ lists' = ls /\ Owe(IF Fetching THEN owed \cup {KeyOf(view)} ELSE owed)
  BY DEF Show
<1>2. BoardTypeOK
  BY DEF BoardInv
<1>3. \A x \in latest : cs[x] = command[x]
  BY FollowedOnes DEF BoardInv, RequestsKnown, Changes
<1>0. Shows(v, ls, always, cs)
  BY <1>3, ShownRequests
<1>4. /\ latest' \subseteq latest /\ failures' \subseteq Dailies
      /\ tangled \subseteq tangled' /\ tangled' \subseteq Dailies
      /\ fetch' \in FetchSet /\ fetch'.phase # "answered" /\ fetch'.rows = NoRows
      /\ fetch'.phase # "none" => v \in Boards
      /\ fetch'.phase = "none" /\ v \in Boards => always = FALSE /\ ls[KeyOf(v)].fresh
      /\ command' \in [Commands -> CommandSet]
  BY <1>0 DEF Shows
<1>5. \A c \in Commands :
        /\ command'[c].phase = cs[c].phase
        /\ command'[c].kind = cs[c].kind
        /\ command'[c].daily = cs[c].daily
        /\ command'[c].before = cs[c].before
        /\ cs[c].kind = "complete" /\ cs[c].reread => command'[c].reread
        /\ cs[c].kind = "complete" /\ fetch'.phase # "none" => command'[c].reread
        /\ command'[c].key = cs[c].key \/ cs[c].daily \in tangled'
  BY <1>0 DEF Shows
<1>6. /\ ls \in [Filters -> ListSet]
      /\ \A k \in Filters : ls[k].rows = lists[k].rows
      /\ \A k \in Filters : ls[k].fresh => lists[k].fresh
      /\ \A k \in Filters : ls[k].loaded = lists[k].loaded /\ ls[k].failed = lists[k].failed
  BY <1>2, AgedLists
<1>7. owed' \subseteq Filters /\ \A k \in Filters : Trusted(k)' => Trusted(k)
  <2>1. owed' = {f \in (IF Fetching THEN owed \cup {KeyOf(view)} ELSE owed) : lists'[f].fresh}
    BY <1>1 DEF Owe
  <2>2. owed \subseteq Filters
    BY <1>2 DEF BoardTypeOK
  <2>3. Fetching => KeyOf(view) \in Filters
    BY KeyInFilters DEF BoardInv, ListsKnown, OnBoard
  <2>4. owed' \subseteq Filters
    BY <2>1, <2>2, <2>3
  <2>5. ASSUME NEW k \in Filters, Trusted(k)'
        PROVE  Trusted(k)
    <3>1. lists'[k].fresh /\ k \notin owed'
      BY <2>5 DEF Trusted
    <3>2. k \notin owed /\ ~(Fetching /\ KeyOf(view) = k)
      BY <2>1, <3>1
    <3>3. lists[k].fresh
      BY <1>1, <1>6, <3>1
    <3> QED
      BY <3>2, <3>3 DEF Trusted
  <2> QED
    BY <2>4, <2>5
<1>8. BoardTypeOK'
  <2>1. /\ server' \in [Dailies -> RowStatuses \cup {"gone"}]
        /\ upsets' \in 0..MaxUpsets /\ latest' \subseteq Commands
    BY <1>2, <1>4 DEF BoardTypeOK
  <2> QED
    BY <1>1, <1>4, <1>6, <1>7, <2>1 DEF BoardTypeOK, ListSet, FetchSet, CommandSet
<1>9. \A c \in Commands : command'[c].kind \in {"complete", "delete"} => cs[c] = command[c]
  BY <1>5
<1>10. RequestsKnown'
  <2>1. ASSUME NEW c \in Commands
        PROVE  /\ command'[c].phase \in {"idle", "spent"} <=> command'[c].kind = "none"
               /\ command'[c].kind # "none" => command'[c].daily \in Dailies
               /\ command'[c].kind = "complete" => command'[c].before # "none"
               /\ c \in latest' => command'[c].kind \in {"complete", "delete"}
    BY <1>3, <1>4, <1>5 DEF BoardInv, RequestsKnown, Completes, Changes
  <2>2. latest' \subseteq Commands
    BY <1>4, FollowedOnes
  <2> QED
    BY <2>1, <2>2 DEF RequestsKnown, Completes, Changes
<1>11. OneRequest'
  BY <1>4, <1>5, <1>9 DEF BoardInv, OneRequest, Changes
<1>12. ListsKnown'
  <2>1. \A k \in Filters : /\ ls[k].failed => ~ls[k].fresh
                           /\ ls[k].fresh => ls[k].loaded
                           /\ ~ls[k].loaded => ls[k].rows = NoRows
    BY <1>6 DEF BoardInv, ListsKnown
  <2>2. /\ Fetching' => OnBoard'
        /\ OnBoard' /\ ~Fetching' => Shown'.fresh
    BY <1>1, <1>4 DEF Fetching, OnBoard, Shown
  <2>3. Fetching' => \A c \in Commands : command'[c].kind = "complete" => command'[c].reread
    BY <1>5 DEF Fetching
  <2>4. \A k \in Filters : /\ lists'[k].failed => ~lists'[k].fresh
                           /\ lists'[k].fresh => lists'[k].loaded
                           /\ ~lists'[k].loaded => lists'[k].rows = NoRows
    BY <1>1, <2>1
  <2> QED
    BY <2>2, <2>3, <2>4 DEF ListsKnown, Completes
<1>13. Served'
  <2>1. /\ \A d \in Dailies, k \in Filters : ls[k].rows[d] # "none" => server[d] # "none"
        /\ \A d \in Dailies : fetch'.rows[d] = "none"
    <3>1. \A d \in Dailies, k \in Filters : lists[k].rows[d] # "none" => server[d] # "none"
      BY DEF BoardInv, Served
    <3> QED
      BY <1>4, <1>6, <3>1 DEF NoRows
  <2>2. ASSUME NEW c \in Commands
        PROVE  /\ command'[c].kind = "complete" =>
                    /\ server[command'[c].daily] # "none"
                    /\ command'[c].phase \in {"done", "already"} => Final(server[command'[c].daily])
                    /\ (command'[c].daily \notin tangled' /\ command'[c].before = "COMPLETED")
                         => server[command'[c].daily] # "PENDING"
               /\ command'[c].kind = "delete" /\ command'[c].phase = "done" =>
                    server[command'[c].daily] = "gone"
               /\ command'[c].kind = "save" /\ command'[c].phase = "done" =>
                    server[command'[c].daily] # "none"
    BY <1>4, <1>5 DEF BoardInv, Served, Completes
  <2> QED
    BY <1>1, <2>1, <2>2 DEF Served, Completes, Final
<1>14. MarksOwned'
  <2> SUFFICES ASSUME NEW d \in Dailies \ tangled', NEW k \in Filters,
                      ls[k].rows[d] = "COMPLETED", server[d] = "PENDING"
                PROVE  \E c \in Commands : /\ command'[c].kind = "complete"
                                         /\ command'[c].daily = d /\ command'[c].key = k
    BY <1>1 DEF MarksOwned, Completes
  <2>1. PICK c \in Commands : Completes(c) /\ command[c].daily = d /\ command[c].key = k
    <3>1. lists[k].rows[d] = "COMPLETED" /\ d \in Dailies \ tangled
      BY <1>4, <1>6
    <3> QED
      BY <3>1 DEF BoardInv, MarksOwned
  <2>2. cs[c] = command[c]
    BY <2>1 DEF Completes
  <2> QED
    BY <1>5, <2>1, <2>2 DEF Completes
<1>15. ToldTrue'
  BY DEF BoardInv, ToldTrue, Final
<1>16. ListsTrue'
  <2> SUFFICES ASSUME NEW k \in Filters, NEW d \in Dailies \ tangled', Trusted(k)'
               PROVE  Agrees(k, d, ls[k].rows[d])'
    BY <1>1 DEF ListsTrue, Agrees
  <2>1. Agrees(k, d, ls[k].rows[d])
    <3>1. ls[k].rows = lists[k].rows /\ d \in Dailies \ tangled /\ Trusted(k)
      BY <1>4, <1>7, <1>6
    <3> QED
      BY <3>1 DEF BoardInv, ListsTrue
  <2>2. CASE told'[d] = told[d]
    BY <2>1, <2>2 DEF Agrees
  <2>3. CASE told'[d] = "PENDING" /\ v = "all" /\ always
    <3>1. v \in Boards /\ KeyOf(v) = "all"
      BY <2>3 DEF KeyOf
    <3>2. k # "all"
      BY <1>1, <1>4, <2>3, <3>1 DEF Trusted, Fetching
    <3> QED
      BY <2>3, <3>2 DEF Agrees
  <2> QED
    BY <2>2, <2>3
<1>17. FetchTrue'
  BY <1>4 DEF FetchTrue
<1>18. SnapshotsTrue'
  <2> SUFFICES ASSUME NEW c \in Commands, command'[c].kind = "complete",
                      command'[c].daily \notin tangled', ~command'[c].reread,
                      Trusted(command[c].key)'
               PROVE  Agrees(command[c].key, command[c].daily, command[c].before)'
    BY DEF SnapshotsTrue, Completes, Agrees
  <2>1. cs[c] = command[c] /\ command'[c].key = command[c].key
    BY <1>5, <1>9
  <2>2. /\ Completes(c) /\ command[c].daily \notin tangled /\ ~command[c].reread
        /\ command[c].key \in Filters /\ command[c].daily \in Dailies
        /\ command[c].before # "none"
    BY <1>2, <1>4, <1>5, <2>1, TypesOf DEF Completes, CommandSet, BoardInv, RequestsKnown
  <2>3. Agrees(command[c].key, command[c].daily, command[c].before)
    BY <1>7, <2>1, <2>2 DEF BoardInv, SnapshotsTrue
  <2> QED
    BY <1>5, <2>1, <2>2, <2>3 DEF Agrees
<1>19. MarkHolds'
  <2> SUFFICES ASSUME NEW c \in Commands, command'[c].kind = "complete",
                      ~command'[c].reread, command'[c].daily \notin tangled',
                      command'[c].phase \notin {"idle", "spent"}
               PROVE  ls[command'[c].key].rows[command'[c].daily] # "PENDING"
    BY <1>1 DEF MarkHolds, UnderWay
  <2>1. cs[c] = command[c] /\ command'[c].key = command[c].key
    BY <1>5, <1>9
  <2>2. command[c].key \in Filters
    BY <1>2, TypesOf DEF CommandSet
  <2>3. /\ UnderWay(c) /\ command[c].kind = "complete" /\ ~command[c].reread
        /\ command[c].daily \notin tangled
    BY <1>4, <1>5, <2>1 DEF UnderWay
  <2>4. lists[command[c].key].rows[command[c].daily] # "PENDING"
    BY <2>3 DEF BoardInv, MarkHolds
  <2>5. ls[command[c].key].rows = lists[command[c].key].rows
    BY <1>6, <2>2
  <2> QED
    BY <1>5, <2>1, <2>4, <2>5
<1> QED
  BY <1>8, <1>10, <1>11, <1>12, <1>13, <1>14, <1>15, <1>16, <1>17, <1>18, <1>19 DEF BoardInv

LEMMA NavigateStep ==
  ASSUME BoardInv, NEW v \in Boards \cup {"form"}, Navigate(v)
  PROVE  BoardInv'
<1>1. PICK ls \in Aged(v) : Show(v, ls, FALSE, command)
  BY DEF Navigate
<1>2. v # view /\ UNCHANGED <<server, upsets>> /\ told' = told
  BY DEF Navigate
<1>3. /\ command \in [Commands -> CommandSet]
      /\ told' \in [Dailies -> RowStatuses \cup {"gone"}]
  BY <1>2, TypesOf DEF BoardInv, BoardTypeOK
<1> QED
  BY <1>1, <1>2, <1>3, ShowStep

LEMMA SaveDoneStep ==
  ASSUME BoardInv, NEW c \in Commands, SaveDone(c)
  PROVE  BoardInv'
<1> DEFINE d == command[c].daily
           mounts == Page(view) # "list"
<1>1. /\ command[c].kind = "save" /\ command[c].phase = "done"
      /\ told' = IF mounts /\ told[d] = "none" THEN [told EXCEPT ![d] = "PENDING"] ELSE told
      /\ UNCHANGED <<server, upsets>>
  BY DEF SaveDone
<1>2. BoardTypeOK /\ d \in Dailies /\ server[d] # "none"
  BY <1>1 DEF BoardInv, RequestsKnown, Served
<1>3. CASE view = "all"
  <2>1. /\ command' = Settled(c)
        /\ UNCHANGED <<view, lists, fetch, latest, failures, owed, tangled>>
    BY <1>3 DEF SaveDone, pageVars
  <2>2. Page(view) = "list"
    BY <1>3 DEF Page, Filters
  <2>3. told' = told
    BY <1>1, <2>2
  <2>4. BoardTypeOK'
    BY <1>1, <1>2, <2>1, <2>3, SettledRequest, TypesOf, TypesFrom
    DEF BoardTypeOK, ListSet, FetchSet, CommandSet
  <2>5. RequestsKnown' /\ OneRequest'
    BY <1>1, <2>1, SettledRequest, FollowedOnes
    DEF BoardInv, RequestsKnown, OneRequest, Completes, Changes
  <2> QED
    BY <1>1, <2>1, <2>3, <2>4, <2>5, SettledRequest, OtherRequestStep DEF Completes
<1>4. CASE view # "all"
  <2>1. PICK ls \in Aged("all") : Show("all", ls, mounts, Settled(c))
    BY <1>4 DEF SaveDone
  <2>2. "all" \in Boards \cup {"form"} /\ "all" # view /\ mounts \in BOOLEAN
    BY <1>4
  <2>3. /\ Settled(c) \in [Commands -> CommandSet]
        /\ \A x \in Commands :
             \/ Settled(c)[x] = command[x]
             \/ /\ command[x].kind = "save"
                /\ Settled(c)[x].kind = "none" /\ Settled(c)[x].phase = "spent"
    BY <1>1, SettledRequest
  <2>4. told' \in [Dailies -> RowStatuses \cup {"gone"}]
    BY <1>1, <1>2 DEF BoardTypeOK, RowStatuses
  <2>5. \A e \in Dailies :
          \/ told'[e] = told[e]
          \/ /\ told[e] = "none" /\ told'[e] = "PENDING" /\ server[e] # "none"
             /\ "all" = "all" /\ mounts
    BY <1>1, <1>2 DEF BoardTypeOK
  <2> HIDE DEF mounts
  <2> QED
    BY <1>1, <2>1, <2>2, <2>3, <2>4, <2>5, ShowStep
<1> QED
  BY <1>3, <1>4

------------------------------------------------------------------------------
(* Completions: the mark.                                                    *)

\* Writing rows to a list: only to one that has been loaded, which is fresh then.
LEMMA WrittenList ==
  ASSUME BoardTypeOK, NEW k \in Filters, NEW rows \in Rows
  PROVE  /\ Written(k, rows) \in [Filters -> ListSet]
         /\ \A f \in Filters \ {k} : Written(k, rows)[f] = lists[f]
         /\ Written(k, rows)[k].loaded = lists[k].loaded
         /\ lists[k].loaded => /\ Written(k, rows)[k].rows = rows
                               /\ Written(k, rows)[k].fresh
                               /\ ~Written(k, rows)[k].failed
         /\ ~lists[k].loaded => Written(k, rows) = lists
<1>1. lists \in [Filters -> ListSet] /\ lists[k] \in ListSet
  BY TypesOf
<1>2. CASE lists[k].loaded
  <2>1. Written(k, rows) =
          [lists EXCEPT ![k].rows = rows, ![k].fresh = TRUE, ![k].failed = FALSE]
    BY <1>2 DEF Written
  <2>2. \A f \in Filters \ {k} : Written(k, rows)[f] = lists[f]
    BY <1>1, <2>1
  <2>3. Written(k, rows)[k] = [lists[k] EXCEPT !.rows = rows, !.fresh = TRUE, !.failed = FALSE]
    BY <1>1, <2>1 DEF ListSet
  <2>4. /\ Written(k, rows)[k] \in ListSet
        /\ Written(k, rows)[k].loaded = lists[k].loaded
        /\ Written(k, rows)[k].rows = rows
        /\ Written(k, rows)[k].fresh /\ ~Written(k, rows)[k].failed
    BY <1>1, <2>3 DEF ListSet
  <2>5. Written(k, rows) \in [Filters -> ListSet]
    BY <1>1, <2>1, <2>2, <2>4
  <2> QED
    BY <1>2, <2>2, <2>4, <2>5
<1>3. CASE ~lists[k].loaded
  BY <1>1, <1>3 DEF Written
<1> QED
  BY <1>2, <1>3

LEMMA CompleteStep ==
  ASSUME BoardInv, NEW c \in Commands, NEW d \in Dailies, Complete(c, d)
  PROVE  BoardInv'
<1> DEFINE key == KeyOf(view)
           row == lists[key].rows[d]
           marked == Marked(d)
           r == [Send(c, "complete", d) EXCEPT !.key = key, !.before = row]
<1>1. /\ command[c] = Idle /\ Visible(d) /\ Tangle(d)
      /\ fetch' = NoFetch
      /\ lists' = Written(key, marked)
      /\ Owe(owed \cup Owing(key))
      /\ command' = [command EXCEPT ![c] = r]
      /\ latest' = {c} \cup Followed("delete")
      /\ UNCHANGED <<server, view, failures, upsets, told>>
  BY DEF Complete, FetchCancelled, Shown
<1>2. BoardTypeOK
  BY DEF BoardInv
<1>3. OnBoard /\ key \in Filters /\ lists[key].loaded /\ row \in {"PENDING", "COMPLETED"}
  <2>1. OnBoard /\ lists[key].loaded
    BY <1>1 DEF Visible, Shown
  <2>2. row \in {"PENDING", "COMPLETED"}
    BY <1>1 DEF Visible, Shown
  <2> QED
    BY <2>1, <2>2, KeyInFilters DEF OnBoard
<1>4. /\ marked \in Rows
      /\ \A e \in Dailies \ {d} : marked[e] = lists[key].rows[e]
      /\ marked[d] \in {"none", "COMPLETED"}
      /\ key = "all" => marked[d] = "COMPLETED"
  <2>1. lists[key].rows \in Rows
    BY <1>2, <1>3, ListFields
  <2>2. marked = [lists[key].rows EXCEPT
                    ![d] = IF @ = "none" \/ view = "pending" THEN "none" ELSE "COMPLETED"]
    BY DEF Marked, Shown
  <2>3. key = "all" => view # "pending"
    BY DEF KeyOf
  <2> QED
    BY <1>3, <2>1, <2>2, <2>3 DEF Rows, RowStatuses
<1>5. r \in CommandSet /\ r.phase = "sent" /\ r.kind = "complete" /\ r.daily = d
      /\ r.key = key /\ r.before = row /\ ~r.reread
  BY <1>3 DEF Send, Idle, CommandSet, RowStatuses
<1> HIDE DEF key, row, marked, r
<1>6. /\ command' \in [Commands -> CommandSet]
      /\ \A x \in Commands \ {c} : command'[x] = command[x]
      /\ command'[c] = r /\ command[c].kind = "none"
  BY <1>1, <1>5, Sent
<1>7. OneRequest' /\ tangled' \subseteq Dailies /\ tangled \subseteq tangled'
  BY <1>1, <1>5, <1>6, TangledRequests
<1>8. \A x \in Commands : command[x].daily = d => d \in tangled'
  BY <1>1 DEF Tangle
<1>9. /\ lists' \in [Filters -> ListSet]
      /\ \A f \in Filters \ {key} : lists'[f] = lists[f]
      /\ lists'[key].loaded /\ lists'[key].rows = marked
      /\ lists'[key].fresh /\ ~lists'[key].failed
  BY <1>1, <1>2, <1>3, <1>4, WrittenList
<1>10. fetch' \in FetchSet /\ fetch'.phase = "none" /\ fetch'.rows = NoRows
  BY <1>1, Constants DEF NoFetch
<1>11. owed' \subseteq Filters /\ \A k \in Filters : Trusted(k)' => Trusted(k)
  <2>1. owed' = {f \in owed \cup Owing(key) : lists'[f].fresh}
    BY <1>1 DEF Owe
  <2>2. owed \subseteq Filters /\ Owing(key) \subseteq {key}
    BY <1>2 DEF BoardTypeOK, Owing
  <2>3. ASSUME NEW k \in Filters, Trusted(k)'
        PROVE  Trusted(k)
    <3>1. lists'[k].fresh /\ k \notin owed'
      BY <2>3 DEF Trusted
    <3>2. k \notin owed /\ k \notin Owing(key)
      BY <2>1, <3>1
    <3>3. CASE k = key
      <4>1. lists[key].fresh /\ ~(Fetching /\ KeyOf(view) = key)
        BY <1>3, <3>2, <3>3 DEF Owing
      <4> QED
        BY <3>2, <3>3, <4>1 DEF Trusted
    <3>4. CASE k # key
      BY <1>9, <3>1, <3>2, <3>4 DEF Trusted, key
    <3> QED
      BY <3>3, <3>4
  <2> QED
    BY <1>3, <2>1, <2>2, <2>3
<1>12. Followed("delete") \subseteq latest
       /\ \A x \in Followed("delete") : command[x].kind = "delete" /\ x # c
  BY <1>6 DEF Followed
<1>13. BoardTypeOK'
  <2>1. /\ server' \in [Dailies -> RowStatuses \cup {"gone"}]
        /\ view' \in Boards \cup {"form"} /\ failures' \subseteq Dailies
        /\ upsets' \in 0..MaxUpsets /\ told' \in [Dailies -> RowStatuses \cup {"gone"}]
        /\ latest' \subseteq Commands
    BY <1>1, <1>2, <1>12 DEF BoardTypeOK
  <2> QED
    BY <1>6, <1>7, <1>9, <1>10, <1>11, <2>1 DEF BoardTypeOK, ListSet, FetchSet, CommandSet
<1>14. RequestsKnown'
  BY <1>1, <1>3, <1>5, <1>6, <1>12, FollowedOnes
  DEF BoardInv, RequestsKnown, Completes, Changes, row
<1>15. ListsKnown'
  BY <1>1, <1>3, <1>9, <1>10 DEF BoardInv, ListsKnown, Fetching, OnBoard, Shown, key
<1>16. ASSUME NEW f \in Filters, NEW e \in Dailies, lists'[f].rows[e] # lists[f].rows[e]
       PROVE  f = key /\ e = d
  BY <1>4, <1>9, <1>16
<1>17. row # "none" /\ server[d] # "none"
  BY <1>3 DEF BoardInv, Served, row
<1>18. Served'
  <2>1. \A e \in Dailies, f \in Filters : lists'[f].rows[e] # "none" => server[e] # "none"
    BY <1>16, <1>17 DEF BoardInv, Served
  <2>2. \A e \in Dailies : fetch'.rows[e] = "none"
    BY <1>10 DEF NoRows
  <2>3. ASSUME d \notin tangled', row = "COMPLETED"
        PROVE  server[d] # "PENDING"
    <3>1. \A x \in Commands : command[x].daily # d
      BY <1>8, <2>3
    <3> QED
      BY <1>3, <1>7, <2>3, <3>1 DEF BoardInv, MarksOwned, row
  <2>4. ASSUME NEW x \in Commands
        PROVE  /\ command'[x].kind = "complete" =>
                    /\ server[command'[x].daily] # "none"
                    /\ command'[x].phase \in {"done", "already"} => Final(server[command'[x].daily])
                    /\ (command'[x].daily \notin tangled' /\ command'[x].before = "COMPLETED")
                         => server[command'[x].daily] # "PENDING"
               /\ command'[x].kind = "delete" /\ command'[x].phase = "done" =>
                    server[command'[x].daily] = "gone"
               /\ command'[x].kind = "save" /\ command'[x].phase = "done" =>
                    server[command'[x].daily] # "none"
    <3>1. CASE x = c
      BY <1>5, <1>6, <1>17, <2>3, <3>1
    <3>2. CASE x # c
      BY <1>6, <1>7, <3>2 DEF BoardInv, Served, Completes
    <3> QED
      BY <3>1, <3>2
  <2> QED
    BY <1>1, <2>1, <2>2, <2>4 DEF Served, Completes, Final
<1>19. MarksOwned'
  <2> SUFFICES ASSUME NEW e \in Dailies \ tangled', NEW f \in Filters,
                      lists'[f].rows[e] = "COMPLETED", server[e] = "PENDING"
               PROVE  \E x \in Commands : /\ command'[x].kind = "complete"
                                          /\ command'[x].daily = e /\ command'[x].key = f
    BY <1>1 DEF MarksOwned, Completes
  <2>1. CASE lists[f].rows[e] = "COMPLETED"
    <3>1. PICK x \in Commands : Completes(x) /\ command[x].daily = e /\ command[x].key = f
      BY <1>7, <2>1 DEF BoardInv, MarksOwned
    <3>2. x # c
      BY <1>6, <3>1 DEF Completes
    <3> QED
      BY <1>6, <3>1, <3>2 DEF Completes
  <2>2. CASE lists[f].rows[e] # "COMPLETED"
    BY <1>5, <1>6, <1>16, <2>2
  <2> QED
    BY <2>1, <2>2
<1>20. ToldTrue'
  BY <1>1 DEF BoardInv, ToldTrue, Final
<1>21. ListsTrue'
  <2> SUFFICES ASSUME NEW k \in Filters, NEW e \in Dailies \ tangled', Trusted(k)'
               PROVE  Agrees(k, e, lists'[k].rows[e])
    BY <1>1 DEF ListsTrue, Agrees
  <2>1. Agrees(k, e, lists[k].rows[e])
    BY <1>7, <1>11 DEF BoardInv, ListsTrue
  <2>2. CASE k = key /\ e = d
    <3>1. lists'[k].rows[e] = marked[d] /\ lists[k].rows[e] = row
      BY <1>9, <2>2 DEF row
    <3>2. told[d] # "gone"
      BY <1>17, <2>1, <2>2, <3>1 DEF Agrees
    <3> QED
      BY <1>4, <2>2, <3>1, <3>2 DEF Agrees
  <2>3. CASE ~(k = key /\ e = d)
    <3>1. lists'[k].rows[e] = lists[k].rows[e]
      BY <1>16, <2>3
    <3> QED
      BY <2>1, <3>1
  <2> QED
    BY <2>2, <2>3
<1>22. FetchTrue'
  BY <1>10 DEF FetchTrue
<1>23. SnapshotsTrue'
  <2> SUFFICES ASSUME NEW x \in Commands, NEW k \in Filters, NEW e \in Dailies \ tangled',
                      command'[x].kind = "complete", command'[x].key = k,
                      command'[x].daily = e, ~command'[x].reread, Trusted(k)'
               PROVE  Agrees(k, e, command'[x].before)
    <3>1. \A x \in Commands : command'[x].kind = "complete" =>
             command'[x].daily \in Dailies /\ command'[x].key \in Filters
      BY <1>6, <1>14 DEF RequestsKnown, CommandSet
    <3> QED
      BY <1>1, <3>1 DEF SnapshotsTrue, Completes, Agrees, Trusted, Fetching
  <2>1. CASE x = c
    <3>1. k = key /\ e = d /\ command'[x].before = lists[key].rows[d]
      BY <1>5, <1>6, <2>1 DEF row
    <3> QED
      BY <1>7, <1>11, <3>1 DEF BoardInv, ListsTrue
  <2>2. CASE x # c
    BY <1>6, <1>7, <1>11, <2>2 DEF BoardInv, SnapshotsTrue, Completes
  <2> QED
    BY <2>1, <2>2
<1>24. MarkHolds'
  <2> SUFFICES ASSUME NEW x \in Commands, command'[x].kind = "complete",
                      ~command'[x].reread, command'[x].daily \notin tangled',
                      command'[x].phase \notin {"idle", "spent"}
               PROVE  lists'[command'[x].key].rows[command'[x].daily] # "PENDING"
    BY DEF MarkHolds, UnderWay
  <2>1. CASE x = c
    BY <1>4, <1>5, <1>6, <1>9, <2>1
  <2>2. CASE x # c
    <3>1. command'[x] = command[x] /\ command[x].daily # d
      BY <1>6, <1>8, <2>2
    <3>2. command[x].key \in Filters /\ command[x].daily \in Dailies
      BY <1>2, <3>1, TypesOf DEF CommandSet, BoardInv, RequestsKnown
    <3>3. lists[command[x].key].rows[command[x].daily] # "PENDING"
      BY <1>7, <3>1 DEF BoardInv, MarkHolds, UnderWay
    <3> QED
      BY <1>16, <3>1, <3>2, <3>3
  <2> QED
    BY <2>1, <2>2
<1> QED
  BY <1>7, <1>13, <1>14, <1>15, <1>18, <1>19, <1>20, <1>21, <1>22, <1>23, <1>24 DEF BoardInv

------------------------------------------------------------------------------
(* Answers that have the lists read again.                                   *)

\* Lists ls are stale where key k reaches; a fetch that is not begun again was
\* asked for too early.
Invalidated(ls, k, cs) ==
  /\ lists' \in [Filters -> ListSet]
  /\ \A f \in Filters : /\ lists'[f].rows = ls[f].rows
                        /\ f \notin Matched(k) => lists'[f] = ls[f]
                        /\ f \in Matched(k) => ~lists'[f].fresh
                        /\ ~lists'[f].loaded => ~ls[f].loaded
                        /\ lists'[f].fresh => ls[f].fresh /\ lists'[f].loaded = ls[f].loaded
                        /\ lists'[f].fresh => lists'[f].failed = ls[f].failed
  /\ fetch' \in FetchSet
  /\ fetch'.phase = "answered" => fetch'.early
  /\ fetch'.rows \in {NoRows, fetch.rows}
  /\ Fetching' => OnBoard
  /\ OnBoard /\ ~Fetching' => KeyOf(view) \notin Matched(k) /\ ~Fetching
  /\ Continues(cs)
  /\ (\A c \in Commands : cs[c].kind = "complete" => command'[c].reread)
       \/ (command' = cs /\ (Fetching' <=> Fetching))

LEMMA InvalidateEffect ==
  ASSUME BoardInv, NEW k \in Filters, NEW ls \in [Filters -> ListSet],
         NEW cs \in [Commands -> CommandSet], Invalidate(ls, k, cs)
  PROVE  Invalidated(ls, k, cs)
<1>1. BoardTypeOK /\ fetch \in FetchSet
  BY TypesOf DEF BoardInv
<1>2. lists' = [f \in Filters |-> IF f \in Matched(k) THEN [ls[f] EXCEPT !.fresh = FALSE] ELSE ls[f]]
  BY DEF Invalidate
<1>3. \A f \in Filters : ls[f] \in ListSet
  OBVIOUS
<1>4. \A f \in Filters : lists'[f] \in ListSet
  BY <1>2, <1>3 DEF ListSet
<1>5. /\ lists' \in [Filters -> ListSet]
      /\ \A f \in Filters : f \notin Matched(k) => lists'[f] = ls[f]
  BY <1>2, <1>4
<1>6. \A f \in Filters : f \in Matched(k) =>
         /\ lists'[f].rows = ls[f].rows
         /\ ~lists'[f].fresh
         /\ lists'[f].loaded = ls[f].loaded
  BY <1>2, <1>3 DEF ListSet
<1>7. CASE OnBoard /\ KeyOf(view) \in Matched(k) /\ (Shown.loaded \/ ~Fetching)
  <2>1. Fetch(cs)
    BY <1>7 DEF Invalidate
  <2>2. /\ fetch' \in FetchSet /\ fetch'.phase = "asked" /\ fetch'.rows = NoRows
        /\ Continues(cs)
        /\ \A c \in Commands : cs[c].kind = "complete" => command'[c].reread
    BY <2>1, FetchBegins
  <2> QED
    BY <1>5, <1>6, <1>7, <2>2 DEF Invalidated, Fetching
<1>8. CASE ~(OnBoard /\ KeyOf(view) \in Matched(k) /\ (Shown.loaded \/ ~Fetching))
  <2>1. command' = cs /\ fetch' = [fetch EXCEPT !.early = Fetching]
    BY <1>8 DEF Invalidate
  <2>2. /\ fetch' \in FetchSet /\ fetch'.phase = fetch.phase /\ fetch'.rows = fetch.rows
        /\ fetch'.early = (fetch.phase # "none")
    BY <1>1, <2>1 DEF FetchSet, Fetching
  <2>3. Fetching' <=> Fetching
    BY <2>2 DEF Fetching
  <2>4. Fetching => OnBoard
    BY DEF BoardInv, ListsKnown
  <2>5. Continues(cs)
    BY <2>1 DEF Continues
  <2> QED
    BY <1>5, <1>6, <1>8, <2>1, <2>2, <2>3, <2>4, <2>5 DEF Invalidated
<1> QED
  BY <1>7, <1>8

\* The answer of c is told: status s of its Daily.  No list is trusted then: each
\* that could contradict it is read again, or known not to have been.
LEMMA AnsweredStep ==
  ASSUME BoardInv, NEW c \in Commands, Changes(c),
         NEW s \in {"COMPLETED", "gone"},
         Final(server[command[c].daily]),
         s = "gone" => server[command[c].daily] = "gone",
         NEW ls \in [Filters -> ListSet],
         \A f \in Filters \ {command[c].key} : ls[f] = lists[f],
         ls[command[c].key].loaded = lists[command[c].key].loaded,
         \/ ls[command[c].key].fresh /\ ~ls[command[c].key].failed /\ ls[command[c].key].loaded
         \/ ls = lists,
         \A e \in Dailies \ {command[c].daily} :
           ls[command[c].key].rows[e] = lists[command[c].key].rows[e],
         Invalidate(ls, command[c].key, Settled(c)),
         Tell(command[c].key, command[c].daily, s),
         latest' = latest \ {c}, failures' \subseteq Dailies,
         UNCHANGED <<server, view, upsets, tangled>>
  PROVE  BoardInv'
<1> DEFINE d == command[c].daily
           k == command[c].key
<1>1. BoardTypeOK /\ d \in Dailies /\ k \in Filters
  BY TypesOf DEF BoardInv, RequestsKnown, Changes, CommandSet
<1>2. /\ Settled(c) \in [Commands -> CommandSet]
      /\ \A x \in Commands \ {c} : Settled(c)[x] = command[x]
      /\ Settled(c)[c].kind = "none" /\ Settled(c)[c].phase = "spent"
  BY SettledRequest
<1> DEFINE cs == Settled(c)
<1>3. Final(server[d]) /\ (s = "gone" => server[d] = "gone")
  OBVIOUS
<1>4. /\ \A f \in Filters \ {k} : ls[f] = lists[f]
      /\ \A f \in Filters, e \in Dailies : (f # k \/ e # d) => ls[f].rows[e] = lists[f].rows[e]
      /\ ls = lists \/ (ls[k].fresh /\ ~ls[k].failed /\ ls[k].loaded)
      /\ latest' = latest \ {c}
  OBVIOUS
<1>5. Changes(c) /\ Tell(k, d, s) /\ Invalidate(ls, k, cs)
  OBVIOUS
<1> HIDE DEF d, k, cs
<1>6. Invalidated(ls, k, cs)
  BY <1>1, <1>2, <1>5, InvalidateEffect DEF cs
<1>7. /\ told' \in [Dailies -> RowStatuses \cup {"gone"}]
      /\ told'[d] = s /\ \A e \in Dailies \ {d} : told'[e] = told[e]
      /\ owed' \subseteq Filters
      /\ \A f \in Filters : ~Trusted(f)'
  <2>1. \A f \in Matched(k) : ~lists'[f].fresh
    BY <1>1, <1>6 DEF Invalidated, Matched
  <2>2. /\ told' = [told EXCEPT ![d] = s]
        /\ Owe(IF k = "all" THEN owed ELSE owed \cup (Filters \ {k}))
    BY <1>5 DEF Tell
  <2>3. owed' \subseteq Filters
    BY <1>1, <2>2 DEF Owe, BoardTypeOK
  <2>4. CASE k = "all"
    BY <1>1, <2>1, <2>2, <2>3, <2>4 DEF Matched, Trusted, BoardTypeOK, RowStatuses
  <2>5. CASE k # "all"
    <3>1. owed' = {f \in owed \cup (Filters \ {k}) : lists'[f].fresh}
      BY <2>2, <2>5 DEF Owe
    <3>2. ~lists'[k].fresh
      BY <2>1, <2>5 DEF Matched
    <3>3. \A f \in Filters : ~Trusted(f)'
      BY <3>1, <3>2 DEF Trusted
    <3> QED
      BY <1>1, <2>2, <2>3, <3>3 DEF BoardTypeOK, RowStatuses
  <2> QED
    BY <2>4, <2>5
<1>8. /\ command' \in [Commands -> CommandSet]
      /\ command'[c].kind = "none" /\ command'[c].phase = "spent"
      /\ \A x \in Commands \ {c} :
           /\ command'[x].phase = command[x].phase
           /\ command'[x].kind = command[x].kind
           /\ command'[x].daily = command[x].daily
           /\ command'[x].key = command[x].key
           /\ command'[x].before = command[x].before
  BY <1>2, <1>6 DEF Invalidated, Continues, cs
<1>9. BoardTypeOK'
  <2>1. /\ server' \in [Dailies -> RowStatuses \cup {"gone"}]
        /\ view' \in Boards \cup {"form"} /\ upsets' \in 0..MaxUpsets
        /\ latest' \subseteq Commands /\ tangled' \subseteq Dailies
    BY <1>1, <1>4 DEF BoardTypeOK
  <2> QED
    BY <1>6, <1>7, <1>8, <2>1 DEF Invalidated, BoardTypeOK, ListSet, FetchSet, CommandSet
<1>10. RequestsKnown'
  BY <1>4, <1>8, FollowedOnes DEF BoardInv, RequestsKnown, Completes, Changes
<1>11. OneRequest'
  BY <1>8 DEF BoardInv, OneRequest, Changes
<1>12. ListsKnown'
  <2>1. \A f \in Filters : /\ ls[f].failed => ~ls[f].fresh
                           /\ ls[f].fresh => ls[f].loaded
                           /\ ~ls[f].loaded => ls[f].rows = NoRows
    BY <1>1, <1>4 DEF BoardInv, ListsKnown
  <2>2. \A f \in Filters : /\ lists'[f].failed => ~lists'[f].fresh
                           /\ lists'[f].fresh => lists'[f].loaded
                           /\ ~lists'[f].loaded => lists'[f].rows = NoRows
    BY <1>6, <2>1 DEF Invalidated
  <2>3. OnBoard' /\ ~Fetching' => Shown'.fresh \/ Shown'.failed
    <3>1. SUFFICES ASSUME OnBoard, ~Fetching'
                   PROVE  lists'[KeyOf(view)].fresh \/ lists'[KeyOf(view)].failed
      BY DEF OnBoard, Shown
    <3>2. KeyOf(view) \notin Matched(k) /\ ~Fetching
      BY <1>6, <3>1 DEF Invalidated
    <3>3. KeyOf(view) \in Filters \ {k}
      BY <1>1, <3>1, <3>2, KeyInFilters DEF OnBoard, Matched
    <3>4. lists'[KeyOf(view)] = lists[KeyOf(view)]
      BY <1>4, <1>6, <3>2, <3>3 DEF Invalidated
    <3> QED
      BY <3>1, <3>2, <3>4 DEF BoardInv, ListsKnown, Shown
  <2>4. Fetching' => \A x \in Commands : command'[x].kind = "complete" => command'[x].reread
    <3>1. CASE \A x \in Commands : cs[x].kind = "complete" => command'[x].reread
      BY <1>6, <3>1 DEF Invalidated, Continues
    <3>2. CASE command' = cs /\ (Fetching' <=> Fetching)
      BY <1>2, <3>2 DEF BoardInv, ListsKnown, Completes, cs
    <3> QED
      BY <1>6, <3>1, <3>2 DEF Invalidated
  <2>5. Fetching' => OnBoard'
    BY <1>6 DEF Invalidated, OnBoard
  <2> QED
    BY <2>2, <2>3, <2>4, <2>5 DEF ListsKnown, Completes
<1>13. \A f \in Filters, e \in Dailies : (f # k \/ e # d) => lists'[f].rows[e] = lists[f].rows[e]
  BY <1>4, <1>6 DEF Invalidated
<1>14. Served'
  <2>1. \A f \in Filters, e \in Dailies : lists'[f].rows[e] # "none" => server[e] # "none"
    BY <1>3, <1>13 DEF BoardInv, Served, Final
  <2>2. /\ \A e \in Dailies : fetch'.rows[e] # "none" => server[e] # "none"
        /\ \A e \in Dailies : fetch'.rows[e] = "COMPLETED" => Final(server[e])
    BY <1>6 DEF Invalidated, BoardInv, Served, NoRows
  <2>3. ASSUME NEW x \in Commands
        PROVE  /\ command'[x].kind = "complete" =>
                    /\ server[command'[x].daily] # "none"
                    /\ command'[x].phase \in {"done", "already"} => Final(server[command'[x].daily])
                    /\ (command'[x].daily \notin tangled /\ command'[x].before = "COMPLETED")
                         => server[command'[x].daily] # "PENDING"
               /\ command'[x].kind = "delete" /\ command'[x].phase = "done" =>
                    server[command'[x].daily] = "gone"
               /\ command'[x].kind = "save" /\ command'[x].phase = "done" =>
                    server[command'[x].daily] # "none"
    BY <1>8 DEF BoardInv, Served, Completes
  <2> QED
    BY <2>1, <2>2, <2>3 DEF Served, Completes, Final
<1>15. MarksOwned'
  <2> SUFFICES ASSUME NEW e \in Dailies \ tangled, NEW f \in Filters,
                      lists'[f].rows[e] = "COMPLETED", server[e] = "PENDING"
               PROVE  \E x \in Commands : /\ command'[x].kind = "complete"
                                          /\ command'[x].daily = e /\ command'[x].key = f
    BY DEF MarksOwned, Completes
  <2>1. e # d
    BY <1>3 DEF Final
  <2>2. PICK x \in Commands : Completes(x) /\ command[x].daily = e /\ command[x].key = f
    BY <1>13, <2>1 DEF BoardInv, MarksOwned
  <2>3. x # c
    BY <2>1, <2>2 DEF d
  <2> QED
    BY <1>8, <2>2, <2>3 DEF Completes
<1>16. ToldTrue'
  BY <1>3, <1>7 DEF BoardInv, ToldTrue, Final
<1>17. ListsTrue'
  BY <1>7 DEF ListsTrue
<1>18. FetchTrue'
  BY <1>6 DEF Invalidated, FetchTrue
<1>19. SnapshotsTrue'
  <2>1. \A x \in Commands : command'[x].key \in Filters
    BY <1>8 DEF CommandSet
  <2>2. \A x \in Commands, f \in Filters : command'[x].key = f => ~Trusted(f)'
    BY <1>7
  <2> QED
    BY <2>1, <2>2 DEF SnapshotsTrue, Trusted, Fetching
<1>20. MarkHolds'
  <2> SUFFICES ASSUME NEW x \in Commands, command'[x].kind = "complete",
                      ~command'[x].reread, command'[x].daily \notin tangled,
                      command'[x].phase \notin {"idle", "spent"}
               PROVE  lists'[command'[x].key].rows[command'[x].daily] # "PENDING"
    BY DEF MarkHolds, UnderWay
  <2>1. x # c
    BY <1>8
  <2>2. cs[x] = command[x] /\ command' = cs
    BY <1>2, <1>6, <1>8, <2>1 DEF Invalidated, cs
  <2>3. command[x].daily # d
    BY <1>5, <2>1, <2>2 DEF BoardInv, OneRequest, Changes, d
  <2>4. command[x].key \in Filters /\ command[x].daily \in Dailies
    BY <1>1, <2>2, TypesOf DEF CommandSet, BoardInv, RequestsKnown
  <2>5. lists[command[x].key].rows[command[x].daily] # "PENDING"
    BY <2>2 DEF BoardInv, MarkHolds, UnderWay
  <2> QED
    BY <1>13, <2>2, <2>3, <2>4, <2>5
<1> QED
  BY <1>9, <1>10, <1>11, <1>12, <1>14, <1>15, <1>16, <1>17, <1>18, <1>19, <1>20 DEF BoardInv

\* Rows in which only that of d has changed.
LEMMA RowsOf ==
  ASSUME BoardTypeOK, NEW k \in Filters, NEW d \in Dailies, NEW s \in RowStatuses
  PROVE  /\ [lists[k].rows EXCEPT ![d] = s] \in Rows
         /\ [lists[k].rows EXCEPT ![d] = s][d] = s
         /\ \A e \in Dailies \ {d} : [lists[k].rows EXCEPT ![d] = s][e] = lists[k].rows[e]
<1>1. lists[k].rows \in Rows
  BY ListFields
<1> QED
  BY <1>1 DEF Rows

LEMMA CompletionDoneStep ==
  ASSUME BoardInv, NEW c \in Commands, CompletionDone(c)
  PROVE  BoardInv'
<1>1. /\ command[c].kind = "complete" /\ command[c].phase = "done"
      /\ latest' = latest \ {c}
      /\ failures' = IF command[c].home THEN failures \ {command[c].daily} ELSE failures
      /\ Invalidate(lists, command[c].key, Settled(c))
      /\ Tell(command[c].key, command[c].daily, "COMPLETED")
      /\ UNCHANGED <<server, view, upsets, tangled>>
  BY DEF CompletionDone, Answered
<1>2. Changes(c) /\ Final(server[command[c].daily])
  BY <1>1 DEF BoardInv, Served, Changes, Completes
<1>3. lists \in [Filters -> ListSet] /\ failures' \subseteq Dailies
  BY <1>1, TypesOf DEF BoardInv, BoardTypeOK
<1> QED
  BY <1>1, <1>2, <1>3, AnsweredStep

LEMMA CompletionRepeatedStep ==
  ASSUME BoardInv, NEW c \in Commands, CompletionRepeated(c)
  PROVE  BoardInv'
<1> DEFINE d == command[c].daily
           k == command[c].key
           ls == Written(k, Restored(c))
<1>1. /\ command[c].kind = "complete" /\ command[c].phase = "already"
      /\ latest' = latest \ {c} /\ UNCHANGED failures
      /\ Invalidate(ls, k, Settled(c))
      /\ Tell(k, d, "COMPLETED")
      /\ UNCHANGED <<server, view, upsets, tangled>>
  BY DEF CompletionRepeated, Answered
<1>2. Changes(c) /\ Final(server[d])
  BY <1>1 DEF BoardInv, Served, Changes, Completes
<1>3. BoardTypeOK /\ d \in Dailies /\ k \in Filters /\ command[c].before \in RowStatuses
      /\ command[c].before # "none" /\ failures' \subseteq Dailies
  BY <1>1, TypesOf DEF BoardInv, RequestsKnown, Completes, CommandSet, BoardTypeOK
<1>4. Restored(c) = [lists[k].rows EXCEPT ![d] = command[c].before]
  BY <1>3 DEF Restored
<1>5. /\ Restored(c) \in Rows
      /\ \A e \in Dailies \ {d} : Restored(c)[e] = lists[k].rows[e]
  BY <1>3, <1>4, RowsOf
<1>6. /\ ls \in [Filters -> ListSet]
      /\ \A f \in Filters \ {k} : ls[f] = lists[f]
      /\ ls[k].loaded = lists[k].loaded
      /\ ls = lists \/ (ls[k].fresh /\ ~ls[k].failed /\ ls[k].loaded)
      /\ \A e \in Dailies \ {d} : ls[k].rows[e] = lists[k].rows[e]
  BY <1>3, <1>5, WrittenList
<1> HIDE DEF ls
<1> QED
  BY <1>1, <1>2, <1>3, <1>6, AnsweredStep

LEMMA DeletionDoneStep ==
  ASSUME BoardInv, NEW c \in Commands, DeletionDone(c)
  PROVE  BoardInv'
<1> DEFINE d == command[c].daily
           k == command[c].key
           without == [lists[k].rows EXCEPT ![d] = "none"]
           ls == Written(k, without)
<1>1. /\ command[c].kind = "delete" /\ command[c].phase = "done"
      /\ latest' = latest \ {c} /\ UNCHANGED failures
      /\ Invalidate(ls, k, Settled(c))
      /\ Tell(k, d, "gone")
      /\ UNCHANGED <<server, view, upsets, tangled>>
  BY DEF DeletionDone, Answered
<1>2. Changes(c) /\ server[d] = "gone" /\ Final(server[d])
  BY <1>1 DEF BoardInv, Served, Changes, Final
<1>3. BoardTypeOK /\ d \in Dailies /\ k \in Filters /\ failures' \subseteq Dailies
  BY <1>1, TypesOf DEF BoardInv, RequestsKnown, CommandSet, BoardTypeOK
<1>4. without \in Rows /\ \A e \in Dailies \ {d} : without[e] = lists[k].rows[e]
  <2>1. "none" \in RowStatuses
    BY DEF RowStatuses
  <2> QED
    BY <1>3, <2>1, RowsOf
<1> HIDE DEF without
<1>5. /\ ls \in [Filters -> ListSet]
      /\ \A f \in Filters \ {k} : ls[f] = lists[f]
      /\ ls[k].loaded = lists[k].loaded
      /\ ls = lists \/ (ls[k].fresh /\ ~ls[k].failed /\ ls[k].loaded)
      /\ \A e \in Dailies \ {d} : ls[k].rows[e] = lists[k].rows[e]
  BY <1>3, <1>4, WrittenList
<1> HIDE DEF ls
<1> QED
  BY <1>1, <1>2, <1>3, <1>5, AnsweredStep

------------------------------------------------------------------------------
(* A completion that fails: the mark is taken back.                          *)

LEMMA CompletionFailsStep ==
  ASSUME BoardInv, NEW c \in Commands, CompletionFails(c)
  PROVE  BoardInv'
<1> DEFINE d == command[c].daily
           k == command[c].key
           before == command[c].before
           restored == Restored(c)
<1>1. /\ command[c].kind = "complete" /\ command[c].phase = "failed"
      /\ lists' = Written(k, restored)
      /\ Owe(owed \cup Owing(k) \cup (IF command[c].reread THEN {k} ELSE {}))
      /\ latest' = latest \ {c} /\ command' = Settled(c)
      /\ failures' = IF command[c].home THEN failures \cup {d} ELSE failures
      /\ UNCHANGED <<server, view, fetch, upsets, told, tangled>>
  BY DEF CompletionFails, Answered
<1>2. BoardTypeOK /\ d \in Dailies /\ k \in Filters /\ before \in RowStatuses /\ before # "none"
  BY <1>1, TypesOf DEF BoardInv, RequestsKnown, Completes, CommandSet
<1>3. /\ restored \in Rows /\ restored[d] = before
      /\ \A e \in Dailies \ {d} : restored[e] = lists[k].rows[e]
  <2>1. restored = [lists[k].rows EXCEPT ![d] = before]
    BY <1>2 DEF Restored
  <2> QED
    BY <1>2, <2>1, RowsOf
<1>4. server[d] # "none"
  BY <1>1 DEF BoardInv, Served, Completes
<1>5. (d \notin tangled /\ before = "COMPLETED") => server[d] # "PENDING"
  BY <1>1 DEF BoardInv, Served, Completes
<1>6. \A x \in Commands \ {c} : (Changes(x) /\ command[x].daily = d) => d \in tangled
  BY <1>1 DEF BoardInv, OneRequest, Changes
<1>7. (d \notin tangled /\ ~command[c].reread /\ Trusted(k)) => Agrees(k, d, before)
  BY <1>1 DEF BoardInv, SnapshotsTrue, Completes
<1>8. Completes(c)
  BY <1>1 DEF Completes
<1>9. \A x \in Commands : Completes(x) /\ command[x].key # k => x # c
  OBVIOUS
<1>10. /\ command' \in [Commands -> CommandSet]
       /\ \A x \in Commands \ {c} : command'[x] = command[x]
       /\ command'[c].kind = "none" /\ command'[c].phase = "spent"
  BY <1>1, SettledRequest
<1>11. failures' \subseteq Dailies
  BY <1>1, <1>2 DEF BoardTypeOK
<1>12. \A x \in Commands : command[x].daily # d => x # c
  OBVIOUS
<1> HIDE DEF d, k, before, restored
<1>13. /\ lists' \in [Filters -> ListSet]
       /\ \A f \in Filters \ {k} : lists'[f] = lists[f]
       /\ lists[k].loaded => /\ lists'[k].loaded /\ lists'[k].rows = restored
                             /\ lists'[k].fresh /\ ~lists'[k].failed
       /\ ~lists[k].loaded => lists' = lists
  BY <1>1, <1>2, <1>3, WrittenList
<1>14. \A f \in Filters, e \in Dailies : (f # k \/ e # d) => lists'[f].rows[e] = lists[f].rows[e]
  BY <1>3, <1>13
<1>15. /\ owed' \subseteq Filters
       /\ \A f \in Filters :
            Trusted(f)' => Trusted(f) /\ (f = k => ~command[c].reread /\ lists[k].loaded)
  <2>1. owed' = {f \in owed \cup Owing(k) \cup (IF command[c].reread THEN {k} ELSE {}) : lists'[f].fresh}
    BY <1>1 DEF Owe
  <2>2. owed \subseteq Filters /\ Owing(k) \subseteq {k}
    BY <1>2 DEF BoardTypeOK, Owing
  <2>3. owed' \subseteq Filters
    BY <1>2, <2>1, <2>2
  <2>4. ASSUME NEW f \in Filters, Trusted(f)'
        PROVE  Trusted(f) /\ (f = k => ~command[c].reread /\ lists[k].loaded)
    <3>1. lists'[f].fresh /\ f \notin owed' /\ ~(Fetching /\ KeyOf(view) = f)
      BY <1>1, <2>4 DEF Trusted, Fetching
    <3>2. f \notin owed /\ f \notin Owing(k) /\ (f = k => ~command[c].reread)
      BY <2>1, <3>1
    <3>3. CASE f # k
      BY <1>13, <3>1, <3>2, <3>3 DEF Trusted
    <3>4. CASE f = k
      <4>1. lists[k].loaded
        BY <1>2, <1>13, <3>1, <3>4 DEF BoardInv, ListsKnown
      <4>2. lists[k].fresh
        BY <3>2, <3>4, <4>1 DEF Owing
      <4> QED
        BY <3>1, <3>2, <3>4, <4>1, <4>2 DEF Trusted
    <3> QED
      BY <3>3, <3>4
  <2> QED
    BY <2>3, <2>4
<1>16. BoardTypeOK'
  <2>1. /\ server' \in [Dailies -> RowStatuses \cup {"gone"}]
        /\ view' \in Boards \cup {"form"} /\ upsets' \in 0..MaxUpsets
        /\ fetch' \in FetchSet /\ told' \in [Dailies -> RowStatuses \cup {"gone"}]
        /\ latest' \subseteq Commands /\ tangled' \subseteq Dailies
    BY <1>1, <1>2, TypesOf DEF BoardTypeOK
  <2> QED
    BY <1>10, <1>11, <1>13, <1>15, <2>1 DEF BoardTypeOK, ListSet, FetchSet, CommandSet
<1>17. RequestsKnown'
  BY <1>1, <1>10, FollowedOnes DEF BoardInv, RequestsKnown, Completes, Changes
<1>18. OneRequest'
  BY <1>1, <1>10 DEF BoardInv, OneRequest, Changes
<1>19. ListsKnown'
  <2>1. \A f \in Filters : /\ lists'[f].failed => ~lists'[f].fresh
                           /\ lists'[f].fresh => lists'[f].loaded
                           /\ ~lists'[f].loaded => lists'[f].rows = NoRows
    BY <1>2, <1>13 DEF BoardInv, ListsKnown
  <2>2. OnBoard' /\ ~Fetching' => Shown'.fresh \/ Shown'.failed
    <3>1. SUFFICES ASSUME OnBoard, ~Fetching
                   PROVE  lists'[KeyOf(view)].fresh \/ lists'[KeyOf(view)].failed
      BY <1>1 DEF OnBoard, Shown, Fetching
    <3>2. KeyOf(view) \in Filters
      BY <3>1, KeyInFilters DEF OnBoard
    <3>3. lists[KeyOf(view)].fresh \/ lists[KeyOf(view)].failed
      BY <3>1 DEF BoardInv, ListsKnown, Shown
    <3> QED
      BY <1>13, <3>2, <3>3
  <2>3. Fetching' => OnBoard' /\ \A x \in Commands : command'[x].kind = "complete" => command'[x].reread
    BY <1>1, <1>10 DEF BoardInv, ListsKnown, Fetching, OnBoard, Completes
  <2> QED
    BY <2>1, <2>2, <2>3 DEF ListsKnown, Completes
<1>20. Served'
  <2>1. \A f \in Filters, e \in Dailies : lists'[f].rows[e] # "none" => server[e] # "none"
    BY <1>4, <1>14 DEF BoardInv, Served
  <2>2. ASSUME NEW x \in Commands
        PROVE  /\ command'[x].kind = "complete" =>
                    /\ server[command'[x].daily] # "none"
                    /\ command'[x].phase \in {"done", "already"} => Final(server[command'[x].daily])
                    /\ (command'[x].daily \notin tangled /\ command'[x].before = "COMPLETED")
                         => server[command'[x].daily] # "PENDING"
               /\ command'[x].kind = "delete" /\ command'[x].phase = "done" =>
                    server[command'[x].daily] = "gone"
               /\ command'[x].kind = "save" /\ command'[x].phase = "done" =>
                    server[command'[x].daily] # "none"
    BY <1>10 DEF BoardInv, Served, Completes
  <2>3. /\ \A e \in Dailies : fetch.rows[e] # "none" => server[e] # "none"
        /\ \A e \in Dailies : fetch.rows[e] = "COMPLETED" => Final(server[e])
    BY DEF BoardInv, Served
  <2> QED
    BY <1>1, <2>1, <2>2, <2>3 DEF Served, Completes, Final
<1>21. MarksOwned'
  <2> SUFFICES ASSUME NEW e \in Dailies \ tangled, NEW f \in Filters,
                      lists'[f].rows[e] = "COMPLETED", server[e] = "PENDING"
               PROVE  \E x \in Commands : /\ command'[x].kind = "complete"
                                          /\ command'[x].daily = e /\ command'[x].key = f
    BY <1>1 DEF MarksOwned, Completes
  <2>1. lists[f].rows[e] = "COMPLETED" /\ (f # k \/ e # d)
    <3>1. CASE f = k /\ e = d
      <4>1. CASE lists[k].loaded
        BY <1>3, <1>5, <1>13, <3>1, <4>1
      <4>2. CASE ~lists[k].loaded
        BY <1>2, <3>1, <4>2, <1>13 DEF BoardInv, ListsKnown, NoRows
      <4> QED
        BY <4>1, <4>2
    <3>2. CASE ~(f = k /\ e = d)
      BY <1>14, <3>2
    <3> QED
      BY <3>1, <3>2
  <2>2. PICK x \in Commands : Completes(x) /\ command[x].daily = e /\ command[x].key = f
    BY <2>1 DEF BoardInv, MarksOwned
  <2>3. x # c
    BY <1>9, <1>12, <2>1, <2>2
  <2> QED
    BY <1>10, <2>2, <2>3 DEF Completes
<1>22. ToldTrue'
  BY <1>1 DEF BoardInv, ToldTrue, Final
<1>23. ListsTrue'
  <2> SUFFICES ASSUME NEW f \in Filters, NEW e \in Dailies \ tangled, Trusted(f)'
               PROVE  Agrees(f, e, lists'[f].rows[e])
    BY <1>1 DEF ListsTrue, Agrees
  <2>1. CASE f = k /\ e = d
    <3>1. ~command[c].reread /\ lists[k].loaded /\ Trusted(k)
      BY <1>15, <2>1
    <3> QED
      BY <1>3, <1>7, <1>13, <2>1, <3>1
  <2>2. CASE ~(f = k /\ e = d)
    <3>1. lists'[f].rows[e] = lists[f].rows[e] /\ Trusted(f)
      BY <1>14, <1>15, <2>2
    <3> QED
      BY <3>1 DEF BoardInv, ListsTrue
  <2> QED
    BY <2>1, <2>2
<1>24. FetchTrue'
  BY <1>1 DEF BoardInv, FetchTrue, Agrees
<1>25. SnapshotsTrue'
  <2> SUFFICES ASSUME NEW x \in Commands, NEW f \in Filters, NEW e \in Dailies \ tangled,
                      command'[x].kind = "complete", command'[x].key = f,
                      command'[x].daily = e, ~command'[x].reread, Trusted(f)'
               PROVE  Agrees(f, e, command'[x].before)
    <3>1. \A x \in Commands : command'[x].kind = "complete" =>
             command'[x].daily \in Dailies /\ command'[x].key \in Filters
      BY <1>10, <1>17 DEF RequestsKnown, CommandSet
    <3> QED
      BY <1>1, <3>1 DEF SnapshotsTrue, Completes, Agrees, Trusted, Fetching
  <2>1. x # c
    BY <1>10
  <2> QED
    BY <1>10, <1>15, <2>1 DEF BoardInv, SnapshotsTrue, Completes
<1>26. MarkHolds'
  <2> SUFFICES ASSUME NEW x \in Commands, command'[x].kind = "complete",
                      ~command'[x].reread, command'[x].daily \notin tangled,
                      command'[x].phase \notin {"idle", "spent"}
               PROVE  lists'[command'[x].key].rows[command'[x].daily] # "PENDING"
    BY <1>1 DEF MarkHolds, UnderWay
  <2>1. x # c /\ command'[x] = command[x]
    BY <1>10
  <2>2. command[x].daily # d
    BY <1>6, <2>1 DEF Changes
  <2>3. command[x].key \in Filters /\ command[x].daily \in Dailies
    BY <1>2, <2>1, TypesOf DEF CommandSet, BoardInv, RequestsKnown
  <2>4. lists[command[x].key].rows[command[x].daily] # "PENDING"
    BY <2>1 DEF BoardInv, MarkHolds, UnderWay
  <2> QED
    BY <1>14, <2>1, <2>2, <2>3, <2>4
<1> QED
  BY <1>16, <1>17, <1>18, <1>19, <1>20, <1>21, <1>22, <1>23, <1>24, <1>25, <1>26 DEF BoardInv

------------------------------------------------------------------------------
(* The lists are true to what was told.                                      *)

LEMMA BoardInvInit == BoardInit => BoardInv
<1> SUFFICES ASSUME BoardInit
             PROVE  BoardInv
  OBVIOUS
<1>1. /\ server \in [Dailies -> {"none", "PENDING"}] /\ view = "form"
      /\ lists = [k \in Filters |-> NoList] /\ fetch = NoFetch
      /\ command = [c \in Commands |-> Idle] /\ latest = {} /\ failures = {}
      /\ upsets = 0 /\ told = NoRows /\ owed = {} /\ tangled = {}
  BY DEF BoardInit
<1>2. BoardTypeOK
  <2>1. /\ server \in [Dailies -> RowStatuses \cup {"gone"}]
        /\ told \in [Dailies -> RowStatuses \cup {"gone"}]
    BY <1>1 DEF RowStatuses, NoRows
  <2>2. /\ lists \in [Filters -> ListSet] /\ fetch \in FetchSet
        /\ command \in [Commands -> CommandSet]
    BY <1>1, Constants
  <2> QED
    BY <1>1, <2>1, <2>2, TypesFrom
<1>3. /\ \A c \in Commands : command[c].kind = "none" /\ command[c].phase = "idle"
      /\ \A k \in Filters : /\ lists[k].rows = NoRows
                            /\ ~lists[k].fresh /\ ~lists[k].failed
      /\ fetch.phase = "none" /\ fetch.rows = NoRows
  BY <1>1 DEF Idle, NoList, NoFetch
<1>4. \A d \in Dailies : NoRows[d] = "none"
  BY DEF NoRows
<1>5. ~OnBoard /\ ~Fetching
  BY <1>1, <1>3 DEF OnBoard, Fetching
<1>6. RequestsKnown /\ OneRequest /\ ListsKnown /\ Served
  BY <1>1, <1>3, <1>4, <1>5
  DEF RequestsKnown, OneRequest, ListsKnown, Served, Completes, Changes
<1>7. MarksOwned /\ ToldTrue /\ ListsTrue /\ FetchTrue /\ SnapshotsTrue /\ MarkHolds
  BY <1>1, <1>3, <1>4
  DEF MarksOwned, ToldTrue, ListsTrue, FetchTrue, SnapshotsTrue, MarkHolds, Completes, Trusted
<1> QED
  BY <1>2, <1>6, <1>7 DEF BoardInv

LEMMA BoardInvStep == BoardInv /\ [BoardNext]_boardVars => BoardInv'
<1> SUFFICES ASSUME BoardInv, [BoardNext]_boardVars
             PROVE  BoardInv'
  OBVIOUS
<1>1. CASE UNCHANGED boardVars
  BY <1>1 DEF boardVars, pageVars, boardHistory, BoardInv, BoardTypeOK, RequestsKnown, OneRequest,
              ListsKnown, Served, MarksOwned, ToldTrue, ListsTrue, FetchTrue, SnapshotsTrue,
              MarkHolds, Completes, Changes, UnderWay, Fetching, OnBoard, Shown, Trusted,
              Agrees, Final
<1>2. CASE BoardNext
  <2>1. CASE ServerReads \/ FetchArrives \/ FetchFails \/ RetryList
    BY <2>1, ServerReadsStep, FetchArrivesStep, FetchFailsStep, RetryListStep
  <2>2. CASE \E v \in Boards \cup {"form"} : Navigate(v)
    BY <2>2, NavigateStep
  <2>3. CASE \E d \in Dailies : Elsewhere(d)
    BY <2>3, ElsewhereStep
  <2>4. CASE \E c \in Commands, d \in Dailies : Complete(c, d) \/ Delete(c, d) \/ Save(c, d)
    BY <2>4, CompleteStep, DeleteStep, SaveStep
  <2>5. ASSUME NEW c \in Commands,
               \/ Serve(c) \/ RequestFails(c)
               \/ CompletionDone(c) \/ CompletionFails(c) \/ CompletionRepeated(c)
               \/ DeletionDone(c) \/ CommandFails(c) \/ SaveDone(c)
        PROVE  BoardInv'
    BY <2>5, ServeStep, RequestFailsStep, CompletionDoneStep, CompletionFailsStep,
       CompletionRepeatedStep, DeletionDoneStep, CommandFailsStep, SaveDoneStep
  <2> QED
    BY <1>2, <2>1, <2>2, <2>3, <2>4, <2>5 DEF BoardNext
<1> QED
  BY <1>1, <1>2

\* Lists, fetches and requests have their types (useDailies, useCompleteDaily).
THEOREM BoardTypeCorrect == BoardSpec => []BoardTypeOK
<1>1. BoardInv => BoardTypeOK
  BY DEF BoardInv
<1> QED
  BY BoardInvInit, BoardInvStep, <1>1, PTL DEF BoardSpec

\* However many Dailies, lists and requests there are, a row stays marked while
\* its completion is under way and its list has not been asked for again.
THEOREM MarksStay == BoardSpec => []MarkHolds
<1>1. BoardInv => MarkHolds
  BY DEF BoardInv
<1> QED
  BY BoardInvInit, BoardInvStep, <1>1, PTL DEF BoardSpec

\* However answers, failures, refetches and pages interleave, no list keeps the
\* mark of a completion that has failed.
THEOREM NoMarkIsLeft == BoardSpec => []NoPhantomCompletion
<1>1. BoardInv => NoPhantomCompletion
  <2> SUFFICES ASSUME BoardInv, NEW d \in Dailies \ tangled, NEW k \in Filters,
                      lists[k].rows[d] = "COMPLETED", server[d] = "PENDING"
               PROVE  Completing(d) # {}
    BY DEF NoPhantomCompletion
  <2>1. PICK c \in Commands : Completes(c) /\ command[c].daily = d
    BY DEF BoardInv, MarksOwned
  <2>2. UnderWay(c)
    BY <2>1 DEF BoardInv, RequestsKnown, Completes, UnderWay
  <2> QED
    BY <2>1, <2>2 DEF Completing, Completes
<1> QED
  BY BoardInvInit, BoardInvStep, <1>1, PTL DEF BoardSpec

\* A list at rest on the page shows what the answers have said of each Daily.
THEOREM ListsShowWhatWasTold == BoardSpec => []ToldIsShown
<1>1. BoardInv => ToldIsShown
  <2> SUFFICES ASSUME BoardInv, OnBoard, ~Fetching, ~Shown.failed, KeyOf(view) \notin owed,
                      NEW d \in Dailies \ tangled
               PROVE  /\ told[d] = "COMPLETED" => Shown.rows[d] # "PENDING"
                      /\ told[d] = "gone" => Shown.rows[d] = "none"
                      /\ told[d] = "PENDING" /\ KeyOf(view) = "all" =>
                           Shown.rows[d] # "none" \/ server[d] = "gone"
    BY DEF ToldIsShown
  <2>1. KeyOf(view) \in Filters /\ Trusted(KeyOf(view))
    BY KeyInFilters DEF BoardInv, ListsKnown, Shown, OnBoard, Trusted
  <2>2. Agrees(KeyOf(view), d, Shown.rows[d])
    BY <2>1 DEF BoardInv, ListsTrue, Shown
  <2> QED
    BY <2>2 DEF Agrees
<1> QED
  BY BoardInvInit, BoardInvStep, <1>1, PTL DEF BoardSpec
==============================================================================
