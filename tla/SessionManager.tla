---------------------------- MODULE SessionManager ----------------------------
(****************************************************************************)
(* The session of one browser, shared by its tabs                           *)
(* (apps/web-frontend/src/features/auth/session) and by user-service, which *)
(* rotates single-use refresh tokens (apps/user-service/internal/session).  *)
(*                                                                          *)
(* The refresh token lives in localStorage, the access token in the memory  *)
(* of each tab.  A step is one macro task of a tab: what runs between two   *)
(* awaits, with the continuations of the promises it settles.  Messages and *)
(* storage events that say a token was replaced are left out: their         *)
(* handlers do nothing.  So is the wording of the notices.                  *)
(****************************************************************************)
EXTENDS Naturals

CONSTANTS Tabs,
          MaxLogins,     \* bound: sessions ever started in this browser
          MaxRotations,  \* bound: tokens of a family; then refreshing fails
          MaxFaults      \* bound: failures, closed tabs, expiries and deletions of the account

ASSUME BoundAssumption == /\ MaxLogins \in Nat
                          /\ MaxRotations \in Nat
                          /\ MaxFaults \in Nat

Families == 1..MaxLogins   \* a login starts a token family, perhaps of another Player

VARIABLES storage,   \* localStorage: the persisted refresh token
          current,   \* refresh_tokens: the serial that is live in a family, 0 if no row is left
          logins,    \* families started so far
          tab,       \* the snapshot of each tab, and the access token in its memory
          rotation,  \* refreshPromise of each tab: how far it is, and the token concerned
          boots,     \* bootstraps in each tab that wait for its refreshPromise
          me,        \* bootstraps that wait for a getMe, by the family of its access token
          entering,  \* a signup or a login under way in each tab
          leaving,   \* the family that the logout under way in each tab names, 0 without one
          deleting,  \* the family whose access token a deletion under way carries, 0 without one
          cleared,   \* a storage event (the token went away) not yet delivered to a tab
          inbox,     \* session-ended broadcasts not yet delivered to a tab
          orphans,   \* tokens that tabs presented before they were closed
          faults,
          lost,      \* history: a rotation whose answer no tab applied
          crossed,   \* history: the session ended in this tab while a getMe was under way
          ended      \* history: families ended in this browser while no tab was rotating

serverVars == <<current, logins, orphans>>
bootVars == <<boots, me>>
waitVars == <<bootVars, entering, leaving, deleting>>
eventVars == <<cleared, inbox>>
historyVars == <<lost, crossed, ended>>
vars == <<storage, serverVars, tab, rotation, waitVars, eventVars, faults, historyVars>>

Token(f, s) == [family |-> f, serial |-> s]
NoToken == Token(0, 0)
Tokens == [family : 0..MaxLogins, serial : 0..MaxRotations]

Statuses == {"closed", "bootstrapping", "authenticated", "anonymous", "unavailable"}
Snapshots == [status : Statuses, user : 0..MaxLogins,
              access : 0..MaxLogins]
Phases == {"none", "queued", "sent", "rotated", "invalid", "unavailable"}

Rotation(p, tok) == [phase |-> p, token |-> tok]
NoRotation == Rotation("none", NoToken)

TypeOK ==
  /\ storage \in Tokens
  /\ current \in [Families -> 0..MaxRotations]
  /\ logins \in 0..MaxLogins
  /\ tab \in [Tabs -> Snapshots]
  /\ rotation \in [Tabs -> [phase : Phases, token : Tokens]]
  /\ boots \in [Tabs -> Nat]
  /\ me \in [Tabs -> [Families -> Nat]]
  /\ entering \in [Tabs -> BOOLEAN]
  /\ leaving \in [Tabs -> 0..MaxLogins]
  /\ deleting \in [Tabs -> 0..MaxLogins]
  /\ cleared \in [Tabs -> BOOLEAN]
  /\ inbox \in [Tabs -> BOOLEAN]
  /\ orphans \subseteq Tokens
  /\ faults \in 0..MaxFaults
  /\ lost \in BOOLEAN
  /\ crossed \in [Tabs -> BOOLEAN]
  /\ ended \subseteq Families

Closed == [status |-> "closed", user |-> 0, access |-> 0]
NobodyAsks == [f \in Families |-> 0]

Init ==
  /\ storage = NoToken
  /\ current = [f \in Families |-> 0]
  /\ logins = 0
  /\ tab = [t \in Tabs |-> Closed]
  /\ rotation = [t \in Tabs |-> NoRotation]
  /\ boots = [t \in Tabs |-> 0]
  /\ me = [t \in Tabs |-> NobodyAsks]
  /\ entering = [t \in Tabs |-> FALSE]
  /\ leaving = [t \in Tabs |-> 0]
  /\ deleting = [t \in Tabs |-> 0]
  /\ cleared = [t \in Tabs |-> FALSE]
  /\ inbox = [t \in Tabs |-> FALSE]
  /\ orphans = {}
  /\ faults = 0
  /\ lost = FALSE
  /\ crossed = [t \in Tabs |-> FALSE]
  /\ ended = {}

Status(t) == tab[t].status
AsksMe(t) == \E f \in Families : me[t][f] > 0

\* Mutation: the listeners of a tab are attached once it is authenticated.
OthersSignedIn(t) == {u \in Tabs \ {t} : Status(u) = "authenticated"}

Others(t) == {u \in Tabs \ {t} : Status(u) # "closed"}

Fault == faults < MaxFaults /\ faults' = faults + 1

------------------------------------------------------------------------------
(* What ends a session in a tab.                                             *)

\* The access token and the identity go (applyRemoteEnd).
EndIn(t) ==
  /\ tab' = [tab EXCEPT ![t].status = "anonymous", ![t].user = 0, ![t].access = 0]
  /\ crossed' = [crossed EXCEPT ![t] = AsksMe(t)]

Rotating(t) == rotation[t].phase \in {"sent", "rotated"}

\* Mutation: a session that ends leaves its token in localStorage.
ClearStorageNot(t) ==
  /\ UNCHANGED <<storage, cleared>>
  /\ ended' = IF \E u \in Tabs : Rotating(u) THEN ended
                                            ELSE ended \cup ({storage.family} \ {0})

\* removeItem raises a storage event in the other tabs, if there was an item.
ClearStorage(t) ==
  /\ storage' = NoToken
  /\ cleared' = [u \in Tabs |-> IF u \in Others(t) THEN cleared[u] \/ storage # NoToken
                                                   ELSE cleared[u]]
  /\ ended' = IF \E u \in Tabs : Rotating(u) THEN ended
                                            ELSE ended \cup ({storage.family} \ {0})

Announce(t) == inbox' = [u \in Tabs |-> inbox[u] \/ u \in Others(t)]

\* terminate and clearLocalSession: memory, timer, storage, broadcast, snapshot.
EndSession(t) ==
  /\ EndIn(t)
  /\ ClearStorage(t)
  /\ Announce(t)

(* refresh() outside the lock: join the promise there is, or begin one;       *)
(* without a persisted token the session ends at once.                       *)
HasToken(t) == rotation[t].phase # "none" \/ storage # NoToken

Refresh(t) ==
  IF HasToken(t)
    THEN /\ rotation' = [rotation EXCEPT ![t] = IF @.phase = "none" THEN Rotation("queued", NoToken)
                                                                    ELSE @]
         /\ UNCHANGED <<storage, tab, eventVars, crossed, ended>>
    ELSE EndSession(t) /\ UNCHANGED rotation

------------------------------------------------------------------------------
(* Opening a tab, bootstrap, retry, closing.                                 *)

\* bootstrap(): anonymous without a token, else refresh and wait for it, perhaps
\* beside a bootstrap that is under way already.
Bootstrap(t, snapshot) ==
  IF storage = NoToken
    THEN /\ tab' = [tab EXCEPT ![t] = [snapshot EXCEPT !.status = "anonymous", !.user = 0]]
         /\ UNCHANGED <<rotation, boots>>
    ELSE /\ tab' = [tab EXCEPT ![t] = snapshot]
         /\ rotation' = [rotation EXCEPT ![t] = IF @.phase = "none" THEN Rotation("queued", NoToken)
                                                                    ELSE @]
         /\ boots' = [boots EXCEPT ![t] = @ + 1]

\* start(): a page is loaded.
OpenTab(t) ==
  /\ Status(t) = "closed"
  /\ Bootstrap(t, [Closed EXCEPT !.status = "bootstrapping"])
  /\ crossed' = [crossed EXCEPT ![t] = FALSE]
  /\ UNCHANGED <<storage, serverVars, me, entering, leaving, deleting, eventVars, faults, lost, ended>>

\* The Player presses Retry on the page that says the session is unavailable.
RetryBootstrap(t) ==
  /\ Status(t) = "unavailable"
  /\ Bootstrap(t, [tab[t] EXCEPT !.status = "bootstrapping"])
  /\ UNCHANGED <<storage, serverVars, me, entering, leaving, deleting, eventVars, faults, historyVars>>

\* The browser releases the lock of a closed tab; what it sent may still arrive.
CloseTab(t) ==
  /\ Status(t) # "closed"
  /\ tab' = [tab EXCEPT ![t] = Closed]
  /\ orphans' = IF rotation[t].phase = "sent" THEN orphans \cup {rotation[t].token} ELSE orphans
  /\ lost' = (lost \/ Rotating(t))
  /\ rotation' = [rotation EXCEPT ![t] = NoRotation]
  /\ boots' = [boots EXCEPT ![t] = 0]
  /\ me' = [me EXCEPT ![t] = NobodyAsks]
  /\ entering' = [entering EXCEPT ![t] = FALSE]
  /\ leaving' = [leaving EXCEPT ![t] = 0]
  /\ deleting' = [deleting EXCEPT ![t] = 0]
  /\ cleared' = [cleared EXCEPT ![t] = FALSE]
  /\ inbox' = [inbox EXCEPT ![t] = FALSE]
  /\ crossed' = [crossed EXCEPT ![t] = FALSE]
  /\ Fault
  /\ UNCHANGED <<storage, current, logins, ended>>

------------------------------------------------------------------------------
(* One rotation: the Web Lock, user-service, and what follows its answer.    *)

\* A rotation ends with the session, and so do the bootstraps that wait for it.
RefreshTerminates(t) ==
  /\ rotation' = [rotation EXCEPT ![t] = NoRotation]
  /\ boots' = [boots EXCEPT ![t] = 0]
  /\ EndSession(t)
  /\ UNCHANGED <<serverVars, me, entering, leaving, deleting, faults, lost>>

\* Mutation: the task runs at once, as it does in a browser without Web Locks.
AcquireWithoutLock(t) ==
  /\ rotation[t].phase = "queued"
  /\ storage # NoToken
  /\ rotation' = [rotation EXCEPT ![t] = Rotation("sent", storage)]
  /\ UNCHANGED <<storage, serverVars, tab, waitVars, eventVars, faults, historyVars>>

LockFree == \A t \in Tabs : rotation[t].phase \notin {"sent", "rotated", "invalid", "unavailable"}

\* The lock is granted and the token re-read.
AcquireLock(t) ==
  /\ rotation[t].phase = "queued"
  /\ LockFree
  /\ storage # NoToken
  /\ rotation' = [rotation EXCEPT ![t] = Rotation("sent", storage)]
  /\ UNCHANGED <<storage, serverVars, tab, waitVars, eventVars, faults, historyVars>>

\* The lock is granted, but the token went away in the meantime.
FindsNoToken(t) ==
  /\ rotation[t].phase = "queued"
  /\ LockFree
  /\ storage = NoToken
  /\ RefreshTerminates(t)

\* user-service has refused the token.
RefreshRefused(t) ==
  /\ rotation[t].phase = "invalid"
  /\ RefreshTerminates(t)

(* Manager.Rotate: consume the token and issue the next one of its family, or *)
(* revoke the family whose token is presented a second time.  Revocation       *)
(* deletes the rows it sees: the token that a rotation of the family's live    *)
(* one is about to insert survives it, as only the presented row is locked.    *)
Live(tok) == current[tok.family] = tok.serial
Reused(tok) == tok.serial < current[tok.family]
Revoked(f) == [current EXCEPT ![f] = 0]

Presented(tok) == tok \in orphans \/ \E t \in Tabs : rotation[t] = Rotation("sent", tok)

Revoke(f) ==
  \/ current' = Revoked(f)
  \/ Presented(Token(f, current[f])) /\ UNCHANGED current

Rotated(tok) == [current EXCEPT ![tok.family] = @ + 1]

ServerRotates(t) ==
  LET tok == rotation[t].token IN
  /\ rotation[t].phase = "sent"
  /\ \/ /\ Live(tok) /\ tok.serial < MaxRotations
        /\ current' = Rotated(tok)
        /\ rotation' = [rotation EXCEPT ![t] = Rotation("rotated", Token(tok.family, tok.serial + 1))]
     \/ /\ Reused(tok)
        /\ Revoke(tok.family)
        /\ rotation' = [rotation EXCEPT ![t].phase = "invalid"]
     \/ /\ ~Live(tok) /\ ~Reused(tok)
        /\ rotation' = [rotation EXCEPT ![t].phase = "invalid"]
        /\ UNCHANGED current
  /\ UNCHANGED <<storage, logins, orphans, tab, waitVars, eventVars, faults, historyVars>>

\* No connection, a 5xx, or a family at its bound: nothing is rotated.
ServerUnavailable(t) ==
  /\ rotation[t].phase = "sent"
  /\ \/ Fault
     \/ rotation[t].token.serial = MaxRotations /\ UNCHANGED faults
  /\ rotation' = [rotation EXCEPT ![t].phase = "unavailable"]
  /\ UNCHANGED <<storage, serverVars, tab, waitVars, eventVars, historyVars>>

\* The rotation commits and its answer never arrives.
AnswerLost(t) ==
  /\ rotation[t].phase = "rotated"
  /\ Fault
  /\ lost' = TRUE
  /\ rotation' = [rotation EXCEPT ![t].phase = "unavailable"]
  /\ UNCHANGED <<storage, serverVars, tab, waitVars, eventVars, crossed, ended>>

\* What a closed tab had sent is handled after all, or is lost.
ServerHandlesOrphan(tok) ==
  /\ tok \in orphans
  /\ orphans' = orphans \ {tok}
  /\ \/ Live(tok) /\ tok.serial < MaxRotations /\ current' = Rotated(tok)
     \/ Reused(tok) /\ Revoke(tok.family)
     \/ UNCHANGED current
  /\ UNCHANGED <<storage, logins, tab, rotation, waitVars, eventVars, faults, historyVars>>

(* The answer is applied inside the lock: memory, then localStorage.  Unless  *)
(* the tab is bootstrapping it is authenticated from here on, whatever became *)
(* of its session in the meantime.  Bootstraps that waited ask for the user    *)
(* if the tab does not know it, each of them.                                 *)
FinishRefresh(t) ==
  LET f == rotation[t].token.family
      knows == tab[t].user # 0
      done == [tab[t] EXCEPT !.access = f]
      usable == [done EXCEPT !.status = "authenticated"]
  IN
  /\ rotation[t].phase = "rotated"
  /\ storage' = rotation[t].token
  /\ rotation' = [rotation EXCEPT ![t] = NoRotation]
  /\ tab' = [tab EXCEPT ![t] = IF Status(t) # "bootstrapping" \/ (boots[t] > 0 /\ knows)
                                 THEN usable ELSE done]
  /\ boots' = [boots EXCEPT ![t] = 0]
  /\ me' = IF knows THEN me ELSE [me EXCEPT ![t][f] = @ + boots[t]]
  /\ UNCHANGED <<serverVars, entering, leaving, deleting, eventVars, faults, historyVars>>

\* A failure that says nothing about the session keeps the stored token.
RefreshUnavailable(t) ==
  /\ rotation[t].phase = "unavailable"
  /\ rotation' = [rotation EXCEPT ![t] = NoRotation]
  /\ tab' = [tab EXCEPT ![t].status = "unavailable"]
  /\ boots' = [boots EXCEPT ![t] = 0]
  /\ UNCHANGED <<storage, serverVars, me, entering, leaving, deleting, eventVars, faults, historyVars>>

MeEnds(t, f) ==
  /\ me[t][f] > 0
  /\ me' = [me EXCEPT ![t][f] = @ - 1]
  /\ UNCHANGED <<boots, entering, leaving, deleting>>

\* getMe answers a bootstrap, which shows that user, even to a newer session, and
\* promotes the tab without a second look.
BootstrapDone(t, f) ==
  /\ MeEnds(t, f)
  /\ tab' = [tab EXCEPT ![t].status = "authenticated", ![t].user = f]
  /\ UNCHANGED <<storage, serverVars, rotation, eventVars, faults, historyVars>>

\* getMe fails: terminal when the access token is refused, else unavailable.
BootstrapFails(t, f) ==
  /\ MeEnds(t, f)
  /\ Fault
  /\ \/ EndSession(t)
     \/ /\ tab' = [tab EXCEPT ![t].status = "unavailable"]
        /\ UNCHANGED <<storage, eventVars, crossed, ended>>
  /\ UNCHANGED <<serverVars, rotation, lost>>

------------------------------------------------------------------------------
(* Signing up and in; what triggers a rotation; a feature's requests.        *)

StartLogin(t) ==
  /\ Status(t) = "anonymous"
  /\ ~entering[t]
  /\ logins < MaxLogins
  /\ entering' = [entering EXCEPT ![t] = TRUE]
  /\ UNCHANGED <<storage, serverVars, tab, rotation, bootVars, leaving, deleting, eventVars, faults, historyVars>>

LoginFails(t) ==
  /\ entering[t]
  /\ entering' = [entering EXCEPT ![t] = FALSE]
  /\ UNCHANGED <<storage, serverVars, tab, rotation, bootVars, leaving, deleting, eventVars, faults, historyVars>>

\* The signup or login is answered: adoptSession, whatever the tab has become
\* since.  It takes no lock.
Login(t) ==
  LET f == logins + 1 IN
  /\ entering[t]
  /\ logins < MaxLogins /\ MaxRotations > 0
  /\ entering' = [entering EXCEPT ![t] = FALSE]
  /\ logins' = f
  /\ current' = [current EXCEPT ![f] = 1]
  /\ storage' = Token(f, 1)
  /\ tab' = [tab EXCEPT ![t] = [status |-> "authenticated", user |-> f,
                                access |-> f]]
  /\ crossed' = [crossed EXCEPT ![t] = FALSE]
  /\ UNCHANGED <<orphans, rotation, bootVars, leaving, deleting, eventVars, faults, lost, ended>>

(* refresh() in an authenticated tab: its access token comes within            *)
(* refreshThresholdMs of its expiry while the tab is watched                  *)
(* (maybeProactiveRefresh) or before it makes a request (ensureFreshToken),   *)
(* or a request with a bearer is answered AUTH_INVALID_TOKEN                  *)
(* (handleUnauthorized).  At any time, since clocks are not modelled.        *)
RefreshDue(t) ==
  /\ Status(t) = "authenticated"
  /\ tab[t].access # 0
  /\ rotation[t].phase = "none"
  /\ Refresh(t)
  /\ UNCHANGED <<serverVars, waitVars, faults, lost>>

------------------------------------------------------------------------------
(* Signing out, deleting the account.                                        *)

\* logout(): ask for revocation of whatever token is stored.
StartLogout(t) ==
  /\ Status(t) = "authenticated"
  /\ leaving[t] = 0
  /\ IF storage = NoToken
       THEN EndSession(t) /\ UNCHANGED leaving
       ELSE /\ leaving' = [leaving EXCEPT ![t] = storage.family]
            /\ UNCHANGED <<storage, tab, eventVars, crossed, ended>>
  /\ UNCHANGED <<serverVars, rotation, bootVars, entering, deleting, faults, lost>>

\* Manager.Logout.
ServerRevokes(t) ==
  /\ leaving[t] # 0
  /\ Revoke(leaving[t])
  /\ UNCHANGED <<storage, logins, orphans, tab, rotation, waitVars, eventVars, faults, historyVars>>

\* Mutation: no timeout, the local sign-out waits for the revocation.
LogoutEndsRevoked(t) ==
  /\ leaving[t] # 0
  /\ current[leaving[t]] = 0
  /\ EndSession(t)
  /\ leaving' = [leaving EXCEPT ![t] = 0]
  /\ UNCHANGED <<serverVars, rotation, bootVars, entering, deleting, faults, lost>>

(* The local sign-out happens in any case: answered, after a failure, or after *)
(* LOGOUT_CONFIRMATION_TIMEOUT_MS.                                            *)
LogoutEnds(t) ==
  /\ leaving[t] # 0
  /\ EndSession(t)
  /\ leaving' = [leaving EXCEPT ![t] = 0]
  /\ UNCHANGED <<serverVars, rotation, bootVars, entering, deleting, faults, lost>>

\* deleteAccount(), once ensureFreshToken (RefreshDue) has nothing to do.
StartDelete(t) ==
  /\ Status(t) = "authenticated"
  /\ deleting[t] = 0
  /\ tab[t].access # 0
  /\ Fault
  /\ deleting' = [deleting EXCEPT ![t] = tab[t].access]
  /\ UNCHANGED <<storage, serverVars, tab, rotation, bootVars, entering, leaving, eventVars, historyVars>>

\* The rows of the account go with it, and those families with them.
AccountDeleted(t) ==
  /\ deleting[t] # 0
  /\ current' = Revoked(deleting[t])
  /\ UNCHANGED <<storage, logins, orphans, tab, rotation, waitVars, eventVars, faults, historyVars>>

\* The answer clears what there is by then, perhaps a newer session.
DeleteDone(t) ==
  /\ deleting[t] # 0 /\ current[deleting[t]] = 0
  /\ EndSession(t)
  /\ deleting' = [deleting EXCEPT ![t] = 0]
  /\ UNCHANGED <<serverVars, rotation, bootVars, entering, leaving, faults, lost>>

\* Refused, or the answer is lost: the session here goes on until its next rotation.
DeleteFails(t) ==
  /\ deleting[t] # 0
  /\ deleting' = [deleting EXCEPT ![t] = 0]
  /\ UNCHANGED <<storage, serverVars, tab, rotation, bootVars, entering, leaving, eventVars, faults, historyVars>>

\* Refresh tokens expire after seven days; what a closed tab asked for is done.
FamilyExpires(f) ==
  /\ current[f] # 0
  /\ Fault
  /\ current' = Revoked(f)
  /\ UNCHANGED <<storage, logins, orphans, tab, rotation, waitVars, eventVars, historyVars>>

------------------------------------------------------------------------------
(* What other tabs did (handleRemoteEnd).                                    *)

\* The storage event has no reason; the listener reads the key again.
DeliverStorageEvent(t) ==
  /\ cleared[t]
  /\ cleared' = [cleared EXCEPT ![t] = FALSE]
  /\ IF storage = NoToken /\ Status(t) # "anonymous"
       THEN EndIn(t)
       ELSE UNCHANGED <<tab, crossed>>
  /\ UNCHANGED <<storage, serverVars, rotation, waitVars, inbox, faults, lost, ended>>

\* A broadcast ends the session here whatever is stored by now, unless the tab
\* says already that the account was deleted and has become unavailable since.
DeliverBroadcast(t) ==
  /\ inbox[t]
  /\ inbox' = [inbox EXCEPT ![t] = FALSE]
  /\ \/ EndIn(t)
     \/ Status(t) = "unavailable" /\ (AsksMe(t) => crossed[t]) /\ UNCHANGED <<tab, crossed>>
  /\ UNCHANGED <<storage, serverVars, rotation, waitVars, cleared, faults, lost, ended>>

------------------------------------------------------------------------------
Next ==
  \/ \E t \in Tabs :
       \/ OpenTab(t) \/ RetryBootstrap(t) \/ CloseTab(t)
       \/ AcquireLock(t) \/ FindsNoToken(t) \/ RefreshRefused(t) \/ FinishRefresh(t) \/ RefreshUnavailable(t)
       \/ ServerRotates(t) \/ ServerUnavailable(t) \/ AnswerLost(t)
       \/ \E f \in Families : BootstrapDone(t, f) \/ BootstrapFails(t, f)
       \/ StartLogin(t) \/ LoginFails(t) \/ Login(t) \/ RefreshDue(t)
       \/ StartLogout(t) \/ ServerRevokes(t) \/ LogoutEnds(t)
       \/ StartDelete(t) \/ AccountDeleted(t) \/ DeleteDone(t) \/ DeleteFails(t)
       \/ DeliverStorageEvent(t) \/ DeliverBroadcast(t)
  \/ \E tok \in orphans : ServerHandlesOrphan(tok)
  \/ \E f \in Families : FamilyExpires(f)

Spec == Init /\ [][Next]_vars

\* The lock's queue, continuations, and the timer of a logout.  A request need not
\* end: no other has a timeout.
Fairness ==
  \A t \in Tabs :
    /\ SF_vars(AcquireLock(t) \/ FindsNoToken(t))
    /\ WF_vars(RefreshRefused(t))
    /\ WF_vars(FinishRefresh(t))
    /\ WF_vars(RefreshUnavailable(t))
    /\ WF_vars(LogoutEnds(t))

FairSpec == Spec /\ Fairness

------------------------------------------------------------------------------
(* Properties.                                                               *)

\* Refresh tokens are single-use, and a second use costs the whole family: no
\* tab presents a consumed token unless an answer was lost or its tab closed
\* while it waited (the Web Lock and the re-read inside it, performRefresh).
PresentedFresh ==
  ~lost => \A t \in Tabs : rotation[t].phase = "sent" => ~Reused(rotation[t].token)

\* A session that was ended, by anyone, while no tab was in the middle of a
\* rotation never gets back into localStorage: a tab that was still waiting for
\* the lock finds the token gone (performRefresh).
EndedStaysEnded == storage.family \notin ended

\* When a tab has heard of everything that happened, it shows protected content
\* only while the browser has a session, except where the end came between its
\* bootstrap's rotation and the answer of getMe (handleRemoteEnd, bootstrap).
ProtectedOnlyInSession ==
  \A t \in Tabs :
    Status(t) = "authenticated" /\ ~crossed[t] /\ ~cleared[t] /\ ~inbox[t]
      => storage # NoToken

\* A rotation or a getMe of this tab is unanswered.
Asking(t) == rotation[t].phase = "sent" \/ AsksMe(t)

\* A logout ends the local session although nothing is ever answered.  Every
\* bootstrap resolves, through the queue of the Web Lock and whatever ends or
\* restarts in other tabs, if no request stays unanswered for ever: one that does
\* keeps its tab, and through the lock every other one, waiting (performRefresh).
EveryWaitEnds ==
  /\ \A t \in Tabs : leaving[t] # 0 ~> Status(t) \in {"anonymous", "closed"}
  /\ (\A t \in Tabs : []<>~Asking(t)) =>
       \A t \in Tabs : Status(t) = "bootstrapping" ~> Status(t) # "bootstrapping"
==============================================================================
