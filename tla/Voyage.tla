-------------------------------- MODULE Voyage --------------------------------
(****************************************************************************)
(* What one tab shows and does about Expeditions                            *)
(* (apps/web-frontend/src/features/expeditions): the overview with its      *)
(* launch form and its result, the Dashboard panel, the detail page, and    *)
(* the launch, which reads its facts again before it is sent.  A step is    *)
(* one macro task.  A query is its last answer and at most one fetch; the   *)
(* fetch of a query that no page observes any more is cancelled.            *)
(*                                                                          *)
(* One amount is invested; the Player is provisioned; a session does not    *)
(* end here, and the balance gate is open (BalanceGate).                    *)
(****************************************************************************)
EXTENDS Naturals

CONSTANTS Trips,      \* Expeditions that there may be
          Submits,    \* bound: clicks on Launch
          MaxFaults   \* bound: requests that fail

ASSUME BoundAssumption == MaxFaults \in Nat

VARIABLES fleet,      \* expedition-service: the state of each Expedition
          view,       \* "overview", "dashboard", "away", or the Expedition of the detail page
          cache,      \* the answer of each query
          fetch,      \* the fetch of each query
          resolved,   \* the overview: the Expedition that it saw resolve
          submit,     \* the launches under way
          faults,
          known       \* history: Expeditions that the answer to a launch named

vars == <<fleet, view, cache, fetch, resolved, submit, faults, known>>

NoTrip == "no trip"
Facts == {"current", "quote"}              \* the queries that a launch reads again
Queries == Facts \cup Trips                \* and the detail of each Expedition
Pages == {"overview", "dashboard", "away"} \cup Trips

Words == {"nothing", "none", "eligible", "blocked", "flying", "resolved"}

ASSUME NameAssumption == Trips \cap ({NoTrip, "overview", "dashboard", "away"} \cup Facts \cup Words) = {}

Answers == Trips \cup Words
Unread == [data |-> "nothing", fresh |-> FALSE, failed |-> FALSE]
NoFetch == [phase |-> "none", data |-> "nothing"]
Asked == [phase |-> "asked", data |-> "nothing"]

\* home: the form that sent it is still mounted.
Idle == [phase |-> "idle", trip |-> NoTrip, home |-> FALSE]

TypeOK ==
  /\ fleet \in [Trips -> {"none", "flying", "resolved"}]
  /\ view \in Pages
  /\ cache \in [Queries -> [data : Answers, fresh : BOOLEAN, failed : BOOLEAN]]
  /\ fetch \in [Queries -> [phase : {"none", "asked", "answered"}, data : Answers]]
  /\ resolved \in Trips \cup {NoTrip}
  /\ submit \in [Submits -> [phase : {"idle", "checking", "sent", "done", "active", "short", "failed", "spent"},
                             trip : Trips \cup {NoTrip}, home : BOOLEAN]]
  /\ faults \in 0..MaxFaults
  /\ known \subseteq Trips

Init ==
  /\ fleet = [t \in Trips |-> "none"]
  /\ view = "away"
  /\ cache = [q \in Queries |-> Unread]
  /\ fetch = [q \in Queries |-> NoFetch]
  /\ resolved = NoTrip
  /\ submit = [s \in Submits |-> Idle]
  /\ faults = 0
  /\ known = {}

------------------------------------------------------------------------------
(* Queries and the pages that observe them.                                  *)

\* The form is there while no Expedition is current.
FormOn(v, c) == v = "overview" /\ c["current"].data = "none"

\* What page v observes, with answers c and r seen to resolve.
Observed(v, c, r) ==
  (IF v \in {"overview", "dashboard"} THEN {"current"} ELSE {})
    \cup (IF FormOn(v, c) THEN {"quote"} ELSE {})
    \cup (IF FormOn(v, c) /\ r \in Trips THEN {r} ELSE {})
    \cup (IF v \in Trips THEN {v} ELSE {})

Fetching(q) == fetch[q].phase # "none"

(* After a change: queries qs are asked again.  One that is newly observed     *)
(* is read when it is stale; the quote, when the Player types an amount.  The *)
(* fetch of one that is left is cancelled.                                   *)
Render(v, c, r, qs, f) ==
  LET kept == IF v = view THEN Observed(view, cache, resolved) ELSE {}
      on == Observed(v, c, r)
  IN
  /\ view' = v /\ cache' = c /\ resolved' = r
  /\ fetch' = [q \in Queries |->
       IF q \notin on THEN NoFetch
       ELSE IF q \in qs \/ (q \notin kept \cup {"quote"} /\ ~c[q].fresh) THEN Asked
       ELSE IF q \in kept THEN f[q] ELSE NoFetch]

\* A launch whose form goes does not hold the button of the next one.
Homes(v, c, subs) ==
  [s \in Submits |-> [subs[s] EXCEPT !.home = @ /\ FormOn(v, c)]]

Flying == {t \in Trips : fleet[t] = "flying"}

\* Materials and cooldown are not followed: without an Expedition, a quote goes either way.
AnswersOf(q) ==
  CASE q = "current" -> IF Flying = {} THEN {"none"} ELSE Flying
    [] q = "quote" -> IF Flying = {} THEN {"eligible", "blocked"} ELSE {"blocked"}
    [] OTHER -> {fleet[q]}

ServerReads(q) ==
  /\ fetch[q].phase = "asked"
  /\ \E data \in AnswersOf(q) : fetch' = [fetch EXCEPT ![q] = [phase |-> "answered", data |-> data]]
  /\ UNCHANGED <<fleet, view, cache, resolved, submit, faults, known>>

\* A current Expedition that is none any more has resolved under the overview's eyes.
Noticed(q, data) ==
  IF q = "current" /\ view = "overview" /\ cache[q].data \in Trips /\ data = "none"
    THEN cache[q].data ELSE resolved

FetchArrives(q) ==
  LET data == fetch[q].data
      c == [cache EXCEPT ![q] = [data |-> data, fresh |-> q # "quote", failed |-> FALSE]]
  IN
  /\ fetch[q].phase = "answered"
  /\ Render(view, c, Noticed(q, data), {}, [fetch EXCEPT ![q] = NoFetch])
  /\ submit' = Homes(view, c, submit)
  /\ UNCHANGED <<fleet, faults, known>>

Fault == faults < MaxFaults /\ faults' = faults + 1

\* The last answer stays, labelled stale.
FetchFails(q) ==
  /\ Fetching(q)
  /\ Fault
  /\ cache' = [cache EXCEPT ![q] = [data |-> @.data, fresh |-> FALSE, failed |-> TRUE]]
  /\ fetch' = [fetch EXCEPT ![q] = NoFetch]
  /\ UNCHANGED <<fleet, view, resolved, submit, known>>

\* An Expedition flies on the overview or on its own page.
Watched(q) ==
  \/ q = "current" /\ view = "overview" /\ cache[q].data \in Trips
  \/ q \in Trips /\ view = q /\ cache[q].data = "flying"

\* Mutation: a poll that failed is the last one.
PolledUntilError(q) == Watched(q) /\ ~cache[q].failed

\* refetchInterval: as long as the last answer has it in flight.
Polled(q) == Watched(q)

Poll(q) ==
  /\ Polled(q) /\ ~Fetching(q)
  /\ fetch' = [fetch EXCEPT ![q] = Asked]
  /\ UNCHANGED <<fleet, view, cache, resolved, submit, faults, known>>

\* Retry beside an answer that could not be read again, in place of a fetch under way.
RetryRead(q) ==
  /\ q \in Observed(view, cache, resolved) /\ cache[q].failed
  /\ fetch' = [fetch EXCEPT ![q] = Asked]
  /\ UNCHANGED <<fleet, view, cache, resolved, submit, faults, known>>

\* An amount is typed or chosen in the form.
TypeAmount ==
  /\ FormOn(view, cache) /\ ~Fetching("quote")
  /\ fetch' = [fetch EXCEPT !["quote"] = Asked]
  /\ UNCHANGED <<fleet, view, cache, resolved, submit, faults, known>>

\* staleTime may have passed for each answer.
Navigate(v) ==
  /\ v # view
  /\ v \in Trips => fleet[v] # "none"
  /\ \E old \in SUBSET Queries :
       LET c == [q \in Queries |-> [cache[q] EXCEPT !.fresh = @ /\ q \notin old]] IN
       /\ old \subseteq {q \in Observed(v, cache, NoTrip) : cache[q].fresh}
       /\ Render(v, c, NoTrip, {}, fetch)
       /\ submit' = Homes("away", c, submit)
  /\ UNCHANGED <<fleet, faults, known>>

------------------------------------------------------------------------------
(* The launch.                                                               *)

\* The button follows the quote; Retry, below a launch that came to nothing, does not.
CanLaunch == cache["quote"].data = "eligible" \/ \E s \in Submits : submit[s].phase = "spent"

\* submitLaunch: the button is not held while another click is still checking.
Submit(s) ==
  /\ submit[s] = Idle
  /\ FormOn(view, cache) /\ CanLaunch
  /\ \A x \in Submits : submit[x].home => submit[x].phase = "checking"
  /\ submit' = [submit EXCEPT ![s] = [Idle EXCEPT !.phase = "checking", !.home = TRUE]]
  /\ fetch' = [q \in Queries |-> IF q \in Facts THEN Asked ELSE fetch[q]]
  /\ UNCHANGED <<fleet, view, cache, resolved, faults, known>>

\* Both reads have ended, whichever way; sent unless the cached facts forbid it.
Checked(s) ==
  /\ submit[s].phase = "checking"
  /\ \A q \in Facts : ~Fetching(q)
  /\ submit' = [submit EXCEPT ![s] =
       IF cache["current"].data \in {"none", "nothing"} /\ cache["quote"].data # "blocked"
         THEN [@ EXCEPT !.phase = "sent"]
         ELSE [Idle EXCEPT !.phase = "spent"]]
  /\ UNCHANGED <<fleet, view, cache, fetch, resolved, faults, known>>

Free == {t \in Trips : fleet[t] = "none"}

\* POST /expeditions/launch.
ServeLaunch(s) ==
  /\ submit[s].phase = "sent"
  /\ \/ /\ Flying = {}
        /\ \E t \in Free :
             /\ fleet' = [fleet EXCEPT ![t] = "flying"]
             /\ submit' = [submit EXCEPT ![s].phase = "done", ![s].trip = t]
     \/ /\ Flying # {}
        /\ \E t \in Flying : submit' = [submit EXCEPT ![s].phase = "active", ![s].trip = t]
        /\ UNCHANGED fleet
     \/ /\ Flying = {}
        /\ submit' = [submit EXCEPT ![s].phase = "short"]
        /\ UNCHANGED fleet
  /\ UNCHANGED <<view, cache, fetch, resolved, faults, known>>

\* Before or after it has been carried out.
LaunchFails(s) ==
  /\ submit[s].phase = "sent"
  /\ Fault
  /\ \/ UNCHANGED fleet
     \/ Flying = {} /\ \E t \in Free : fleet' = [fleet EXCEPT ![t] = "flying"]
  /\ submit' = [submit EXCEPT ![s].phase = "failed"]
  /\ UNCHANGED <<view, cache, fetch, resolved, known>>

Spent(s) == [submit EXCEPT ![s] = [Idle EXCEPT !.phase = "spent"]]

\* Mutation: the answer to the launch is all that is written.
WrittenOnly == {}

Invalidated == {"current"}

\* onSuccess: written, then read again in place of any fetch under way.
Launched(s) ==
  LET c == [cache EXCEPT !["current"] = [data |-> submit[s].trip, fresh |-> Invalidated = {}, failed |-> FALSE]] IN
  /\ submit[s].phase = "done"
  /\ Render(view, c, resolved, Invalidated, fetch)
  /\ submit' = Homes(view, c, Spent(s))
  /\ known' = known \cup {submit[s].trip}
  /\ UNCHANGED <<fleet, faults>>

\* Mutation: every refusal has only the quote read again.
QuoteAgain(s) == {"quote"}

\* What a refusal says is out of date.
Outdated(s) ==
  CASE submit[s].phase = "active" -> {"current"}
    [] submit[s].phase = "short" -> {"quote"}
    [] OTHER -> {}

\* The catch of submitLaunch; never sent again but by a click.
Refused(s) ==
  LET c == [q \in Queries |-> [cache[q] EXCEPT !.fresh = @ /\ q \notin Outdated(s)]] IN
  /\ submit[s].phase \in {"active", "short", "failed"}
  /\ Render(view, c, resolved, Outdated(s), fetch)
  /\ submit' = Spent(s)
  /\ known' = IF submit[s].phase = "active" THEN known \cup {submit[s].trip} ELSE known
  /\ UNCHANGED <<fleet, faults>>

------------------------------------------------------------------------------
(* expedition-service, and everybody else.                                   *)

LaunchElsewhere(t) ==
  /\ Flying = {} /\ t \in Free
  /\ fleet' = [fleet EXCEPT ![t] = "flying"]
  /\ UNCHANGED <<view, cache, fetch, resolved, submit, faults, known>>

\* The worker writes the result with the status.
Resolve(t) ==
  /\ fleet[t] = "flying"
  /\ fleet' = [fleet EXCEPT ![t] = "resolved"]
  /\ UNCHANGED <<view, cache, fetch, resolved, submit, faults, known>>

Next ==
  \/ \E q \in Queries : ServerReads(q) \/ FetchArrives(q) \/ FetchFails(q) \/ Poll(q) \/ RetryRead(q)
  \/ TypeAmount
  \/ \E v \in Pages : Navigate(v)
  \/ \E s \in Submits :
       Submit(s) \/ Checked(s) \/ ServeLaunch(s) \/ LaunchFails(s) \/ Launched(s) \/ Refused(s)
  \/ \E t \in Trips : LaunchElsewhere(t) \/ Resolve(t)

Spec == Init /\ [][Next]_vars

\* Timers fire in a tab that stays visible, and the network lets every request end,
\* answered or not (it has no timeout of its own); strong, as nobody presses Retry
\* again before every answer for ever.  Quotes may fail to come, and no Player need
\* do anything.
Fairness ==
  \A q \in Queries \ {"quote"} :
    /\ WF_vars(Poll(q))
    /\ WF_vars(ServerReads(q))
    /\ SF_vars(FetchArrives(q))

FairSpec == Spec /\ Fairness

------------------------------------------------------------------------------
(* Properties.                                                               *)

\* An Expedition that the answer to a launch named, be it this tab's or the one
\* that was there before, is what the overview and the Dashboard show as long as
\* it flies, once they are at rest: the form does not come back in its place.
KnownFlightShown ==
  \A t \in known :
    (/\ fleet[t] = "flying" /\ view \in {"overview", "dashboard"}
     /\ ~Fetching("current") /\ ~cache["current"].failed)
      => cache["current"].data = t

\* The overview never announces a result of an Expedition that still flies: no
\* answer from before the launch is taken for its end.
NoEarlyResult == resolved \in Trips => fleet[resolved] = "resolved"

\* An Expedition that ends while its page is open is seen to end, whatever polls
\* fail on the way, unless the Player leaves.
EndIsNoticed ==
  \A t \in Trips :
    /\ (view = t /\ cache[t].data = "flying" /\ fleet[t] = "resolved")
         ~> (view # t \/ cache[t].data = "resolved")
    /\ (view = "overview" /\ cache["current"].data = t /\ fleet[t] = "resolved")
         ~> (view # "overview" \/ cache["current"].data # t)
=============================================================================
