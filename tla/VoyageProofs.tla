----------------------------- MODULE VoyageProofs -----------------------------
(* Proofs about Voyage, for any Expeditions, clicks and failures.             *)
EXTENDS Voyage, TLAPS

OneFlies == \A t, u \in Flying : t = u

\* An answer names an Expedition only after it was launched.
Launches ==
  /\ cache["current"].data \in Trips => fleet[cache["current"].data] # "none"
  /\ fetch["current"].phase = "answered" => fetch["current"].data \in Trips \cup {"none"}
  /\ (fetch["current"].phase = "answered" /\ fetch["current"].data \in Trips)
       => fleet[fetch["current"].data] # "none"
  /\ \A s \in Submits : submit[s].phase \in {"done", "active"} =>
       submit[s].trip \in Trips /\ fleet[submit[s].trip] # "none"
  /\ \A t \in known : fleet[t] # "none"

\* That there is none any more is learnt of the Expedition that was shown.
EndsAreEnds ==
  /\ (/\ fetch["current"].phase = "answered" /\ fetch["current"].data = "none"
      /\ cache["current"].data \in Trips) => fleet[cache["current"].data] = "resolved"
  /\ NoEarlyResult

\* What has been named is shown, or is about to be read.
KnownOrDue ==
  \A t \in known : fleet[t] = "flying" =>
    /\ fetch["current"].phase = "answered" => fetch["current"].data = t
    /\ cache["current"].data # t =>
         /\ ~cache["current"].fresh
         /\ view \in {"overview", "dashboard"} => Fetching("current") \/ cache["current"].failed

IInv == TypeOK /\ OneFlies /\ Launches /\ EndsAreEnds /\ KnownOrDue

LEMMA Names == Trips \cap (Words \cup Facts \cup {NoTrip, "overview", "dashboard", "away"}) = {}
  BY NameAssumption

LEMMA InitIInv == Init => IInv
<1> SUFFICES ASSUME Init PROVE IInv
  OBVIOUS
<1> USE Names, BoundAssumption DEF Init, Words, Facts
<1>1. TypeOK
  BY DEF TypeOK, Unread, NoFetch, Idle, Answers, Pages
<1>2. OneFlies /\ Launches
  BY DEF OneFlies, Flying, Launches, Unread, NoFetch, Idle, Queries
<1>3. EndsAreEnds /\ KnownOrDue
  BY DEF EndsAreEnds, NoEarlyResult, KnownOrDue, NoFetch, NoTrip, Queries
<1> QED
  BY <1>1, <1>2, <1>3 DEF IInv

------------------------------------------------------------------------------
CacheType == [Queries -> [data : Answers, fresh : BOOLEAN, failed : BOOLEAN]]
FetchType == [Queries -> [phase : {"none", "asked", "answered"}, data : Answers]]
SubmitType == [Submits -> [phase : {"idle", "checking", "sent", "done", "active", "short", "failed", "spent"},
                           trip : Trips \cup {NoTrip}, home : BOOLEAN]]

\* Render keeps the fetches it does not begin or cancel.
LEMMA RenderTyped ==
  ASSUME NEW v, NEW c, NEW r, NEW qs, NEW f \in FetchType, Render(v, c, r, qs, f)
  PROVE  view' = v /\ cache' = c /\ resolved' = r /\ fetch' \in FetchType
<1>1. Asked \in [phase : {"none", "asked", "answered"}, data : Answers]
  BY DEF Asked, Answers, Words
<1>2. NoFetch \in [phase : {"none", "asked", "answered"}, data : Answers]
  BY DEF NoFetch, Answers, Words
<1> QED
  BY <1>1, <1>2 DEF Render, FetchType

LEMMA HomesTyped ==
  ASSUME NEW v, NEW c, NEW subs \in SubmitType
  PROVE  Homes(v, c, subs) \in SubmitType
<1> SUFFICES ASSUME NEW s \in Submits
    PROVE [subs[s] EXCEPT !.home = @ /\ FormOn(v, c)]
            \in [phase : {"idle", "checking", "sent", "done", "active", "short", "failed", "spent"},
                trip : Trips \cup {NoTrip}, home : BOOLEAN]
  BY DEF Homes, SubmitType
<1>1. subs[s] \in [phase : {"idle", "checking", "sent", "done", "active", "short", "failed", "spent"},
                  trip : Trips \cup {NoTrip}, home : BOOLEAN]
  BY DEF SubmitType
<1>2. (subs[s].home /\ FormOn(v, c)) \in BOOLEAN
  BY <1>1 DEF FormOn
<1> QED
  BY <1>1, <1>2

\* An answer that was fresh may have aged.
LEMMA AgedTyped ==
  ASSUME NEW c \in CacheType, NEW old
  PROVE  [q \in Queries |-> [c[q] EXCEPT !.fresh = @ /\ q \notin old]] \in CacheType
<1> SUFFICES ASSUME NEW q \in Queries
    PROVE [c[q] EXCEPT !.fresh = @ /\ q \notin old] \in [data : Answers, fresh : BOOLEAN, failed : BOOLEAN]
  BY DEF CacheType
<1>1. c[q] \in [data : Answers, fresh : BOOLEAN, failed : BOOLEAN]
  BY DEF CacheType
<1>2. (c[q].fresh /\ q \notin old) \in BOOLEAN
  BY <1>1
<1> QED
  BY <1>1, <1>2

LEMMA SpentTyped == ASSUME TypeOK, NEW s \in Submits PROVE Spent(s) \in SubmitType
  BY DEF TypeOK, Spent, Idle, SubmitType

\* Every step keeps the types.
LEMMA StepTypeOK == IInv /\ [Next]_vars => TypeOK'
<1> SUFFICES ASSUME IInv, [Next]_vars PROVE TypeOK'
  OBVIOUS
<1> USE BoundAssumption DEF IInv, TypeOK, Asked, NoFetch, Idle, Queries, Answers, Words, Facts, Pages
<1>1. ASSUME NEW q \in Queries, ServerReads(q) PROVE TypeOK'
  BY <1>1 DEF ServerReads, AnswersOf, Flying
<1>2. ASSUME NEW q \in Queries, FetchArrives(q) PROVE TypeOK'
  BY <1>2 DEF FetchArrives, Render, Noticed, Homes
<1>3. ASSUME NEW q \in Queries, FetchFails(q) PROVE TypeOK'
  <2>1. cache' \in CacheType
    BY <1>3 DEF FetchFails, CacheType
  <2>2. faults' \in 0..MaxFaults
    BY <1>3 DEF FetchFails, Fault
  <2> QED
    BY <1>3, <2>1, <2>2 DEF FetchFails, CacheType
<1>4. ASSUME NEW q \in Queries, Poll(q) PROVE TypeOK'
  BY <1>4 DEF Poll
<1>5. ASSUME NEW q \in Queries, RetryRead(q) PROVE TypeOK'
  BY <1>5 DEF RetryRead
<1>6. CASE TypeAmount
  BY <1>6 DEF TypeAmount
<1>7. ASSUME NEW v \in Pages, Navigate(v) PROVE TypeOK'
  <2>1. PICK old \in SUBSET Queries :
          LET c == [q \in Queries |-> [cache[q] EXCEPT !.fresh = @ /\ q \notin old]] IN
          Render(v, c, NoTrip, {}, fetch) /\ submit' = Homes("away", c, submit)
    BY <1>7 DEF Navigate
  <2> DEFINE c == [q \in Queries |-> [cache[q] EXCEPT !.fresh = @ /\ q \notin old]]
  <2>6. cache \in CacheType /\ fetch \in FetchType /\ submit \in SubmitType
    BY DEF CacheType, FetchType, SubmitType
  <2>7. c \in CacheType
    BY <2>6, AgedTyped
  <2>2. c \in CacheType /\ fetch \in FetchType /\ submit \in SubmitType
    BY <2>6, <2>7
  <2>3. Render(v, c, NoTrip, {}, fetch) /\ submit' = Homes("away", c, submit)
    BY <2>1
  <2> HIDE DEF c
  <2>4. view' = v /\ cache' = c /\ resolved' = NoTrip /\ fetch' \in FetchType
    BY <2>2, <2>3, RenderTyped
  <2>5. submit' \in SubmitType
    BY <2>2, <2>3, HomesTyped
  <2> QED
    BY <1>7, <2>2, <2>4, <2>5 DEF Navigate, CacheType, FetchType, SubmitType
<1>8. ASSUME NEW s \in Submits, Submit(s) PROVE TypeOK'
  BY <1>8 DEF Submit
<1>9. ASSUME NEW s \in Submits, Checked(s) PROVE TypeOK'
  <2>1. submit' \in SubmitType
    <3>1. CASE submit' = [submit EXCEPT ![s] = [@ EXCEPT !.phase = "sent"]]
      BY <3>1 DEF SubmitType
    <3>2. CASE submit' = [submit EXCEPT ![s] = [Idle EXCEPT !.phase = "spent"]]
      BY <3>2 DEF SubmitType
    <3> QED
      BY <1>9, <3>1, <3>2 DEF Checked
  <2> QED
    BY <1>9, <2>1 DEF Checked, SubmitType
<1>10. ASSUME NEW s \in Submits, ServeLaunch(s) PROVE TypeOK'
  BY <1>10 DEF ServeLaunch, Flying, Free
<1>11. ASSUME NEW s \in Submits, LaunchFails(s) PROVE TypeOK'
  BY <1>11 DEF LaunchFails, Fault, Flying, Free
<1>12. ASSUME NEW s \in Submits, Launched(s) PROVE TypeOK'
  <2> DEFINE c == [cache EXCEPT !["current"] = [data |-> submit[s].trip, fresh |-> Invalidated = {}, failed |-> FALSE]]
  <2>1. submit[s].trip \in Trips
    BY <1>12 DEF Launched, Launches
  <2>2. c \in CacheType /\ fetch \in FetchType
    BY <2>1 DEF CacheType, FetchType, Invalidated
  <2>3. Render(view, c, resolved, Invalidated, fetch) /\ submit' = Homes(view, c, Spent(s))
    BY <1>12 DEF Launched
  <2> HIDE DEF c
  <2>4. view' = view /\ cache' = c /\ resolved' = resolved /\ fetch' \in FetchType
    BY <2>2, <2>3, RenderTyped
  <2>5. submit' \in SubmitType
    BY <2>3, SpentTyped, HomesTyped
  <2> QED
    BY <1>12, <2>1, <2>2, <2>4, <2>5 DEF Launched, CacheType, FetchType, SubmitType
<1>13. ASSUME NEW s \in Submits, Refused(s) PROVE TypeOK'
  <2> DEFINE c == [q \in Queries |-> [cache[q] EXCEPT !.fresh = @ /\ q \notin Outdated(s)]]
  <2>6. cache \in CacheType /\ fetch \in FetchType
    BY DEF CacheType, FetchType
  <2>7. c \in CacheType
    BY <2>6, AgedTyped
  <2>1. c \in CacheType /\ fetch \in FetchType
    BY <2>6, <2>7
  <2>2. Render(view, c, resolved, Outdated(s), fetch) /\ submit' = Spent(s)
    BY <1>13 DEF Refused
  <2> HIDE DEF c
  <2>3. view' = view /\ cache' = c /\ resolved' = resolved /\ fetch' \in FetchType
    BY <2>1, <2>2, RenderTyped
  <2>4. submit' \in SubmitType
    BY <2>2, SpentTyped
  <2>5. known' \subseteq Trips
    BY <1>13 DEF Refused, Launches
  <2> QED
    BY <1>13, <2>1, <2>3, <2>4, <2>5 DEF Refused, CacheType, FetchType, SubmitType
<1>14. ASSUME NEW t \in Trips, LaunchElsewhere(t) PROVE TypeOK'
  BY <1>14 DEF LaunchElsewhere, Free
<1>15. ASSUME NEW t \in Trips, Resolve(t) PROVE TypeOK'
  BY <1>15 DEF Resolve, Flying
<1>16. CASE UNCHANGED vars
  BY <1>16 DEF vars
<1> QED
  BY <1>1, <1>2, <1>3, <1>4, <1>5, <1>6, <1>7, <1>8, <1>9, <1>10, <1>11, <1>12, <1>13, <1>14, <1>15, <1>16 DEF Next

------------------------------------------------------------------------------
LEMMA CurrentIsAQuery == "current" \in Queries /\ "current" \notin Trips /\ "none" \notin Trips
  BY Names DEF Queries, Facts, Words

\* What a change of page or of answers makes of the fetch of the current Expedition.
LEMMA RenderCurrent ==
  ASSUME NEW v, NEW c, NEW r, NEW qs, NEW f, Render(v, c, r, qs, f)
  PROVE  fetch'["current"] =
           IF v \notin {"overview", "dashboard"} THEN NoFetch
           ELSE IF "current" \in qs \/ (v # view /\ ~c["current"].fresh) THEN Asked
           ELSE IF v = view THEN f["current"] ELSE NoFetch
<1> USE CurrentIsAQuery
<1>1. \A w, b, x : "current" \in Observed(w, b, x) <=> w \in {"overview", "dashboard"}
  BY Names DEF Observed, Facts
<1>2. "current" # "quote"
  OBVIOUS
<1> QED
  BY <1>1, <1>2 DEF Render

LEMMA HomesKeeps ==
  ASSUME NEW v, NEW c, NEW subs \in SubmitType, NEW x \in Submits
  PROVE  Homes(v, c, subs)[x].phase = subs[x].phase /\ Homes(v, c, subs)[x].trip = subs[x].trip
  BY DEF Homes, SubmitType

LEMMA SpentIs ==
  ASSUME TypeOK, NEW s \in Submits, NEW x \in Submits
  PROVE  IF x = s THEN Spent(s)[x].phase = "spent" ELSE Spent(s)[x] = submit[x]
  BY DEF Spent, Idle, TypeOK

OnPage == view \in {"overview", "dashboard"}
SameLaunch(x) == submit'[x].phase = submit[x].phase /\ submit'[x].trip = submit[x].trip

\* What the steps that render do to the current Expedition and to the launches.
LEMMA FetchArrivesDoes ==
  ASSUME TypeOK, NEW q \in Queries, FetchArrives(q)
  PROVE  /\ cache'["current"] = IF q = "current" THEN [data |-> fetch[q].data, fresh |-> TRUE, failed |-> FALSE]
                                ELSE cache["current"]
         /\ fetch'["current"] = IF OnPage /\ q # "current" THEN fetch["current"] ELSE NoFetch
         /\ fetch[q].phase = "answered"
         /\ view' = view /\ resolved' = Noticed(q, fetch[q].data) /\ fleet' = fleet /\ known' = known
         /\ \A x \in Submits : SameLaunch(x)
<1> USE CurrentIsAQuery
<1> DEFINE c == [cache EXCEPT ![q] = [data |-> fetch[q].data, fresh |-> q # "quote", failed |-> FALSE]]
           f == [fetch EXCEPT ![q] = NoFetch]
<1>1. Render(view, c, Noticed(q, fetch[q].data), {}, f) /\ submit' = Homes(view, c, submit)
  BY DEF FetchArrives
<1>2. c["current"] = IF q = "current" THEN [data |-> fetch[q].data, fresh |-> TRUE, failed |-> FALSE]
                     ELSE cache["current"]
  BY DEF TypeOK
<1>3. f["current"] = IF q = "current" THEN NoFetch ELSE fetch["current"]
  BY DEF TypeOK
<1> HIDE DEF c, f
<1>4. view' = view /\ cache' = c /\ resolved' = Noticed(q, fetch[q].data)
  BY <1>1 DEF Render
<1>5. fetch'["current"] = IF OnPage THEN f["current"] ELSE NoFetch
  BY <1>1, RenderCurrent DEF OnPage
<1>6. \A x \in Submits : SameLaunch(x)
  BY <1>1, HomesKeeps DEF SameLaunch, TypeOK, SubmitType
<1> QED
  BY <1>2, <1>3, <1>4, <1>5, <1>6 DEF FetchArrives

LEMMA NavigateDoes ==
  ASSUME TypeOK, NEW v \in Pages, Navigate(v)
  PROVE  /\ cache'["current"].data = cache["current"].data
         /\ cache'["current"].failed = cache["current"].failed
         /\ cache'["current"].fresh => cache["current"].fresh
         /\ fetch'["current"] = IF v \in {"overview", "dashboard"} /\ ~cache'["current"].fresh THEN Asked ELSE NoFetch
         /\ view' = v /\ resolved' = NoTrip /\ fleet' = fleet /\ known' = known
         /\ \A x \in Submits : SameLaunch(x)
<1> USE CurrentIsAQuery
<1>1. PICK old \in SUBSET Queries :
        LET c == [q \in Queries |-> [cache[q] EXCEPT !.fresh = @ /\ q \notin old]] IN
        Render(v, c, NoTrip, {}, fetch) /\ submit' = Homes("away", c, submit)
  BY DEF Navigate
<1> DEFINE c == [q \in Queries |-> [cache[q] EXCEPT !.fresh = @ /\ q \notin old]]
<1>2. Render(v, c, NoTrip, {}, fetch) /\ submit' = Homes("away", c, submit)
  BY <1>1
<1>3. c["current"] = [cache["current"] EXCEPT !.fresh = @ /\ "current" \notin old]
  OBVIOUS
<1>4. /\ c["current"].data = cache["current"].data /\ c["current"].failed = cache["current"].failed
      /\ c["current"].fresh => cache["current"].fresh
  BY <1>3 DEF TypeOK
<1> HIDE DEF c
<1>5. view' = v /\ cache' = c /\ resolved' = NoTrip
  BY <1>2 DEF Render
<1>6. fetch'["current"] = IF v \in {"overview", "dashboard"} /\ ~c["current"].fresh THEN Asked ELSE NoFetch
  BY <1>2, RenderCurrent DEF Navigate
<1>7. \A x \in Submits : SameLaunch(x)
  BY <1>2, HomesKeeps DEF SameLaunch, TypeOK, SubmitType
<1> QED
  BY <1>4, <1>5, <1>6, <1>7 DEF Navigate

LEMMA LaunchedDoes ==
  ASSUME TypeOK, NEW s \in Submits, Launched(s)
  PROVE  /\ cache'["current"] = [data |-> submit[s].trip, fresh |-> FALSE, failed |-> FALSE]
         /\ fetch'["current"] = IF OnPage THEN Asked ELSE NoFetch
         /\ view' = view /\ resolved' = resolved /\ fleet' = fleet /\ known' = known \cup {submit[s].trip}
         /\ submit[s].phase = "done" /\ submit'[s].phase = "spent"
         /\ \A x \in Submits \ {s} : SameLaunch(x)
<1> USE CurrentIsAQuery
<1> DEFINE c == [cache EXCEPT !["current"] = [data |-> submit[s].trip, fresh |-> Invalidated = {}, failed |-> FALSE]]
<1>1. Render(view, c, resolved, Invalidated, fetch) /\ submit' = Homes(view, c, Spent(s))
  BY DEF Launched
<1>2. c["current"] = [data |-> submit[s].trip, fresh |-> FALSE, failed |-> FALSE]
  BY DEF TypeOK, Invalidated
<1> HIDE DEF c
<1>3. view' = view /\ cache' = c /\ resolved' = resolved
  BY <1>1 DEF Render
<1>4. fetch'["current"] = IF OnPage THEN Asked ELSE NoFetch
  BY <1>1, RenderCurrent DEF OnPage, Invalidated
<1>5. Spent(s) \in SubmitType
  BY SpentTyped
<1>6. submit'[s].phase = "spent" /\ \A x \in Submits \ {s} : SameLaunch(x)
  BY <1>1, <1>5, HomesKeeps, SpentIs DEF SameLaunch
<1> QED
  BY <1>2, <1>3, <1>4, <1>6 DEF Launched

LEMMA RefusedDoes ==
  ASSUME TypeOK, NEW s \in Submits, Refused(s)
  PROVE  /\ cache'["current"].data = cache["current"].data
         /\ cache'["current"].failed = cache["current"].failed
         /\ cache'["current"].fresh = (cache["current"].fresh /\ "current" \notin Outdated(s))
         /\ fetch'["current"] = IF ~OnPage THEN NoFetch
                                ELSE IF "current" \in Outdated(s) THEN Asked ELSE fetch["current"]
         /\ view' = view /\ resolved' = resolved /\ fleet' = fleet
         /\ known' = IF submit[s].phase = "active" THEN known \cup {submit[s].trip} ELSE known
         /\ submit'[s].phase = "spent" /\ \A x \in Submits \ {s} : SameLaunch(x)
<1> USE CurrentIsAQuery
<1> DEFINE c == [q \in Queries |-> [cache[q] EXCEPT !.fresh = @ /\ q \notin Outdated(s)]]
<1>1. Render(view, c, resolved, Outdated(s), fetch) /\ submit' = Spent(s)
  BY DEF Refused
<1>2. c["current"] = [cache["current"] EXCEPT !.fresh = @ /\ "current" \notin Outdated(s)]
  OBVIOUS
<1>3. /\ c["current"].data = cache["current"].data /\ c["current"].failed = cache["current"].failed
      /\ c["current"].fresh = (cache["current"].fresh /\ "current" \notin Outdated(s))
  BY <1>2 DEF TypeOK
<1> HIDE DEF c
<1>4. view' = view /\ cache' = c /\ resolved' = resolved
  BY <1>1 DEF Render
<1>5. fetch'["current"] = IF ~OnPage THEN NoFetch
                          ELSE IF "current" \in Outdated(s) THEN Asked ELSE fetch["current"]
  BY <1>1, RenderCurrent DEF OnPage
<1>6. submit'[s].phase = "spent" /\ \A x \in Submits \ {s} : SameLaunch(x)
  BY <1>1, SpentIs DEF SameLaunch
<1> QED
  BY <1>3, <1>4, <1>5, <1>6 DEF Refused

\* An Expedition is launched only when none flies.
LEMMA StepOneFlies == IInv /\ [Next]_vars => OneFlies'
<1> SUFFICES ASSUME IInv, [Next]_vars PROVE OneFlies'
  OBVIOUS
<1> USE CurrentIsAQuery DEF IInv, TypeOK, OneFlies, Flying, Free
<1>1. ASSUME NEW q \in Queries, ServerReads(q) PROVE OneFlies'
  BY <1>1 DEF ServerReads, AnswersOf, Flying
<1>2. ASSUME NEW q \in Queries, FetchArrives(q) PROVE OneFlies'
  BY <1>2 DEF FetchArrives, Render, Noticed, Homes
<1>3. ASSUME NEW q \in Queries, FetchFails(q) PROVE OneFlies'
  BY <1>3 DEF FetchFails, Fault
<1>4. ASSUME NEW q \in Queries, Poll(q) PROVE OneFlies'
  BY <1>4 DEF Poll
<1>5. ASSUME NEW q \in Queries, RetryRead(q) PROVE OneFlies'
  BY <1>5 DEF RetryRead
<1>6. CASE TypeAmount
  BY <1>6 DEF TypeAmount
<1>7. ASSUME NEW v \in Pages, Navigate(v) PROVE OneFlies'
  BY <1>7 DEF Navigate, Render, Homes
<1>8. ASSUME NEW s \in Submits, Submit(s) PROVE OneFlies'
  BY <1>8 DEF Submit
<1>9. ASSUME NEW s \in Submits, Checked(s) PROVE OneFlies'
  BY <1>9 DEF Checked
<1>10. ASSUME NEW s \in Submits, ServeLaunch(s) PROVE OneFlies'
  BY <1>10 DEF ServeLaunch, Flying, Free
<1>11. ASSUME NEW s \in Submits, LaunchFails(s) PROVE OneFlies'
  BY <1>11 DEF LaunchFails, Fault, Flying, Free
<1>12. ASSUME NEW s \in Submits, Launched(s) PROVE OneFlies'
  BY <1>12 DEF Launched, Render, Homes, Spent, Invalidated
<1>13. ASSUME NEW s \in Submits, Refused(s) PROVE OneFlies'
  BY <1>13 DEF Refused, Render, Spent, Outdated
<1>14. ASSUME NEW t \in Trips, LaunchElsewhere(t) PROVE OneFlies'
  BY <1>14 DEF LaunchElsewhere, Free
<1>15. ASSUME NEW t \in Trips, Resolve(t) PROVE OneFlies'
  BY <1>15 DEF Resolve, Flying
<1>16. CASE UNCHANGED vars
  BY <1>16 DEF vars
<1> QED
  BY <1>1, <1>2, <1>3, <1>4, <1>5, <1>6, <1>7, <1>8, <1>9, <1>10, <1>11, <1>12, <1>13, <1>14, <1>15, <1>16 DEF Next

\* Every step keeps to answers about Expeditions that were launched.
LEMMA StepLaunches == IInv /\ [Next]_vars => Launches'
<1> SUFFICES ASSUME IInv, [Next]_vars PROVE Launches'
  OBVIOUS
<1> USE CurrentIsAQuery DEF IInv, TypeOK, Launches, Asked, NoFetch, Idle
<1>1. ASSUME NEW q \in Queries, ServerReads(q) PROVE Launches'
  BY <1>1 DEF ServerReads, AnswersOf, Flying
<1>2. ASSUME NEW q \in Queries, FetchArrives(q) PROVE Launches'
  <2>1. /\ cache'["current"] = IF q = "current" THEN [data |-> fetch[q].data, fresh |-> TRUE, failed |-> FALSE]
                               ELSE cache["current"]
        /\ fetch'["current"] = IF OnPage /\ q # "current" THEN fetch["current"] ELSE NoFetch
        /\ fetch[q].phase = "answered"
        /\ view' = view /\ resolved' = Noticed(q, fetch[q].data) /\ fleet' = fleet /\ known' = known
        /\ \A x \in Submits : SameLaunch(x)
    BY <1>2, FetchArrivesDoes
  <2>2. CASE q = "current"
    BY <2>1, <2>2 DEF OnPage, SameLaunch, Noticed
  <2>3. CASE q # "current"
    BY <2>1, <2>3 DEF OnPage, SameLaunch, Noticed
  <2> QED
    BY <2>2, <2>3
<1>3. ASSUME NEW q \in Queries, FetchFails(q) PROVE Launches'
  BY <1>3 DEF FetchFails, Fault
<1>4. ASSUME NEW q \in Queries, Poll(q) PROVE Launches'
  BY <1>4 DEF Poll
<1>5. ASSUME NEW q \in Queries, RetryRead(q) PROVE Launches'
  BY <1>5 DEF RetryRead
<1>6. CASE TypeAmount
  BY <1>6 DEF TypeAmount
<1>7. ASSUME NEW v \in Pages, Navigate(v) PROVE Launches'
  BY <1>7, NavigateDoes DEF SameLaunch
<1>8. ASSUME NEW s \in Submits, Submit(s) PROVE Launches'
  BY <1>8 DEF Submit
<1>9. ASSUME NEW s \in Submits, Checked(s) PROVE Launches'
  BY <1>9 DEF Checked
<1>10. ASSUME NEW s \in Submits, ServeLaunch(s) PROVE Launches'
  BY <1>10 DEF ServeLaunch, Flying, Free
<1>11. ASSUME NEW s \in Submits, LaunchFails(s) PROVE Launches'
  BY <1>11 DEF LaunchFails, Fault, Flying, Free
<1>12. ASSUME NEW s \in Submits, Launched(s) PROVE Launches'
  <2>1. /\ cache'["current"] = [data |-> submit[s].trip, fresh |-> FALSE, failed |-> FALSE]
        /\ fetch'["current"] = IF OnPage THEN Asked ELSE NoFetch
        /\ view' = view /\ resolved' = resolved /\ fleet' = fleet /\ known' = known \cup {submit[s].trip}
        /\ submit[s].phase = "done" /\ submit'[s].phase = "spent"
        /\ \A x \in Submits \ {s} : SameLaunch(x)
    BY <1>12, LaunchedDoes
  <2>2. submit[s].trip \in Trips /\ fleet[submit[s].trip] # "none"
    BY <2>1
  <2> QED
    BY <2>1, <2>2 DEF OnPage, SameLaunch
<1>13. ASSUME NEW s \in Submits, Refused(s) PROVE Launches'
  <2>1. /\ cache'["current"].data = cache["current"].data
        /\ cache'["current"].failed = cache["current"].failed
        /\ cache'["current"].fresh = (cache["current"].fresh /\ "current" \notin Outdated(s))
        /\ fetch'["current"] = IF ~OnPage THEN NoFetch
                               ELSE IF "current" \in Outdated(s) THEN Asked ELSE fetch["current"]
        /\ view' = view /\ resolved' = resolved /\ fleet' = fleet
        /\ known' = IF submit[s].phase = "active" THEN known \cup {submit[s].trip} ELSE known
        /\ submit'[s].phase = "spent" /\ \A x \in Submits \ {s} : SameLaunch(x)
    BY <1>13, RefusedDoes
  <2>2. fetch'["current"] \in {NoFetch, Asked, fetch["current"]}
    BY <2>1
  <2>3. \A x \in Submits : submit'[x].phase \in {"done", "active"} => x # s /\ submit'[x].trip = submit[x].trip
                                                                    /\ submit[x].phase = submit'[x].phase
    BY <2>1 DEF SameLaunch
  <2>4. \A t \in known' : fleet[t] # "none"
    BY <2>1
  <2> QED
    BY <2>1, <2>2, <2>3, <2>4
<1>14. ASSUME NEW t \in Trips, LaunchElsewhere(t) PROVE Launches'
  BY <1>14 DEF LaunchElsewhere, Free
<1>15. ASSUME NEW t \in Trips, Resolve(t) PROVE Launches'
  BY <1>15 DEF Resolve, Flying
<1>16. CASE UNCHANGED vars
  BY <1>16 DEF vars
<1> QED
  BY <1>1, <1>2, <1>3, <1>4, <1>5, <1>6, <1>7, <1>8, <1>9, <1>10, <1>11, <1>12, <1>13, <1>14, <1>15, <1>16 DEF Next

\* Every step: an Expedition taken for resolved is.
LEMMA StepEndsAreEnds == IInv /\ [Next]_vars => EndsAreEnds'
<1> SUFFICES ASSUME IInv, [Next]_vars PROVE EndsAreEnds'
  OBVIOUS
<1> USE CurrentIsAQuery DEF IInv, TypeOK, Launches, EndsAreEnds, NoEarlyResult, Asked, NoFetch
<1>1. ASSUME NEW q \in Queries, ServerReads(q) PROVE EndsAreEnds'
  BY <1>1 DEF ServerReads, AnswersOf, Flying
<1>2. ASSUME NEW q \in Queries, FetchArrives(q) PROVE EndsAreEnds'
  <2>1. /\ cache'["current"] = IF q = "current" THEN [data |-> fetch[q].data, fresh |-> TRUE, failed |-> FALSE]
                               ELSE cache["current"]
        /\ fetch'["current"] = IF OnPage /\ q # "current" THEN fetch["current"] ELSE NoFetch
        /\ fetch[q].phase = "answered"
        /\ view' = view /\ resolved' = Noticed(q, fetch[q].data) /\ fleet' = fleet /\ known' = known
        /\ \A x \in Submits : SameLaunch(x)
    BY <1>2, FetchArrivesDoes
  <2>2. CASE q = "current"
    BY <2>1, <2>2 DEF OnPage, SameLaunch, Noticed
  <2>3. CASE q # "current"
    BY <2>1, <2>3 DEF OnPage, SameLaunch, Noticed
  <2> QED
    BY <2>2, <2>3
<1>3. ASSUME NEW q \in Queries, FetchFails(q) PROVE EndsAreEnds'
  BY <1>3 DEF FetchFails, Fault
<1>4. ASSUME NEW q \in Queries, Poll(q) PROVE EndsAreEnds'
  BY <1>4 DEF Poll
<1>5. ASSUME NEW q \in Queries, RetryRead(q) PROVE EndsAreEnds'
  BY <1>5 DEF RetryRead
<1>6. CASE TypeAmount
  BY <1>6 DEF TypeAmount
<1>7. ASSUME NEW v \in Pages, Navigate(v) PROVE EndsAreEnds'
  <2>1. /\ cache'["current"].data = cache["current"].data
        /\ fetch'["current"].phase # "answered"
        /\ resolved' = NoTrip /\ fleet' = fleet
    BY <1>7, NavigateDoes DEF Asked, NoFetch
  <2> QED
    BY <2>1, Names
<1>8. ASSUME NEW s \in Submits, Submit(s) PROVE EndsAreEnds'
  BY <1>8 DEF Submit
<1>9. ASSUME NEW s \in Submits, Checked(s) PROVE EndsAreEnds'
  BY <1>9 DEF Checked
<1>10. ASSUME NEW s \in Submits, ServeLaunch(s) PROVE EndsAreEnds'
  BY <1>10 DEF ServeLaunch, Flying, Free
<1>11. ASSUME NEW s \in Submits, LaunchFails(s) PROVE EndsAreEnds'
  BY <1>11 DEF LaunchFails, Fault, Flying, Free
<1>12. ASSUME NEW s \in Submits, Launched(s) PROVE EndsAreEnds'
  <2>1. /\ cache'["current"] = [data |-> submit[s].trip, fresh |-> FALSE, failed |-> FALSE]
        /\ fetch'["current"] = IF OnPage THEN Asked ELSE NoFetch
        /\ view' = view /\ resolved' = resolved /\ fleet' = fleet /\ known' = known \cup {submit[s].trip}
        /\ submit[s].phase = "done" /\ submit'[s].phase = "spent"
        /\ \A x \in Submits \ {s} : SameLaunch(x)
    BY <1>12, LaunchedDoes
  <2>2. submit[s].trip \in Trips /\ fleet[submit[s].trip] # "none"
    BY <2>1
  <2> QED
    BY <2>1, <2>2 DEF OnPage, SameLaunch
<1>13. ASSUME NEW s \in Submits, Refused(s) PROVE EndsAreEnds'
  BY <1>13, RefusedDoes DEF OnPage, SameLaunch, Outdated
<1>14. ASSUME NEW t \in Trips, LaunchElsewhere(t) PROVE EndsAreEnds'
  BY <1>14 DEF LaunchElsewhere, Free
<1>15. ASSUME NEW t \in Trips, Resolve(t) PROVE EndsAreEnds'
  BY <1>15 DEF Resolve, Flying
<1>16. CASE UNCHANGED vars
  BY <1>16 DEF vars
<1> QED
  BY <1>1, <1>2, <1>3, <1>4, <1>5, <1>6, <1>7, <1>8, <1>9, <1>10, <1>11, <1>12, <1>13, <1>14, <1>15, <1>16 DEF Next

\* Every step: what was named is shown, or is about to be read.
LEMMA StepKnownOrDue == IInv /\ [Next]_vars => KnownOrDue'
<1> SUFFICES ASSUME IInv, [Next]_vars PROVE KnownOrDue'
  OBVIOUS
<1> USE CurrentIsAQuery DEF IInv, TypeOK, OneFlies, Launches, KnownOrDue, Fetching, Asked, NoFetch
<1>1. ASSUME NEW q \in Queries, ServerReads(q) PROVE KnownOrDue'
  BY <1>1 DEF ServerReads, AnswersOf, Flying
<1>2. ASSUME NEW q \in Queries, FetchArrives(q) PROVE KnownOrDue'
  <2>1. /\ cache'["current"] = IF q = "current" THEN [data |-> fetch[q].data, fresh |-> TRUE, failed |-> FALSE]
                               ELSE cache["current"]
        /\ fetch'["current"] = IF OnPage /\ q # "current" THEN fetch["current"] ELSE NoFetch
        /\ fetch[q].phase = "answered"
        /\ view' = view /\ resolved' = Noticed(q, fetch[q].data) /\ fleet' = fleet /\ known' = known
        /\ \A x \in Submits : SameLaunch(x)
    BY <1>2, FetchArrivesDoes
  <2>2. CASE q = "current"
    BY <2>1, <2>2 DEF OnPage, SameLaunch, Noticed
  <2>3. CASE q # "current"
    BY <2>1, <2>3 DEF OnPage, SameLaunch, Noticed
  <2> QED
    BY <2>2, <2>3
<1>3. ASSUME NEW q \in Queries, FetchFails(q) PROVE KnownOrDue'
  BY <1>3 DEF FetchFails, Fault
<1>4. ASSUME NEW q \in Queries, Poll(q) PROVE KnownOrDue'
  BY <1>4 DEF Poll
<1>5. ASSUME NEW q \in Queries, RetryRead(q) PROVE KnownOrDue'
  BY <1>5 DEF RetryRead
<1>6. CASE TypeAmount
  BY <1>6 DEF TypeAmount
<1>7. ASSUME NEW v \in Pages, Navigate(v) PROVE KnownOrDue'
  BY <1>7, NavigateDoes DEF SameLaunch
<1>8. ASSUME NEW s \in Submits, Submit(s) PROVE KnownOrDue'
  BY <1>8 DEF Submit
<1>9. ASSUME NEW s \in Submits, Checked(s) PROVE KnownOrDue'
  BY <1>9 DEF Checked
<1>10. ASSUME NEW s \in Submits, ServeLaunch(s) PROVE KnownOrDue'
  BY <1>10 DEF ServeLaunch, Flying, Free
<1>11. ASSUME NEW s \in Submits, LaunchFails(s) PROVE KnownOrDue'
  BY <1>11 DEF LaunchFails, Fault, Flying, Free
<1>12. ASSUME NEW s \in Submits, Launched(s) PROVE KnownOrDue'
  <2>1. /\ cache'["current"] = [data |-> submit[s].trip, fresh |-> FALSE, failed |-> FALSE]
        /\ fetch'["current"] = IF OnPage THEN Asked ELSE NoFetch
        /\ view' = view /\ resolved' = resolved /\ fleet' = fleet /\ known' = known \cup {submit[s].trip}
        /\ submit[s].phase = "done" /\ submit'[s].phase = "spent"
        /\ \A x \in Submits \ {s} : SameLaunch(x)
    BY <1>12, LaunchedDoes
  <2>2. submit[s].trip \in Trips /\ fleet[submit[s].trip] # "none"
    BY <2>1
  <2> QED
    BY <2>1, <2>2 DEF OnPage, SameLaunch
<1>13. ASSUME NEW s \in Submits, Refused(s) PROVE KnownOrDue'
  <2>1. /\ cache'["current"].data = cache["current"].data
        /\ cache'["current"].failed = cache["current"].failed
        /\ cache'["current"].fresh = (cache["current"].fresh /\ "current" \notin Outdated(s))
        /\ fetch'["current"] = IF ~OnPage THEN NoFetch
                               ELSE IF "current" \in Outdated(s) THEN Asked ELSE fetch["current"]
        /\ view' = view /\ resolved' = resolved /\ fleet' = fleet
        /\ known' = IF submit[s].phase = "active" THEN known \cup {submit[s].trip} ELSE known
        /\ submit'[s].phase = "spent" /\ \A x \in Submits \ {s} : SameLaunch(x)
    BY <1>13, RefusedDoes
  <2>2. CASE submit[s].phase = "active"
    <3>1. "current" \in Outdated(s)
      BY <2>2 DEF Outdated
    <3>2. fetch'["current"] = IF OnPage THEN Asked ELSE NoFetch
      BY <2>1, <3>1, Zenon
    <3>3. ~cache'["current"].fresh
      BY <2>1, <3>1, Zenon
    <3> QED
      BY <2>1, <3>2, <3>3 DEF OnPage
  <2>3. CASE submit[s].phase # "active"
    BY <2>1, <2>3 DEF OnPage, SameLaunch, Outdated
  <2> QED
    BY <2>2, <2>3
<1>14. ASSUME NEW t \in Trips, LaunchElsewhere(t) PROVE KnownOrDue'
  BY <1>14 DEF LaunchElsewhere, Free
<1>15. ASSUME NEW t \in Trips, Resolve(t) PROVE KnownOrDue'
  BY <1>15 DEF Resolve, Flying
<1>16. CASE UNCHANGED vars
  BY <1>16 DEF vars
<1> QED
  BY <1>1, <1>2, <1>3, <1>4, <1>5, <1>6, <1>7, <1>8, <1>9, <1>10, <1>11, <1>12, <1>13, <1>14, <1>15, <1>16 DEF Next

------------------------------------------------------------------------------
LEMMA Inductive == Spec => []IInv
<1>1. IInv /\ [Next]_vars => IInv'
  BY StepTypeOK, StepOneFlies, StepLaunches, StepEndsAreEnds, StepKnownOrDue DEF IInv
<1> QED
  BY <1>1, InitIInv, PTL DEF Spec

\* The types, for any Expeditions, clicks and failures.
THEOREM TypeCorrect == Spec => []TypeOK
<1>1. IInv => TypeOK
  BY DEF IInv
<1> QED
  BY <1>1, Inductive, PTL

\* No answer from before a launch is ever taken for its end.
THEOREM ResultsAreNotEarly == Spec => []NoEarlyResult
<1>1. IInv => NoEarlyResult
  BY DEF IInv, EndsAreEnds
<1> QED
  BY <1>1, Inductive, PTL

\* A page at rest shows the Expedition that the answer to a launch named.
THEOREM KnownIsShown == Spec => []KnownFlightShown
<1>1. IInv => KnownFlightShown
  BY DEF IInv, KnownOrDue, KnownFlightShown
<1> QED
  BY <1>1, Inductive, PTL
================================================================================
