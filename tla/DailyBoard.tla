------------------------------ MODULE DailyBoard ------------------------------
(****************************************************************************)
(* The lists of one day's Dailies that a tab caches and shows               *)
(* (apps/web-frontend/src/features/dailies): the list page with its status  *)
(* filter, the Dashboard panel, which shares the unfiltered list, the       *)
(* optimistic completion, the pessimistic deletion and the forms.  A step   *)
(* is one macro task.  The query client (TanStack Query) is modelled by     *)
(* what the pages rely on: a list under a key, at most one fetch of the     *)
(* list that is shown, cancelled and reverted when the list is left.        *)
(*                                                                          *)
(* A row is its status; the order of rows and the texts are left out.  The  *)
(* Player is ready; a new session starts with an empty cache (BalanceGate). *)
(****************************************************************************)
EXTENDS Naturals

CONSTANTS Dailies,
          Boards,      \* the pages that show a list: "dashboard", and the list page under
                       \* the filters "all", "pending", "completed"
          Commands,    \* bound: requests that change something
          MaxUpsets    \* bound: requests that fail, and changes by another tab, another
                       \* device or the sweep

ASSUME BoardAssumption == "all" \in Boards /\ Boards \subseteq {"dashboard", "all", "pending", "completed"}
ASSUME UpsetAssumption == MaxUpsets \in Nat

VARIABLES server,    \* status of each Daily at daily-service; "gone" also when it is due another day
          view,      \* "dashboard", the list page under a filter, or "form": any other page
          lists,     \* the cached list of each filter
          fetch,     \* the fetch of the list that is shown
          command,   \* requests under way, and what their callbacks have captured
          latest,    \* the completion and the deletion that the page's mutation observers follow
          failures,  \* rows that show a failed completion with its Retry
          upsets,
          told,      \* history: what answers said last of a Daily
          owed,      \* history: lists whose due read was dropped, or that an older row was put back into
          tangled    \* history: Dailies with requests that overlapped, or a completion that changed lists

boardHistory == <<told, owed, tangled>>
pageVars == <<latest, failures>>
boardVars == <<server, view, lists, fetch, command, pageVars, upsets, boardHistory>>

Filters == Boards \ {"dashboard"}
RowStatuses == {"none", "PENDING", "COMPLETED"}
NoDaily == "nothing"

ASSUME NameAssumption == NoDaily \notin Dailies

Rows == [Dailies -> RowStatuses]
NoRows == [d \in Dailies |-> "none"]
NoList == [rows |-> NoRows, loaded |-> FALSE, fresh |-> FALSE, failed |-> FALSE]

\* early: asked for before an answer after which the list was not asked for again.
NoFetch == [phase |-> "none", rows |-> NoRows, early |-> FALSE]
Asked == [NoFetch EXCEPT !.phase = "asked"]

\* before: the row in the snapshot of onMutate; home: the page that sent it is
\* still mounted; reread: a fetch has begun since.
Idle == [phase |-> "idle", kind |-> "none", daily |-> NoDaily, key |-> "all",
         before |-> "none", home |-> FALSE, reread |-> FALSE]

BoardTypeOK ==
  /\ server \in [Dailies -> RowStatuses \cup {"gone"}]
  /\ view \in Boards \cup {"form"}
  /\ lists \in [Filters -> [rows : Rows, loaded : BOOLEAN, fresh : BOOLEAN, failed : BOOLEAN]]
  /\ fetch \in [phase : {"none", "asked", "answered"}, rows : Rows, early : BOOLEAN]
  /\ command \in [Commands -> [phase : {"idle", "sent", "done", "already", "failed", "spent"},
                               kind : {"none", "complete", "delete", "save"},
                               daily : Dailies \cup {NoDaily}, key : Filters,
                               before : RowStatuses, home : BOOLEAN, reread : BOOLEAN]]
  /\ latest \subseteq Commands
  /\ failures \subseteq Dailies
  /\ upsets \in 0..MaxUpsets
  /\ told \in [Dailies -> RowStatuses \cup {"gone"}]
  /\ owed \subseteq Filters
  /\ tangled \subseteq Dailies

BoardInit ==
  /\ server \in [Dailies -> {"none", "PENDING"}]
  /\ view = "form"
  /\ lists = [k \in Filters |-> NoList]
  /\ fetch = NoFetch
  /\ command = [c \in Commands |-> Idle]
  /\ latest = {}
  /\ failures = {}
  /\ upsets = 0
  /\ told = NoRows
  /\ owed = {}
  /\ tangled = {}

------------------------------------------------------------------------------
(* Keys, lists and their fetch.                                              *)

KeyOf(v) == IF v = "dashboard" THEN "all" ELSE v
Page(v) == IF v \in Filters THEN "list" ELSE v
OnBoard == view \in Boards
Shown == lists[KeyOf(view)]          \* the list on the page

\* listDailies with the filter of key k.
Listed(k) ==
  [d \in Dailies |-> IF \/ server[d] = "PENDING" /\ k # "completed"
                        \/ server[d] = "COMPLETED" /\ k # "pending"
                       THEN server[d] ELSE "none"]

\* The row is on the page: each filter hides the other section.
Visible(d) ==
  /\ OnBoard /\ Shown.loaded
  /\ Shown.rows[d] \in (CASE view = "pending" -> {"PENDING"}
                          [] view = "completed" -> {"COMPLETED"}
                          [] OTHER -> {"PENDING", "COMPLETED"})

Fetching == fetch.phase # "none"
UnderWay(c) == command[c].phase \notin {"idle", "spent"}
Completing(d) == {c \in Commands : UnderWay(c) /\ command[c].kind = "complete" /\ command[c].daily = d}

\* A fetch begins: the requests under way become cs.
Fetch(cs) ==
  /\ fetch' = Asked
  /\ command' = [c \in Commands |-> [cs[c] EXCEPT !.reread = cs[c].kind = "complete"]]

\* setQueryData: nothing without data; otherwise the list counts as fresh.
Written(k, rows) ==
  IF lists[k].loaded THEN [lists EXCEPT ![k].rows = rows, ![k].fresh = TRUE, ![k].failed = FALSE]
                     ELSE lists

\* Only a list that counts as fresh: any other is read when it is shown next.
Owe(fs) == owed' = {f \in fs : lists'[f].fresh}

\* A write that no fetch follows: a read that was due for the list is forgotten.
Owing(k) == IF lists[k].loaded /\ (~lists[k].fresh \/ (Fetching /\ KeyOf(view) = k)) THEN {k} ELSE {}

\* Mutation: invalidation under the exact key.
MatchedExactly(k) == {k}

\* invalidateQueries matches by prefix: the unfiltered key stands for every list of the day.
Matched(k) == IF k = "all" THEN Filters ELSE {k}

(* Lists ls are invalidated under key k.  The one that is shown is fetched     *)
(* again, in place of the fetch under way unless that is its first.          *)
Invalidate(ls, k, cs) ==
  /\ lists' = [f \in Filters |-> IF f \in Matched(k) THEN [ls[f] EXCEPT !.fresh = FALSE] ELSE ls[f]]
  /\ IF OnBoard /\ KeyOf(view) \in Matched(k) /\ (Shown.loaded \/ ~Fetching)
       THEN Fetch(cs)
       ELSE command' = cs /\ fetch' = [fetch EXCEPT !.early = Fetching]

\* An answer about d; what is learnt under one filter does not reach the other lists.
Tell(k, d, s) ==
  /\ told' = [told EXCEPT ![d] = s]
  /\ Owe(IF k = "all" THEN owed ELSE owed \cup (Filters \ {k}))

ServerReads ==
  /\ fetch.phase = "asked"
  /\ fetch' = [fetch EXCEPT !.phase = "answered", !.rows = Listed(KeyOf(view))]
  /\ UNCHANGED <<server, view, lists, command, pageVars, upsets, boardHistory>>

FetchArrives ==
  /\ fetch.phase = "answered"
  /\ lists' = [lists EXCEPT ![KeyOf(view)] =
                 [rows |-> fetch.rows, loaded |-> TRUE, fresh |-> TRUE, failed |-> FALSE]]
  /\ Owe(IF fetch.early THEN owed \cup {KeyOf(view)} ELSE owed \ {KeyOf(view)})
  /\ fetch' = NoFetch
  /\ UNCHANGED <<server, view, command, pageVars, upsets, told, tangled>>

Upset == upsets < MaxUpsets /\ upsets' = upsets + 1

FetchFails ==
  /\ Fetching
  /\ Upset
  /\ lists' = [lists EXCEPT ![KeyOf(view)].fresh = FALSE, ![KeyOf(view)].failed = TRUE]
  /\ fetch' = NoFetch
  /\ Owe(owed)
  /\ UNCHANGED <<server, view, command, pageVars, told, tangled>>

\* Retry beside a list that could not be loaded or refreshed.
RetryList ==
  /\ OnBoard /\ Shown.failed
  /\ Fetch(command)
  /\ UNCHANGED <<server, view, lists, pageVars, upsets, boardHistory>>

------------------------------------------------------------------------------
(* Pages.                                                                    *)

(* The list that is left reverts its fetch; the one that is shown is fetched   *)
(* when it is stale, or always.  Another filter keeps the page: the completion *)
(* it follows calls back with the new filters.                               *)
Show(v, ls, always, cs) ==
  LET stays == Page(v) = Page(view)
      moved == [c \in Commands |-> IF ~stays THEN [cs[c] EXCEPT !.home = FALSE]
                                   ELSE IF c \in latest THEN [cs[c] EXCEPT !.key = v]
                                   ELSE cs[c]]
  IN
  /\ view' = v
  /\ lists' = ls
  /\ IF v \in Boards /\ (always \/ ~ls[KeyOf(v)].fresh)
       THEN Fetch(moved)
       ELSE fetch' = NoFetch /\ command' = moved
  /\ Owe(IF Fetching THEN owed \cup {KeyOf(view)} ELSE owed)
  /\ tangled' = IF stays THEN tangled \cup {command[c].daily : c \in latest} ELSE tangled
  /\ IF stays THEN UNCHANGED pageVars
     ELSE latest' = {} /\ failures' = {}

\* staleTime may have passed since the list was written.
Aged(v) == {lists} \cup IF v \in Boards THEN {[lists EXCEPT ![KeyOf(v)].fresh = FALSE]} ELSE {}

Navigate(v) ==
  /\ v # view
  /\ \E ls \in Aged(v) : Show(v, ls, FALSE, command)
  /\ UNCHANGED <<server, upsets, told>>

------------------------------------------------------------------------------
(* Commands: what the Player does.                                           *)

Followed(kind) == {c \in latest : command[c].kind = kind}

\* A second request about d, while the first is under way.
Tangle(d) == tangled' = IF \E c \in Commands : command[c].daily = d THEN tangled \cup {d} ELSE tangled

Send(c, k, d) == [Idle EXCEPT !.phase = "sent", !.kind = k, !.daily = d, !.home = k = "complete"]

\* Mutation: onMutate leaves the fetch under way.
FetchKept == fetch

FetchCancelled == NoFetch

\* The optimistic mark; under the PENDING filter the row leaves the list.
Marked(d) == [Shown.rows EXCEPT ![d] = IF @ = "none" \/ view = "pending" THEN "none" ELSE "COMPLETED"]

\* Complete on a pending row, or Retry on one whose completion failed.
Complete(c, d) ==
  /\ command[c] = Idle
  /\ Visible(d)
  /\ \/ Shown.rows[d] = "PENDING" /\ d \notin {command[x].daily : x \in Followed("complete")}
     \/ d \in failures
  /\ fetch' = FetchCancelled
  /\ lists' = Written(KeyOf(view), Marked(d))
  /\ Owe(owed \cup Owing(KeyOf(view)))
  /\ command' = [command EXCEPT ![c] = [Send(c, "complete", d) EXCEPT !.key = KeyOf(view),
                                                                     !.before = Shown.rows[d]]]
  /\ latest' = {c} \cup Followed("delete")
  /\ Tangle(d)
  /\ UNCHANGED <<server, view, failures, upsets, told>>

\* Delete on a row, and the button of the dialog; a dialog does not outlive its row here.
Delete(c, d) ==
  /\ command[c] = Idle
  /\ Visible(d)
  /\ command' = [command EXCEPT ![c] = [Send(c, "delete", d) EXCEPT !.key = KeyOf(view)]]
  /\ latest' = {c} \cup Followed("complete")
  /\ Tangle(d)
  /\ UNCHANGED <<server, view, lists, fetch, failures, upsets, told, owed>>

\* The page of a new Daily, or of one that was there when the page was loaded.
OnForm == view = "form"

Save(c, d) ==
  /\ OnForm /\ command[c] = Idle
  /\ command' = [command EXCEPT ![c] = Send(c, "save", d)]
  /\ UNCHANGED <<server, view, lists, fetch, pageVars, upsets, boardHistory>>

------------------------------------------------------------------------------
(* daily-service, and everybody else.                                        *)

After(c) ==
  LET k == command[c].kind
      s == server[command[c].daily]
  IN CASE k = "complete" /\ s = "PENDING" -> "COMPLETED"
       [] k = "delete" /\ s \in {"PENDING", "COMPLETED"} -> "gone"
       [] k = "save" /\ s = "none" -> "PENDING"
       [] OTHER -> s

Reply(c) ==
  LET k == command[c].kind
      s == server[command[c].daily]
  IN CASE k = "complete" -> IF s = "PENDING" THEN "done" ELSE IF s = "COMPLETED" THEN "already" ELSE "failed"
       [] k = "delete" -> IF s \in {"PENDING", "COMPLETED"} THEN "done" ELSE "failed"
       [] OTHER -> IF s # "gone" THEN "done" ELSE "failed"

Serve(c) ==
  /\ command[c].phase = "sent"
  /\ server' = [server EXCEPT ![command[c].daily] = After(c)]
  /\ command' = [command EXCEPT ![c].phase = Reply(c)]
  /\ UNCHANGED <<view, lists, fetch, pageVars, upsets, boardHistory>>

\* The request fails before or after it has been carried out.
RequestFails(c) ==
  /\ command[c].phase = "sent"
  /\ Upset
  /\ server' \in {server, [server EXCEPT ![command[c].daily] = After(c)]}
  /\ command' = [command EXCEPT ![c].phase = "failed"]
  /\ UNCHANGED <<view, lists, fetch, pageVars, boardHistory>>

\* Another tab or device completes or deletes, or the sweep moves the due date.
Elsewhere(d) ==
  /\ Upset
  /\ server[d] \in {"PENDING", "COMPLETED"}
  /\ server' \in {[server EXCEPT ![d] = s] : s \in {"COMPLETED", "gone"} \ {server[d]}}
  /\ UNCHANGED <<view, lists, fetch, command, pageVars, boardHistory>>

------------------------------------------------------------------------------
(* Commands: what their answers do.                                          *)

\* The answer of c is being handled; an observer that follows c sees it settle.
Settled(c) == [command EXCEPT ![c] = [Idle EXCEPT !.phase = "spent"]]
Answered(c, kind, phases) ==
  /\ command[c].kind = kind /\ command[c].phase \in phases
  /\ latest' = latest \ {c}

\* onSuccess.
CompletionDone(c) ==
  LET d == command[c].daily IN
  /\ Answered(c, "complete", {"done"})
  /\ failures' = IF command[c].home THEN failures \ {d} ELSE failures
  /\ Invalidate(lists, command[c].key, Settled(c))
  /\ Tell(command[c].key, d, "COMPLETED")
  /\ UNCHANGED <<server, view, upsets, tangled>>

\* Mutation: a row that is still listed is left as it is.
RestoredIfRemoved(c) ==
  [lists[command[c].key].rows EXCEPT ![command[c].daily] = IF @ = "none" THEN command[c].before ELSE @]

\* restoreCompletedRow: only the affected row, in place or put back.
Restored(c) ==
  [lists[command[c].key].rows EXCEPT ![command[c].daily] =
     IF command[c].before = "none" THEN @ ELSE command[c].before]

\* onError.
CompletionFails(c) ==
  LET d == command[c].daily IN
  /\ Answered(c, "complete", {"failed"})
  /\ lists' = Written(command[c].key, Restored(c))
  /\ Owe(owed \cup Owing(command[c].key) \cup (IF command[c].reread THEN {command[c].key} ELSE {}))
  /\ failures' = IF command[c].home THEN failures \cup {d} ELSE failures
  /\ command' = Settled(c)
  /\ UNCHANGED <<server, view, fetch, upsets, told, tangled>>

\* onError, DAILY_ALREADY_COMPLETED: rolled back, to be settled by the refetch.
CompletionRepeated(c) ==
  /\ Answered(c, "complete", {"already"})
  /\ Invalidate(Written(command[c].key, Restored(c)), command[c].key, Settled(c))
  /\ Tell(command[c].key, command[c].daily, "COMPLETED")
  /\ UNCHANGED <<server, view, failures, upsets, tangled>>

\* Pessimistic: the row goes when daily-service has answered.
DeletionDone(c) ==
  LET d == command[c].daily
      k == command[c].key
  IN
  /\ Answered(c, "delete", {"done"})
  /\ Invalidate(Written(k, [lists[k].rows EXCEPT ![d] = "none"]), k, Settled(c))
  /\ Tell(k, d, "gone")
  /\ UNCHANGED <<server, view, failures, upsets, tangled>>

\* The dialog or the form shows the error.
CommandFails(c) ==
  /\ \/ Answered(c, "delete", {"failed"})
     \/ Answered(c, "save", {"failed"})
  /\ command' = Settled(c)
  /\ UNCHANGED <<server, view, lists, fetch, failures, upsets, boardHistory>>

\* On to the list page, from wherever the Player is by now: a list page that is
\* mounted afresh is fetched whatever it holds.
SaveDone(c) ==
  LET d == command[c].daily
      mounts == Page(view) # "list"
  IN
  /\ command[c].kind = "save" /\ command[c].phase = "done"
  /\ IF view = "all" THEN command' = Settled(c) /\ UNCHANGED <<view, lists, fetch, pageVars, owed, tangled>>
     ELSE \E ls \in Aged("all") : Show("all", ls, mounts, Settled(c))
  /\ told' = IF mounts /\ told[d] = "none" THEN [told EXCEPT ![d] = "PENDING"] ELSE told
  /\ UNCHANGED <<server, upsets>>

BoardNext ==
  \/ ServerReads \/ FetchArrives \/ FetchFails \/ RetryList
  \/ \E v \in Boards \cup {"form"} : Navigate(v)
  \/ \E d \in Dailies : Elsewhere(d)
  \/ \E c \in Commands, d \in Dailies : Complete(c, d) \/ Delete(c, d) \/ Save(c, d)
  \/ \E c \in Commands :
       \/ Serve(c) \/ RequestFails(c)
       \/ CompletionDone(c) \/ CompletionFails(c) \/ CompletionRepeated(c)
       \/ DeletionDone(c) \/ CommandFails(c) \/ SaveDone(c)

BoardSpec == BoardInit /\ [][BoardNext]_boardVars

------------------------------------------------------------------------------
(* Properties.                                                               *)

\* A row stays marked as long as its completion is under way, unless its list
\* was asked for again meanwhile: an answer asked for before the click never
\* puts the Complete button back (cancelQueries in onMutate).
MarkHolds ==
  \A c \in Commands :
    (/\ UnderWay(c) /\ command[c].kind = "complete" /\ ~command[c].reread
     /\ command[c].daily \notin tangled)
      => lists[command[c].key].rows[command[c].daily] # "PENDING"

\* No list shows a Daily as completed that is pending at daily-service, except
\* while its completion is under way: whatever fails, the mark is taken back,
\* and in the midst of other completions of the same list.
NoPhantomCompletion ==
  \A d \in Dailies \ tangled, k \in Filters :
    (lists[k].rows[d] = "COMPLETED" /\ server[d] = "PENDING") => Completing(d) # {}

\* What this tab was told is what it shows: in a list at rest, no Daily that was
\* completed is pending, no deleted one is listed, and a created one is, however
\* the answers, refetches, failures and changes of page have interleaved.
ToldIsShown ==
  (OnBoard /\ Shown.loaded /\ ~Fetching /\ ~Shown.failed /\ KeyOf(view) \notin owed) =>
    \A d \in Dailies \ tangled :
      LET t == told[d]
          row == Shown.rows[d]
      IN Completing(d) = {} =>
           /\ t = "COMPLETED" => row # "PENDING"
           /\ t = "gone" => row = "none"
           /\ t = "PENDING" /\ KeyOf(view) = "all" => row # "none" \/ server[d] = "gone"
=============================================================================
