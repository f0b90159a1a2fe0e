----------------------------- MODULE HistoryPager -----------------------------
(****************************************************************************)
(* The two history pages of the web application, each an infinite query     *)
(* over a paged list at its service: Dailies by keyset                      *)
(* (apps/web-frontend/src/features/dailies/pages/DailyHistoryPage.tsx and   *)
(* ListHistory of daily-service), Expeditions by offset                     *)
(* (features/expeditions/pages/ExpeditionHistoryPage.tsx).  Entries are     *)
(* archived while the pages are read, one request at a time.                *)
(*                                                                          *)
(* An entry is its place in the order of the list: a greater one is newer.  *)
(* Entries are never deleted or moved.  A fetch that is paused because the  *)
(* browser is offline is left out; a request that the query client repeats  *)
(* by itself is a slow one.                                                 *)
(****************************************************************************)
EXTENDS Naturals, Sequences, FiniteSets

CONSTANTS MaxEntries,  \* bound
          PageSize

ASSUME PagerAssumption == MaxEntries \in Nat /\ PageSize \in Nat \ {0}

VARIABLES pager,     \* which page: "daily" or "expedition"
          archived,  \* entries at the service
          list,      \* the cached pages
          fetch,     \* the fetch under way
          mounted    \* the page is open

pagerVars == <<pager, archived, list, fetch, mounted>>

Entries == 1..MaxEntries
Params == {p \in SUBSET Nat : \A x, y \in p : x = y}     \* {}: undefined

\* What has been read: the rows of so many pages; next: the parameter of the page
\* after the last; since: what was archived when the first page was read.
Held(rows, pages, next, since) == [rows |-> rows, pages |-> pages, next |-> next, since |-> since]
Nothing == Held(<<>>, 0, {}, {})
HeldSet == [rows : Seq(Entries), pages : Nat, next : Params, since : SUBSET Entries]

Empty == [loaded |-> FALSE, fresh |-> FALSE, failed |-> FALSE, held |-> Nothing]

\* more: a next page, not the pages over again; wanted: how many pages.
NoFetch == [phase |-> "none", more |-> FALSE, wanted |-> 0, held |-> Nothing]

PagerTypeOK ==
  /\ pager \in {"daily", "expedition"}
  /\ archived \subseteq Entries
  /\ list \in [loaded : BOOLEAN, fresh : BOOLEAN, failed : BOOLEAN, held : HeldSet]
  /\ fetch \in [phase : {"none", "asked", "answered"}, more : BOOLEAN, wanted : Nat, held : HeldSet]
  /\ mounted \in BOOLEAN

PagerInit ==
  /\ pager \in {"daily", "expedition"}
  /\ archived \in SUBSET Entries
  /\ list = Empty
  /\ fetch = NoFetch
  /\ mounted = FALSE

------------------------------------------------------------------------------
(* The services.                                                             *)

Newer(S, x) == {y \in S : y > x}
NewestFirst(S) ==
  [i \in 1..Cardinality(S) |-> CHOOSE x \in S : Cardinality(Newer(S, x)) = i - 1]

\* At most n entries of s, after the first `from`.
Slice(s, from, n) == SubSeq(s, from + 1, IF from + n < Len(s) THEN from + n ELSE Len(s))

\* Mutation: the entry of the cursor is read again.
AtOrBelow(cursor) == {e \in archived : e <= cursor}

\* (due_date, archived_at, id) < cursor
Below(cursor) == {e \in archived : e < cursor}

\* Mutation: the cursor is the extra row.
CursorOfExtra(rows) == IF Len(rows) > PageSize THEN {rows[PageSize + 1]} ELSE {}

\* One row more than the page was read; the cursor is the last row of the page.
NextCursor(rows) == IF Len(rows) > PageSize THEN {rows[PageSize]} ELSE {}

\* ListHistory.
KeysetPage(cursor) ==
  LET rows == Slice(NewestFirst(Below(cursor)), 0, PageSize + 1)
  IN [items |-> Slice(rows, 0, PageSize), next |-> NextCursor(rows)]

\* ListByUser, and getNextPageParam of expeditionHistoryPageOptions.
OffsetPage(offset) ==
  LET rows == Slice(NewestFirst(archived), offset, PageSize)
  IN [items |-> rows, next |-> IF Len(rows) < PageSize THEN {} ELSE {offset + PageSize}]

FirstParam == IF pager = "daily" THEN MaxEntries + 1 ELSE 0
PageAt(param) == IF pager = "daily" THEN KeysetPage(param) ELSE OffsetPage(param)

\* A Daily is archived when its cycle ends or by a sweep that comes late, below
\* newer ones; an Expedition is listed from its launch.
Archive(e) ==
  /\ e \notin archived
  /\ pager = "expedition" => \A a \in archived : e > a
  /\ archived' = archived \cup {e}
  /\ UNCHANGED <<pager, list, fetch, mounted>>

------------------------------------------------------------------------------
(* The pages.                                                                *)

Rows == list.held.rows
Fetching == fetch.phase # "none"

\* refetch: as many pages as are held, from the first on.
Reload ==
  fetch' = [phase |-> "asked", more |-> FALSE, wanted |-> list.held.pages,
            held |-> Held(<<>>, 0, {FirstParam}, {})]

\* fetchNextPage, in place of the fetch under way.  With no next page it is over
\* at once and counts as a success.
FetchNextPage ==
  IF list.held.next = {}
    THEN /\ list' = [list EXCEPT !.fresh = TRUE, !.failed = FALSE]
         /\ fetch' = NoFetch
    ELSE /\ fetch' = [phase |-> "asked", more |-> TRUE, wanted |-> 0, held |-> list.held]
         /\ UNCHANGED list

\* What is cached is shown, and read again when its staleTime has passed.
Open ==
  /\ ~mounted
  /\ mounted' = TRUE
  /\ \/ list.loaded /\ list.fresh /\ UNCHANGED fetch
     \/ Reload
  /\ UNCHANGED <<pager, archived, list>>

\* The request is aborted.
Leave ==
  /\ mounted
  /\ mounted' = FALSE
  /\ fetch' = NoFetch
  /\ UNCHANGED <<pager, archived, list>>

\* The page shows nothing but the error and its Retry.
RetryFirst ==
  /\ mounted /\ list.failed
  /\ IF list.loaded THEN pager = "expedition" /\ Rows = <<>> ELSE ~Fetching
  /\ Reload
  /\ UNCHANGED <<pager, archived, list, mounted>>

LoadMore ==
  /\ mounted /\ Rows # <<>>
  /\ list.held.next # {} /\ ~(Fetching /\ fetch.more)
  /\ pager = "expedition" => ~list.failed
  /\ FetchNextPage
  /\ UNCHANGED <<pager, archived, mounted>>

\* "Could not load more", whichever fetch has failed.
Retry ==
  /\ mounted /\ Rows # <<>> /\ list.failed
  /\ FetchNextPage
  /\ UNCHANGED <<pager, archived, mounted>>

\* A page that was read is added; the first tells what there was.
Extended(held, page) ==
  Held(held.rows \o page.items, held.pages + 1, page.next,
       IF held.pages = 0 THEN archived ELSE held.since)

\* The service reads one page.
ServerReads ==
  /\ fetch.phase = "asked"
  /\ \E param \in fetch.held.next :
       fetch' = [fetch EXCEPT !.phase = "answered", !.held = Extended(@, PageAt(param))]
  /\ UNCHANGED <<pager, archived, list, mounted>>

\* The next page is asked for, or the pages read are now the list.
PageArrives ==
  /\ fetch.phase = "answered"
  /\ IF fetch.held.pages < fetch.wanted /\ fetch.held.next # {}
       THEN fetch' = [fetch EXCEPT !.phase = "asked"] /\ UNCHANGED list
       ELSE /\ list' = [loaded |-> TRUE, fresh |-> TRUE, failed |-> FALSE, held |-> fetch.held]
            /\ fetch' = NoFetch
  /\ UNCHANGED <<pager, archived, mounted>>

\* What was loaded stays.
FetchFails ==
  /\ Fetching
  /\ list' = [list EXCEPT !.failed = TRUE, !.fresh = FALSE]
  /\ fetch' = NoFetch
  /\ UNCHANGED <<pager, archived, mounted>>

PagerNext ==
  \/ \E e \in Entries : Archive(e)
  \/ Open \/ Leave \/ RetryFirst \/ LoadMore \/ Retry
  \/ ServerReads \/ PageArrives \/ FetchFails

PagerSpec == PagerInit /\ [][PagerNext]_pagerVars

------------------------------------------------------------------------------
(* Properties.                                                               *)

\* The Dailies are listed newest first and each once, whatever was archived
\* between the pages, above or below the cursor, and whichever pages were
\* reloaded or continued after a failure; Expeditions, as long as none was
\* launched since the first page was read.
NewestFirstAndOnce ==
  (pager = "expedition" => archived = list.held.since) =>
    \A i, j \in DOMAIN Rows : i < j => Rows[i] > Rows[j]

\* No gaps: what was there when the first page was read is shown if it belongs
\* above the last row shown, and all of it when there is no next page, at whatever
\* times the other pages were read and however the entries moved on meanwhile.
NothingSkipped ==
  \A e \in list.held.since :
    (list.held.next = {} \/ \E i \in DOMAIN Rows : Rows[i] < e) => \E i \in DOMAIN Rows : Rows[i] = e
=============================================================================
