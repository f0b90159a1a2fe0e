--------------------------- MODULE DailyLifecycle ---------------------------
(****************************************************************************)
(* One Player's dailies: the requests of daily-service that change them     *)
(* (apps/daily-service/internal/daily/manager.go), the consumers that       *)
(* provision and delete the Player, and the two sweeps of daily-cron        *)
(* (workers/daily-cron/internal/cron/worker.go), which share daily_db.      *)
(*                                                                          *)
(* Each is a READ COMMITTED transaction; they meet at the rows of dailies.  *)
(* Requests wait for a locked row, sweeps skip it.                          *)
(****************************************************************************)
EXTENDS Integers, FiniteSets, Sequences

CONSTANTS Dailies,     \* identities a POST /dailies may give
          Completions, \* POST /dailies/{id}/complete requests
          Edits,       \* PATCH /dailies/{id} requests
          Deletions,   \* DELETE /dailies/{id} requests
          Target,      \* Target[q]: the daily that request q names
          Workers,     \* replicas of daily-cron
          Null,        \* SQL's NULL
          Day,         \* length of a local day (clock changes: see DailyTime)
          Horizon,     \* days NextOccurrenceAfter looks ahead (366)
          DueDates,    \* deadlines clients ask for, past ones included
          BatchSize,   \* rows per sweep transaction (500)
          MaxTime,     \* bound: last instant
          MaxFaults    \* bound: failed transactions

Requests == Completions \cup Edits \cup Deletions

ASSUME RequestAssumption ==
  /\ Completions \cap Edits = {}
  /\ Completions \cap Deletions = {}
  /\ Edits \cap Deletions = {}
  /\ Target \in [Requests -> Dailies]
ASSUME TimeAssumption == /\ Day \in Nat \ {0}
                         /\ Horizon \in Nat \ {0}
                         /\ DueDates \subseteq Int
                         /\ MaxTime \in Nat
                         /\ Null \notin Int
ASSUME SizeAssumption == BatchSize \in Nat \ {0} /\ MaxFaults \in Nat

VARIABLES now,         \* the clock
          provisioned, \* the Player's row of users_cache exists
          row,         \* row[d]: committed row of dailies, status "none" if absent
          history,     \* history[d]: its rows of daily_history, in commit order
          staged,      \* staged[d]: types of the outbox rows for d, likewise
          cycle,       \* history variable: the cycles d has begun
          pc,          \* pc[q]: where request q stands, at last its answer
          newDue,      \* newDue[q]: the deadline edit q has written and not committed
          phase,       \* phase[w]: where worker w stands in Tick
          tickNow,     \* tickNow[w]: the clock as its Tick read it, 0 between ticks
          batch,       \* batch[w]: the rows its transaction has locked
          faults

domainVars  == <<row, history, staged, cycle>>
requestVars == <<pc, newDue>>
workVars    == <<phase, tickNow, batch>>
vars == <<now, provisioned, domainVars, requestVars, workVars, faults>>

NoDaily == [status |-> "none", due |-> 0]
Outcomes == {"COMPLETED", "MISSED"}
Archive == [cycle : Nat, status : Outcomes, due : Int, missedAt : Nat \cup {Null}]
EventOf == [COMPLETED |-> "daily.completed", MISSED |-> "daily.missed"]
Places  == {"new", "begun", "inspecting", "written"}
Answers == {"OK", "NOT_READY", "NOT_FOUND", "ALREADY_COMPLETED", "INTERNAL", "FAILED"}
Phases  == {"idle", "missed", "marking", "completed", "resetting"}

TypeOK ==
  /\ now \in 0..MaxTime
  /\ provisioned \in BOOLEAN
  /\ row \in [Dailies -> [status : {"none", "PENDING", "COMPLETED"}, due : Int]]
  /\ history \in [Dailies -> Seq(Archive)]
  /\ staged \in [Dailies -> Seq({"daily.completed", "daily.missed"})]
  /\ cycle \in [Dailies -> Nat]
  /\ pc \in [Requests -> Places \cup Answers]
  /\ newDue \in [Requests -> Int]
  /\ phase \in [Workers -> Phases]
  /\ tickNow \in [Workers -> 0..MaxTime]
  /\ batch \in [Workers -> SUBSET Dailies]
  /\ faults \in 0..MaxFaults

Init ==
  /\ now = 0
  /\ provisioned = FALSE
  /\ row = [d \in Dailies |-> NoDaily]
  /\ history = [d \in Dailies |-> <<>>]
  /\ staged = [d \in Dailies |-> <<>>]
  /\ cycle = [d \in Dailies |-> 0]
  /\ pc = [q \in Requests |-> "new"]
  /\ newDue = [q \in Requests |-> 0]
  /\ phase = [w \in Workers |-> "idle"]
  /\ tickNow = [w \in Workers |-> 0]
  /\ batch = [w \in Workers |-> {}]
  /\ faults = 0

Exists(d) == row[d].status # "none"

\* Mutation: sweeps list locked rows too (no FOR UPDATE SKIP LOCKED).
UnlockedAlways(d) == TRUE

\* No transaction in progress holds d's row.
Unlocked(d) == /\ \A w \in Workers : d \notin batch[w]
               /\ \A q \in Requests : pc[q] = "written" => Target[q] # d

Fault == faults < MaxFaults /\ faults' = faults + 1

PassTime ==
  /\ now < MaxTime
  /\ now' = now + 1
  /\ UNCHANGED <<provisioned, domainVars, requestVars, workVars, faults>>

------------------------------------------------------------------------------
(* Consumers of user.created and user.deleted.                              *)

HandleUserCreated ==
  /\ ~provisioned
  /\ provisioned' = TRUE
  /\ UNCHANGED <<now, domainVars, requestVars, workVars, faults>>

(* DeleteUserCache; ON DELETE CASCADE takes the dailies along, each when     *)
(* nobody holds its row, and leaves daily_history.                          *)
HandleUserDeleted ==
  /\ provisioned
  /\ \A d \in Dailies : Exists(d) => Unlocked(d)
  /\ provisioned' = FALSE
  /\ row' = [d \in Dailies |-> NoDaily]
  /\ UNCHANGED <<now, history, staged, cycle, requestVars, workVars, faults>>

------------------------------------------------------------------------------
(* Requests.                                                                *)

\* One INSERT; the foreign key needs the Player, a new id each time.
Create(d) ==
  /\ provisioned
  /\ cycle[d] = 0
  /\ \E due \in DueDates :
       row' = [row EXCEPT ![d] = [status |-> "PENDING", due |-> due]]
  /\ cycle' = [cycle EXCEPT ![d] = 1]
  /\ UNCHANGED <<now, provisioned, history, staged, requestVars, workVars, faults>>

Answer(q, a) == pc' = [pc EXCEPT ![q] = a]

(* Begin; Complete alone asks whether the Player is provisioned.             *)
Begin(q) ==
  /\ pc[q] = "new"
  /\ Answer(q, IF q \in Completions /\ ~provisioned THEN "NOT_READY" ELSE "begun")
  /\ UNCHANGED <<now, provisioned, domainVars, newDue, workVars, faults>>

\* MarkDailyComplete: WHERE status = 'PENDING'.
Completable(d) == row[d].status = "PENDING"

\* The row is one that q's statement applies to.
Applies(q) ==
  IF q \in Completions THEN Completable(Target[q]) ELSE Exists(Target[q])

(* MarkDailyComplete, UpdateDaily or DeleteDaily; a deadline is optional.    *)
Write(q) ==
  /\ pc[q] = "begun"
  /\ Applies(q)
  /\ Unlocked(Target[q])
  /\ Answer(q, "written")
  /\ \E due \in DueDates \cup {row[Target[q]].due} :
       newDue' = IF q \in Edits THEN [newDue EXCEPT ![q] = due] ELSE newDue
  /\ UNCHANGED <<now, provisioned, domainVars, workVars, faults>>

\* No row: edits and deletions answer 404, a completion inspects why.
Misses(q) ==
  /\ pc[q] = "begun"
  /\ ~Applies(q)
  /\ Answer(q, IF q \in Completions THEN "inspecting" ELSE "NOT_FOUND")
  /\ UNCHANGED <<now, provisioned, domainVars, newDue, workVars, faults>>

\* What inspectStatusMismatch makes of the row it reads; a PENDING row is no
\* mismatch, and Complete wraps pgx.ErrNoRows as an internal error.
Mismatch(d) == CASE row[d].status = "none"      -> "NOT_FOUND"
                 [] row[d].status = "COMPLETED" -> "ALREADY_COMPLETED"
                 [] OTHER                       -> "INTERNAL"

(* A second statement, with a snapshot of its own.                           *)
Inspect(q) ==
  /\ pc[q] = "inspecting"
  /\ Answer(q, Mismatch(Target[q]))
  /\ UNCHANGED <<now, provisioned, domainVars, newDue, workVars, faults>>

\* A row of daily_history and an outbox row for each daily of S.
Record(S, outcome, missedAt) ==
  /\ history' = [d \in Dailies |-> IF d \in S
       THEN Append(history[d], [cycle |-> cycle[d], status |-> outcome,
                                due |-> row[d].due, missedAt |-> missedAt])
       ELSE history[d]]
  /\ staged' = [d \in Dailies |-> IF d \in S
       THEN Append(staged[d], EventOf[outcome]) ELSE staged[d]]

CommitCompletion(q) ==
  /\ q \in Completions
  /\ row' = [row EXCEPT ![Target[q]].status = "COMPLETED"]
  /\ Record({Target[q]}, "COMPLETED", Null)

CommitEdit(q) ==
  /\ q \in Edits
  /\ row' = [row EXCEPT ![Target[q]].due = newDue[q]]
  /\ UNCHANGED <<history, staged>>

CommitDeletion(q) ==
  /\ q \in Deletions
  /\ row' = [row EXCEPT ![Target[q]] = NoDaily]
  /\ UNCHANGED <<history, staged>>

Commit(q) ==
  /\ pc[q] = "written"
  /\ Answer(q, "OK")
  /\ CommitCompletion(q) \/ CommitEdit(q) \/ CommitDeletion(q)
  /\ newDue' = [newDue EXCEPT ![q] = 0]
  /\ UNCHANGED <<now, provisioned, cycle, workVars, faults>>

(* A statement or Commit fails; the deferred Rollback releases the row.      *)
Fail(q) ==
  /\ pc[q] \in {"begun", "inspecting", "written"}
  /\ Fault
  /\ Answer(q, "FAILED")
  /\ newDue' = [newDue EXCEPT ![q] = 0]
  /\ UNCHANGED <<now, provisioned, domainVars, workVars>>

Request(q) == \/ Begin(q)
              \/ Write(q)
              \/ Misses(q)
              \/ Inspect(q)
              \/ Commit(q)
              \/ Fail(q)

------------------------------------------------------------------------------
(* Tick: batches of the missed sweep until one is empty, then of the reset  *)
(* sweep.  The drain after a marked batch is EventDelivery's.               *)

Enter(w, place) == phase' = [phase EXCEPT ![w] = place]

\* Tick returns; its clock is gone.
Idle(w) == Enter(w, "idle") /\ tickNow' = [tickNow EXCEPT ![w] = 0]

\* The ticker fires, or the process starts: a restarted worker ticks at once.
TickStart(w) ==
  /\ phase[w] = "idle"
  /\ Enter(w, "missed")
  /\ tickNow' = [tickNow EXCEPT ![w] = now]
  /\ UNCHANGED <<now, provisioned, domainVars, requestVars, batch, faults>>

\* Rows of the status, due before the tick's clock, that nobody has locked.
Listable(w, status) ==
  {d \in Dailies : row[d].status = status /\ row[d].due < tickNow[w] /\ Unlocked(d)}

\* ORDER BY due_date ASC LIMIT batch_size FOR UPDATE SKIP LOCKED.
ListExpired(w, status) ==
  \E S \in SUBSET Listable(w, status) :
    /\ S # {}
    /\ Cardinality(S) <= BatchSize
    /\ S # Listable(w, status) => Cardinality(S) = BatchSize
    /\ \A d \in S, e \in Listable(w, status) \ S : row[d].due <= row[e].due
    /\ batch' = [batch EXCEPT ![w] = S]

ListPendingExpired(w) ==
  /\ phase[w] = "missed"
  /\ ListExpired(w, "PENDING")
  /\ Enter(w, "marking")
  /\ UNCHANGED <<now, provisioned, domainVars, requestVars, tickNow, faults>>

MissedSweepEnds(w) ==
  /\ phase[w] = "missed"
  /\ Listable(w, "PENDING") = {}
  /\ Enter(w, "completed")
  /\ UNCHANGED <<now, provisioned, domainVars, requestVars, tickNow, batch, faults>>

ListCompletedExpired(w) ==
  /\ phase[w] = "completed"
  /\ ListExpired(w, "COMPLETED")
  /\ Enter(w, "resetting")
  /\ UNCHANGED <<now, provisioned, domainVars, requestVars, tickNow, faults>>

TickEnds(w) ==
  /\ phase[w] = "completed"
  /\ Listable(w, "COMPLETED") = {}
  /\ Idle(w)
  /\ UNCHANGED <<now, provisioned, domainVars, requestVars, batch, faults>>

\* The days by which due can be moved past t, as far as the loop looks.
DaysPast(due, t) == {k \in 1..Horizon : due + k * Day > t}

\* Mutation: to the next day, also after an outage of several.
NextDueTomorrow(due, t) == due + Day

\* NextOccurrenceAfter: the first occurrence after t.
NextDue(due, t) ==
  due + Day * (CHOOSE k \in DaysPast(due, t) : \A j \in DaysPast(due, t) : k <= j)

\* The row as either sweep leaves it, for the new cycle.
RolledOver(d, t) == [status |-> "PENDING", due |-> NextDue(row[d].due, t)]

\* Every deadline of the batch can be advanced.
Advanceable(w) == \A d \in batch[w] : DaysPast(row[d].due, tickNow[w]) # {}

\* Mutation: the failed transaction is left open with its locks.
ReleaseForgotten(w) == UNCHANGED batch

Release(w) == batch' = [batch EXCEPT ![w] = {}]

\* A new cycle for each row of the batch, and Commit.
CommitBatch(w) ==
  /\ Advanceable(w)
  /\ row' = [d \in Dailies |->
       IF d \in batch[w] THEN RolledOver(d, tickNow[w]) ELSE row[d]]
  /\ cycle' = [d \in Dailies |-> cycle[d] + IF d \in batch[w] THEN 1 ELSE 0]
  /\ Release(w)

\* RollOverPendingDaily and InsertOutbox for each, in one transaction.
MarkBatch(w) ==
  /\ phase[w] = "marking"
  /\ CommitBatch(w)
  /\ Record(batch[w], "MISSED", tickNow[w])
  /\ Enter(w, "missed")
  /\ UNCHANGED <<now, provisioned, requestVars, tickNow, faults>>

\* ResetCompletedDaily for each; no history, no event.
ResetCompletedBatch(w) ==
  /\ phase[w] = "resetting"
  /\ CommitBatch(w)
  /\ Enter(w, "completed")
  /\ UNCHANGED <<now, provisioned, history, staged, requestVars, tickNow, faults>>

(* A statement, Commit or advance of a deadline fails: the batch is rolled   *)
(* back, and Tick returns the error without its later phases.               *)
SweepFails(w) ==
  /\ phase[w] # "idle"
  /\ IF Advanceable(w) THEN Fault ELSE UNCHANGED faults
  /\ Release(w)
  /\ Idle(w)
  /\ UNCHANGED <<now, provisioned, domainVars, requestVars>>

Tick(w) == \/ TickStart(w)
           \/ ListPendingExpired(w)
           \/ MarkBatch(w)
           \/ MissedSweepEnds(w)
           \/ ListCompletedExpired(w)
           \/ ResetCompletedBatch(w)
           \/ TickEnds(w)
           \/ SweepFails(w)

Next == \/ PassTime
        \/ HandleUserCreated
        \/ HandleUserDeleted
        \/ \E d \in Dailies : Create(d)
        \/ \E q \in Requests : Request(q)
        \/ \E w \in Workers : Tick(w)

Spec == Init /\ [][Next]_vars

(* The ticker keeps firing, and a tick or a request that began runs on; no   *)
(* one need ask for anything, and no event need arrive.                     *)
Fairness ==
  /\ \A w \in Workers :
       /\ WF_vars(TickStart(w))
       /\ WF_vars(ListPendingExpired(w) \/ MissedSweepEnds(w))
       /\ WF_vars(ListCompletedExpired(w) \/ TickEnds(w))
       /\ WF_vars(MarkBatch(w))
       /\ WF_vars(ResetCompletedBatch(w))
       /\ WF_vars(SweepFails(w) /\ ~Advanceable(w))
  /\ \A q \in Requests : WF_vars(Commit(q))

FairSpec == Spec /\ Fairness

------------------------------------------------------------------------------
(* Properties.                                                              *)

\* Each cycle of a daily ends at most once, completed or missed but not both,
\* whichever of Complete and the missed sweep gets the row at the deadline; it
\* leaves one row of daily_history and one event, in the order of the cycles,
\* and a daily is reopened only by the end of its cycle.
CyclesEndOnce ==
  \A d \in Dailies :
    /\ \A i \in DOMAIN history[d] : history[d][i].cycle = i
    /\ staged[d] = [i \in DOMAIN history[d] |-> EventOf[history[d][i].status]]
    /\ row[d].status = "PENDING" => Len(history[d]) = cycle[d] - 1
    /\ row[d].status = "COMPLETED" =>
         /\ Len(history[d]) = cycle[d]
         /\ history[d][cycle[d]].status = "COMPLETED"

\* No request has moved d's deadline.
Unmoved(d) == \A q \in Edits : Target[q] = d => pc[q] # "OK"

\* ADR-0012: "a single miss penalty for the expired period".  A miss is recorded
\* after its deadline, and however late the sweep was, the deadline of the next
\* miss is after the moment at which the first was recorded.
OneMissPerLapse ==
  \A d \in Dailies : Unmoved(d) =>
    \A j \in DOMAIN history[d] : history[d][j].status = "MISSED" =>
      /\ history[d][j].due < history[d][j].missedAt
      /\ \A i \in 1..(j - 1) : history[d][i].status = "MISSED" =>
           history[d][i].missedAt < history[d][j].due

\* No deadline has two outcomes: replicas that sweep at once, completions that
\* race with them and batches that fail neither reward nor penalise a day twice.
OneOutcomePerDeadline ==
  \A d \in Dailies : Unmoved(d) =>
    \A j \in DOMAIN history[d] : \A i \in 1..(j - 1) :
      history[d][i].due < history[d][j].due

\* Every deadline that passes is dealt with by some tick and moved past it,
\* whatever failed before; the spec has the sweep advance it "until
\* `due_date > now()`".
OverdueIsSettled ==
  \A d \in Dailies :
    Exists(d) /\ row[d].due < now ~> ~(Exists(d) /\ row[d].due < now)
=============================================================================
