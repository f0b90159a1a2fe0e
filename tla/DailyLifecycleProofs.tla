------------------------ MODULE DailyLifecycleProofs ------------------------
(****************************************************************************)
(* Theorems about DailyLifecycle, for any dailies, requests, worker         *)
(* replicas, deadlines, batch sizes and lengths of an outage.               *)
(****************************************************************************)
EXTENDS DailyLifecycle, FiniteSetTheorems, SequenceTheorems, TLAPS

\* A daily that was never created has no row and no past.
FreshUntilCreated ==
  \A d \in Dailies : cycle[d] = 0 => row[d].status = "none" /\ history[d] = <<>>

\* What a sweep has locked stays as it was listed.
BatchesHeld ==
  \A w \in Workers : \A d \in batch[w] :
    /\ \/ phase[w] = "marking" /\ row[d].status = "PENDING"
       \/ phase[w] = "resetting" /\ row[d].status = "COMPLETED"
    /\ row[d].due < tickNow[w]

\* What a request has written still applies, and no sweep has its row.
WritesHeld ==
  \A q \in Requests : pc[q] = "written" =>
    Applies(q) /\ \A w \in Workers : Target[q] \notin batch[w]

\* A row has one holder.
HoldersApart ==
  /\ \A v, w \in Workers : v # w => batch[v] \cap batch[w] = {}
  /\ \A q, r \in Requests :
       q # r /\ pc[q] = "written" /\ pc[r] = "written" => Target[q] # Target[r]

Held == BatchesHeld /\ WritesHeld /\ HoldersApart

IInv == /\ TypeOK
        /\ CyclesEndOnce
        /\ FreshUntilCreated
        /\ Held

------------------------------------------------------------------------------
(* Lemmas about the operators.                                              *)

\* A nonempty set of naturals has a least element: of the intervals 0..k for its
\* elements k one includes no other.
LEMMA LeastNatural ==
  ASSUME NEW D \in SUBSET Nat, D # {}
  PROVE  \E k \in D : \A j \in D : k <= j
<1> DEFINE T == {0..k : k \in D}
<1>1. T # {} /\ T \subseteq FiniteSubsetsOf(Nat)
  <2>1. T # {}
    OBVIOUS
  <2>2. ASSUME NEW k \in D PROVE 0..k \in FiniteSubsetsOf(Nat)
    <3>1. IsFiniteSet(0..k)
      BY FS_Interval, 0 \in Int, k \in Int
    <3>2. 0..k \in SUBSET Nat
      OBVIOUS
    <3> QED
      BY <3>1, <3>2 DEF FiniteSubsetsOf
  <2> QED
    BY <2>1, <2>2
<1>2. IsWellFoundedOn(StrictSubsetOrdering(Nat), FiniteSubsetsOf(Nat))
  BY FS_StrictSubsetOrderingWellFounded
<1>3. PICK t \in T : \A u \in T : <<u, t>> \notin StrictSubsetOrdering(Nat)
  BY <1>1, <1>2, WFMin, Zenon
<1>4. PICK k \in D : t = 0..k
  OBVIOUS
<1>5. ASSUME NEW j \in D, j < k PROVE FALSE
  <2>1. 0..j \subseteq 0..k /\ 0..j # 0..k
    <3>1. k \in 0..k /\ k \notin 0..j
      BY <1>5
    <3> QED
      BY <1>5, <3>1
  <2>2. 0..j \in SUBSET Nat /\ 0..k \in SUBSET Nat
    OBVIOUS
  <2>3. <<0..j, 0..k>> \in StrictSubsetOrdering(Nat)
    BY <2>1, <2>2 DEF StrictSubsetOrdering
  <2> QED
    BY <1>3, <1>4, <2>3
<1> QED
  BY <1>5

\* The next occurrence is after the deadline and after the clock.
LEMMA NextDueIsLater ==
  ASSUME NEW due \in Int, NEW t \in Int, DaysPast(due, t) # {}
  PROVE  /\ NextDue(due, t) \in Int
         /\ NextDue(due, t) > t
         /\ NextDue(due, t) > due
<1> DEFINE D == DaysPast(due, t)
<1>1. D \in SUBSET Nat /\ D # {}
  BY TimeAssumption DEF DaysPast
<1>2. \E k \in D : \A j \in D : k <= j
  BY <1>1, LeastNatural
<1> DEFINE first == CHOOSE k \in D : \A j \in D : k <= j
<1>3. first \in D
  BY <1>2
<1>4. first \in 1..Horizon /\ due + first * Day > t
  BY <1>3 DEF DaysPast
<1>5. first \in Nat /\ first >= 1
  BY <1>4, TimeAssumption
<1> HIDE DEF first
<1>6. Day * first = first * Day /\ first * Day \in Nat /\ first * Day > 0
  BY <1>5, TimeAssumption
<1>7. NextDue(due, t) = due + Day * first
  BY DEF NextDue, first
<1> QED
  BY <1>4, <1>6, <1>7

\* A row of daily_history and its event appended together keep the two in step.
LEMMA RecordInStep ==
  ASSUME NEW h \in Seq(Archive), NEW e \in Archive,
         NEW s \in Seq({"daily.completed", "daily.missed"}),
         s = [i \in DOMAIN h |-> EventOf[h[i].status]]
  PROVE  /\ Append(h, e) \in Seq(Archive)
         /\ Append(s, EventOf[e.status]) \in Seq({"daily.completed", "daily.missed"})
         /\ Len(Append(h, e)) = Len(h) + 1
         /\ Append(h, e)[Len(h) + 1] = e
         /\ \A i \in DOMAIN h : Append(h, e)[i] = h[i]
         /\ DOMAIN Append(h, e) = DOMAIN h \cup {Len(h) + 1}
         /\ Append(s, EventOf[e.status]) =
              [i \in DOMAIN Append(h, e) |-> EventOf[Append(h, e)[i].status]]
<1>1. EventOf[e.status] \in {"daily.completed", "daily.missed"}
  BY DEF EventOf, Archive, Outcomes
<1>2. Len(s) = Len(h)
  OBVIOUS
<1>3. DOMAIN Append(h, e) = 1..(Len(h) + 1) /\ DOMAIN h = 1..Len(h)
  OBVIOUS
<1>4. /\ DOMAIN Append(s, EventOf[e.status]) = 1..(Len(h) + 1)
      /\ \A i \in 1..(Len(h) + 1) :
           Append(s, EventOf[e.status])[i] = EventOf[Append(h, e)[i].status]
  BY <1>1, <1>2, <1>3
<1> QED
  BY <1>1, <1>2, <1>3, <1>4

\* The row that Record appends to the history of d.
Entry(d, outcome, at) == [cycle |-> cycle[d], status |-> outcome,
                          due |-> row[d].due, missedAt |-> at]

\* What Record does to each daily, given that history and events are in step.
LEMMA RecordEffect ==
  ASSUME TypeOK, CyclesEndOnce, NEW S \in SUBSET Dailies, NEW outcome \in Outcomes,
         NEW at \in Nat \cup {Null}, Record(S, outcome, at)
  PROVE  /\ history' \in [Dailies -> Seq(Archive)]
         /\ staged' \in [Dailies -> Seq({"daily.completed", "daily.missed"})]
         /\ \A d \in Dailies :
              staged'[d] = [i \in DOMAIN history'[d] |-> EventOf[history'[d][i].status]]
         /\ \A d \in Dailies \ S : history'[d] = history[d]
         /\ \A d \in S :
              /\ Len(history'[d]) = Len(history[d]) + 1
              /\ DOMAIN history'[d] = DOMAIN history[d] \cup {Len(history[d]) + 1}
              /\ \A i \in DOMAIN history[d] : history'[d][i] = history[d][i]
              /\ history'[d][Len(history[d]) + 1] = Entry(d, outcome, at)
<1> DEFINE e(d) == Entry(d, outcome, at)
<1>1. \A d \in Dailies : e(d) \in Archive /\ e(d).status = outcome
  BY DEF TypeOK, Archive, Entry
<1>2. \A d \in Dailies : /\ history[d] \in Seq(Archive)
                         /\ staged[d] \in Seq({"daily.completed", "daily.missed"})
                         /\ staged[d] = [i \in DOMAIN history[d] |->
                                           EventOf[history[d][i].status]]
  BY DEF TypeOK, CyclesEndOnce
<1>3. /\ history' = [d \in Dailies |->
                      IF d \in S THEN Append(history[d], e(d)) ELSE history[d]]
      /\ staged' = [d \in Dailies |->
                     IF d \in S THEN Append(staged[d], EventOf[outcome]) ELSE staged[d]]
  BY DEF Record, Entry
<1> HIDE DEF e
<1>4. ASSUME NEW d \in S
      PROVE  /\ history'[d] \in Seq(Archive)
             /\ staged'[d] \in Seq({"daily.completed", "daily.missed"})
             /\ staged'[d] = [i \in DOMAIN history'[d] |->
                                EventOf[history'[d][i].status]]
             /\ Len(history'[d]) = Len(history[d]) + 1
             /\ DOMAIN history'[d] = DOMAIN history[d] \cup {Len(history[d]) + 1}
             /\ \A i \in DOMAIN history[d] : history'[d][i] = history[d][i]
             /\ history'[d][Len(history[d]) + 1] = e(d)
  <2>1. /\ history'[d] = Append(history[d], e(d))
        /\ staged'[d] = Append(staged[d], EventOf[e(d).status])
    BY <1>1, <1>3
  <2>2. /\ history[d] \in Seq(Archive) /\ e(d) \in Archive
        /\ staged[d] \in Seq({"daily.completed", "daily.missed"})
        /\ staged[d] = [i \in DOMAIN history[d] |-> EventOf[history[d][i].status]]
    BY <1>1, <1>2
  <2> DEFINE h == history[d]
             s == staged[d]
             r == e(d)
  <2>3. /\ Append(h, r) \in Seq(Archive)
        /\ Append(s, EventOf[r.status]) \in Seq({"daily.completed", "daily.missed"})
        /\ Len(Append(h, r)) = Len(h) + 1
        /\ Append(h, r)[Len(h) + 1] = r
        /\ \A i \in DOMAIN h : Append(h, r)[i] = h[i]
        /\ DOMAIN Append(h, r) = DOMAIN h \cup {Len(h) + 1}
        /\ Append(s, EventOf[r.status]) =
             [i \in DOMAIN Append(h, r) |-> EventOf[Append(h, r)[i].status]]
    <3>1. /\ h \in Seq(Archive) /\ r \in Archive
          /\ s \in Seq({"daily.completed", "daily.missed"})
          /\ s = [i \in DOMAIN h |-> EventOf[h[i].status]]
      BY <2>2
    <3> HIDE DEF h, s, r
    <3> QED
      BY <3>1, RecordInStep
  <2> QED
    BY ONLY <2>1, <2>3
<1>5. ASSUME NEW d \in Dailies \ S
      PROVE  history'[d] = history[d] /\ staged'[d] = staged[d]
  BY <1>3
<1>6. history' \in [Dailies -> Seq(Archive)]
  BY <1>2, <1>3, <1>4, <1>5
<1>7. staged' \in [Dailies -> Seq({"daily.completed", "daily.missed"})]
  BY <1>2, <1>3, <1>4, <1>5
<1>8. \A d \in Dailies :
        staged'[d] = [i \in DOMAIN history'[d] |-> EventOf[history'[d][i].status]]
  BY <1>2, <1>4, <1>5
<1> QED
  BY <1>4, <1>5, <1>6, <1>7, <1>8 DEF e

\* What a sweep's commit does to the rows and cycles.
LEMMA CommitBatchEffect ==
  ASSUME TypeOK, NEW w \in Workers, CommitBatch(w)
  PROVE  /\ row' \in [Dailies -> [status : {"none", "PENDING", "COMPLETED"}, due : Int]]
         /\ cycle' \in [Dailies -> Nat]
         /\ batch' \in [Workers -> SUBSET Dailies]
         /\ \A d \in Dailies \ batch[w] : row'[d] = row[d] /\ cycle'[d] = cycle[d]
         /\ \A d \in batch[w] : /\ row'[d].status = "PENDING"
                                /\ row'[d].due \in Int
                                /\ row'[d].due > tickNow[w]
                                /\ row'[d].due > row[d].due
                               /\ cycle'[d] = cycle[d] + 1
<1>1. batch[w] \in SUBSET Dailies /\ tickNow[w] \in Int
  BY TimeAssumption DEF TypeOK
<1>2. \A d \in batch[w] : /\ row[d].due \in Int
                          /\ DaysPast(row[d].due, tickNow[w]) # {}
  BY <1>1 DEF TypeOK, CommitBatch, Advanceable
<1>3. ASSUME NEW d \in batch[w]
      PROVE  /\ row'[d] \in [status : {"none", "PENDING", "COMPLETED"}, due : Int]
             /\ row'[d].status = "PENDING"
             /\ row'[d].due > tickNow[w]
             /\ row'[d].due > row[d].due
  <2> DEFINE n == NextDue(row[d].due, tickNow[w])
  <2>1. n \in Int /\ n > tickNow[w] /\ n > row[d].due
    BY <1>1, <1>2, NextDueIsLater
  <2>2. row'[d] = [status |-> "PENDING", due |-> n]
    BY <1>1 DEF CommitBatch, RolledOver
  <2> HIDE DEF n
  <2> QED
    BY <2>1, <2>2
<1>5. \A d \in Dailies \ batch[w] : row'[d] = row[d]
  BY DEF CommitBatch
<1>6. row' \in [Dailies -> [status : {"none", "PENDING", "COMPLETED"}, due : Int]]
  <2>1. row' = [d \in Dailies |-> row'[d]]
    BY DEF CommitBatch
  <2>2. \A d \in Dailies : row'[d] \in [status : {"none", "PENDING", "COMPLETED"}, due : Int]
    BY <1>3, <1>5 DEF TypeOK
  <2> QED
    BY <2>1, <2>2
<1>7. /\ cycle' \in [Dailies -> Nat]
      /\ \A d \in Dailies : cycle'[d] = cycle[d] + IF d \in batch[w] THEN 1 ELSE 0
  BY DEF CommitBatch, TypeOK
<1>8. batch' \in [Workers -> SUBSET Dailies]
  BY DEF CommitBatch, Release, TypeOK
<1>9. \A d \in Dailies \ batch[w] : cycle'[d] = cycle[d]
  BY <1>7 DEF TypeOK
<1>10. ASSUME NEW d \in batch[w]
       PROVE  /\ row'[d].status = "PENDING"
              /\ row'[d].due \in Int
              /\ row'[d].due > tickNow[w]
              /\ row'[d].due > row[d].due
              /\ cycle'[d] = cycle[d] + 1
  <2>1. d \in Dailies
    BY <1>1
  <2> QED
    BY <1>3, <1>7, <2>1
<1> QED
  BY <1>5, <1>6, <1>7, <1>8, <1>9, <1>10

------------------------------------------------------------------------------
(* Types.                                                                   *)

\* The initial state is well typed.
LEMMA TypeInit == Init => TypeOK
<1> SUFFICES ASSUME Init PROVE TypeOK
  OBVIOUS
<1>1. <<>> \in Seq(Archive) /\ <<>> \in Seq({"daily.completed", "daily.missed"})
  OBVIOUS
<1>2. /\ history \in [Dailies -> Seq(Archive)]
      /\ staged \in [Dailies -> Seq({"daily.completed", "daily.missed"})]
  BY <1>1 DEF Init
<1>3. now \in 0..MaxTime /\ faults \in 0..MaxFaults
  BY TimeAssumption, SizeAssumption DEF Init
<1>4. /\ row \in [Dailies -> [status : {"none", "PENDING", "COMPLETED"}, due : Int]]
      /\ cycle \in [Dailies -> Nat]
  BY DEF Init, NoDaily
<1>5. pc \in [Requests -> Places \cup Answers] /\ newDue \in [Requests -> Int]
  BY DEF Init, Places
<1>6. /\ phase \in [Workers -> Phases]
      /\ tickNow \in [Workers -> 0..MaxTime]
      /\ batch \in [Workers -> SUBSET Dailies]
  BY TimeAssumption DEF Init, Phases
<1>7. provisioned \in BOOLEAN
  BY Zenon DEF Init
<1> QED
  BY <1>2, <1>3, <1>4, <1>5, <1>6, <1>7 DEF TypeOK

\* The faults stay within their bound.
LEMMA FaultType ==
  ASSUME TypeOK, Fault
  PROVE  faults' \in 0..MaxFaults
  BY SizeAssumption DEF TypeOK, Fault

\* A request that moves on keeps its place's type.
LEMMA AnswerType ==
  ASSUME TypeOK, NEW q \in Requests, NEW a \in Places \cup Answers, Answer(q, a)
  PROVE  pc' \in [Requests -> Places \cup Answers]
  BY DEF TypeOK, Answer

\* The commit of a request keeps the types.
LEMMA CommitType ==
  ASSUME TypeOK, CyclesEndOnce, NEW q \in Requests, Commit(q)
  PROVE  TypeOK'
<1>1. pc' \in [Requests -> Places \cup Answers]
  BY AnswerType DEF Commit, Answers
<1>2. newDue' \in [Requests -> Int]
  BY DEF Commit, TypeOK
<1>3. Target[q] \in Dailies
  BY RequestAssumption
<1>4. /\ row' \in [Dailies -> [status : {"none", "PENDING", "COMPLETED"}, due : Int]]
      /\ history' \in [Dailies -> Seq(Archive)]
      /\ staged' \in [Dailies -> Seq({"daily.completed", "daily.missed"})]
  <2>1. CASE CommitCompletion(q)
    <3>1. Record({Target[q]}, "COMPLETED", Null)
      BY <2>1 DEF CommitCompletion
    <3>2. {Target[q]} \in SUBSET Dailies /\ "COMPLETED" \in Outcomes /\ Null \in Nat \cup {Null}
      BY <1>3 DEF Outcomes
    <3>3. /\ history' \in [Dailies -> Seq(Archive)]
          /\ staged' \in [Dailies -> Seq({"daily.completed", "daily.missed"})]
      BY <3>1, <3>2, RecordEffect
    <3>4. row' \in [Dailies -> [status : {"none", "PENDING", "COMPLETED"}, due : Int]]
      BY <2>1, <1>3 DEF CommitCompletion, TypeOK
    <3> QED
      BY <3>3, <3>4
  <2>2. CASE CommitEdit(q)
    BY <2>2, <1>3 DEF CommitEdit, TypeOK
  <2>3. CASE CommitDeletion(q)
    BY <2>3, <1>3 DEF CommitDeletion, TypeOK, NoDaily
  <2> QED
    BY <2>1, <2>2, <2>3 DEF Commit
<1> QED
  BY <1>1, <1>2, <1>4 DEF Commit, TypeOK, workVars

\* Every step of a request keeps the types.
LEMMA RequestType ==
  ASSUME TypeOK, CyclesEndOnce, NEW q \in Requests, Request(q)
  PROVE  TypeOK'
<1>1. CASE Begin(q)
  <2>1. pc' \in [Requests -> Places \cup Answers]
    BY <1>1, AnswerType DEF Begin, Answers, Places
  <2> QED
    BY <1>1, <2>1 DEF Begin, TypeOK, domainVars, workVars
<1>2. CASE Write(q)
  <2>1. pc' \in [Requests -> Places \cup Answers]
    BY <1>2, AnswerType DEF Write, Answers, Places
  <2>2. PICK due \in DueDates \cup {row[Target[q]].due} :
          newDue' = IF q \in Edits THEN [newDue EXCEPT ![q] = due] ELSE newDue
    BY <1>2 DEF Write
  <2>3. due \in Int
    BY <2>2, TimeAssumption, RequestAssumption DEF TypeOK
  <2>4. newDue' \in [Requests -> Int]
    BY <2>2, <2>3 DEF TypeOK
  <2> QED
    BY <1>2, <2>1, <2>4 DEF Write, TypeOK, domainVars, workVars
<1>3. CASE Misses(q)
  <2>1. pc' \in [Requests -> Places \cup Answers]
    BY <1>3, AnswerType DEF Misses, Answers, Places
  <2> QED
    BY <1>3, <2>1 DEF Misses, TypeOK, domainVars, workVars
<1>4. CASE Inspect(q)
  <2>1. Mismatch(Target[q]) \in Answers
    BY DEF Mismatch, Answers
  <2>2. pc' \in [Requests -> Places \cup Answers]
    BY <1>4, <2>1, AnswerType DEF Inspect
  <2> QED
    BY <1>4, <2>2 DEF Inspect, TypeOK, domainVars, workVars
<1>5. CASE Commit(q)
  BY <1>5, CommitType
<1>6. CASE Fail(q)
  <2>1. pc' \in [Requests -> Places \cup Answers]
    BY <1>6, AnswerType DEF Fail, Answers
  <2>2. newDue' \in [Requests -> Int] /\ faults' \in 0..MaxFaults
    BY <1>6, FaultType DEF Fail, TypeOK
  <2> QED
    BY <1>6, <2>1, <2>2 DEF Fail, TypeOK, domainVars, workVars
<1> QED
  BY <1>1, <1>2, <1>3, <1>4, <1>5, <1>6 DEF Request

\* A worker that moves on keeps its phase's type.
LEMMA PhaseType ==
  ASSUME TypeOK, NEW w \in Workers, NEW p \in Phases, Enter(w, p)
  PROVE  phase' \in [Workers -> Phases]
  BY DEF TypeOK, Enter

\* Listing a batch locks rows that the statement lists, and no other worker's.
LEMMA ListType ==
  ASSUME TypeOK, NEW w \in Workers, NEW s, ListExpired(w, s)
  PROVE  /\ batch' \in [Workers -> SUBSET Dailies]
         /\ batch'[w] \subseteq Listable(w, s)
         /\ \A v \in Workers \ {w} : batch'[v] = batch[v]
<1>1. PICK S \in SUBSET Listable(w, s) : batch' = [batch EXCEPT ![w] = S]
  BY DEF ListExpired
<1>2. S \in SUBSET Dailies
  BY <1>1 DEF Listable
<1> QED
  BY <1>1, <1>2 DEF TypeOK

\* Every step of a worker keeps the types.
LEMMA TickType ==
  ASSUME TypeOK, CyclesEndOnce, NEW w \in Workers, Tick(w)
  PROVE  TypeOK'
<1>0. {"idle", "missed", "marking", "completed", "resetting"} = Phases
  BY DEF Phases
<1>1. CASE TickStart(w)
  <2>1. phase' \in [Workers -> Phases]
    BY <1>0, <1>1, PhaseType DEF TickStart
  <2> QED
    BY <1>1, <2>1 DEF TickStart, TypeOK, domainVars, requestVars
<1>2. CASE ListPendingExpired(w)
  <2>1. phase' \in [Workers -> Phases]
    BY <1>0, <1>2, PhaseType DEF ListPendingExpired
  <2>2. batch' \in [Workers -> SUBSET Dailies]
    BY <1>2, ListType DEF ListPendingExpired
  <2> QED
    BY <1>2, <2>1, <2>2 DEF ListPendingExpired, TypeOK, domainVars, requestVars
<1>3. CASE MarkBatch(w)
  <2>1. phase' \in [Workers -> Phases]
    BY <1>0, <1>3, PhaseType DEF MarkBatch
  <2>2. /\ row' \in [Dailies -> [status : {"none", "PENDING", "COMPLETED"}, due : Int]]
        /\ cycle' \in [Dailies -> Nat]
        /\ batch' \in [Workers -> SUBSET Dailies]
    BY <1>3, CommitBatchEffect DEF MarkBatch
  <2>3. /\ batch[w] \in SUBSET Dailies /\ "MISSED" \in Outcomes
        /\ tickNow[w] \in Nat \cup {Null}
    BY TimeAssumption DEF TypeOK, Outcomes
  <2>4. /\ history' \in [Dailies -> Seq(Archive)]
        /\ staged' \in [Dailies -> Seq({"daily.completed", "daily.missed"})]
    BY <1>3, <2>3, RecordEffect DEF MarkBatch
  <2> QED
    BY <1>3, <2>1, <2>2, <2>4 DEF MarkBatch, TypeOK, requestVars
<1>4. CASE MissedSweepEnds(w)
  <2>1. phase' \in [Workers -> Phases]
    BY <1>0, <1>4, PhaseType DEF MissedSweepEnds
  <2> QED
    BY <1>4, <2>1 DEF MissedSweepEnds, TypeOK, domainVars, requestVars
<1>5. CASE ListCompletedExpired(w)
  <2>1. phase' \in [Workers -> Phases]
    BY <1>0, <1>5, PhaseType DEF ListCompletedExpired
  <2>2. batch' \in [Workers -> SUBSET Dailies]
    BY <1>5, ListType DEF ListCompletedExpired
  <2> QED
    BY <1>5, <2>1, <2>2 DEF ListCompletedExpired, TypeOK, domainVars, requestVars
<1>6. CASE ResetCompletedBatch(w)
  <2>1. phase' \in [Workers -> Phases]
    BY <1>0, <1>6, PhaseType DEF ResetCompletedBatch
  <2>2. /\ row' \in [Dailies -> [status : {"none", "PENDING", "COMPLETED"}, due : Int]]
        /\ cycle' \in [Dailies -> Nat]
        /\ batch' \in [Workers -> SUBSET Dailies]
    BY <1>6, CommitBatchEffect DEF ResetCompletedBatch
  <2> QED
    BY <1>6, <2>1, <2>2 DEF ResetCompletedBatch, TypeOK, requestVars
<1>7. CASE TickEnds(w)
  <2>1. phase' \in [Workers -> Phases] /\ tickNow' \in [Workers -> 0..MaxTime]
    BY <1>0, <1>7, PhaseType, TimeAssumption DEF TickEnds, Idle, TypeOK
  <2> QED
    BY <1>7, <2>1 DEF TickEnds, TypeOK, domainVars, requestVars
<1>8. CASE SweepFails(w)
  <2>1. phase' \in [Workers -> Phases] /\ tickNow' \in [Workers -> 0..MaxTime]
    BY <1>0, <1>8, PhaseType, TimeAssumption DEF SweepFails, Idle, TypeOK
  <2>2. faults' \in 0..MaxFaults /\ batch' \in [Workers -> SUBSET Dailies]
    BY <1>8, FaultType DEF SweepFails, Release, TypeOK
  <2> QED
    BY <1>8, <2>1, <2>2 DEF SweepFails, TypeOK, domainVars, requestVars
<1> QED
  BY <1>1, <1>2, <1>3, <1>4, <1>5, <1>6, <1>7, <1>8 DEF Tick

\* Every step keeps the types.
LEMMA TypeStep ==
  ASSUME TypeOK, CyclesEndOnce, [Next]_vars
  PROVE  TypeOK'
<1>1. CASE PassTime
  BY <1>1, TimeAssumption DEF PassTime, TypeOK, domainVars, requestVars, workVars
<1>2. CASE HandleUserCreated
  BY <1>2 DEF HandleUserCreated, TypeOK, domainVars, requestVars, workVars
<1>3. CASE HandleUserDeleted
  <2>1. row' \in [Dailies -> [status : {"none", "PENDING", "COMPLETED"}, due : Int]]
    BY <1>3 DEF HandleUserDeleted, NoDaily
  <2>2. provisioned' \in BOOLEAN
    BY <1>3, Zenon DEF HandleUserDeleted
  <2> QED
    BY <1>3, <2>1, <2>2 DEF HandleUserDeleted, TypeOK, requestVars, workVars
<1>4. ASSUME NEW d \in Dailies, Create(d) PROVE TypeOK'
  <2>1. PICK due \in DueDates :
          row' = [row EXCEPT ![d] = [status |-> "PENDING", due |-> due]]
    BY <1>4 DEF Create
  <2>2. due \in Int
    BY TimeAssumption
  <2>3. /\ row' \in [Dailies -> [status : {"none", "PENDING", "COMPLETED"}, due : Int]]
        /\ cycle' \in [Dailies -> Nat]
    BY <1>4, <2>1, <2>2 DEF Create, TypeOK
  <2> QED
    BY <1>4, <2>3 DEF Create, TypeOK, requestVars, workVars
<1>5. CASE UNCHANGED vars
  BY <1>5 DEF vars, TypeOK, domainVars, requestVars, workVars
<1>6. ASSUME NEW q \in Requests, Request(q) PROVE TypeOK'
  BY <1>6, RequestType
<1>7. ASSUME NEW w \in Workers, Tick(w) PROVE TypeOK'
  BY <1>7, TickType
<1> QED
  BY <1>1, <1>2, <1>3, <1>4, <1>5, <1>6, <1>7 DEF Next

------------------------------------------------------------------------------
(* Locks: what is held stays as it was.                                     *)

\* A request that has nothing written, or drops it, disturbs no lock.
LEMMA RequestReleases ==
  ASSUME TypeOK, Held, NEW q \in Requests, NEW a, a # "written", Answer(q, a),
         UNCHANGED <<row, phase, tickNow, batch>>
  PROVE  Held'
<1>1. /\ pc'[q] # "written"
      /\ \A r \in Requests : pc'[r] = "written" => pc[r] = "written"
  BY DEF Answer, TypeOK
<1>2. BatchesHeld'
  BY DEF Held, BatchesHeld
<1>3. WritesHeld'
  BY <1>1 DEF Held, WritesHeld, Applies, Completable, Exists
<1>4. HoldersApart'
  BY <1>1 DEF Held, HoldersApart
<1> QED
  BY <1>2, <1>3, <1>4 DEF Held

\* A statement gets a row that nobody holds.
LEMMA WriteHolds ==
  ASSUME TypeOK, Held, NEW q \in Requests, Write(q)
  PROVE  Held'
<1>1. /\ pc[q] = "begun" /\ Applies(q) /\ Unlocked(Target[q])
      /\ UNCHANGED <<row, phase, tickNow, batch>>
      /\ \A r \in Requests \ {q} : pc'[r] = pc[r]
  BY DEF Write, Answer, TypeOK, domainVars, workVars
<1>2. BatchesHeld'
  BY <1>1 DEF Held, BatchesHeld
<1>3. WritesHeld'
  BY <1>1 DEF Held, WritesHeld, Applies, Completable, Exists, Unlocked
<1>4. HoldersApart'
  BY <1>1 DEF Held, HoldersApart, Unlocked
<1> QED
  BY <1>2, <1>3, <1>4 DEF Held

\* A request commits only to its own row.
LEMMA CommitHolds ==
  ASSUME TypeOK, Held, NEW q \in Requests, Commit(q)
  PROVE  /\ Held'
         /\ \A d \in Dailies \ {Target[q]} : row'[d] = row[d]
<1>1. /\ pc[q] = "written" /\ pc'[q] # "written"
      /\ \A r \in Requests : pc'[r] = "written" => pc[r] = "written" /\ r # q
      /\ UNCHANGED <<phase, tickNow, batch>>
  BY DEF Commit, Answer, TypeOK, workVars
<1>2. \A d \in Dailies \ {Target[q]} : row'[d] = row[d]
  BY DEF Commit, CommitCompletion, CommitEdit, CommitDeletion, TypeOK
<1>3. Target \in [Requests -> Dailies]
  BY RequestAssumption
<1>4. BatchesHeld'
  <2> SUFFICES ASSUME NEW w \in Workers, NEW d \in batch[w]
               PROVE  d \in Dailies \ {Target[q]}
    BY <1>1, <1>2 DEF Held, BatchesHeld
  <2> QED
    BY <1>1 DEF Held, WritesHeld, TypeOK
<1>5. WritesHeld'
  <2> SUFFICES ASSUME NEW r \in Requests, pc'[r] = "written"
               PROVE  Applies(r)' /\ \A w \in Workers : Target[r] \notin batch'[w]
    BY DEF WritesHeld
  <2>1. pc[r] = "written" /\ Target[r] # Target[q]
    BY <1>1 DEF Held, HoldersApart
  <2>2. row'[Target[r]] = row[Target[r]]
    BY <1>2, <1>3, <2>1
  <2> QED
    BY <1>1, <2>1, <2>2 DEF Held, WritesHeld, Applies, Completable, Exists
<1>6. HoldersApart'
  BY <1>1 DEF Held, HoldersApart
<1> QED
  BY <1>2, <1>4, <1>5, <1>6 DEF Held

\* A worker that holds nothing afterwards disturbs no lock.
LEMMA WorkerReleases ==
  ASSUME TypeOK, Held, NEW w \in Workers, batch' = [batch EXCEPT ![w] = {}],
         \A v \in Workers \ {w} : phase'[v] = phase[v] /\ tickNow'[v] = tickNow[v],
         UNCHANGED <<row, pc>>
  PROVE  Held'
<1>1. batch'[w] = {} /\ \A v \in Workers \ {w} : batch'[v] = batch[v]
  BY DEF TypeOK
<1>2. BatchesHeld'
  BY <1>1 DEF Held, BatchesHeld
<1>3. WritesHeld'
  BY <1>1 DEF Held, WritesHeld, Applies, Completable, Exists
<1>4. HoldersApart'
  BY <1>1 DEF Held, HoldersApart
<1> QED
  BY <1>2, <1>3, <1>4 DEF Held

\* SKIP LOCKED: a sweep lists rows that nobody holds.
LEMMA ListHolds ==
  ASSUME TypeOK, Held, NEW w \in Workers,
         \/ ListPendingExpired(w)
         \/ ListCompletedExpired(w)
  PROVE  Held'
<1>1. PICK s \in {"PENDING", "COMPLETED"} :
        /\ ListExpired(w, s)
        /\ phase' = [phase EXCEPT ![w] = IF s = "PENDING" THEN "marking" ELSE "resetting"]
        /\ UNCHANGED <<row, pc, tickNow>>
  BY DEF ListPendingExpired, ListCompletedExpired, Enter, domainVars, requestVars
<1>2. /\ batch'[w] \subseteq Listable(w, s)
      /\ \A v \in Workers \ {w} : batch'[v] = batch[v]
  BY <1>1, ListType
<1>3. /\ phase'[w] = IF s = "PENDING" THEN "marking" ELSE "resetting"
      /\ \A v \in Workers \ {w} : phase'[v] = phase[v]
  BY <1>1 DEF TypeOK
<1>4. BatchesHeld'
  BY <1>1, <1>2, <1>3 DEF Held, BatchesHeld, Listable
<1>5. WritesHeld'
  BY <1>1, <1>2 DEF Held, WritesHeld, Applies, Completable, Exists, Listable, Unlocked
<1>6. HoldersApart'
  BY <1>1, <1>2 DEF Held, HoldersApart, Listable, Unlocked
<1> QED
  BY <1>4, <1>5, <1>6 DEF Held

\* The commit of a batch changes no row that another holds.
LEMMA CommitBatchHolds ==
  ASSUME TypeOK, Held, NEW w \in Workers, CommitBatch(w),
         \A v \in Workers \ {w} : phase'[v] = phase[v],
         UNCHANGED <<tickNow, pc>>
  PROVE  Held'
<1>1. batch'[w] = {} /\ \A v \in Workers \ {w} : batch'[v] = batch[v]
  BY DEF TypeOK, CommitBatch, Release
<1>2. \A d \in Dailies \ batch[w] : row'[d] = row[d]
  BY CommitBatchEffect
<1>3. \A v \in Workers : batch[v] \subseteq Dailies
  BY DEF TypeOK
<1>4. BatchesHeld'
  BY <1>1, <1>2, <1>3 DEF Held, BatchesHeld, HoldersApart
<1>5. WritesHeld'
  <2> SUFFICES ASSUME NEW r \in Requests, pc[r] = "written"
               PROVE  Applies(r)' /\ \A v \in Workers : Target[r] \notin batch'[v]
    BY DEF WritesHeld
  <2>1. Applies(r) /\ \A v \in Workers : Target[r] \notin batch[v]
    BY DEF Held, WritesHeld
  <2>2. row'[Target[r]] = row[Target[r]]
    BY <1>2, <2>1, RequestAssumption
  <2> QED
    BY <1>1, <2>1, <2>2 DEF Applies, Completable, Exists
<1>6. HoldersApart'
  BY <1>1 DEF Held, HoldersApart
<1> QED
  BY <1>4, <1>5, <1>6 DEF Held

------------------------------------------------------------------------------
(* Cycles: each ends at most once.                                          *)

\* What has ended: the part of IInv about rows and their history.
Past == CyclesEndOnce /\ FreshUntilCreated

\* What CyclesEndOnce says of the rows of one daily, its events apart.
Ordered(d) ==
  /\ \A i \in DOMAIN history[d] : history[d][i].cycle = i
  /\ row[d].status = "PENDING" => Len(history[d]) = cycle[d] - 1
  /\ row[d].status = "COMPLETED" =>
       /\ Len(history[d]) = cycle[d]
       /\ history[d][cycle[d]].status = "COMPLETED"

\* CyclesEndOnce, daily by daily.
LEMMA CyclesEndOnceParts ==
  CyclesEndOnce <=> \A d \in Dailies :
    /\ Ordered(d)
    /\ staged[d] = [i \in DOMAIN history[d] |-> EventOf[history[d][i].status]]
BY DEF CyclesEndOnce, Ordered

\* A new row of the history that carries the pending cycle.
LEMMA RecordOrdered ==
  ASSUME TypeOK, CyclesEndOnce, NEW S \in SUBSET Dailies, NEW outcome \in Outcomes,
         NEW at \in Nat \cup {Null}, Record(S, outcome, at), NEW d \in S,
         row[d].status = "PENDING"
  PROVE  /\ Len(history[d]) + 1 = cycle[d]
         /\ Len(history'[d]) = cycle[d]
         /\ \A i \in DOMAIN history'[d] : history'[d][i].cycle = i
         /\ history'[d][cycle[d]].status = outcome
<1>1. /\ Len(history'[d]) = Len(history[d]) + 1
      /\ DOMAIN history'[d] = DOMAIN history[d] \cup {Len(history[d]) + 1}
      /\ \A i \in DOMAIN history[d] : history'[d][i] = history[d][i]
      /\ history'[d][Len(history[d]) + 1] = Entry(d, outcome, at)
  BY RecordEffect
<1>2. /\ cycle[d] \in Nat /\ Len(history[d]) \in Nat
      /\ \A i \in DOMAIN history[d] : history[d][i].cycle = i
      /\ Len(history[d]) = cycle[d] - 1
  <2>1. d \in Dailies /\ Ordered(d)
    BY CyclesEndOnceParts
  <2>2. history[d] \in Seq(Archive)
    BY <2>1 DEF TypeOK
  <2>3. Len(history[d]) \in Nat
    BY <2>2
  <2> QED
    BY <2>1, <2>3 DEF Ordered, TypeOK
<1>3. Len(history[d]) + 1 = cycle[d]
  BY <1>2
<1>4. /\ history'[d][cycle[d]].cycle = cycle[d]
      /\ history'[d][cycle[d]].status = outcome
  BY <1>1, <1>3 DEF Entry
<1> QED
  BY <1>1, <1>2, <1>3, <1>4

\* A step that writes no row of dailies or daily_history keeps the past.
LEMMA PastUnchanged ==
  ASSUME Past, UNCHANGED domainVars
  PROVE  Past'
BY DEF Past, CyclesEndOnce, FreshUntilCreated, domainVars

\* The first cycle of a daily keeps the invariant: nobody held its row.
LEMMA CreateStep ==
  ASSUME TypeOK, Past, Held, NEW d \in Dailies, Create(d)
  PROVE  Past' /\ Held'
<1>1. /\ row[d].status = "none" /\ history[d] = <<>> /\ cycle[d] = 0
      /\ UNCHANGED <<history, staged, phase, tickNow, batch, pc>>
  BY DEF Create, Past, FreshUntilCreated, requestVars, workVars
<1>2. /\ row'[d].status = "PENDING" /\ cycle'[d] = 1
      /\ \A e \in Dailies \ {d} : row'[e] = row[e] /\ cycle'[e] = cycle[e]
  BY DEF Create, TypeOK
<1>3. Past'
  BY <1>1, <1>2 DEF Past, CyclesEndOnce, FreshUntilCreated
<1>4. \A w \in Workers : batch[w] \subseteq Dailies \ {d}
  BY <1>1 DEF Held, BatchesHeld, TypeOK
<1>5. \A q \in Requests : pc[q] = "written" => Target[q] \in Dailies \ {d}
  BY <1>1, RequestAssumption DEF Held, WritesHeld, Applies, Completable, Exists
<1>6. BatchesHeld'
  BY <1>1, <1>2, <1>4 DEF Held, BatchesHeld
<1>7. WritesHeld'
  BY <1>1, <1>2, <1>5 DEF Held, WritesHeld, Applies, Completable, Exists
<1>8. HoldersApart'
  BY <1>1 DEF Held, HoldersApart
<1> QED
  BY <1>3, <1>6, <1>7, <1>8 DEF Held

\* The cascade waits for every lock, so that it disturbs none, and keeps the past.
LEMMA CascadeStep ==
  ASSUME TypeOK, Past, Held, HandleUserDeleted
  PROVE  Past' /\ Held'
<1>1. /\ \A d \in Dailies : row'[d].status = "none"
      /\ UNCHANGED <<history, staged, cycle, phase, tickNow, batch, pc>>
  BY DEF HandleUserDeleted, NoDaily, requestVars, workVars
<1>2. Past'
  BY <1>1 DEF Past, CyclesEndOnce, FreshUntilCreated
<1>3. \A w \in Workers : batch[w] = {}
  BY DEF Held, BatchesHeld, HandleUserDeleted, Exists, Unlocked, TypeOK
<1>4. \A q \in Requests : pc[q] # "written"
  BY RequestAssumption
  DEF Held, WritesHeld, Applies, Completable, HandleUserDeleted, Exists, Unlocked
<1>5. BatchesHeld' /\ WritesHeld' /\ HoldersApart'
  BY <1>1, <1>3, <1>4 DEF BatchesHeld, WritesHeld, HoldersApart
<1> QED
  BY <1>2, <1>5 DEF Held

\* A commit ends the cycle of a pending daily, edits an existing one or removes it.
LEMMA CommitPast ==
  ASSUME TypeOK, Past, Held, NEW q \in Requests, Commit(q)
  PROVE  Past'
<1> DEFINE t == Target[q]
<1>1. t \in Dailies /\ Applies(q) /\ cycle' = cycle
  BY RequestAssumption DEF Commit, Held, WritesHeld
<1>2. \A d \in Dailies \ {t} : row'[d] = row[d]
  BY CommitHolds
<1>3. row[t].status # "none" /\ cycle[t] # 0
  BY <1>1 DEF Applies, Completable, Exists, Past, FreshUntilCreated
<1>4. CASE CommitCompletion(q)
  <2>1. Record({t}, "COMPLETED", Null)
    BY <1>4 DEF CommitCompletion
  <2>2. {t} \in SUBSET Dailies /\ "COMPLETED" \in Outcomes /\ Null \in Nat \cup {Null}
    BY <1>1 DEF Outcomes
  <2>3. row[t].status = "PENDING" /\ row'[t].status = "COMPLETED"
    BY <1>1, <1>4 DEF CommitCompletion, Applies, Completable, TypeOK
  <2>4. /\ \A d \in Dailies :
             staged'[d] = [i \in DOMAIN history'[d] |-> EventOf[history'[d][i].status]]
        /\ \A d \in Dailies \ {t} : history'[d] = history[d]
    BY <2>1, <2>2, RecordEffect DEF Past
  <2>5. /\ Len(history'[t]) = cycle[t]
        /\ \A i \in DOMAIN history'[t] : history'[t][i].cycle = i
        /\ history'[t][cycle[t]].status = "COMPLETED"
    BY <2>1, <2>2, <2>3, RecordOrdered DEF Past
  <2> HIDE DEF t
  <2>6. \A d \in Dailies : Ordered(d)'
    <3> SUFFICES ASSUME NEW d \in Dailies PROVE Ordered(d)'
      OBVIOUS
    <3>1. CASE d = t
      BY <1>1, <2>3, <2>5, <3>1 DEF Ordered
    <3>2. CASE d # t
      <4>1. Ordered(d)
        BY CyclesEndOnceParts DEF Past
      <4> QED
        BY <1>1, <1>2, <2>4, <3>2, <4>1 DEF Ordered
    <3> QED
      BY <3>1, <3>2
  <2>7. CyclesEndOnce'
    BY <2>4, <2>6 DEF CyclesEndOnce, Ordered
  <2>8. FreshUntilCreated'
    BY <1>1, <1>2, <1>3, <2>4 DEF Past, FreshUntilCreated
  <2> QED
    BY <2>7, <2>8 DEF Past
<1>5. CASE CommitEdit(q) \/ CommitDeletion(q)
  <2>1. row'[t].status = row[t].status \/ row'[t].status = "none"
    <3>1. CASE CommitEdit(q)
      BY <1>1, <3>1 DEF CommitEdit, TypeOK
    <3>2. CASE CommitDeletion(q)
      BY <1>1, <3>2 DEF CommitDeletion, NoDaily, TypeOK
    <3> QED
      BY <1>5, <3>1, <3>2
  <2>2. UNCHANGED <<history, staged>>
    BY <1>5 DEF CommitEdit, CommitDeletion
  <2> HIDE DEF t
  <2> QED
    BY <1>1, <1>2, <1>3, <2>1, <2>2 DEF Past, CyclesEndOnce, FreshUntilCreated
<1> QED
  BY <1>4, <1>5 DEF Commit

\* A batch of the missed sweep ends the cycles of its rows and begins the next.
LEMMA MarkPast ==
  ASSUME TypeOK, Past, Held, NEW w \in Workers, MarkBatch(w)
  PROVE  Past'
<1>1. /\ batch[w] \in SUBSET Dailies /\ "MISSED" \in Outcomes
      /\ tickNow[w] \in Nat \cup {Null}
      /\ Record(batch[w], "MISSED", tickNow[w])
  BY TimeAssumption DEF TypeOK, Outcomes, MarkBatch
<1>2. /\ \A d \in Dailies :
           staged'[d] = [i \in DOMAIN history'[d] |-> EventOf[history'[d][i].status]]
      /\ \A d \in Dailies \ batch[w] : history'[d] = history[d]
  BY <1>1, RecordEffect DEF Past
<1>3. /\ \A d \in Dailies \ batch[w] : row'[d] = row[d] /\ cycle'[d] = cycle[d]
      /\ \A d \in batch[w] : row'[d].status = "PENDING" /\ cycle'[d] = cycle[d] + 1
  BY CommitBatchEffect DEF MarkBatch
<1>4. ASSUME NEW d \in batch[w]
      PROVE  cycle[d] \in Nat /\ Ordered(d)'
  <2>1. d \in Dailies /\ cycle[d] \in Nat /\ row[d].status = "PENDING"
    BY <1>1 DEF MarkBatch, Held, BatchesHeld, TypeOK
  <2>2. /\ Len(history'[d]) = cycle[d]
        /\ \A i \in DOMAIN history'[d] : history'[d][i].cycle = i
    BY <1>1, <2>1, RecordOrdered DEF Past
  <2> QED
    BY <1>3, <2>1, <2>2 DEF Ordered
<1>5. ASSUME NEW d \in Dailies \ batch[w] PROVE Ordered(d)'
  <2>1. Ordered(d)
    BY CyclesEndOnceParts DEF Past
  <2> QED
    BY <1>2, <1>3, <2>1 DEF Ordered
<1>6. CyclesEndOnce'
  BY <1>2, <1>4, <1>5 DEF CyclesEndOnce, Ordered
<1>7. FreshUntilCreated'
  BY <1>2, <1>3, <1>4 DEF Past, FreshUntilCreated
<1> QED
  BY <1>6, <1>7 DEF Past

\* A batch of the reset sweep begins the cycles after completed ones.
LEMMA ResetPast ==
  ASSUME TypeOK, Past, Held, NEW w \in Workers, ResetCompletedBatch(w)
  PROVE  Past'
<1>1. /\ \A d \in Dailies \ batch[w] : row'[d] = row[d] /\ cycle'[d] = cycle[d]
      /\ \A d \in batch[w] : row'[d].status = "PENDING" /\ cycle'[d] = cycle[d] + 1
      /\ UNCHANGED <<history, staged>>
  BY CommitBatchEffect DEF ResetCompletedBatch
<1>2. \A d \in batch[w] : cycle[d] \in Nat /\ Len(history[d]) = cycle[d]
  BY DEF ResetCompletedBatch, Held, BatchesHeld, Past, CyclesEndOnce, TypeOK
<1> QED
  BY <1>1, <1>2 DEF Past, CyclesEndOnce, FreshUntilCreated

\* Every step of a request keeps the invariant.
LEMMA RequestStep ==
  ASSUME TypeOK, Past, Held, NEW q \in Requests, Request(q)
  PROVE  Past' /\ Held'
<1>1. CASE Begin(q)
  BY <1>1, PastUnchanged, RequestReleases DEF Begin, domainVars, workVars
<1>2. CASE Write(q)
  BY <1>2, PastUnchanged, WriteHolds DEF Write
<1>3. CASE Misses(q)
  BY <1>3, PastUnchanged, RequestReleases DEF Misses, domainVars, workVars
<1>4. CASE Inspect(q)
  BY <1>4, PastUnchanged, RequestReleases DEF Inspect, Mismatch, domainVars, workVars
<1>5. CASE Commit(q)
  BY <1>5, CommitPast, CommitHolds
<1>6. CASE Fail(q)
  BY <1>6, PastUnchanged, RequestReleases DEF Fail, domainVars, workVars
<1> QED
  BY <1>1, <1>2, <1>3, <1>4, <1>5, <1>6 DEF Request

\* Every step of a worker keeps the invariant.
LEMMA TickStep ==
  ASSUME TypeOK, Past, Held, NEW w \in Workers, Tick(w)
  PROVE  Past' /\ Held'
<1>1. CASE TickStart(w) \/ MissedSweepEnds(w) \/ TickEnds(w)
  <2>1. phase[w] \in {"idle", "missed", "completed"} /\ UNCHANGED <<domainVars, pc, batch>>
    BY <1>1 DEF TickStart, MissedSweepEnds, TickEnds, requestVars
  <2>2. \A v \in Workers \ {w} : phase'[v] = phase[v] /\ tickNow'[v] = tickNow[v]
    BY <1>1 DEF TickStart, MissedSweepEnds, TickEnds, Idle, Enter, TypeOK
  <2>3. batch' = [batch EXCEPT ![w] = {}]
    BY <2>1 DEF Held, BatchesHeld, TypeOK
  <2> QED
    BY <2>1, <2>2, <2>3, PastUnchanged, WorkerReleases DEF domainVars
<1>2. CASE ListPendingExpired(w) \/ ListCompletedExpired(w)
  <2>1. UNCHANGED domainVars
    BY <1>2 DEF ListPendingExpired, ListCompletedExpired
  <2> QED
    BY <1>2, <2>1, PastUnchanged, ListHolds
<1>3. CASE MarkBatch(w) \/ ResetCompletedBatch(w)
  <2>1. CommitBatch(w) /\ UNCHANGED <<tickNow, pc>>
    BY <1>3 DEF MarkBatch, ResetCompletedBatch, requestVars
  <2>2. \A v \in Workers \ {w} : phase'[v] = phase[v]
    BY <1>3 DEF MarkBatch, ResetCompletedBatch, Enter, TypeOK
  <2> QED
    BY <1>3, <2>1, <2>2, MarkPast, ResetPast, CommitBatchHolds
<1>4. CASE SweepFails(w)
  <2>1. batch' = [batch EXCEPT ![w] = {}] /\ UNCHANGED <<domainVars, pc>>
    BY <1>4 DEF SweepFails, Release, requestVars
  <2>2. \A v \in Workers \ {w} : phase'[v] = phase[v] /\ tickNow'[v] = tickNow[v]
    BY <1>4 DEF SweepFails, Idle, Enter, TypeOK
  <2> QED
    BY <2>1, <2>2, PastUnchanged, WorkerReleases DEF domainVars
<1> QED
  BY <1>1, <1>2, <1>3, <1>4 DEF Tick

\* The invariant holds initially.
LEMMA InvariantInit == Init => IInv
<1> SUFFICES ASSUME Init PROVE IInv
  OBVIOUS
<1>1. TypeOK
  BY TypeInit
<1>2. \A d \in Dailies : /\ row[d].status = "none"
                         /\ history[d] = <<>>
                         /\ staged[d] = <<>>
  BY DEF Init, NoDaily
<1>3. CyclesEndOnce /\ FreshUntilCreated
  BY <1>2 DEF CyclesEndOnce, FreshUntilCreated
<1>4. Held
  BY RequestAssumption DEF Init, Held, BatchesHeld, WritesHeld, HoldersApart
<1> QED
  BY <1>1, <1>3, <1>4 DEF IInv

\* Every step keeps the invariant.
LEMMA InvariantStep == IInv /\ [Next]_vars => IInv'
<1> SUFFICES ASSUME TypeOK, Past, Held, [Next]_vars
             PROVE  Past' /\ Held'
  BY TypeStep DEF IInv, Past
<1>1. CASE PassTime \/ HandleUserCreated \/ UNCHANGED vars
  <2>1. UNCHANGED <<domainVars, phase, tickNow, batch, pc>>
    BY <1>1 DEF PassTime, HandleUserCreated, vars, requestVars, workVars
  <2>2. BatchesHeld' /\ WritesHeld' /\ HoldersApart'
    BY <2>1 DEF Held, BatchesHeld, WritesHeld, HoldersApart, Applies, Completable,
                Exists, domainVars
  <2> QED
    BY <2>1, <2>2, PastUnchanged DEF Held
<1>2. CASE HandleUserDeleted
  BY <1>2, CascadeStep
<1>3. ASSUME NEW d \in Dailies, Create(d) PROVE Past' /\ Held'
  BY <1>3, CreateStep
<1>4. ASSUME NEW q \in Requests, Request(q) PROVE Past' /\ Held'
  BY <1>4, RequestStep
<1>5. ASSUME NEW w \in Workers, Tick(w) PROVE Past' /\ Held'
  BY <1>5, TickStep
<1> QED
  BY <1>1, <1>2, <1>3, <1>4, <1>5 DEF Next

\* The invariant holds in every reachable state.
LEMMA Invariant == Spec => []IInv
<1>1. Init => IInv
  BY InvariantInit
<1>2. IInv /\ [Next]_vars => IInv'
  BY InvariantStep
<1> QED
  BY <1>1, <1>2, PTL DEF Spec

\* Every reachable state of dailies, requests and workers is well typed.
THEOREM TypeCorrect == Spec => []TypeOK
<1>1. IInv => TypeOK
  BY DEF IInv
<1> QED
  BY <1>1, Invariant, PTL

\* Of Complete and any number of workers that sweep at once, one ends the cycle
\* of a daily, with one row of daily_history and one event; no cycle ends twice.
THEOREM OneOutcomePerCycle == Spec => []CyclesEndOnce
<1>1. IInv => CyclesEndOnce
  BY DEF IInv
<1> QED
  BY <1>1, Invariant, PTL

------------------------------------------------------------------------------
(* Deadlines: each has one outcome, and a lapse one miss.                    *)

\* A miss is recorded by a sweep whose clock was past the deadline.
LateMisses(d) ==
  \A i \in DOMAIN history[d] : history[d][i].status = "MISSED" =>
    history[d][i].missedAt \in Nat /\ history[d][i].due < history[d][i].missedAt

\* Deadline t comes after what e records of an earlier one.
Precedes(e, t) == e.due < t /\ (e.status = "MISSED" => e.missedAt < t)

PastInOrder(d) ==
  \A i, j \in DOMAIN history[d] : i < j => Precedes(history[d][i], history[d][j].due)

\* The row's deadline comes after all that is recorded; that of a completed row
\* is the last one recorded.
RowIsNext(d) ==
  /\ row[d].status = "PENDING" =>
       \A i \in DOMAIN history[d] : Precedes(history[d][i], row[d].due)
  /\ row[d].status = "COMPLETED" =>
       \A i \in DOMAIN history[d] :
         history[d][i].due <= row[d].due /\ (history[d][i].status = "MISSED" =>
                                               history[d][i].missedAt < row[d].due)

DeadlinesOf(d) ==
  LateMisses(d) /\ (Unmoved(d) => PastInOrder(d) /\ RowIsNext(d))

Deadlines == \A d \in Dailies : DeadlinesOf(d)

\* Entries of the history are typed.
LEMMA EntryType ==
  ASSUME TypeOK, NEW d \in Dailies, NEW i \in DOMAIN history[d]
  PROVE  i \in Nat /\ history[d][i].due \in Int /\ history[d][i].status \in Outcomes
<1>1. history[d] \in Seq(Archive)
  BY DEF TypeOK
<1>2. i \in 1..Len(history[d]) /\ history[d][i] \in Archive
  BY <1>1
<1> QED
  BY <1>2 DEF Archive

\* The same of the state after a step.
LEMMA EntryTypeNext ==
  ASSUME TypeOK', NEW d \in Dailies, NEW i \in DOMAIN history'[d]
  PROVE  history'[d][i].due \in Int
<1>1. history'[d] \in Seq(Archive)
  BY DEF TypeOK
<1>2. history'[d][i] \in Archive
  BY <1>1
<1> QED
  BY <1>2 DEF Archive

\* What comes before an entry of the history is an entry of it.
LEMMA EarlierEntry ==
  ASSUME TypeOK, NEW d \in Dailies, NEW j \in DOMAIN history[d], NEW i \in 1..(j - 1)
  PROVE  i \in DOMAIN history[d] /\ i < j
<1>1. history[d] \in Seq(Archive)
  BY DEF TypeOK
<1>2. DOMAIN history[d] = 1..Len(history[d]) /\ Len(history[d]) \in Nat
  BY <1>1
<1> QED
  BY <1>2

\* A request answered OK stays answered: an edited daily stays edited.
LEMMA AnswersStand ==
  ASSUME TypeOK, [Next]_vars, NEW d \in Dailies
  PROVE  Unmoved(d)' => Unmoved(d)
<1>1. \A q \in Requests : pc[q] = "OK" => pc'[q] = "OK"
  <2>1. ASSUME NEW q \in Requests, Request(q)
        PROVE  pc[q] # "OK" /\ \A r \in Requests \ {q} : pc'[r] = pc[r]
    BY <2>1 DEF Request, Begin, Write, Misses, Inspect, Commit, Fail, Answer, TypeOK
  <2>2. ASSUME NEW w \in Workers, Tick(w) PROVE UNCHANGED pc
    BY <2>2 DEF Tick, TickStart, ListPendingExpired, MarkBatch, MissedSweepEnds,
                ListCompletedExpired, ResetCompletedBatch, TickEnds, SweepFails, requestVars
  <2>3. ASSUME NEW e \in Dailies, Create(e) PROVE UNCHANGED pc
    BY <2>3 DEF Create, requestVars
  <2>4. CASE PassTime \/ HandleUserCreated \/ HandleUserDeleted \/ UNCHANGED vars
    BY <2>4 DEF PassTime, HandleUserCreated, HandleUserDeleted, vars, requestVars
  <2> QED
    BY <2>1, <2>2, <2>3, <2>4 DEF Next
<1>2. Edits \subseteq Requests
  BY DEF Requests
<1> QED
  BY <1>1, <1>2 DEF Unmoved

\* A daily whose history stays and whose row stays or goes.
LEMMA DeadlinesStay ==
  ASSUME NEW d \in Dailies, DeadlinesOf(d), Unmoved(d)' => Unmoved(d),
         history'[d] = history[d],
         row'[d] = row[d] \/ row'[d].status = "none"
  PROVE  DeadlinesOf(d)'
<1>1. LateMisses(d)'
  BY DEF DeadlinesOf, LateMisses
<1>2. ASSUME Unmoved(d)' PROVE PastInOrder(d)' /\ RowIsNext(d)'
  BY <1>2 DEF DeadlinesOf, PastInOrder, RowIsNext, Precedes
<1> QED
  BY <1>1, <1>2 DEF DeadlinesOf

\* The outcome of a pending cycle is recorded behind those before it.
LEMMA RecordDeadline ==
  ASSUME TypeOK, CyclesEndOnce, NEW S \in SUBSET Dailies, NEW outcome \in Outcomes,
         NEW at \in Nat \cup {Null}, Record(S, outcome, at),
         NEW d \in S, DeadlinesOf(d), row[d].status = "PENDING",
         outcome = "MISSED" => at \in Nat /\ row[d].due < at
  PROVE  /\ LateMisses(d)'
         /\ Unmoved(d) => PastInOrder(d)'
         /\ Unmoved(d) => \A i \in DOMAIN history'[d] :
              \/ history'[d][i] = Entry(d, outcome, at)
              \/ Precedes(history'[d][i], row[d].due)
<1> DEFINE n == Len(history[d]) + 1
<1>1. /\ DOMAIN history'[d] = DOMAIN history[d] \cup {n}
      /\ \A i \in DOMAIN history[d] : history'[d][i] = history[d][i]
      /\ history'[d][n] = Entry(d, outcome, at)
  BY RecordEffect
<1>2. n \in Nat /\ \A i \in DOMAIN history[d] : i \in Nat /\ i < n
  <2>1. history[d] \in Seq(Archive)
    BY DEF TypeOK
  <2> QED
    BY <2>1
<1>3. /\ history'[d][n].status = outcome
      /\ history'[d][n].due = row[d].due
      /\ history'[d][n].missedAt = at
  BY <1>1 DEF Entry
<1> HIDE DEF n
<1>4. LateMisses(d)'
  BY <1>1, <1>3 DEF DeadlinesOf, LateMisses
<1>5. Unmoved(d) => \A i \in DOMAIN history[d] : Precedes(history'[d][i], row[d].due)
  BY <1>1 DEF DeadlinesOf, RowIsNext
<1>6. ASSUME Unmoved(d) PROVE PastInOrder(d)'
  <2> SUFFICES ASSUME NEW i \in DOMAIN history'[d], NEW j \in DOMAIN history'[d], i < j
               PROVE  Precedes(history'[d][i], history'[d][j].due)
    BY DEF PastInOrder, Precedes
  <2>1. i \in DOMAIN history[d]
    BY <1>1, <1>2
  <2>2. CASE j = n
    BY <1>3, <1>5, <1>6, <2>1, <2>2
  <2>3. CASE j \in DOMAIN history[d]
    BY <1>1, <1>6, <2>1, <2>3 DEF DeadlinesOf, PastInOrder
  <2> QED
    BY <1>1, <2>2, <2>3
<1> QED
  BY <1>1, <1>4, <1>5, <1>6

\* A completion records the row's deadline and leaves it; an edit takes the daily
\* out of what is claimed, and a deletion the row.
LEMMA CommitDeadlines ==
  ASSUME TypeOK, Past, Held, Deadlines, NEW q \in Requests, Commit(q),
         \A d \in Dailies : Unmoved(d)' => Unmoved(d)
  PROVE  Deadlines'
<1> DEFINE t == Target[q]
<1>1. t \in Dailies /\ Applies(q) /\ pc'[q] = "OK"
  BY RequestAssumption DEF Commit, Held, WritesHeld, Answer, TypeOK
<1>2. CASE CommitCompletion(q)
  <2>1. /\ {t} \in SUBSET Dailies /\ "COMPLETED" \in Outcomes /\ Null \in Nat \cup {Null}
        /\ Record({t}, "COMPLETED", Null)
    BY <1>1, <1>2 DEF Outcomes, CommitCompletion
  <2>2. /\ row[t].status = "PENDING"
        /\ row'[t].status = "COMPLETED" /\ row'[t].due = row[t].due
        /\ \A d \in Dailies \ {t} : row'[d] = row[d]
    BY <1>1, <1>2 DEF CommitCompletion, Applies, Completable, TypeOK
  <2>3. \A d \in Dailies \ {t} : history'[d] = history[d]
    BY <2>1, RecordEffect DEF Past
  <2>4. /\ LateMisses(t)'
        /\ Unmoved(t) => PastInOrder(t)'
        /\ Unmoved(t) => \A i \in DOMAIN history'[t] :
             \/ history'[t][i] = Entry(t, "COMPLETED", Null)
             \/ Precedes(history'[t][i], row[t].due)
    <3>1. DeadlinesOf(t)
      BY <1>1 DEF Deadlines
    <3> QED
      BY <2>1, <2>2, <3>1, RecordDeadline DEF Past
  <2>5. Entry(t, "COMPLETED", Null).due = row[t].due
        /\ Entry(t, "COMPLETED", Null).status # "MISSED"
    BY DEF Entry
  <2>6. row[t].due \in Int
    BY <1>1 DEF TypeOK
  <2> HIDE DEF t
  <2>7. Unmoved(t) => RowIsNext(t)'
    <3> SUFFICES ASSUME Unmoved(t), NEW i \in DOMAIN history'[t]
                 PROVE  /\ history'[t][i].due <= row[t].due
                        /\ history'[t][i].status = "MISSED" => history'[t][i].missedAt < row[t].due
      BY <2>2 DEF RowIsNext
    <3>1. CASE history'[t][i] = Entry(t, "COMPLETED", Null)
      BY <2>5, <2>6, <3>1
    <3>2. CASE Precedes(history'[t][i], row[t].due)
      <4>1. history'[t][i].due \in Int
        BY <1>1, CommitType, EntryTypeNext DEF Past
      <4> QED
        BY <2>6, <3>2, <4>1 DEF Precedes
    <3> QED
      BY <2>4, <3>1, <3>2
  <2>8. DeadlinesOf(t)'
    BY <1>1, <2>4, <2>7 DEF DeadlinesOf
  <2>9. ASSUME NEW d \in Dailies, d # t PROVE DeadlinesOf(d)'
    BY <2>2, <2>3, <2>9, DeadlinesStay DEF Deadlines
  <2> QED
    BY <2>8, <2>9 DEF Deadlines
<1>3. CASE CommitEdit(q)
  <2>1. /\ history' = history /\ \A d \in Dailies \ {t} : row'[d] = row[d]
        /\ ~Unmoved(t)'
    BY <1>1, <1>3 DEF CommitEdit, TypeOK, Unmoved
  <2> HIDE DEF t
  <2>2. DeadlinesOf(t)'
    BY <1>1, <2>1 DEF Deadlines, DeadlinesOf, LateMisses
  <2>3. ASSUME NEW d \in Dailies, d # t PROVE DeadlinesOf(d)'
    BY <2>1, <2>3, DeadlinesStay DEF Deadlines
  <2> QED
    BY <2>2, <2>3 DEF Deadlines
<1>4. CASE CommitDeletion(q)
  <2>1. /\ history' = history
        /\ \A d \in Dailies : row'[d] = row[d] \/ row'[d].status = "none"
    BY <1>1, <1>4 DEF CommitDeletion, NoDaily, TypeOK
  <2> QED
    BY <2>1, DeadlinesStay DEF Deadlines
<1> QED
  BY <1>2, <1>3, <1>4 DEF Commit

\* A sweep's commit moves each deadline of its batch past the old one and past the
\* moment that a miss of it carries.
LEMMA BatchDeadlines ==
  ASSUME TypeOK, Past, Held, Deadlines, NEW w \in Workers,
         MarkBatch(w) \/ ResetCompletedBatch(w),
         \A d \in Dailies : Unmoved(d)' => Unmoved(d)
  PROVE  Deadlines'
<1>1. /\ \A d \in Dailies \ batch[w] : row'[d] = row[d]
      /\ \A d \in batch[w] : /\ d \in Dailies
                             /\ row[d].due \in Int /\ row[d].due < tickNow[w]
                             /\ row'[d].status = "PENDING"
                             /\ row'[d].due \in Int
                             /\ row'[d].due > tickNow[w] /\ row'[d].due > row[d].due
      /\ batch[w] \in SUBSET Dailies /\ tickNow[w] \in Nat
  BY CommitBatchEffect, TimeAssumption
  DEF MarkBatch, ResetCompletedBatch, Held, BatchesHeld, TypeOK
<1>2. CASE MarkBatch(w)
  <2>1. /\ "MISSED" \in Outcomes /\ tickNow[w] \in Nat \cup {Null}
        /\ Record(batch[w], "MISSED", tickNow[w])
        /\ \A d \in batch[w] : row[d].status = "PENDING"
    BY <1>1, <1>2 DEF Outcomes, MarkBatch, Held, BatchesHeld
  <2>2. \A d \in Dailies \ batch[w] : history'[d] = history[d]
    BY <1>1, <2>1, RecordEffect DEF Past
  <2>3. ASSUME NEW d \in batch[w] PROVE DeadlinesOf(d)'
    <3>1. /\ LateMisses(d)'
          /\ Unmoved(d) => PastInOrder(d)'
          /\ Unmoved(d) => \A i \in DOMAIN history'[d] :
               \/ history'[d][i] = Entry(d, "MISSED", tickNow[w])
               \/ Precedes(history'[d][i], row[d].due)
      <4>1. DeadlinesOf(d)
        BY <1>1 DEF Deadlines
      <4> QED
        BY <1>1, <2>1, <4>1, RecordDeadline DEF Past
    <3>2. TypeOK'
      BY <1>2, TickType DEF Tick, Past
    <3>3. ASSUME Unmoved(d), NEW i \in DOMAIN history'[d]
          PROVE  Precedes(history'[d][i], row'[d].due)
      <4>1. history'[d][i].due \in Int
        BY <1>1, <3>2, EntryTypeNext
      <4>2. CASE history'[d][i] = Entry(d, "MISSED", tickNow[w])
        <5>1. /\ history'[d][i].due = row[d].due
              /\ history'[d][i].missedAt = tickNow[w]
          BY <4>2 DEF Entry
        <5> QED
          BY <1>1, <5>1 DEF Precedes
      <4>3. CASE Precedes(history'[d][i], row[d].due)
        <5>1. history'[d][i].status = "MISSED" => history'[d][i].missedAt \in Nat
          BY <3>1 DEF LateMisses
        <5> QED
          BY <1>1, <4>1, <4>3, <5>1 DEF Precedes
      <4> QED
        BY <3>1, <3>3, <4>2, <4>3
    <3>4. Unmoved(d) => RowIsNext(d)'
      BY <1>1, <3>3 DEF RowIsNext, Precedes
    <3> QED
      BY <1>1, <3>1, <3>4 DEF DeadlinesOf
  <2>4. ASSUME NEW d \in Dailies \ batch[w] PROVE DeadlinesOf(d)'
    BY <1>1, <2>2, DeadlinesStay DEF Deadlines
  <2> QED
    BY <2>3, <2>4 DEF Deadlines
<1>3. CASE ResetCompletedBatch(w)
  <2>1. history' = history /\ \A d \in batch[w] : row[d].status = "COMPLETED"
    BY <1>3 DEF ResetCompletedBatch, Held, BatchesHeld
  <2>2. ASSUME NEW d \in batch[w] PROVE DeadlinesOf(d)'
    <3>1. DeadlinesOf(d)
      BY <1>1 DEF Deadlines
    <3>2. LateMisses(d)'
      BY <2>1, <3>1 DEF DeadlinesOf, LateMisses
    <3>3. Unmoved(d) => PastInOrder(d)'
      BY <2>1, <3>1 DEF DeadlinesOf, PastInOrder, Precedes
    <3>4. ASSUME Unmoved(d), NEW i \in DOMAIN history[d]
          PROVE  Precedes(history[d][i], row'[d].due)
      <4>1. /\ history[d][i].due \in Int
            /\ history[d][i].status = "MISSED" => history[d][i].missedAt \in Nat
        BY <1>1, <3>1, EntryType DEF DeadlinesOf, LateMisses
      <4>2. /\ history[d][i].due <= row[d].due
            /\ history[d][i].status = "MISSED" => history[d][i].missedAt < row[d].due
        BY <2>1, <3>1, <3>4 DEF DeadlinesOf, RowIsNext
      <4> QED
        BY <1>1, <4>1, <4>2 DEF Precedes
    <3>5. Unmoved(d) => RowIsNext(d)'
      BY <1>1, <2>1, <3>4 DEF RowIsNext, Precedes
    <3> QED
      BY <1>1, <3>2, <3>3, <3>5 DEF DeadlinesOf
  <2>3. ASSUME NEW d \in Dailies \ batch[w] PROVE DeadlinesOf(d)'
    BY <1>1, <2>1, DeadlinesStay DEF Deadlines
  <2> QED
    BY <2>2, <2>3 DEF Deadlines
<1> QED
  BY <1>2, <1>3

\* Every step keeps the order of deadlines.
LEMMA DeadlinesStep == IInv /\ Deadlines /\ [Next]_vars => Deadlines'
<1> SUFFICES ASSUME TypeOK, Past, Held, Deadlines, [Next]_vars PROVE Deadlines'
  BY DEF IInv, Past
<1>1. \A d \in Dailies : Unmoved(d)' => Unmoved(d)
  BY AnswersStand
<1>2. CASE UNCHANGED <<row, history>>
  BY <1>1, <1>2, DeadlinesStay DEF Deadlines
<1>3. CASE HandleUserDeleted
  <2>1. history' = history /\ \A d \in Dailies : row'[d].status = "none"
    BY <1>3 DEF HandleUserDeleted, NoDaily
  <2> QED
    BY <1>1, <2>1, DeadlinesStay DEF Deadlines
<1>4. ASSUME NEW d \in Dailies, Create(d) PROVE Deadlines'
  <2>1. /\ history' = history /\ history[d] = <<>>
        /\ \A e \in Dailies \ {d} : row'[e] = row[e]
    BY <1>4 DEF Create, Past, FreshUntilCreated, TypeOK
  <2>2. DeadlinesOf(d)'
    BY <2>1 DEF DeadlinesOf, LateMisses, PastInOrder, RowIsNext
  <2>3. ASSUME NEW e \in Dailies, e # d PROVE DeadlinesOf(e)'
    BY <1>1, <2>1, <2>3, DeadlinesStay DEF Deadlines
  <2> QED
    BY <2>2, <2>3 DEF Deadlines
<1>5. ASSUME NEW q \in Requests, Request(q) PROVE Deadlines'
  <2>1. CASE Commit(q)
    BY <1>1, <2>1, CommitDeadlines
  <2>2. CASE ~Commit(q)
    BY <1>2, <1>5, <2>2 DEF Request, Begin, Write, Misses, Inspect, Fail, domainVars
  <2> QED
    BY <2>1, <2>2
<1>6. ASSUME NEW w \in Workers, Tick(w) PROVE Deadlines'
  <2>1. CASE MarkBatch(w) \/ ResetCompletedBatch(w)
    BY <1>1, <2>1, BatchDeadlines
  <2>2. CASE ~(MarkBatch(w) \/ ResetCompletedBatch(w))
    BY <1>2, <1>6, <2>2 DEF Tick, TickStart, ListPendingExpired, MissedSweepEnds,
                            ListCompletedExpired, TickEnds, SweepFails, domainVars
  <2> QED
    BY <2>1, <2>2
<1>7. CASE PassTime \/ HandleUserCreated \/ UNCHANGED vars
  BY <1>2, <1>7 DEF PassTime, HandleUserCreated, vars, domainVars
<1> QED
  BY <1>3, <1>4, <1>5, <1>6, <1>7 DEF Next

\* The order of deadlines holds in every reachable state.
LEMMA DeadlinesInvariant == Spec => [](IInv /\ Deadlines)
<1>1. Init => Deadlines
  BY DEF Init, Deadlines, DeadlinesOf, LateMisses, PastInOrder, RowIsNext, NoDaily
<1> QED
  BY <1>1, InvariantInit, InvariantStep, DeadlinesStep, PTL DEF Spec

\* However many replicas sweep, however late and whatever fails, no deadline is
\* recorded twice, unless a request has moved it: the outcomes of a daily carry
\* strictly later and later deadlines.
THEOREM OneOutcomeEach == Spec => []OneOutcomePerDeadline
<1>1. IInv /\ Deadlines => OneOutcomePerDeadline
  <2> SUFFICES ASSUME TypeOK, Deadlines, NEW d \in Dailies, Unmoved(d),
                      NEW j \in DOMAIN history[d], NEW i \in 1..(j - 1)
               PROVE  history[d][i].due < history[d][j].due
    BY DEF IInv, OneOutcomePerDeadline
  <2>1. i \in DOMAIN history[d] /\ i < j
    BY EarlierEntry
  <2> QED
    BY <2>1 DEF Deadlines, DeadlinesOf, PastInOrder, Precedes
<1> QED
  BY <1>1, DeadlinesInvariant, PTL

\* An outage of any length costs one miss: it is recorded after its deadline, and
\* the deadline of the next miss comes after the moment of the first.
THEOREM OneMissEach == Spec => []OneMissPerLapse
<1>1. IInv /\ Deadlines => OneMissPerLapse
  <2> SUFFICES ASSUME TypeOK, Deadlines, NEW d \in Dailies, Unmoved(d),
                      NEW j \in DOMAIN history[d], history[d][j].status = "MISSED"
               PROVE  /\ history[d][j].due < history[d][j].missedAt
                      /\ \A i \in 1..(j - 1) : history[d][i].status = "MISSED" =>
                           history[d][i].missedAt < history[d][j].due
    BY DEF IInv, OneMissPerLapse
  <2>1. history[d][j].due < history[d][j].missedAt
    BY DEF Deadlines, DeadlinesOf, LateMisses
  <2>2. ASSUME NEW i \in 1..(j - 1), history[d][i].status = "MISSED"
        PROVE  history[d][i].missedAt < history[d][j].due
    <3>1. i \in DOMAIN history[d] /\ i < j
      BY EarlierEntry
    <3> QED
      BY <2>2, <3>1 DEF Deadlines, DeadlinesOf, PastInOrder, Precedes
  <2> QED
    BY <2>1, <2>2
<1> QED
  BY <1>1, DeadlinesInvariant, PTL
=============================================================================
