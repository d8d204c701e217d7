-------------------------- MODULE EventStoreProofs --------------------------
(***************************************************************************)
(* Theorems about EventStore, for any number of connections, runs, steps,  *)
(* source events and batches.                                              *)
(***************************************************************************)
EXTENDS EventStore, FiniteSetTheorems, TLAPS

-----------------------------------------------------------------------------
(* Types. *)

(* The row of no run has the type of one. *)
LEMMA AbsentRunType == AbsentRun \in RunRow
<1>1. <<>> \in Seq(Modes)
  OBVIOUS
<1> QED
  BY <1>1 DEF AbsentRun, RunRow, Time

(* ensureRun gives a row of the type, and one that is there. *)
LEMMA EnsureRunType ==
  ASSUME NEW row \in RunRow, NEW e \in Event
  PROVE  EnsureRun(row, e) \in RunRow
<1>1. [AbsentRun EXCEPT !.status = "unknown", !.last = e.at] \in RunRow
  BY AbsentRunType DEF RunRow, Event, Time, Statuses
<1> QED
  BY <1>1 DEF EnsureRun

(* The row updates of insertEvent keep the column types.                   *)
LEMMA UpdateRunType ==
  ASSUME NEW row \in RunRow, NEW e \in Event
  PROVE  UpdateRun(EnsureRun(row, e), e) \in RunRow
<1>1. EnsureRun(row, e) \in RunRow
  BY EnsureRunType
<1>2. ASSUME NEW q \in RunRow PROVE UpdateRun(q, e) \in RunRow
  <2>1. StatusOf(e.type) \in Statuses
    BY DEF StatusOf, Statuses
  <2>2. MergeCaptureModes(q.modes, e.mode) \in Seq(Modes)
    BY DEF MergeCaptureModes, RunRow, Event
  <2>3. /\ Earlier(e.at, q.started) \in Time
        /\ Earlier(e.at, q.ended) \in Time
        /\ Later(e.at, q.last) \in Time
    BY DEF Earlier, Later, Before, RunRow, Event, Time
  <2> QED
    BY <2>1, <2>2, <2>3 DEF UpdateRun, RunRow, Event, Time
<1> QED
  BY <1>1, <1>2

(* updateStep keeps the type of a step row. *)
LEMMA UpdateStepType ==
  ASSUME NEW row \in StepRow, NEW e \in Event
  PROVE  UpdateStep(row, e) \in StepRow
BY DEF UpdateStep, StepRow, Event, Time, Earlier, Before

(* Each change of a database yields a database.                            *)
LEMMA InsertEventType ==
  ASSUME NEW d \in Database, NEW e \in Event
  PROVE  InsertEvent(d, e) \in Database
<1> DEFINE row == EnsureRun(d.run[e.run], e)
           D == InsertEvent(d, e)
<1>1. d.run[e.run] \in RunRow /\ e.run \in Runs
  BY DEF Database, Event
<1>2. row \in RunRow
  BY <1>1, EnsureRunType
<1>3. D.events \in SUBSET StoredEvent
  BY <1>2 DEF InsertEvent, Database, StoredEvent, RunRow
<1>4. D.run \in [Runs -> RunRow]
  BY <1>1, UpdateRunType DEF InsertEvent, Database
<1>5. D.step \in [Runs -> [Steps -> StepRow]]
  <2>1. CASE e.step = None
    BY <2>1 DEF InsertEvent, Database
  <2>2. CASE e.step # None
    <3>1. e.step \in Steps
      BY <2>2 DEF Event
    <3>2. UpdateStep(d.step[e.run][e.step], e) \in StepRow
      BY <1>1, <3>1, UpdateStepType DEF Database
    <3>3. D.step = [d.step EXCEPT ![e.run] = [@ EXCEPT ![e.step] = UpdateStep(d.step[e.run][e.step], e)]]
      BY <2>2 DEF InsertEvent
    <3> QED
      BY <1>1, <3>1, <3>2, <3>3 DEF Database
  <2> QED
    BY <2>1, <2>2
<1>6. D.quarantine \in Nat
  BY DEF InsertEvent, Database
<1> QED
  BY <1>3, <1>4, <1>5, <1>6 DEF InsertEvent, Database

(* DeleteRun keeps the type of the database. *)
LEMMA RemoveRunType ==
  ASSUME NEW d \in Database, NEW r \in Runs
  PROVE  RemoveRun(d, r) \in Database
<1>1. AbsentRun \in RunRow
  BY AbsentRunType
<1>2. [s \in Steps |-> AbsentStep] \in [Steps -> StepRow]
  BY DEF AbsentStep, StepRow, Time
<1> QED
  BY <1>1, <1>2 DEF RemoveRun, Database, EventsOf

(* So does MarkRunIncomplete. *)
LEMMA MarkIncompleteType ==
  ASSUME NEW d \in Database, NEW r \in Runs, NEW at \in Nat
  PROVE  MarkIncomplete(d, r, at) \in Database
<1> DEFINE q == [d.run[r] EXCEPT !.status = "incomplete",
                                 !.ended = IF @ = None THEN at ELSE @]
<1>1. q \in RunRow
  BY DEF Database, RunRow, Time, Statuses
<1> QED
  BY <1>1 DEF MarkIncomplete, Database

(* So does a quarantined event. *)
LEMMA QuarantineEventType ==
  ASSUME NEW d \in Database
  PROVE  QuarantineEvent(d) \in Database
BY DEF QuarantineEvent, Database

(* The empty database has the type. *)
LEMMA EmptyDbType == EmptyDb \in Database
BY AbsentRunType DEF EmptyDb, Database, AbsentStep, StepRow, Time, StoredEvent

(* What a connection sees has the type. *)
LEMMA ViewType ==
  ASSUME TypeOK, NEW c \in Conns
  PROVE  ViewOf(c) \in Database
BY DEF TypeOK, ViewOf, Transaction

(* A connection between two calls has the type of one. *)
LEMMA IdleType ==
  ASSUME NEW res \in {"none", "stored", "rejected", "busy", "cancelled"}
  PROVE  Idle(res) \in Transaction
BY EmptyDbType DEF Idle, Transaction

(* An event of a batch in progress is an event.                            *)
LEMMA CurrentType ==
  ASSUME TypeOK, NEW c \in Conns, tx[c].pos <= Len(tx[c].batch)
  PROVE  /\ Current(c) \in Event
         /\ tx[c].pos + 1 \in Nat \ {0}
<1>1. tx[c].batch \in Seq(Event)
  BY EventStoreAssumption DEF TypeOK, Transaction
<1>2. tx[c].pos \in 1..Len(tx[c].batch)
  BY <1>1 DEF TypeOK, Transaction
<1> QED
  BY <1>1, <1>2 DEF Current

(* A commit of another connection leaves transactions of the type. *)
LEMMA OutdatedType ==
  ASSUME NEW t \in [Conns -> Transaction]
  PROVE  /\ Outdated(t) \in [Conns -> Transaction]
         /\ \A c \in Conns : /\ Outdated(t)[c].pc = t[c].pc
                             /\ Outdated(t)[c].target = t[c].target
                             /\ Outdated(t)[c].pos = t[c].pos
                             /\ Outdated(t)[c].batch = t[c].batch
                             /\ Outdated(t)[c].view = t[c].view
                             /\ Outdated(t)[c].snapshot # "fresh"
BY DEF Outdated, Transaction

(* It changes nothing of a transaction but its snapshot. *)
LEMMA OutdatedRes ==
  ASSUME NEW t \in [Conns -> Transaction]
  PROVE  /\ Outdated(t) \in [Conns -> Transaction]
         /\ \A c \in Conns : Outdated(t)[c].pc = t[c].pc /\ Outdated(t)[c].res = t[c].res
BY DEF Outdated, Transaction

(* It gives no transaction a snapshot. *)
LEMMA OutdatedNone ==
  ASSUME NEW t \in [Conns -> Transaction], NEW c \in Conns, Outdated(t)[c].snapshot = "none"
  PROVE  t[c].snapshot = "none"
BY DEF Outdated, Transaction

-----------------------------------------------------------------------------
(* What a step may do to databases: a view or the committed database is    *)
(* taken over as it is, or one operation of the store is applied to it.    *)

ViewChange(c) ==
  \/ tx'[c].view \in {tx[c].view, db, EmptyDb}
  \/ tx'[c].view \in {QuarantineEvent(tx[c].view), QuarantineEvent(db)}
  \/ /\ tx[c].pc = "write" /\ tx[c].target = None
     /\ Current(c) \in Event
     /\ Current(c).id \notin IdsIn(tx[c].view)
     /\ tx'[c].view = InsertEvent(tx[c].view, Current(c))
  \/ \E r \in Runs : tx'[c].view = RemoveRun(tx[c].view, r)

DbChange ==
  \/ db' = db
  \/ \E c \in Conns : writer = c /\ db' = tx[c].view
  \/ \E r \in Runs, at \in Clock :
       db.run[r].status = "started" /\ db' = MarkIncomplete(db, r, at)

(* What a step can make of the database: what DbChange says. *)
LEMMA StepChanges ==
  ASSUME TypeOK, [Next]_vars
  PROVE  DbChange /\ \A c \in Conns : ViewChange(c)
<1>1. ASSUME NEW k \in Conns, NEW b \in Batches, BeginInsert(k, b)
      PROVE  DbChange /\ \A c \in Conns : ViewChange(c)
  BY <1>1 DEF BeginInsert, Idle, TypeOK, DbChange, ViewChange
<1>2. ASSUME NEW k \in Conns, NEW r \in Runs, DeleteBegin(k, r)
      PROVE  DbChange /\ \A c \in Conns : ViewChange(c)
  BY <1>2 DEF DeleteBegin, Idle, TypeOK, DbChange, ViewChange
<1>3. ASSUME NEW k \in Conns, CheckDuplicate(k)
      PROVE  DbChange /\ \A c \in Conns : ViewChange(c)
  BY <1>3 DEF CheckDuplicate, ViewOf, TypeOK, Transaction, DbChange, ViewChange
<1>4. ASSUME NEW k \in Conns, WriteEvent(k)
      PROVE  DbChange /\ \A c \in Conns : ViewChange(c)
  <2>1. Current(k) \in Event
    BY <1>4, CurrentType DEF WriteEvent, TypeOK
  <2> QED
    BY <1>4, <2>1 DEF WriteEvent, TypeOK, Transaction, DbChange, ViewChange
<1>5. ASSUME NEW k \in Conns, RejectEvent(k) \/ Busy(k) \/ Abort(k)
      PROVE  DbChange /\ \A c \in Conns : ViewChange(c)
  BY <1>5 DEF RejectEvent, Busy, Abort, Idle, TypeOK, DbChange, ViewChange
<1>6. ASSUME NEW k \in Conns, WriteQuarantine(k)
      PROVE  DbChange /\ \A c \in Conns : ViewChange(c)
  BY <1>6 DEF WriteQuarantine, ViewOf, TypeOK, Transaction, DbChange, ViewChange
<1>7. ASSUME NEW k \in Conns, DeleteWrite(k)
      PROVE  DbChange /\ \A c \in Conns : ViewChange(c)
  BY <1>7 DEF DeleteWrite, TypeOK, Transaction, DbChange, ViewChange
<1>8. ASSUME NEW k \in Conns, Commit(k)
      PROVE  DbChange /\ \A c \in Conns : ViewChange(c)
  <2>1. \A c \in Conns : tx'[c].view \in {tx[c].view, EmptyDb}
    BY <1>8, OutdatedType DEF Commit, Idle, TypeOK
  <2> QED
    BY <1>8, <2>1 DEF Commit, DbChange, ViewChange
<1>9. ASSUME NEW r \in Runs, NEW at \in Clock, MarkRunIncomplete(r, at)
      PROVE  DbChange /\ \A c \in Conns : ViewChange(c)
  BY <1>9, OutdatedType DEF MarkRunIncomplete, TypeOK, DbChange, ViewChange
<1>10. CASE OtherCommit
  BY <1>10, OutdatedType DEF OtherCommit, TypeOK, DbChange, ViewChange
<1>11. CASE UNCHANGED vars
  BY <1>11 DEF vars, DbChange, ViewChange
<1> QED
  BY <1>1, <1>2, <1>3, <1>4, <1>5, <1>6, <1>7, <1>8, <1>9, <1>10, <1>11 DEF Next, Step

-----------------------------------------------------------------------------
(* The events of every database are a finite set.                          *)

Finite ==
  /\ IsFiniteSet(db.events)
  /\ \A c \in Conns : IsFiniteSet(tx[c].view.events)

(* The databases are finite at first. *)
LEMMA FiniteInit == Init => Finite
<1>1. EmptyDb.events = {}
  BY DEF EmptyDb
<1>2. Idle("none").view = EmptyDb
  BY DEF Idle
<1> QED
  BY <1>1, <1>2, FS_EmptySet DEF Init, Finite

(* The rows of a run in a finite database are so many. *)
LEMMA SeenType ==
  ASSUME Finite, NEW r \in Runs
  PROVE  Cardinality(EventsOf(db, r)) \in Nat
BY FS_Subset, FS_CardinalityType DEF Finite, EventsOf

(* They stay finite. *)
LEMMA FiniteStep ==
  ASSUME TypeOK, Finite, [Next]_vars
  PROVE  Finite'
<1>1. DbChange /\ \A c \in Conns : ViewChange(c)
  BY StepChanges
<1>2. IsFiniteSet(db'.events)
  <2>1. \A r \in Runs, at \in Clock : MarkIncomplete(db, r, at).events = db.events
    BY DEF MarkIncomplete, TypeOK, Database
  <2> QED
    BY <1>1, <2>1 DEF Finite, DbChange
<1>3. ASSUME NEW c \in Conns PROVE IsFiniteSet(tx'[c].view.events)
  <2>1. /\ IsFiniteSet(EmptyDb.events)
        /\ QuarantineEvent(db).events = db.events
        /\ QuarantineEvent(tx[c].view).events = tx[c].view.events
    BY FS_EmptySet DEF EmptyDb, QuarantineEvent, TypeOK, Transaction, Database
  <2>2. IsFiniteSet(InsertEvent(tx[c].view, Current(c)).events)
    BY FS_AddElement DEF InsertEvent, Finite
  <2>3. ASSUME NEW r \in Runs PROVE IsFiniteSet(RemoveRun(tx[c].view, r).events)
    BY FS_Difference DEF RemoveRun, Finite
  <2> QED
    BY <1>1, <2>1, <2>2, <2>3 DEF Finite, ViewChange
<1> QED
  BY <1>2, <1>3 DEF Finite

(* The type invariant: every action keeps it.                              *)
THEOREM TypeCorrect == Spec => []TypeOK
<1>1. Init => TypeOK
  BY EmptyDbType, IdleType DEF Init, TypeOK, Idle
<1>2. TypeOK /\ Finite /\ [Next]_vars => TypeOK'
  <2> SUFFICES ASSUME TypeOK, Finite, [Next]_vars
               PROVE  TypeOK'
    OBVIOUS
  <2>1. ASSUME NEW c \in Conns, NEW b \in Batches, BeginInsert(c, b)
        PROVE  TypeOK'
    <3>1. [Idle("none") EXCEPT !.pc = "next", !.batch = b] \in Transaction
      BY IdleType DEF Transaction
    <3> QED
      BY <2>1, <3>1 DEF BeginInsert, TypeOK, Idle
  <2>2. ASSUME NEW c \in Conns, NEW r \in Runs, DeleteBegin(c, r)
        PROVE  TypeOK'
    <3>1. Cardinality(EventsOf(db, r)) \in Nat
      BY SeenType
    <3>2. [Idle("none") EXCEPT !.pc = "write", !.target = r, !.snapshot = "fresh", !.view = db,
                               !.seen = Cardinality(EventsOf(db, r))] \in Transaction
      BY <3>1, IdleType DEF TypeOK, Transaction
    <3> QED
      BY <2>2, <3>2, EventStoreAssumption DEF DeleteBegin, TypeOK, Idle
  <2>3. ASSUME NEW c \in Conns, CheckDuplicate(c)
        PROVE  TypeOK'
    <3>1. tx[c].pos <= Len(tx[c].batch)
      BY <2>3 DEF CheckDuplicate, HasNext
    <3>2. /\ ViewOf(c) \in Database
          /\ tx[c].pos + 1 \in Nat \ {0}
      BY <3>1, ViewType, CurrentType
    <3> DEFINE duplicate == Current(c).key \in KeysIn(ViewOf(c))
               t == [tx[c] EXCEPT !.view = ViewOf(c),
                                  !.snapshot = IF @ = "none" THEN "fresh" ELSE @,
                                  !.pc = IF duplicate THEN "next" ELSE "write",
                                  !.pos = IF duplicate THEN @ + 1 ELSE @]
    <3>3. t \in Transaction
      BY <3>2 DEF TypeOK, Transaction
    <3>4. tx' = [tx EXCEPT ![c] = t]
      BY <2>3 DEF CheckDuplicate, TypeOK
    <3>5. t.pc = "write" => t.pos = tx[c].pos /\ t.batch = tx[c].batch
      BY DEF TypeOK, Transaction
    <3> QED
      BY <2>3, <3>1, <3>3, <3>4, <3>5 DEF CheckDuplicate, TypeOK
  <2>4. ASSUME NEW c \in Conns, WriteEvent(c)
        PROVE  TypeOK'
    <3>1. tx[c].pos <= Len(tx[c].batch)
      BY <2>4 DEF WriteEvent, TypeOK
    <3>2. /\ InsertEvent(tx[c].view, Current(c)) \in Database
          /\ tx[c].pos + 1 \in Nat \ {0}
      BY <3>1, CurrentType, InsertEventType DEF TypeOK, Transaction
    <3> QED
      BY <2>4, <3>2 DEF WriteEvent, TypeOK, Transaction
  <2>5. ASSUME NEW c \in Conns, RejectEvent(c)
        PROVE  TypeOK'
    BY <2>5, IdleType DEF RejectEvent, TypeOK, Idle
  <2>6. ASSUME NEW c \in Conns, WriteQuarantine(c)
        PROVE  TypeOK'
    BY <2>6, ViewType, CurrentType, QuarantineEventType
       DEF WriteQuarantine, HasNext, TypeOK, Transaction
  <2>7. ASSUME NEW c \in Conns, DeleteWrite(c)
        PROVE  TypeOK'
    BY <2>7, RemoveRunType DEF DeleteWrite, TypeOK, Transaction
  <2>8. ASSUME NEW c \in Conns, Busy(c)
        PROVE  TypeOK'
    BY <2>8, IdleType DEF Busy, TypeOK, Idle
  <2>9. ASSUME NEW c \in Conns, Commit(c)
        PROVE  TypeOK'
    <3>1. /\ Outdated(tx) \in [Conns -> Transaction]
          /\ Idle("stored") \in Transaction
          /\ Idle("stored").pc = "idle"
      BY IdleType, OutdatedType DEF TypeOK, Idle
    <3>2. /\ db' \in Database
          /\ writer' \in Conns \cup {None}
      BY <2>9 DEF Commit, Released, TypeOK, Transaction
    <3>3. CASE writer = c
      <4>1. tx' = [Outdated(tx) EXCEPT ![c] = Idle("stored")]
        BY <2>9, <3>3 DEF Commit
      <4> QED
        BY <3>1, <3>2, <4>1, OutdatedType DEF TypeOK
    <3>4. CASE writer # c
      BY <2>9, <3>1, <3>2, <3>4 DEF Commit, TypeOK
    <3> QED
      BY <3>3, <3>4
  <2>10. ASSUME NEW c \in Conns, Abort(c)
         PROVE  TypeOK'
    BY <2>10, IdleType DEF Abort, Released, TypeOK, Idle
  <2>11. ASSUME NEW r \in Runs, NEW at \in Clock, MarkRunIncomplete(r, at)
         PROVE  TypeOK'
    BY <2>11, MarkIncompleteType, OutdatedType, EventStoreAssumption
       DEF MarkRunIncomplete, TypeOK
  <2>12. CASE OtherCommit
    BY <2>12, OutdatedType DEF OtherCommit, TypeOK
  <2>13. CASE UNCHANGED vars
    BY <2>13 DEF vars, TypeOK
  <2> QED
    BY <2>1, <2>2, <2>3, <2>4, <2>5, <2>6, <2>7, <2>8, <2>9, <2>10, <2>11, <2>12, <2>13
       DEF Next, Step
<1> QED
  BY <1>1, <1>2, FiniteInit, FiniteStep, PTL DEF Spec

(* The databases are always finite. *)
LEMMA FiniteAlways == Spec => []Finite
BY TypeCorrect, FiniteInit, FiniteStep, PTL DEF Spec
-----------------------------------------------------------------------------
(* The summary of a run.  The invariant holds of every open transaction's  *)
(* view as well as of the committed database, because a commit installs a  *)
(* view as a whole; and a row that is absent holds nothing, because the    *)
(* next event starts it afresh.                                            *)

Exact(d) ==
  /\ SummaryOf(d)
  /\ \A r \in Runs : d.run[r].status = "absent" => d.run[r] = AbsentRun

ExactInv == Exact(db) /\ \A c \in Conns : Exact(tx[c].view)

ErrorsIn(S) == {s \in S : s.ev.type = "error.recorded"}

SeqsIn(S) == {s.seq : s \in S}

Tally(row, S) ==
  /\ row.count = Cardinality(S)
  /\ row.errors = Cardinality(ErrorsIn(S))
  /\ row.next = row.count + 1
  /\ SeqsIn(S) = 1..row.count

(* SummaryOf, run by run. *)
LEMMA SummaryTally == ASSUME NEW d
                      PROVE  SummaryOf(d) <=> \A r \in Runs : Tally(d.run[r], EventsOf(d, r))
BY DEF SummaryOf, Tally, ErrorsIn, SeqsIn

(* One more event, under the next sequence.                                *)
LEMMA TallyOneMore ==
  ASSUME NEW row, NEW new, NEW S, NEW x, IsFiniteSet(S), Tally(row, S),
         row.count \in Nat, row.errors \in Nat,
         x.seq = row.next,
         new.count = row.count + 1, new.next = row.next + 1,
         new.errors = row.errors + (IF x.ev.type = "error.recorded" THEN 1 ELSE 0)
  PROVE  Tally(new, S \cup {x})
<1>1. x \notin S
  <2>1. x \in S => x.seq \in SeqsIn(S)
    BY DEF SeqsIn
  <2> QED
    BY <2>1 DEF Tally
<1>2. new.count = Cardinality(S \cup {x})
  <2>1. Cardinality(S \cup {x}) = Cardinality(S) + 1
    BY <1>1, FS_AddElement
  <2> QED
    BY <2>1 DEF Tally
<1>3. new.errors = Cardinality(ErrorsIn(S \cup {x}))
  <2>1. IsFiniteSet(ErrorsIn(S)) /\ x \notin ErrorsIn(S)
    BY <1>1, FS_Subset DEF ErrorsIn
  <2>2. CASE x.ev.type = "error.recorded"
    <3>1. ErrorsIn(S \cup {x}) = ErrorsIn(S) \cup {x}
      BY <2>2 DEF ErrorsIn
    <3>2. Cardinality(ErrorsIn(S) \cup {x}) = Cardinality(ErrorsIn(S)) + 1
      BY <2>1, FS_AddElement
    <3> QED
      BY <2>2, <3>1, <3>2 DEF Tally
  <2>3. CASE x.ev.type # "error.recorded"
    <3>1. ErrorsIn(S \cup {x}) = ErrorsIn(S)
      BY <2>3 DEF ErrorsIn
    <3> QED
      BY <2>3, <3>1 DEF Tally
  <2> QED
    BY <2>2, <2>3
<1>4. SeqsIn(S \cup {x}) = SeqsIn(S) \cup {row.next}
  BY DEF SeqsIn
<1>5. SeqsIn(S \cup {x}) = 1..new.count
  <2>1. SeqsIn(S) = 1..row.count /\ row.next = row.count + 1
    BY DEF Tally
  <2>2. (1..row.count) \cup {row.count + 1} = 1..(row.count + 1)
    OBVIOUS
  <2> QED
    BY <1>4, <2>1, <2>2
<1> QED
  BY <1>2, <1>3, <1>5 DEF Tally

(* The insertion of an event keeps the counters exact. *)
LEMMA InsertEventExact ==
  ASSUME NEW d \in Database, IsFiniteSet(d.events), Exact(d), NEW e \in Event
  PROVE  Exact(InsertEvent(d, e))
<1> DEFINE r == e.run
           row == EnsureRun(d.run[r], e)
           D == InsertEvent(d, e)
           x == [ev |-> e, seq |-> row.next]
<1>1. /\ r \in Runs /\ d.run[r] \in RunRow /\ row \in RunRow
      /\ row.status # "absent"
      /\ row.count = d.run[r].count /\ row.errors = d.run[r].errors /\ row.next = d.run[r].next
  <2>1. r \in Runs /\ d.run[r] \in RunRow
    BY DEF Event, Database
  <2> QED
    BY <2>1, EnsureRunType DEF Exact, EnsureRun, AbsentRun
<1>2. /\ D.run = [d.run EXCEPT ![r] = UpdateRun(row, e)]
      /\ EventsOf(D, r) = EventsOf(d, r) \cup {x}
  BY DEF InsertEvent, EventsOf
<1>3. /\ D.run[r].count = row.count + 1
      /\ D.run[r].next = row.next + 1
      /\ D.run[r].errors = row.errors + (IF x.ev.type = "error.recorded" THEN 1 ELSE 0)
      /\ D.run[r].status # "absent"
  <2>1. D.run[r] = UpdateRun(row, e)
    BY <1>1, <1>2 DEF Database
  <2>2. StatusOf(e.type) # "absent" /\ e.status # "absent"
    BY DEF StatusOf, Event, Statuses
  <2> QED
    BY <1>1, <2>1, <2>2 DEF UpdateRun
<1>4. Tally(D.run[r], EventsOf(D, r))
  <2>1. Tally(row, EventsOf(d, r))
    BY <1>1, SummaryTally DEF Exact, Tally
  <2>2. IsFiniteSet(EventsOf(d, r))
    BY FS_Subset DEF EventsOf
  <2>3. row.count \in Nat /\ row.errors \in Nat /\ x.seq = row.next
    BY <1>1 DEF RunRow
  <2> HIDE DEF x, row, D, r
  <2> QED
    BY <1>2, <1>3, <2>1, <2>2, <2>3, TallyOneMore
<1>5. ASSUME NEW q \in Runs, q # r
      PROVE  EventsOf(D, q) = EventsOf(d, q) /\ D.run[q] = d.run[q]
  BY <1>1, <1>2, <1>5 DEF InsertEvent, EventsOf, Database
<1>6. SummaryOf(D)
  BY <1>4, <1>5, SummaryTally DEF Exact
<1> QED
  BY <1>3, <1>5, <1>6 DEF Exact

(* DeleteRun keeps them exact. *)
LEMMA RemoveRunExact ==
  ASSUME NEW d \in Database, Exact(d), NEW r \in Runs
  PROVE  Exact(RemoveRun(d, r))
<1> DEFINE D == RemoveRun(d, r)
<1>1. D.run[r] = AbsentRun /\ EventsOf(D, r) = {}
  BY DEF RemoveRun, EventsOf, Database
<1>2. ASSUME NEW q \in Runs, q # r
      PROVE  EventsOf(D, q) = EventsOf(d, q) /\ D.run[q] = d.run[q]
  BY <1>2 DEF RemoveRun, EventsOf, Database
<1>3. /\ AbsentRun.count = Cardinality({})
      /\ AbsentRun.errors = Cardinality({s \in {} : s.ev.type = "error.recorded"})
      /\ AbsentRun.next = AbsentRun.count + 1
      /\ {s.seq : s \in {}} = 1..AbsentRun.count
  BY FS_EmptySet DEF AbsentRun
<1> QED
  BY <1>1, <1>2, <1>3 DEF Exact, SummaryOf

(* So does any change of other columns. *)
LEMMA SameExact ==
  ASSUME NEW d, NEW D, Exact(d), D.events = d.events,
         \A r \in Runs : /\ D.run[r].count = d.run[r].count
                         /\ D.run[r].errors = d.run[r].errors
                         /\ D.run[r].next = d.run[r].next
                         /\ D.run[r].status = "absent" => D.run[r] = AbsentRun
  PROVE  Exact(D)
BY DEF Exact, SummaryOf, EventsOf

(* They are exact in the empty database. *)
LEMMA EmptyDbExact == Exact(EmptyDb)
<1>1. \A r \in Runs : EmptyDb.run[r] = AbsentRun /\ EventsOf(EmptyDb, r) = {}
  BY DEF EmptyDb, EventsOf
<1>2. /\ AbsentRun.count = Cardinality({})
      /\ AbsentRun.errors = Cardinality({s \in {} : s.ev.type = "error.recorded"})
      /\ AbsentRun.next = AbsentRun.count + 1
      /\ {s.seq : s \in {}} = 1..AbsentRun.count
  BY FS_EmptySet DEF AbsentRun
<1> QED
  BY <1>1, <1>2 DEF Exact, SummaryOf

(* Every step keeps all views exact. *)
LEMMA ExactStep ==
  ASSUME TypeOK, Finite, ExactInv, [Next]_vars
  PROVE  ExactInv'
<1>1. DbChange /\ \A c \in Conns : ViewChange(c)
  BY StepChanges
<1>2. Exact(db')
  <2>1. ASSUME NEW r \in Runs, NEW at \in Clock, db.run[r].status = "started"
        PROVE  Exact(MarkIncomplete(db, r, at))
    <3> DEFINE D == MarkIncomplete(db, r, at)
    <3>1. /\ D.events = db.events
          /\ \A q \in Runs : /\ D.run[q].count = db.run[q].count
                             /\ D.run[q].errors = db.run[q].errors
                             /\ D.run[q].next = db.run[q].next
                             /\ D.run[q] = db.run[q] \/ D.run[q].status = "incomplete"
      BY DEF MarkIncomplete, TypeOK, Database, RunRow
    <3> QED
      BY <3>1, SameExact DEF ExactInv, Exact
  <2> QED
    BY <1>1, <2>1 DEF DbChange, ExactInv
<1>3. ASSUME NEW c \in Conns PROVE Exact(tx'[c].view)
  <2>1. /\ tx[c].view \in Database /\ IsFiniteSet(tx[c].view.events)
        /\ Exact(tx[c].view) /\ Exact(db)
    BY DEF TypeOK, Transaction, Finite, ExactInv
  <2>2. Exact(QuarantineEvent(tx[c].view)) /\ Exact(QuarantineEvent(db))
    <3>1. ASSUME NEW d \in Database, Exact(d) PROVE Exact(QuarantineEvent(d))
      <4>1. QuarantineEvent(d).events = d.events /\ QuarantineEvent(d).run = d.run
        BY DEF QuarantineEvent, Database
      <4> QED
        BY <3>1, <4>1 DEF Exact, SummaryOf, EventsOf
    <3> QED
      BY <2>1, <3>1 DEF TypeOK
  <2> QED
    BY <1>1, <2>1, <2>2, EmptyDbExact, InsertEventExact, RemoveRunExact DEF ViewChange
<1> QED
  BY <1>2, <1>3 DEF ExactInv

(* The views are always exact. *)
LEMMA ExactAlways == Spec => []ExactInv
<1>1. Init => ExactInv
  BY EmptyDbExact DEF Init, ExactInv, Idle
<1>2. TypeOK /\ Finite /\ ExactInv /\ [Next]_vars => ExactInv'
  BY ExactStep
<1> QED
  BY <1>1, <1>2, TypeCorrect, FiniteAlways, PTL DEF Spec

(* The counters and ingest sequences of every run agree with its events,   *)
(* for any number of connections (InsertEvents, DeleteRun).                *)
THEOREM SummaryCorrect == Spec => []SummaryIsExact
<1>1. ExactInv => SummaryIsExact
  BY DEF ExactInv, Exact, SummaryIsExact
<1> QED
  BY <1>1, ExactAlways, PTL

-----------------------------------------------------------------------------
(* Distinct events.  Between the duplicate check of an event and its       *)
(* insertion nothing but the transaction itself changes its view, so the   *)
(* key that was free is free still.                                        *)

Checked(c) ==
  tx[c].pc = "write" /\ tx[c].target = None => Current(c).key \notin KeysIn(tx[c].view)

DistinctInv ==
  /\ DistinctIn(db)
  /\ \A c \in Conns : DistinctIn(tx[c].view) /\ Checked(c)

(* An event of a new key and id keeps events distinct. *)
LEMMA InsertEventDistinct ==
  ASSUME NEW d, NEW e, DistinctIn(d), e.key \notin KeysIn(d), e.id \notin IdsIn(d)
  PROVE  DistinctIn(InsertEvent(d, e))
<1> DEFINE x == [ev |-> e, seq |-> EnsureRun(d.run[e.run], e).next]
<1>1. InsertEvent(d, e).events = d.events \cup {x}
  BY DEF InsertEvent
<1>2. x.ev = e
  OBVIOUS
<1> HIDE DEF x
<1>3. \A s \in d.events : s.ev.key # x.ev.key /\ s.ev.id # x.ev.id
  BY <1>2 DEF KeysIn, IdsIn
<1> QED
  BY <1>1, <1>3 DEF DistinctIn

(* Fewer events, or the same ones.                                         *)
LEMMA FewerDistinct ==
  ASSUME NEW d, NEW D, DistinctIn(d), D.events \subseteq d.events
  PROVE  DistinctIn(D)
BY DEF DistinctIn

(* A step that leaves a connection about to insert has just checked the    *)
(* event, or has not touched that connection.                              *)
LEMMA CheckedStep ==
  ASSUME TypeOK, [Next]_vars, NEW c \in Conns, Checked(c)
  PROVE  Checked(c)'
<1>1. ASSUME tx'[c].pc = tx[c].pc, tx'[c].target = tx[c].target, tx'[c].view = tx[c].view,
             tx'[c].batch = tx[c].batch, tx'[c].pos = tx[c].pos
      PROVE  Checked(c)'
  BY <1>1 DEF Checked, Current
<1>2. ASSUME tx'[c].pc # "write" \/ tx'[c].target # None
      PROVE  Checked(c)'
  BY <1>2 DEF Checked
<1>3. ASSUME CheckDuplicate(c)
      PROVE  Checked(c)'
  <2> DEFINE duplicate == Current(c).key \in KeysIn(ViewOf(c))
  <2>1. /\ tx'[c].view = ViewOf(c)
        /\ tx'[c].batch = tx[c].batch
        /\ tx'[c].pc = "write" => ~duplicate
        /\ tx'[c].pos = IF duplicate THEN tx[c].pos + 1 ELSE tx[c].pos
    BY <1>3 DEF CheckDuplicate, TypeOK, Transaction
  <2> QED
    BY <2>1 DEF Checked, Current
<1>4. ASSUME NEW k \in Conns, k # c,
             \/ \E b \in Batches : BeginInsert(k, b)
             \/ \E r \in Runs : DeleteBegin(k, r)
             \/ CheckDuplicate(k) \/ WriteEvent(k) \/ RejectEvent(k) \/ WriteQuarantine(k)
             \/ DeleteWrite(k) \/ Busy(k) \/ Abort(k)
      PROVE  tx'[c] = tx[c]
  BY <1>4 DEF TypeOK, BeginInsert, DeleteBegin, CheckDuplicate, WriteEvent, RejectEvent,
              WriteQuarantine, DeleteWrite, Busy, Abort
<1>5. ASSUME NEW k \in Conns, k # c, Commit(k)
      PROVE  Checked(c)'
  BY <1>1, <1>5, OutdatedType DEF Commit, TypeOK
<1>6. ASSUME \/ \E b \in Batches : BeginInsert(c, b)
             \/ \E r \in Runs : DeleteBegin(c, r)
             \/ WriteEvent(c) \/ RejectEvent(c) \/ WriteQuarantine(c)
             \/ DeleteWrite(c) \/ Busy(c) \/ Commit(c) \/ Abort(c)
      PROVE  Checked(c)'
  <2>1. CASE \E b \in Batches : BeginInsert(c, b)
    BY <1>2, <2>1 DEF TypeOK, Transaction, Idle, BeginInsert
  <2>2. CASE \E r \in Runs : DeleteBegin(c, r)
    BY <1>2, <2>2, EventStoreAssumption DEF TypeOK, Transaction, Idle, DeleteBegin
  <2>3. CASE WriteEvent(c) \/ WriteQuarantine(c) \/ DeleteWrite(c)
    BY <1>2, <2>3 DEF TypeOK, Transaction, WriteEvent, WriteQuarantine, HasNext, DeleteWrite
  <2>4. CASE RejectEvent(c) \/ Busy(c) \/ Abort(c)
    BY <1>2, <2>4 DEF TypeOK, Idle, RejectEvent, Busy, Abort
  <2>5. CASE Commit(c)
    BY <1>2, <2>5, OutdatedType DEF TypeOK, Idle, Commit
  <2> QED
    BY <1>6, <2>1, <2>2, <2>3, <2>4, <2>5
<1>7. ASSUME (\E r \in Runs, at \in Clock : MarkRunIncomplete(r, at)) \/ OtherCommit
      PROVE  Checked(c)'
  BY <1>1, <1>7, OutdatedType DEF MarkRunIncomplete, OtherCommit, TypeOK
<1>8. CASE UNCHANGED vars
  BY <1>1, <1>8 DEF vars
<1> QED
  BY <1>1, <1>3, <1>4, <1>5, <1>6, <1>7, <1>8 DEF Next, Step

(* Every step keeps the events of every view distinct. *)
LEMMA DistinctStep ==
  ASSUME TypeOK, DistinctInv, [Next]_vars
  PROVE  DistinctInv'
<1>1. DbChange /\ \A c \in Conns : ViewChange(c)
  BY StepChanges
<1>2. DistinctIn(db')
  <2>1. \A r \in Runs, at \in Clock : MarkIncomplete(db, r, at).events = db.events
    BY DEF MarkIncomplete, TypeOK, Database
  <2> QED
    BY <1>1, <2>1, FewerDistinct DEF DbChange, DistinctInv
<1>3. ASSUME NEW c \in Conns PROVE DistinctIn(tx'[c].view)
  <2>1. EmptyDb.events \subseteq db.events
    BY DEF EmptyDb
  <2>2. /\ QuarantineEvent(db).events = db.events
        /\ QuarantineEvent(tx[c].view).events = tx[c].view.events
    BY DEF QuarantineEvent, TypeOK, Transaction, Database
  <2>3. \A r \in Runs : RemoveRun(tx[c].view, r).events \subseteq tx[c].view.events
    BY DEF RemoveRun
  <2> QED
    BY <1>1, <2>1, <2>2, <2>3, FewerDistinct, InsertEventDistinct
       DEF ViewChange, DistinctInv, Checked
<1>4. ASSUME NEW c \in Conns PROVE Checked(c)'
  BY CheckedStep DEF DistinctInv
<1> QED
  BY <1>2, <1>3, <1>4 DEF DistinctInv

(* No source event and no event_id is stored twice, for any number of      *)
(* connections (InsertEvents).                                             *)
THEOREM DistinctCorrect == Spec => []EventsAreDistinct
<1>1. Init => DistinctInv
  BY DEF Init, DistinctInv, DistinctIn, Checked, Idle, EmptyDb
<1>2. TypeOK /\ DistinctInv /\ [Next]_vars => DistinctInv'
  BY DistinctStep
<1>3. DistinctInv => EventsAreDistinct
  BY DEF DistinctInv, EventsAreDistinct
<1> QED
  BY <1>1, <1>2, <1>3, TypeCorrect, PTL DEF Spec

-----------------------------------------------------------------------------
(* Isolation: what a transaction that may still commit knows about the     *)
(* committed database.  A reader's fresh snapshot is the database; the     *)
(* view of the connection with the write lock is the database with that    *)
(* connection's own changes; a deletion that has written has removed one   *)
(* run and nothing else.                                                   *)

EndsKept(d, D) ==
  \A r \in Runs :
    d.run[r].ended # None =>
      \/ D.run[r].ended = d.run[r].ended /\ D.run[r].status = d.run[r].status
      \/ D.run[r].ended # None /\ D.run[r].ended < d.run[r].ended

Extends(d, D) == d.events \subseteq D.events /\ EndsKept(d, D)

Removed(d, D, r) ==
  /\ D.events = d.events \ EventsOf(d, r)
  /\ D.run = [d.run EXCEPT ![r] = AbsentRun]

Isolated(c) ==
  /\ tx[c].pc = "write" => tx[c].snapshot # "none"
  /\ tx[c].pc = "idle" => tx[c].target = None
  /\ writer = c => tx[c].pc # "idle" /\ tx[c].snapshot = "fresh"
  /\ tx[c].snapshot = "fresh" /\ writer # c => tx[c].view = db
  /\ tx[c].target = None /\ writer = c => Extends(db, tx[c].view)
  /\ tx[c].target # None =>
       /\ tx[c].batch = <<>>
       /\ writer # c => tx[c].pc = "write"
       /\ writer = c => tx[c].pc = "next" /\ Removed(db, tx[c].view, tx[c].target)
       /\ tx[c].snapshot = "fresh" =>
            tx[c].seen = Cardinality(EventsOf(db, tx[c].target))

Isolation == \A c \in Conns : Isolated(c)

(* A view that is the database extends it. *)
LEMMA ExtendsItself ==
  ASSUME NEW d
  PROVE  Extends(d, d)
BY DEF Extends, EndsKept

(* A quarantined event does not matter to that. *)
LEMMA ExtendsQuarantine ==
  ASSUME NEW d, NEW D \in Database, Extends(d, D)
  PROVE  Extends(d, QuarantineEvent(D))
<1>1. QuarantineEvent(D).events = D.events /\ QuarantineEvent(D).run = D.run
  BY DEF QuarantineEvent, Database
<1> QED
  BY <1>1 DEF Extends, EndsKept

(* An event may move an end to an earlier time, and changes the status of  *)
(* an ended run only then.                                                 *)
LEMMA ExtendsInsert ==
  ASSUME NEW d \in Database, NEW D \in Database, NEW e \in Event, Extends(d, D), Exact(D)
  PROVE  Extends(d, InsertEvent(D, e))
<1> DEFINE n == InsertEvent(D, e)
           q == e.run
           row == EnsureRun(D.run[q], e)
<1>1. d.events \subseteq n.events
  BY DEF InsertEvent, Extends
<1>2. q \in Runs /\ D.run[q] \in RunRow /\ e.at \in Nat
  BY DEF Event, Database
<1>3. n.run = [D.run EXCEPT ![q] = UpdateRun(row, e)]
  BY DEF InsertEvent
<1>4. ASSUME NEW r \in Runs, d.run[r].ended # None
      PROVE  \/ n.run[r].ended = d.run[r].ended /\ n.run[r].status = d.run[r].status
             \/ n.run[r].ended # None /\ n.run[r].ended < d.run[r].ended
  <2>1. /\ d.run[r] \in RunRow /\ D.run[r] \in RunRow
        /\ d.run[r].ended \in Nat
    BY <1>4 DEF Database, RunRow, Time
  <2>2. /\ D.run[r].ended \in Nat
        /\ \/ D.run[r].ended = d.run[r].ended /\ D.run[r].status = d.run[r].status
           \/ D.run[r].ended < d.run[r].ended
    BY <1>4, <2>1 DEF Extends, EndsKept, RunRow, Time
  <2>3. CASE r # q
    BY <1>2, <1>3, <2>2, <2>3, EventStoreAssumption DEF Database
  <2>4. CASE r = q
    <3>1. D.run[q].ended # None
      BY <2>2, <2>4, EventStoreAssumption
    <3>2. row = D.run[q]
      <4>1. D.run[q].status # "absent"
        BY <1>2, <3>1 DEF Exact, AbsentRun
      <4> QED
        BY <4>1 DEF EnsureRun
    <3>3. n.run[q] = UpdateRun(D.run[q], e)
      BY <1>2, <1>3, <3>2 DEF Database
    <3>4. \/ n.run[q].ended = D.run[q].ended /\ n.run[q].status = D.run[q].status
          \/ n.run[q].ended \in Nat /\ n.run[q].ended < D.run[q].ended
      BY <1>2, <2>2, <2>4, <3>1, <3>3 DEF UpdateRun, Before, Earlier
    <3> QED
      BY <2>1, <2>2, <2>4, <3>4, EventStoreAssumption
  <2> QED
    BY <2>3, <2>4
<1> QED
  BY <1>1, <1>4 DEF Extends, EndsKept

(* A step of another connection keeps a connection isolated. *)
LEMMA IsolationOthers ==
  ASSUME TypeOK, Isolation, NEW c \in Conns, NEW k \in Conns, k # c,
         \/ \E b \in Batches : BeginInsert(k, b)
         \/ \E r \in Runs : DeleteBegin(k, r)
         \/ Step(k) \/ Abort(k)
  PROVE  Isolated(c)'
<1>1. ASSUME tx'[c] = tx[c], db' = db, writer' = c <=> writer = c
      PROVE  Isolated(c)'
  BY <1>1 DEF Isolation, Isolated
<1>2. CASE \/ \E b \in Batches : BeginInsert(k, b)
           \/ \E r \in Runs : DeleteBegin(k, r)
           \/ CheckDuplicate(k) \/ Busy(k)
  BY <1>1, <1>2 DEF TypeOK, BeginInsert, DeleteBegin, CheckDuplicate, Busy
<1>3. CASE WriteEvent(k) \/ WriteQuarantine(k) \/ DeleteWrite(k) \/ RejectEvent(k)
  BY <1>1, <1>3, EventStoreAssumption
     DEF TypeOK, WriteEvent, WriteQuarantine, DeleteWrite, RejectEvent, CanWrite
<1>4. CASE Abort(k)
  BY <1>1, <1>4, EventStoreAssumption DEF TypeOK, Abort, Released
<1>5. CASE Commit(k)
  <2>1. CASE writer = k
    <3>1. /\ writer' = None
          /\ tx'[c].pc = tx[c].pc /\ tx'[c].target = tx[c].target
          /\ tx'[c].batch = tx[c].batch
          /\ tx'[c].snapshot # "fresh"
          /\ tx'[c].snapshot = "none" => tx[c].snapshot = "none"
      <4>1. tx' = [Outdated(tx) EXCEPT ![k] = Idle("stored")] /\ writer' = None
        BY <1>5, <2>1 DEF Commit, Released
      <4>2. tx'[c] = Outdated(tx)[c]
        BY <4>1, OutdatedType DEF TypeOK
      <4> QED
        BY <4>1, <4>2, OutdatedType, OutdatedNone DEF TypeOK
    <3> QED
      BY <2>1, <3>1, EventStoreAssumption DEF Isolation, Isolated
  <2>2. CASE writer # k
    BY <1>1, <1>5, <2>2 DEF TypeOK, Commit, Released
  <2> QED
    BY <2>1, <2>2
<1> QED
  BY <1>2, <1>3, <1>4, <1>5 DEF Step

(* So does a step of its own. *)
LEMMA IsolationOwn ==
  ASSUME TypeOK, Finite, ExactInv, Isolation, NEW c \in Conns,
         \/ \E b \in Batches : BeginInsert(c, b)
         \/ \E r \in Runs : DeleteBegin(c, r)
         \/ Step(c) \/ Abort(c)
  PROVE  Isolated(c)'
<1> USE EventStoreAssumption
<1>0. Isolated(c) /\ tx[c] \in Transaction /\ tx[c].view \in Database /\ db \in Database
  BY DEF Isolation, TypeOK, Transaction
<1>1. ASSUME tx'[c].pc = "idle", tx'[c].snapshot = "none", tx'[c].target = None, writer' # c
      PROVE  Isolated(c)'
  BY <1>1 DEF Isolated
<1>2. CASE \E b \in Batches : BeginInsert(c, b)
  <2>1. /\ tx'[c].pc = "next" /\ tx'[c].snapshot = "none" /\ tx'[c].target = None
        /\ writer' = writer
    <3>1. PICK b \in Batches : BeginInsert(c, b)
      BY <1>2
    <3>2. tx' = [tx EXCEPT ![c] = [Idle("none") EXCEPT !.pc = "next", !.batch = b]]
      BY <3>1 DEF BeginInsert
    <3> QED
      BY <3>1, <3>2 DEF BeginInsert, TypeOK, Idle
  <2>2. writer # c
    BY <1>0, <1>2 DEF BeginInsert, Isolated
  <2> QED
    BY <2>1, <2>2 DEF Isolated
<1>3. CASE \E r \in Runs : DeleteBegin(c, r)
  <2>1. PICK r \in Runs : DeleteBegin(c, r)
    BY <1>3
  <2>2. /\ tx'[c].pc = "write" /\ tx'[c].snapshot = "fresh" /\ tx'[c].target = r
        /\ tx'[c].view = db /\ tx'[c].batch = <<>>
        /\ tx'[c].seen = Cardinality(EventsOf(db, r))
        /\ writer' = writer /\ db' = db
    BY <2>1 DEF DeleteBegin, TypeOK, Idle
  <2>3. writer # c
    BY <1>0, <2>1 DEF DeleteBegin, Isolated
  <2> QED
    BY <2>2, <2>3 DEF Isolated
<1>4. CASE CheckDuplicate(c)
  <2>1. tx[c].target = None
    BY <1>0, <1>4 DEF CheckDuplicate, HasNext, Isolated, Transaction
  <2>2. /\ tx'[c].snapshot = IF tx[c].snapshot = "none" THEN "fresh" ELSE tx[c].snapshot
        /\ tx'[c].view = ViewOf(c) /\ tx'[c].target = None
        /\ tx'[c].pc \in {"next", "write"}
        /\ writer' = writer /\ db' = db
    BY <1>0, <1>4, <2>1 DEF CheckDuplicate, TypeOK, Transaction
  <2> QED
    BY <1>0, <2>1, <2>2 DEF Isolated, ViewOf, Transaction
<1>5. CASE WriteEvent(c)
  <2>1. /\ tx[c].target = None /\ tx[c].pc = "write" /\ CanWrite(c)
        /\ tx'[c] = [tx[c] EXCEPT !.view = InsertEvent(tx[c].view, Current(c)),
                                  !.pc = "next", !.pos = tx[c].pos + 1]
        /\ writer' = c /\ db' = db
    BY <1>5 DEF WriteEvent, TypeOK
  <2>2. /\ tx[c].snapshot = "fresh"
        /\ Extends(db, tx[c].view)
    BY <1>0, <2>1, ExtendsItself DEF Isolated, CanWrite, Transaction
  <2>3. Current(c) \in Event
    BY <2>1, CurrentType DEF TypeOK
  <2>4. Extends(db, InsertEvent(tx[c].view, Current(c)))
    BY <1>0, <2>2, <2>3, ExtendsInsert DEF ExactInv
  <2>5. /\ tx'[c].view = InsertEvent(tx[c].view, Current(c)) /\ tx'[c].pc = "next"
        /\ tx'[c].snapshot = "fresh" /\ tx'[c].target = None
    BY <1>0, <2>1, <2>2 DEF Transaction
  <2> QED
    BY <2>1, <2>4, <2>5 DEF Isolated
<1>6. CASE WriteQuarantine(c)
  <2>1. tx[c].target = None /\ tx[c].pc = "next" /\ CanWrite(c)
    BY <1>0, <1>6 DEF WriteQuarantine, HasNext, Isolated, Transaction
  <2>2. /\ tx'[c].view = QuarantineEvent(ViewOf(c)) /\ tx'[c].snapshot = "fresh"
        /\ tx'[c].target = None /\ tx'[c].pc = "next"
        /\ writer' = c /\ db' = db
    BY <1>0, <1>6, <2>1 DEF WriteQuarantine, TypeOK, Transaction
  <2>3. ViewOf(c) \in Database /\ Extends(db, ViewOf(c))
    BY <1>0, <2>1, ExtendsItself DEF Isolated, CanWrite, ViewOf, Transaction
  <2> QED
    BY <2>2, <2>3, ExtendsQuarantine DEF Isolated
<1>7. CASE DeleteWrite(c)
  <2>1. /\ tx[c].target # None /\ tx[c].pc = "write" /\ CanWrite(c)
        /\ tx'[c].view = RemoveRun(tx[c].view, tx[c].target) /\ tx'[c].pc = "next"
        /\ tx'[c].target = tx[c].target /\ tx'[c].snapshot = tx[c].snapshot
        /\ tx'[c].batch = tx[c].batch /\ tx'[c].seen = tx[c].seen
        /\ writer' = c /\ db' = db
    BY <1>0, <1>7 DEF DeleteWrite, TypeOK, Transaction
  <2>2. /\ writer = None
        /\ tx[c].snapshot = "fresh" /\ tx[c].view = db
    BY <1>0, <2>1 DEF Isolated, CanWrite, Transaction
  <2>3. Removed(db, tx'[c].view, tx'[c].target)
    BY <2>1, <2>2 DEF Removed, RemoveRun
  <2> QED
    BY <1>0, <2>1, <2>2, <2>3 DEF Isolated
<1>8. CASE RejectEvent(c) \/ Busy(c) \/ Abort(c)
  BY <1>1, <1>8 DEF TypeOK, Idle, RejectEvent, Busy, Abort, CanWrite, Released
<1>9. CASE Commit(c)
  BY <1>1, <1>9, OutdatedType DEF TypeOK, Idle, Commit, Released
<1> QED
  BY <1>2, <1>3, <1>4, <1>5, <1>6, <1>7, <1>8, <1>9 DEF Step

(* And so does every step. *)
LEMMA IsolationStep ==
  ASSUME TypeOK, Finite, ExactInv, Isolation, [Next]_vars
  PROVE  Isolation'
<1>1. ASSUME (\E r \in Runs, at \in Clock : MarkRunIncomplete(r, at)) \/ OtherCommit,
             NEW c \in Conns
      PROVE  Isolated(c)'
  <2>1. /\ writer = None /\ writer' = None
        /\ tx'[c].pc = tx[c].pc /\ tx'[c].target = tx[c].target
        /\ tx'[c].batch = tx[c].batch
        /\ tx'[c].snapshot # "fresh"
        /\ tx'[c].snapshot = "none" => tx[c].snapshot = "none"
    <3>1. tx' = Outdated(tx) /\ writer = None /\ writer' = None
      BY <1>1 DEF MarkRunIncomplete, OtherCommit
    <3> QED
      BY <3>1, OutdatedType, OutdatedNone DEF TypeOK
  <2> QED
    BY <2>1, EventStoreAssumption DEF Isolation, Isolated
<1>2. ASSUME UNCHANGED vars, NEW c \in Conns
      PROVE  Isolated(c)'
  BY <1>2 DEF vars, Isolation, Isolated
<1> QED
  BY <1>1, <1>2, IsolationOthers, IsolationOwn DEF Next, Isolation

(* Every connection is always isolated. *)
LEMMA IsolationAlways == Spec => []Isolation
<1>1. Init => Isolation
  BY EventStoreAssumption DEF Init, Isolation, Isolated, Idle
<1>2. TypeOK /\ Finite /\ ExactInv /\ Isolation /\ [Next]_vars => Isolation'
  BY IsolationStep
<1> QED
  BY <1>1, <1>2, TypeCorrect, FiniteAlways, ExactAlways, PTL DEF Spec

(* A committed event leaves the store only together with its whole run,    *)
(* for any number of connections: a writer's view extends the database     *)
(* that its commit replaces.                                               *)
THEOREM PersistCorrect == Spec => EventsPersist
<1>1. TypeOK /\ Isolation /\ [Next]_vars => EventsKept
  <2> SUFFICES ASSUME TypeOK, Isolation, [Next]_vars
               PROVE  EventsKept
    OBVIOUS
  <2>1. DbChange
    BY StepChanges
  <2>2. CASE db' = db
    BY <2>2 DEF EventsKept
  <2>3. ASSUME NEW c \in Conns, writer = c, db' = tx[c].view
        PROVE  EventsKept
    <3>1. CASE tx[c].target = None
      BY <2>3, <3>1 DEF EventsKept, Isolation, Isolated, Extends
    <3>2. CASE tx[c].target # None
      BY <2>3, <3>2 DEF EventsKept, Isolation, Isolated, Removed, EventsOf
    <3> QED
      BY <3>1, <3>2
  <2>4. ASSUME NEW r \in Runs, NEW at \in Clock, db' = MarkIncomplete(db, r, at)
        PROVE  EventsKept
    BY <2>4 DEF EventsKept, MarkIncomplete, TypeOK, Database
  <2> QED
    BY <2>1, <2>2, <2>3, <2>4 DEF DbChange
<1> QED
  BY <1>1, TypeCorrect, IsolationAlways, PTL DEF Spec, EventsPersist

(* A call that is still running has no result yet.                         *)
Pending == \A c \in Conns : tx[c].pc # "idle" => tx[c].res = "none"

(* A step gives a result to a running call only by ending it.              *)
LEMMA PendingStep ==
  ASSUME TypeOK, Pending, [Next]_vars
  PROVE  /\ Pending'
         /\ \A c \in Conns : tx[c].pc # "idle" /\ tx'[c].res = "stored" => Commit(c)
<1> DEFINE Goal == /\ Pending'
                   /\ \A c \in Conns : tx[c].pc # "idle" /\ tx'[c].res = "stored" => Commit(c)
<1>1. ASSUME NEW k \in Conns, NEW b \in Batches, BeginInsert(k, b)
      PROVE  Goal
  BY <1>1 DEF BeginInsert, Idle, TypeOK, Pending
<1>2. ASSUME NEW k \in Conns, NEW r \in Runs, DeleteBegin(k, r)
      PROVE  Goal
  BY <1>2 DEF DeleteBegin, Idle, TypeOK, Pending
<1>3. ASSUME NEW k \in Conns,
             CheckDuplicate(k) \/ WriteEvent(k) \/ WriteQuarantine(k) \/ DeleteWrite(k)
      PROVE  Goal
  BY <1>3 DEF CheckDuplicate, WriteEvent, WriteQuarantine, DeleteWrite, HasNext, TypeOK,
              Transaction, Pending
<1>4. ASSUME NEW k \in Conns, RejectEvent(k) \/ Busy(k) \/ Abort(k)
      PROVE  Goal
  BY <1>4 DEF RejectEvent, Busy, Abort, Idle, TypeOK, Pending
<1>5. ASSUME NEW k \in Conns, Commit(k)
      PROVE  Goal
  <2>1. \A c \in Conns \ {k} : tx'[c].pc = tx[c].pc /\ tx'[c].res = tx[c].res
    BY <1>5, OutdatedRes DEF Commit, TypeOK
  <2>2. tx'[k].pc = "idle"
    BY <1>5, OutdatedRes DEF Commit, TypeOK, Idle
  <2> QED
    BY <1>5, <2>1, <2>2 DEF Pending
<1>6. ASSUME (\E r \in Runs, at \in Clock : MarkRunIncomplete(r, at)) \/ OtherCommit
      PROVE  Goal
  BY <1>6, OutdatedRes DEF MarkRunIncomplete, OtherCommit, TypeOK, Pending
<1>7. CASE UNCHANGED vars
  BY <1>7 DEF vars, Pending
<1> QED
  BY <1>1, <1>2, <1>3, <1>4, <1>5, <1>6, <1>7 DEF Next, Step

(* The numbers that DeleteRun counted before it wrote are those of the     *)
(* rows its commit removes.                                                *)
THEOREM DeleteReportCorrect == Spec => DeleteReportIsExact
<1>1. Init => Pending
  BY DEF Init, Pending, Idle
<1>2. TypeOK /\ Pending /\ [Next]_vars => Pending'
  BY PendingStep
<1>3. TypeOK /\ Pending /\ Isolation /\ [Next]_vars => DeleteReport
  <2> SUFFICES ASSUME TypeOK, Pending, Isolation, [Next]_vars,
                      NEW c \in Conns, tx[c].target # None, tx'[c].res = "stored"
               PROVE  /\ tx[c].seen = Cardinality(EventsOf(db, tx[c].target))
                      /\ EventsOf(db', tx[c].target) = {}
    BY DEF DeleteReport
  <2>1. tx[c].pc # "idle" /\ Isolated(c)
    BY DEF Isolation, Isolated
  <2>2. Commit(c)
    BY <2>1, PendingStep
  <2>3. writer = c /\ db' = tx[c].view
    BY <2>1, <2>2 DEF Commit, Isolated
  <2> QED
    BY <2>1, <2>3 DEF Isolated, Removed, EventsOf
<1> QED
  BY <1>1, <1>2, <1>3, TypeCorrect, IsolationAlways, PTL DEF Spec, DeleteReportIsExact

-----------------------------------------------------------------------------
(* The end of a run.                                                       *)

EndsIn(S) == {s \in S : s.ev.type \in RunEnding}

EndFor(row, S) ==
  IF row.ended = None
  THEN /\ EndsIn(S) = {}
       /\ row.status \notin {"absent", "unknown"} =>
            \E s \in S : s.ev.type = "run.started" /\ s.ev.status = row.status
  ELSE /\ \A s \in EndsIn(S) : row.ended <= s.ev.at
       /\ \/ row.status = "incomplete"
          \/ \E s \in EndsIn(S) : s.ev.at = row.ended /\ StatusOf(s.ev.type) = row.status

EndInv == EndOf(db) /\ \A c \in Conns : EndOf(tx[c].view)

(* EndOf, run by run. *)
LEMMA EndOfRows ==
  ASSUME NEW d
  PROVE  EndOf(d) <=> \A r \in Runs : EndFor(d.run[r], EventsOf(d, r))
BY DEF EndOf, EndFor, EndsIn

(* ensureRun keeps the cause of an end. *)
LEMMA EndForEnsured ==
  ASSUME NEW row \in RunRow, NEW e, NEW S, EndFor(row, S),
         row.status = "absent" => row = AbsentRun
  PROVE  EndFor(EnsureRun(row, e), S)
<1>1. CASE row.status = "absent"
  <2>1. /\ EnsureRun(row, e).ended = None /\ EnsureRun(row, e).status = "unknown"
        /\ row.ended = None
    BY <1>1 DEF EnsureRun, AbsentRun
  <2> QED
    BY <2>1 DEF EndFor
<1>2. CASE row.status # "absent"
  BY <1>2 DEF EnsureRun
<1> QED
  BY <1>1, <1>2

(* One more event: an end that is the first or the earliest sets both      *)
(* columns, any other end leaves them, and a start names the status only   *)
(* of a run without an end.                                                *)
LEMMA EndForInsert ==
  ASSUME NEW row \in RunRow, NEW S \in SUBSET StoredEvent, NEW x \in StoredEvent,
         EndFor(row, S)
  PROVE  EndFor(UpdateRun(row, x.ev), S \cup {x})
<1> USE EventStoreAssumption
<1> DEFINE e == x.ev
           new == UpdateRun(row, e)
<1>1. /\ e \in Event /\ e.at \in Nat /\ \A s \in S : s.ev.at \in Nat
      /\ row.ended # None => row.ended \in Nat
  BY DEF StoredEvent, Event, RunRow, Time
<1>2. /\ new.status = IF e.type = "run.started" /\ row.ended = None THEN e.status
                      ELSE IF e.type \in RunEnding /\ Before(e.at, row.ended)
                           THEN StatusOf(e.type) ELSE row.status
      /\ new.ended = IF e.type \in RunEnding THEN Earlier(e.at, row.ended) ELSE row.ended
  BY DEF UpdateRun
<1> HIDE DEF new
<1>3. ASSUME e.type \in RunEnding
      PROVE  EndFor(new, S \cup {x})
  <2>1. EndsIn(S \cup {x}) = EndsIn(S) \cup {x} /\ e.type # "run.started"
    BY <1>3 DEF EndsIn, RunEnding
  <2>2. CASE Before(e.at, row.ended)
    <3>1. new.ended = e.at /\ new.status = StatusOf(e.type) /\ new.ended # None
      BY <1>1, <1>2, <1>3, <2>1, <2>2 DEF Earlier
    <3>2. \A s \in EndsIn(S) : e.at <= s.ev.at
      BY <1>1, <2>2 DEF EndFor, Before, EndsIn
    <3>3. e.at <= x.ev.at
      BY <1>1
    <3> QED
      BY <2>1, <3>1, <3>2, <3>3 DEF EndFor
  <2>3. CASE ~Before(e.at, row.ended)
    <3>1. /\ new.ended = row.ended /\ new.status = row.status
          /\ row.ended # None /\ row.ended <= e.at
      BY <1>1, <1>2, <1>3, <2>1, <2>3 DEF Earlier, Before
    <3> QED
      BY <2>1, <3>1 DEF EndFor
  <2> QED
    BY <2>2, <2>3
<1>4. ASSUME e.type \notin RunEnding
      PROVE  EndFor(new, S \cup {x})
  <2>1. EndsIn(S \cup {x}) = EndsIn(S) /\ new.ended = row.ended
    BY <1>2, <1>4 DEF EndsIn
  <2>2. CASE e.type = "run.started" /\ row.ended = None
    <3>1. new.status = e.status
      BY <1>2, <2>2
    <3> QED
      BY <2>1, <2>2, <3>1 DEF EndFor
  <2>3. CASE ~(e.type = "run.started" /\ row.ended = None)
    <3>1. new.status = row.status
      BY <1>2, <1>4, <2>3
    <3> QED
      BY <2>1, <3>1 DEF EndFor
  <2> QED
    BY <2>2, <2>3
<1> QED
  BY <1>3, <1>4 DEF new

(* The insertion of an event keeps every end caused. *)
LEMMA InsertEventEnd ==
  ASSUME NEW d \in Database, NEW e \in Event, Exact(d), EndOf(d)
  PROVE  EndOf(InsertEvent(d, e))
<1> DEFINE r == e.run
           row == EnsureRun(d.run[r], e)
           D == InsertEvent(d, e)
           x == [ev |-> e, seq |-> row.next]
<1>1. r \in Runs /\ d.run[r] \in RunRow /\ row \in RunRow
  <2>1. r \in Runs /\ d.run[r] \in RunRow
    BY DEF Event, Database
  <2> QED
    BY <2>1, EnsureRunType
<1>2. /\ D.run = [d.run EXCEPT ![r] = UpdateRun(row, e)]
      /\ EventsOf(D, r) = EventsOf(d, r) \cup {x}
  BY DEF InsertEvent, EventsOf
<1>3. x \in StoredEvent /\ x.ev = e /\ EventsOf(d, r) \in SUBSET StoredEvent
  BY <1>1 DEF StoredEvent, RunRow, EventsOf, Database
<1>4. EndFor(row, EventsOf(d, r))
  BY <1>1, EndOfRows, EndForEnsured DEF Exact
<1>5. ASSUME NEW q \in Runs, q # r
      PROVE  EventsOf(D, q) = EventsOf(d, q) /\ D.run[q] = d.run[q]
  BY <1>1, <1>2, <1>5 DEF InsertEvent, EventsOf, Database
<1>6. D.run[r] = UpdateRun(row, e)
  BY <1>1, <1>2 DEF Database
<1> HIDE DEF x, row, D, r
<1>7. EndFor(D.run[r], EventsOf(D, r))
  <2>1. EndFor(UpdateRun(row, x.ev), EventsOf(d, r) \cup {x})
    BY <1>1, <1>3, <1>4, EndForInsert
  <2> QED
    BY <1>2, <1>3, <1>6, <2>1
<1>8. EndOf(D)
  BY <1>5, <1>7, EndOfRows
<1> QED
  BY <1>8 DEF D

(* So does DeleteRun. *)
LEMMA RemoveRunEnd ==
  ASSUME NEW d \in Database, NEW r \in Runs, EndOf(d)
  PROVE  EndOf(RemoveRun(d, r))
<1> DEFINE D == RemoveRun(d, r)
<1>1. D.run[r] = AbsentRun /\ EventsOf(D, r) = {}
  BY DEF RemoveRun, EventsOf, Database
<1>2. EndFor(AbsentRun, {})
  BY DEF EndFor, EndsIn, AbsentRun
<1>3. ASSUME NEW q \in Runs, q # r
      PROVE  EventsOf(D, q) = EventsOf(d, q) /\ D.run[q] = d.run[q]
  BY <1>3 DEF RemoveRun, EventsOf, Database
<1> QED
  BY <1>1, <1>2, <1>3, EndOfRows

(* So does MarkRunIncomplete. *)
LEMMA MarkIncompleteEnd ==
  ASSUME NEW d \in Database, NEW r \in Runs, NEW at \in Nat, EndOf(d)
  PROVE  EndOf(MarkIncomplete(d, r, at))
<1> USE EventStoreAssumption
<1> DEFINE D == MarkIncomplete(d, r, at)
<1>1. /\ D.events = d.events
      /\ D.run[r].status = "incomplete"
      /\ D.run[r].ended = IF d.run[r].ended = None THEN at ELSE d.run[r].ended
      /\ \A q \in Runs : q # r => D.run[q] = d.run[q]
  BY DEF MarkIncomplete, Database, RunRow
<1>2. \A q \in Runs : EventsOf(D, q) = EventsOf(d, q)
  BY <1>1 DEF EventsOf
<1>3. EndFor(D.run[r], EventsOf(D, r))
  <2>1. EndFor(d.run[r], EventsOf(d, r)) /\ D.run[r].ended # None
    BY <1>1, EndOfRows
  <2> HIDE DEF D
  <2> QED
    BY <1>1, <1>2, <2>1 DEF EndFor
<1> QED
  BY <1>1, <1>2, <1>3, EndOfRows

(* Every step keeps the ends of every view caused. *)
LEMMA EndStep ==
  ASSUME TypeOK, ExactInv, EndInv, [Next]_vars
  PROVE  EndInv'
<1>1. DbChange /\ \A c \in Conns : ViewChange(c)
  BY StepChanges
<1>2. EndOf(db')
  BY <1>1, MarkIncompleteEnd, EventStoreAssumption DEF DbChange, EndInv, TypeOK
<1>3. ASSUME NEW c \in Conns PROVE EndOf(tx'[c].view)
  <2>1. tx[c].view \in Database /\ Exact(tx[c].view) /\ EndOf(tx[c].view) /\ EndOf(db)
    BY DEF TypeOK, Transaction, ExactInv, EndInv
  <2>2. EndOf(QuarantineEvent(tx[c].view)) /\ EndOf(QuarantineEvent(db))
    <3>1. ASSUME NEW d \in Database, EndOf(d) PROVE EndOf(QuarantineEvent(d))
      <4>1. QuarantineEvent(d).events = d.events /\ QuarantineEvent(d).run = d.run
        BY DEF QuarantineEvent, Database
      <4> QED
        BY <3>1, <4>1 DEF EndOf, EventsOf
    <3> QED
      BY <2>1, <3>1 DEF TypeOK
  <2>3. EndOf(EmptyDb)
    BY DEF EndOf, EmptyDb, EventsOf, AbsentRun
  <2> QED
    BY <1>1, <2>1, <2>2, <2>3, InsertEventEnd, RemoveRunEnd DEF ViewChange
<1> QED
  BY <1>2, <1>3 DEF EndInv

(* The ends of every view always have causes. *)
LEMMA EndAlways == Spec => []EndInv
<1>1. Init => EndInv
  BY DEF Init, EndInv, Idle, EndOf, EmptyDb, EventsOf, AbsentRun
<1>2. TypeOK /\ ExactInv /\ EndInv /\ [Next]_vars => EndInv'
  BY EndStep
<1> QED
  BY <1>1, <1>2, TypeCorrect, ExactAlways, PTL DEF Spec

(* A run that has an end has a reason for it, and one that has none has    *)
(* received no end (updateRun, MarkRunIncomplete), in every order of       *)
(* events and transactions.                                                *)
THEOREM EndCorrect == Spec => []RunEndHasCause
<1>1. EndInv => RunEndHasCause
  BY DEF EndInv, RunEndHasCause
<1> QED
  BY <1>1, EndAlways, PTL

(* The end of a run only moves to an earlier time, and its status changes  *)
(* only with it, although views are computed before they are committed.    *)
THEOREM EndMovesCorrect == Spec => EndMovesEarlier
<1>1. TypeOK /\ Isolation /\ EndInv /\ [Next]_vars => EndOnlyEarlier
  <2> SUFFICES ASSUME TypeOK, Isolation, EndInv, [Next]_vars
               PROVE  EndOnlyEarlier
    OBVIOUS
  <2>1. DbChange
    BY StepChanges
  <2>2. CASE db' = db
    BY <2>2 DEF EndOnlyEarlier
  <2>3. ASSUME NEW c \in Conns, writer = c, db' = tx[c].view
        PROVE  EndOnlyEarlier
    <3>1. CASE tx[c].target = None
      BY <2>3, <3>1 DEF EndOnlyEarlier, Isolation, Isolated, Extends, EndsKept
    <3>2. CASE tx[c].target # None
      <4>1. /\ db'.run = [db.run EXCEPT ![tx[c].target] = AbsentRun]
            /\ tx[c].target \in Runs
        BY <2>3, <3>2 DEF Isolation, Isolated, Removed, TypeOK, Transaction
      <4>2. ASSUME NEW r \in Runs, db'.run[r].status # "absent"
            PROVE  db'.run[r] = db.run[r]
        <5>1. AbsentRun.status = "absent"
          BY DEF AbsentRun
        <5> QED
          BY <4>1, <4>2, <5>1 DEF TypeOK, Database
      <4> QED
        BY <4>2 DEF EndOnlyEarlier
    <3> QED
      BY <3>1, <3>2
  <2>4. ASSUME NEW r \in Runs, NEW at \in Clock, db.run[r].status = "started",
               db' = MarkIncomplete(db, r, at)
        PROVE  EndOnlyEarlier
    <3>1. \A q \in Runs : q # r => db'.run[q] = db.run[q]
      BY <2>4 DEF MarkIncomplete, TypeOK, Database
    <3>2. db.run[r].ended = None
      <4>1. EndFor(db.run[r], EventsOf(db, r))
        BY EndOfRows DEF EndInv
      <4>2. ASSUME NEW type PROVE StatusOf(type) # "started"
        BY DEF StatusOf
      <4> QED
        BY <2>4, <4>1, <4>2 DEF EndFor
    <3> QED
      BY <3>1, <3>2 DEF EndOnlyEarlier
  <2> QED
    BY <2>1, <2>2, <2>3, <2>4 DEF DbChange
<1> QED
  BY <1>1, TypeCorrect, IsolationAlways, EndAlways, PTL DEF Spec, EndMovesEarlier

-----------------------------------------------------------------------------
(* Times of runs and steps: the first and the last of a set of times.      *)

Least(n, T) == n \in (IF T = {} THEN {None} ELSE T) /\ \A t \in T : n <= t

Greatest(n, T) == n \in (IF T = {} THEN {None} ELSE T) /\ \A t \in T : t <= n

TimesIn(S) == {s.ev.at : s \in S}

StartsIn(S) == {x \in S : x.ev.type = "run.started"}

TimesFor(row, S) ==
  /\ Least(row.started, TimesIn(StartsIn(S)))
  /\ Greatest(row.last, TimesIn(S))

TimesInv == TimesOf(db) /\ \A c \in Conns : TimesOf(tx[c].view)

(* TimesOf, run by run. *)
LEMMA TimesOfRows ==
  ASSUME NEW d
  PROVE  TimesOf(d) <=> \A r \in Runs : TimesFor(d.run[r], EventsOf(d, r))
BY DEF TimesOf, TimesFor, Least, Greatest, TimesIn, StartsIn

(* Earlier keeps the least of a set of times as one is added. *)
LEMMA EarlierIsLeast ==
  ASSUME NEW n, NEW T \in SUBSET Nat, NEW t \in Nat, Least(n, T)
  PROVE  Least(Earlier(t, n), T \cup {t})
<1>1. CASE T = {}
  <2>1. n = None
    BY <1>1 DEF Least
  <2> QED
    BY <1>1, <2>1 DEF Least, Earlier, Before
<1>2. CASE T # {}
  <2>1. n \in T /\ n \in Nat /\ n # None /\ \A q \in T : n <= q /\ q \in Nat
    BY <1>2, EventStoreAssumption DEF Least
  <2> QED
    BY <1>2, <2>1 DEF Least, Earlier, Before
<1> QED
  BY <1>1, <1>2

(* Later keeps the greatest. *)
LEMMA LaterIsGreatest ==
  ASSUME NEW n, NEW T \in SUBSET Nat, NEW t \in Nat, Greatest(n, T)
  PROVE  Greatest(Later(t, n), T \cup {t})
<1>1. CASE T = {}
  <2>1. n = None
    BY <1>1 DEF Greatest
  <2> QED
    BY <1>1, <2>1 DEF Greatest, Later
<1>2. CASE T # {}
  <2>1. n \in T /\ n \in Nat /\ n # None /\ \A q \in T : q <= n /\ q \in Nat
    BY <1>2, EventStoreAssumption DEF Greatest
  <2> QED
    BY <1>2, <2>1 DEF Greatest, Later
<1> QED
  BY <1>1, <1>2

(* updateRun keeps the times of a row exact. *)
LEMMA TimesForInsert ==
  ASSUME NEW row \in RunRow, NEW S \in SUBSET StoredEvent, NEW x \in StoredEvent,
         TimesFor(row, S), row.status = "absent" => row = AbsentRun
  PROVE  TimesFor(UpdateRun(EnsureRun(row, x.ev), x.ev), S \cup {x})
<1> DEFINE e == x.ev
           kept == EnsureRun(row, e)
           new == UpdateRun(kept, e)
<1>1. e.at \in Nat /\ TimesIn(S) \in SUBSET Nat /\ TimesIn(StartsIn(S)) \in SUBSET Nat
  BY DEF StoredEvent, Event, TimesIn, StartsIn
<1>2. kept.started = row.started
  BY DEF EnsureRun, AbsentRun
<1>3. Least(new.started, TimesIn(StartsIn(S \cup {x})))
  <2>1. CASE e.type = "run.started"
    <3>1. TimesIn(StartsIn(S \cup {x})) = TimesIn(StartsIn(S)) \cup {e.at}
      BY <2>1 DEF TimesIn, StartsIn
    <3>2. new.started = Earlier(e.at, row.started)
      BY <1>2, <2>1 DEF UpdateRun
    <3> QED
      BY <1>1, <3>1, <3>2, EarlierIsLeast DEF TimesFor
  <2>2. CASE e.type # "run.started"
    <3>1. StartsIn(S \cup {x}) = StartsIn(S)
      BY <2>2 DEF StartsIn
    <3>2. new.started = row.started
      BY <1>2, <2>2 DEF UpdateRun
    <3> QED
      BY <3>1, <3>2 DEF TimesFor
  <2> QED
    BY <2>1, <2>2
<1>4. Greatest(new.last, TimesIn(S \cup {x}))
  <2>1. TimesIn(S \cup {x}) = TimesIn(S) \cup {e.at} /\ new.last = Later(e.at, kept.last)
    BY DEF TimesIn, UpdateRun
  <2>2. CASE row.status # "absent"
    <3>1. kept.last = row.last
      BY <2>2 DEF EnsureRun
    <3> QED
      BY <1>1, <2>1, <3>1, LaterIsGreatest DEF TimesFor
  <2>3. CASE row.status = "absent"
    <3>1. kept.last = e.at /\ row.last = None
      BY <2>3 DEF EnsureRun, AbsentRun
    <3>2. TimesIn(S) = {}
      BY <1>1, <3>1, EventStoreAssumption DEF TimesFor, Greatest
    <3>3. Later(e.at, e.at) = e.at
      BY <1>1 DEF Later
    <3> QED
      BY <1>1, <2>1, <3>1, <3>2, <3>3 DEF Greatest
  <2> QED
    BY <2>2, <2>3
<1> QED
  BY <1>3, <1>4 DEF TimesFor

(* The insertion of an event keeps all times exact. *)
LEMMA InsertEventTimes ==
  ASSUME NEW d \in Database, NEW e \in Event, Exact(d), TimesOf(d)
  PROVE  TimesOf(InsertEvent(d, e))
<1> DEFINE r == e.run
           row == EnsureRun(d.run[r], e)
           D == InsertEvent(d, e)
           x == [ev |-> e, seq |-> row.next]
<1>1. r \in Runs /\ d.run[r] \in RunRow /\ row \in RunRow
  <2>1. r \in Runs /\ d.run[r] \in RunRow
    BY DEF Event, Database
  <2> QED
    BY <2>1, EnsureRunType
<1>2. /\ D.run = [d.run EXCEPT ![r] = UpdateRun(row, e)]
      /\ EventsOf(D, r) = EventsOf(d, r) \cup {x}
  BY DEF InsertEvent, EventsOf
<1>3. x \in StoredEvent /\ x.ev = e /\ EventsOf(d, r) \in SUBSET StoredEvent
  BY <1>1 DEF StoredEvent, RunRow, EventsOf, Database
<1>4. TimesFor(d.run[r], EventsOf(d, r)) /\ (d.run[r].status = "absent" => d.run[r] = AbsentRun)
  BY <1>1, TimesOfRows DEF Exact
<1>5. ASSUME NEW q \in Runs, q # r
      PROVE  EventsOf(D, q) = EventsOf(d, q) /\ D.run[q] = d.run[q]
  BY <1>1, <1>2, <1>5 DEF InsertEvent, EventsOf, Database
<1>6. D.run[r] = UpdateRun(EnsureRun(d.run[r], e), e)
  BY <1>1, <1>2 DEF Database
<1> HIDE DEF x, row, D, r
<1>7. TimesFor(D.run[r], EventsOf(D, r))
  <2>1. TimesFor(UpdateRun(EnsureRun(d.run[r], x.ev), x.ev), EventsOf(d, r) \cup {x})
    BY <1>1, <1>3, <1>4, TimesForInsert
  <2> QED
    BY <1>2, <1>3, <1>6, <2>1
<1>8. TimesOf(D)
  BY <1>5, <1>7, TimesOfRows
<1> QED
  BY <1>8 DEF D

(* The times of no run are those of no events. *)
LEMMA EmptyTimes == TimesFor(AbsentRun, {})
BY DEF TimesFor, Least, Greatest, TimesIn, StartsIn, AbsentRun

(* DeleteRun keeps all times exact. *)
LEMMA RemoveRunTimes ==
  ASSUME NEW d \in Database, NEW r \in Runs, TimesOf(d)
  PROVE  TimesOf(RemoveRun(d, r))
<1> DEFINE D == RemoveRun(d, r)
<1>1. D.run[r] = AbsentRun /\ EventsOf(D, r) = {}
  BY DEF RemoveRun, EventsOf, Database
<1>2. ASSUME NEW q \in Runs, q # r
      PROVE  EventsOf(D, q) = EventsOf(d, q) /\ D.run[q] = d.run[q]
  BY <1>2 DEF RemoveRun, EventsOf, Database
<1> QED
  BY <1>1, <1>2, EmptyTimes, TimesOfRows

(* So does any change of other columns. *)
LEMMA SameTimes ==
  ASSUME NEW d, NEW D, TimesOf(d), D.events = d.events,
         \A r \in Runs : D.run[r].started = d.run[r].started /\ D.run[r].last = d.run[r].last
  PROVE  TimesOf(D)
BY DEF TimesOf, EventsOf

(* Every step keeps the times of every view exact. *)
LEMMA TimesStep ==
  ASSUME TypeOK, ExactInv, TimesInv, [Next]_vars
  PROVE  TimesInv'
<1>1. DbChange /\ \A c \in Conns : ViewChange(c)
  BY StepChanges
<1>2. TimesOf(db')
  <2>1. ASSUME NEW r \in Runs, NEW at \in Clock
        PROVE  TimesOf(MarkIncomplete(db, r, at))
    <3> DEFINE D == MarkIncomplete(db, r, at)
    <3>1. /\ D.events = db.events
          /\ \A q \in Runs : D.run[q].started = db.run[q].started /\ D.run[q].last = db.run[q].last
      BY DEF MarkIncomplete, TypeOK, Database, RunRow
    <3> HIDE DEF D
    <3>2. TimesOf(D)
      BY <3>1, SameTimes DEF TimesInv
    <3> QED
      BY <3>2 DEF D
  <2> QED
    BY <1>1, <2>1 DEF DbChange, TimesInv
<1>3. ASSUME NEW c \in Conns PROVE TimesOf(tx'[c].view)
  <2>1. tx[c].view \in Database /\ Exact(tx[c].view) /\ TimesOf(tx[c].view) /\ TimesOf(db)
    BY DEF TypeOK, Transaction, ExactInv, TimesInv
  <2>2. TimesOf(QuarantineEvent(tx[c].view)) /\ TimesOf(QuarantineEvent(db))
    <3>1. ASSUME NEW d \in Database, TimesOf(d) PROVE TimesOf(QuarantineEvent(d))
      <4>1. QuarantineEvent(d).events = d.events /\ QuarantineEvent(d).run = d.run
        BY DEF QuarantineEvent, Database
      <4> QED
        BY <3>1, <4>1, SameTimes
    <3> QED
      BY <2>1, <3>1 DEF TypeOK
  <2>3. TimesOf(EmptyDb)
    BY EmptyTimes, TimesOfRows DEF EmptyDb, EventsOf
  <2> QED
    BY <1>1, <2>1, <2>2, <2>3, InsertEventTimes, RemoveRunTimes DEF ViewChange
<1> QED
  BY <1>2, <1>3 DEF TimesInv

(* started_at and last_event_at are exact in whatever order events arrive  *)
(* (updateRun).                                                            *)
THEOREM TimesCorrect == Spec => []RunTimesAreExact
<1>1. Init => TimesInv
  <2>1. TimesOf(EmptyDb)
    BY EmptyTimes, TimesOfRows DEF EmptyDb, EventsOf
  <2> QED
    BY <2>1 DEF Init, TimesInv, Idle
<1>2. TypeOK /\ ExactInv /\ TimesInv /\ [Next]_vars => TimesInv'
  BY TimesStep
<1>3. TimesInv => RunTimesAreExact
  BY DEF TimesInv, RunTimesAreExact
<1> QED
  BY <1>1, <1>2, <1>3, TypeCorrect, ExactAlways, PTL DEF Spec-----------------------------------------------------------------------------
(* The rows of steps: there when an event names the step, and with the     *)
(* first of its starts and of its ends.                                    *)

StepEvents(d, r, st) == {s \in EventsOf(d, r) : s.ev.step = st}

WithStatus(S, statuses) == {s \in S : s.ev.status \in statuses}

StepFor(row, S) ==
  /\ row.status = "absent" <=> S = {}
  /\ Least(row.started, TimesIn(WithStatus(S, {"started"})))
  /\ Least(row.ended, TimesIn(WithStatus(S, StepEnding)))

StepsInv == StepsOf(db) /\ \A c \in Conns : StepsOf(tx[c].view)

(* StepsOf, step by step. *)
LEMMA StepsOfRows ==
  ASSUME NEW d
  PROVE  StepsOf(d) <=> \A r \in Runs, st \in Steps : StepFor(d.step[r][st], StepEvents(d, r, st))
<1> SUFFICES ASSUME NEW r \in Runs, NEW st \in Steps
             PROVE  LET es == {s.ev : s \in {x \in EventsOf(d, r) : x.ev.step = st}}
                        starts == {e.at : e \in {x \in es : x.status = "started"}}
                        ends == {e.at : e \in {x \in es : x.status \in StepEnding}}
                        row == d.step[r][st]
                    IN StepFor(row, StepEvents(d, r, st)) <=>
                         /\ row.status = "absent" <=> es = {}
                         /\ row.started \in (IF starts = {} THEN {None} ELSE starts)
                         /\ \A t \in starts : row.started <= t
                         /\ row.ended \in (IF ends = {} THEN {None} ELSE ends)
                         /\ \A t \in ends : row.ended <= t
  BY DEF StepsOf
<1> DEFINE S == StepEvents(d, r, st)
           es == {s.ev : s \in S}
           row == d.step[r][st]
<1>1. es = {} <=> S = {}
  OBVIOUS
<1>2. ASSUME NEW statuses
      PROVE  {e.at : e \in {x \in es : x.status \in statuses}} = TimesIn(WithStatus(S, statuses))
  BY DEF TimesIn, WithStatus
<1>3. {x \in es : x.status = "started"} = {x \in es : x.status \in {"started"}}
  OBVIOUS
<1>4. {e.at : e \in {x \in es : x.status = "started"}} = TimesIn(WithStatus(S, {"started"}))
  BY <1>2, <1>3
<1>5. {s.ev : s \in {x \in EventsOf(d, r) : x.ev.step = st}} = es
  BY DEF StepEvents
<1> DEFINE starts == {e.at : e \in {x \in es : x.status = "started"}}
           ends == {e.at : e \in {x \in es : x.status \in StepEnding}}
<1>6. starts = TimesIn(WithStatus(S, {"started"})) /\ ends = TimesIn(WithStatus(S, StepEnding))
  BY <1>2, <1>4
<1>7. StepFor(row, S) <=>
        /\ row.status = "absent" <=> es = {}
        /\ row.started \in (IF starts = {} THEN {None} ELSE starts)
        /\ \A t \in starts : row.started <= t
        /\ row.ended \in (IF ends = {} THEN {None} ELSE ends)
        /\ \A t \in ends : row.ended <= t
  <2> HIDE DEF starts, ends, es, S, row
  <2> QED  BY <1>1, <1>6 DEF StepFor, Least
<1> QED  BY <1>5, <1>7

(* updateStep keeps the row of a step exact. *)
LEMMA StepForInsert ==
  ASSUME NEW row \in StepRow, NEW S \in SUBSET StoredEvent, NEW x \in StoredEvent,
         StepFor(row, S)
  PROVE  StepFor(UpdateStep(row, x.ev), S \cup {x})
<1> DEFINE new == UpdateStep(row, x.ev)
<1>1. x.ev.at \in Nat /\ x.ev.status # "absent"
  BY DEF StoredEvent, Event, Statuses
<1>2. new.status # "absent"
  BY <1>1 DEF UpdateStep
<1>3. ASSUME NEW statuses
      PROVE  /\ TimesIn(WithStatus(S, statuses)) \in SUBSET Nat
             /\ TimesIn(WithStatus(S \cup {x}, statuses))
                  = IF x.ev.status \in statuses
                    THEN TimesIn(WithStatus(S, statuses)) \cup {x.ev.at}
                    ELSE TimesIn(WithStatus(S, statuses))
  <2>1. TimesIn(WithStatus(S, statuses)) \in SUBSET Nat
    BY DEF TimesIn, WithStatus, StoredEvent, Event
  <2>2. WithStatus(S \cup {x}, statuses)
          = IF x.ev.status \in statuses THEN WithStatus(S, statuses) \cup {x}
            ELSE WithStatus(S, statuses)
    BY DEF WithStatus
  <2>3. TimesIn(WithStatus(S, statuses) \cup {x}) = TimesIn(WithStatus(S, statuses)) \cup {x.ev.at}
    BY DEF TimesIn
  <2> QED  BY <2>1, <2>2, <2>3
<1>4. Least(new.started, TimesIn(WithStatus(S \cup {x}, {"started"})))
  <2>1. new.started = IF x.ev.status \in {"started"} THEN Earlier(x.ev.at, row.started)
                      ELSE row.started
    BY DEF UpdateStep
  <2>2. Least(row.started, TimesIn(WithStatus(S, {"started"})))
    BY DEF StepFor
  <2>3. TimesIn(WithStatus(S, {"started"})) \in SUBSET Nat
    BY <1>3
  <2>4. Least(Earlier(x.ev.at, row.started), TimesIn(WithStatus(S, {"started"})) \cup {x.ev.at})
    BY <1>1, <2>2, <2>3, EarlierIsLeast
  <2> HIDE DEF new
  <2>5. CASE x.ev.status \in {"started"}
    BY <1>3, <2>1, <2>4, <2>5
  <2>6. CASE x.ev.status \notin {"started"}
    BY <1>3, <2>1, <2>2, <2>6
  <2> QED  BY <2>5, <2>6
<1>5. Least(new.ended, TimesIn(WithStatus(S \cup {x}, StepEnding)))
  <2>1. new.ended = IF x.ev.status \in StepEnding THEN Earlier(x.ev.at, row.ended) ELSE row.ended
    BY DEF UpdateStep
  <2>2. Least(row.ended, TimesIn(WithStatus(S, StepEnding)))
    BY DEF StepFor
  <2>3. TimesIn(WithStatus(S, StepEnding)) \in SUBSET Nat
    BY <1>3
  <2>4. Least(Earlier(x.ev.at, row.ended), TimesIn(WithStatus(S, StepEnding)) \cup {x.ev.at})
    BY <1>1, <2>2, <2>3, EarlierIsLeast
  <2> HIDE DEF new
  <2>5. CASE x.ev.status \in StepEnding
    BY <1>3, <2>1, <2>4, <2>5
  <2>6. CASE x.ev.status \notin StepEnding
    BY <1>3, <2>1, <2>2, <2>6
  <2> QED  BY <2>5, <2>6
<1> QED  BY <1>2, <1>4, <1>5 DEF StepFor

(* The insertion of an event keeps the rows of all steps exact. *)
LEMMA InsertEventSteps ==
  ASSUME NEW d \in Database, NEW e \in Event, StepsOf(d)
  PROVE  StepsOf(InsertEvent(d, e))
<1> DEFINE D == InsertEvent(d, e)
           x == [ev |-> e, seq |-> EnsureRun(d.run[e.run], e).next]
<1>1. D.events = d.events \cup {x} /\ x.ev = e
  BY DEF InsertEvent
<1>2. x \in StoredEvent
  <2>1. e.run \in Runs /\ d.run[e.run] \in RunRow
    BY DEF Event, Database
  <2> QED  BY <2>1, EnsureRunType DEF StoredEvent, RunRow
<1>3. ASSUME NEW r \in Runs, NEW st \in Steps
      PROVE  /\ StepEvents(d, r, st) \in SUBSET StoredEvent
             /\ StepEvents(D, r, st) = IF e.run = r /\ e.step = st THEN StepEvents(d, r, st) \cup {x}
                                       ELSE StepEvents(d, r, st)
             /\ D.step[r][st] = IF e.run = r /\ e.step = st THEN UpdateStep(d.step[r][st], e)
                                ELSE d.step[r][st]
             /\ d.step[r][st] \in StepRow
             /\ StepFor(d.step[r][st], StepEvents(d, r, st))
  <2>1. StepEvents(d, r, st) \in SUBSET StoredEvent
    BY DEF StepEvents, EventsOf, Database
  <2>2. StepEvents(D, r, st) = IF e.run = r /\ e.step = st THEN StepEvents(d, r, st) \cup {x}
                               ELSE StepEvents(d, r, st)
    <3> HIDE DEF D, x
    <3> QED  BY <1>1 DEF StepEvents, EventsOf
  <2>3. d.step \in [Runs -> [Steps -> StepRow]] /\ e.run \in Runs
    BY DEF Database, Event
  <2>4. D.step = IF e.step = None THEN d.step
                 ELSE [d.step EXCEPT ![e.run][e.step] = UpdateStep(d.step[e.run][e.step], e)]
    BY DEF InsertEvent
  <2>5. None \notin Steps /\ (e.step # None => e.step \in Steps)
    BY EventStoreAssumption DEF Event
  <2>6. D.step[r][st] = IF e.run = r /\ e.step = st THEN UpdateStep(d.step[r][st], e)
                        ELSE d.step[r][st]
    <3> HIDE DEF D, x
    <3> QED  BY <2>3, <2>4, <2>5
  <2>7. d.step[r][st] \in StepRow
    BY <2>3
  <2>8. StepFor(d.step[r][st], StepEvents(d, r, st))
    BY StepsOfRows
  <2> QED  BY <2>1, <2>2, <2>6, <2>7, <2>8
<1> HIDE DEF D, x
<1>4. \A r \in Runs, st \in Steps : StepFor(D.step[r][st], StepEvents(D, r, st))
  <2> SUFFICES ASSUME NEW r \in Runs, NEW st \in Steps
               PROVE  StepFor(D.step[r][st], StepEvents(D, r, st))
    OBVIOUS
  <2>1. CASE e.run = r /\ e.step = st
    <3>1. StepFor(UpdateStep(d.step[r][st], x.ev), StepEvents(d, r, st) \cup {x})
      BY <1>2, <1>3, StepForInsert
    <3> QED  BY <1>1, <1>3, <2>1, <3>1
  <2>2. CASE ~(e.run = r /\ e.step = st)
    BY <1>3, <2>2
  <2> QED  BY <2>1, <2>2
<1>5. StepsOf(D)
  BY <1>4, StepsOfRows
<1> QED  BY <1>5 DEF D

(* A step that no event names has no row. *)
LEMMA EmptySteps == StepFor(AbsentStep, {})
  BY DEF StepFor, Least, TimesIn, WithStatus, AbsentStep

(* DeleteRun keeps the rows of all steps exact. *)
LEMMA RemoveRunSteps ==
  ASSUME NEW d \in Database, NEW r \in Runs, StepsOf(d)
  PROVE  StepsOf(RemoveRun(d, r))
<1> DEFINE D == RemoveRun(d, r)
<1>1. ASSUME NEW st \in Steps
      PROVE  D.step[r][st] = AbsentStep /\ StepEvents(D, r, st) = {}
  BY DEF RemoveRun, EventsOf, StepEvents, Database
<1>2. ASSUME NEW q \in Runs, q # r, NEW st \in Steps
      PROVE  StepEvents(D, q, st) = StepEvents(d, q, st) /\ D.step[q][st] = d.step[q][st]
  BY <1>2 DEF RemoveRun, EventsOf, StepEvents, Database
<1> HIDE DEF D
<1>3. \A q \in Runs, st \in Steps : StepFor(D.step[q][st], StepEvents(D, q, st))
  <2>1. \A q \in Runs, st \in Steps : StepFor(d.step[q][st], StepEvents(d, q, st))
    BY StepsOfRows
  <2> QED  BY <1>1, <1>2, <2>1, EmptySteps
<1>4. StepsOf(D)
  BY <1>3, StepsOfRows
<1> QED  BY <1>4 DEF D

(* So does any change of other tables. *)
LEMMA SameSteps ==
  ASSUME NEW d, NEW D, StepsOf(d), D.events = d.events, D.step = d.step
  PROVE  StepsOf(D)
<1>1. \A r \in Runs, st \in Steps : StepEvents(D, r, st) = StepEvents(d, r, st)
  BY DEF StepEvents, EventsOf
<1> QED  BY <1>1, StepsOfRows

(* Every step keeps the rows of the steps exact, in every view. *)
LEMMA StepsStep ==
  ASSUME TypeOK, StepsInv, [Next]_vars
  PROVE  StepsInv'
<1>1. DbChange /\ \A c \in Conns : ViewChange(c)
  BY StepChanges
<1>2. StepsOf(db')
  <2>1. ASSUME NEW r \in Runs, NEW at \in Clock
        PROVE  StepsOf(MarkIncomplete(db, r, at))
    <3>1. /\ MarkIncomplete(db, r, at).events = db.events
          /\ MarkIncomplete(db, r, at).step = db.step
      BY DEF MarkIncomplete, TypeOK, Database
    <3> QED  BY <3>1, SameSteps DEF StepsInv
  <2> QED  BY <1>1, <2>1 DEF DbChange, StepsInv
<1>3. ASSUME NEW c \in Conns PROVE StepsOf(tx'[c].view)
  <2>1. tx[c].view \in Database /\ StepsOf(tx[c].view) /\ StepsOf(db) /\ db \in Database
    BY DEF TypeOK, Transaction, StepsInv
  <2>2. StepsOf(QuarantineEvent(tx[c].view)) /\ StepsOf(QuarantineEvent(db))
    <3>1. ASSUME NEW d \in Database, StepsOf(d) PROVE StepsOf(QuarantineEvent(d))
      <4>1. QuarantineEvent(d).events = d.events /\ QuarantineEvent(d).step = d.step
        BY DEF QuarantineEvent, Database
      <4> QED  BY <3>1, <4>1, SameSteps
    <3> QED  BY <2>1, <3>1
  <2>3. StepsOf(EmptyDb)
    BY EmptySteps, StepsOfRows DEF EmptyDb, EventsOf, StepEvents
  <2> QED  BY <1>1, <2>1, <2>2, <2>3, InsertEventSteps, RemoveRunSteps DEF ViewChange
<1> QED  BY <1>2, <1>3 DEF StepsInv

(* A step has a row exactly when a stored event names it, with the first of*)
(* its starts and of its ends, in whatever order they came (updateStep).   *)
THEOREM StepTimesCorrect == Spec => []StepTimesAreExact
<1>1. Init => StepsInv
  <2>1. StepsOf(EmptyDb)
    BY EmptySteps, StepsOfRows DEF EmptyDb, EventsOf, StepEvents
  <2> QED  BY <2>1 DEF Init, StepsInv, Idle
<1>2. TypeOK /\ StepsInv /\ [Next]_vars => StepsInv'
  BY StepsStep
<1>3. StepsInv => StepTimesAreExact
  BY DEF StepsInv, StepTimesAreExact
<1> QED  BY <1>1, <1>2, <1>3, TypeCorrect, PTL DEF Spec

-----------------------------------------------------------------------------
(* The store implements RunLog.  Three facts about counting come first.    *)

(* In a finite set of numbers every position is taken: some element has as *)
(* many below it as the position has before it.                            *)
LEMMA EveryPositionIsTaken ==
  ASSUME NEW S \in SUBSET Nat, IsFiniteSet(S)
  PROVE  \A n \in 1..Cardinality(S) :
           \E i \in S : Cardinality({j \in S : j < i}) = n - 1
<1> DEFINE below(i) == {j \in S : j < i}
           n == Cardinality(S)
           rank == [i \in S |-> Cardinality(below(i)) + 1]
<1>n. n \in Nat
  BY FS_CardinalityType
<1>1. ASSUME NEW i \in S
      PROVE  /\ Cardinality(below(i)) \in Nat
             /\ Cardinality(below(i) \cup {i}) = Cardinality(below(i)) + 1
  <2>1. below(i) \in SUBSET S /\ i \notin below(i)
    OBVIOUS
  <2> HIDE DEF below
  <2>2. IsFiniteSet(below(i))
    BY <2>1, FS_Subset
  <2> QED
    BY <2>1, <2>2, FS_CardinalityType, FS_AddElement
<1>2. ASSUME NEW i \in S, NEW T \in SUBSET S, below(i) \cup {i} \subseteq T
      PROVE  Cardinality(below(i)) + 1 <= Cardinality(T)
  <2>1. IsFiniteSet(T)
    BY FS_Subset
  <2>2. below(i) \cup {i} \in SUBSET T
    BY <1>2
  <2> HIDE DEF below
  <2>3. Cardinality(below(i) \cup {i}) <= Cardinality(T)
    BY ONLY <2>1, <2>2, FS_Subset
  <2> QED
    BY <1>1, <2>3
<1>3. rank \in [S -> 1..n]
  <2>1. ASSUME NEW i \in S
        PROVE  Cardinality(below(i)) + 1 \in 1..n
    <3>1. below(i) \cup {i} \subseteq S /\ S \in SUBSET S
      OBVIOUS
    <3> HIDE DEF below
    <3>2. Cardinality(below(i)) + 1 <= Cardinality(S)
      BY <1>2, <3>1
    <3>3. Cardinality(below(i)) \in Nat
      BY <1>1
    <3> HIDE DEF n
    <3>4. Cardinality(below(i)) + 1 <= n
      BY <3>2 DEF n
    <3> QED
      BY <1>n, <3>3, <3>4
  <2> HIDE DEF below, n
  <2> QED
    BY <2>1
<1>4. ASSUME NEW i \in S, NEW j \in S, i < j
      PROVE  rank[i] # rank[j]
  <2>1. below(j) \in SUBSET S
    OBVIOUS
  <2>2. below(i) \cup {i} \subseteq below(j)
    <3>1. i \in Nat /\ j \in Nat /\ \A k \in S : k \in Nat
      OBVIOUS
    <3>2. \A k \in S : k < i => k < j
      BY <1>4, <3>1
    <3> QED
      BY <1>4, <3>2
  <2> HIDE DEF below
  <2>3. Cardinality(below(i)) + 1 <= Cardinality(below(j))
    BY <1>2, <2>1, <2>2
  <2>4. Cardinality(below(i)) \in Nat /\ Cardinality(below(j)) \in Nat
    BY <1>1
  <2>5. Cardinality(below(i)) + 1 # Cardinality(below(j)) + 1
    BY <2>3, <2>4
  <2> QED
    BY <2>5
<1>5. rank \in Injection(S, 1..n)
  <2>1. \A i, j \in S : i # j => i < j \/ j < i
    OBVIOUS
  <2>2. \A i, j \in S : rank[i] = rank[j] => i = j
    <3> HIDE DEF rank
    <3> QED
      BY <1>4, <2>1
  <2> HIDE DEF rank, n
  <2> QED
    BY <1>3, <2>2 DEF Injection, IsInjective
<1>6. IsFiniteSet(1..n) /\ Cardinality(1..n) = n
  <2>1. 1 \in Int /\ n \in Int
    BY <1>n
  <2>2. IsFiniteSet(1..n) /\ Cardinality(1..n) = IF 1 > n THEN 0 ELSE n - 1 + 1
    <3> HIDE DEF n
    <3> QED
      BY <2>1, FS_Interval
  <2> HIDE DEF n
  <2> QED
    BY <1>n, <2>2
<1>7. rank \in Surjection(S, 1..n)
  <2>1. Cardinality(S) = Cardinality(1..n)
    BY <1>6
  <2> HIDE DEF rank, n
  <2> QED
    BY <1>5, <1>6, <2>1, FS_Injection
<1>8. ASSUME NEW m \in 1..n
      PROVE  \E i \in S : rank[i] = m
  <2> HIDE DEF rank, n
  <2> QED
    BY <1>7 DEF Surjection
<1>9. ASSUME NEW m \in 1..n
      PROVE  \E i \in S : Cardinality(below(i)) = m - 1
  <2>1. PICK i \in S : rank[i] = m
    BY <1>8
  <2>2. rank[i] = Cardinality(below(i)) + 1
    OBVIOUS
  <2>3. Cardinality(below(i)) \in Nat
    BY <1>1
  <2> HIDE DEF rank, below, n
  <2> QED
    BY <1>n, <2>1, <2>2, <2>3
<1> QED
  BY <1>9

(* The stored event of a run that has a given ingest sequence is the only  *)
(* one, as there are as many events as sequences.                          *)
LEMMA SequencesAreUnique ==
  ASSUME NEW d \in Database, IsFiniteSet(d.events), Exact(d), NEW r \in Runs
  PROVE  /\ \A s, t \in EventsOf(d, r) : s.seq = t.seq => s = t
         /\ \A s \in EventsOf(d, r) : s.seq \in 1..d.run[r].count
         /\ \A n \in 1..d.run[r].count : \E s \in EventsOf(d, r) : s.seq = n
         /\ d.run[r].count \in Nat
<1> DEFINE S == EventsOf(d, r)
           n == d.run[r].count
           seq == [s \in S |-> s.seq]
<1>1. IsFiniteSet(S) /\ n \in Nat
  BY FS_Subset DEF EventsOf, Database, RunRow
<1>2. Cardinality(S) = n /\ {s.seq : s \in S} = 1..n
  BY DEF Exact, SummaryOf
<1>3. seq \in [S -> 1..n] /\ \A m \in 1..n : \E s \in S : seq[s] = m
  <2> HIDE DEF S, n
  <2> QED
    BY <1>2
<1>4. Cardinality(1..n) = n
  <2> HIDE DEF n
  <2>1. 1 \in Int /\ n \in Int
    BY <1>1
  <2>2. Cardinality(1..n) = IF 1 > n THEN 0 ELSE n - 1 + 1
    BY <2>1, FS_Interval
  <2> QED
    BY <1>1, <2>2
<1>5. seq \in Injection(S, 1..n)
  <2> HIDE DEF S, n, seq
  <2>1. seq \in Surjection(S, 1..n)
    BY <1>3 DEF Surjection
  <2> QED
    BY <1>1, <1>2, <1>4, <2>1, FS_SurjSameCardinalityImpliesInj
<1>6. \A s, t \in S : seq[s] = seq[t] => s = t
  <2> HIDE DEF S, n, seq
  <2> QED
    BY <1>5 DEF Injection, IsInjective
<1>7. \A s, t \in S : s.seq = t.seq => s = t
  <2> HIDE DEF S
  <2> QED
    BY <1>6
<1> QED
  BY <1>1, <1>2, <1>3, <1>7

-----------------------------------------------------------------------------
(* A database with the facts above. *)
Sound(d) == d \in Database /\ IsFiniteSet(d.events) /\ Exact(d)

(* Log, of any database. *)
LogOf(d) ==
  [r \in Runs |-> [n \in 1..d.run[r].count |-> (CHOOSE s \in EventsOf(d, r) : s.seq = n).ev]]

(* The log of a run has each of its stored events at its ingest sequence.  *)
LEMMA LogEntries ==
  ASSUME NEW d, Sound(d), NEW r \in Runs
  PROVE  /\ LogOf(d)[r] \in Seq(Event)
         /\ Len(LogOf(d)[r]) = d.run[r].count
         /\ d.run[r].count \in Nat
         /\ \A s \in EventsOf(d, r) : /\ s.seq \in 1..d.run[r].count
                                      /\ LogOf(d)[r][s.seq] = s.ev
         /\ \A n \in 1..d.run[r].count : \E s \in EventsOf(d, r) : s.seq = n
<1> DEFINE S == EventsOf(d, r)
           n == d.run[r].count
           l == [m \in 1..n |-> (CHOOSE s \in S : s.seq = m).ev]
<1>1. /\ \A s, t \in S : s.seq = t.seq => s = t
      /\ \A s \in S : s.seq \in 1..n
      /\ \A m \in 1..n : \E s \in S : s.seq = m
      /\ n \in Nat
  BY SequencesAreUnique DEF Sound
<1>2. \A s \in S : s.ev \in Event
  BY DEF Sound, Database, StoredEvent, EventsOf
<1>3. LogOf(d)[r] = l
  BY DEF LogOf
<1>4. \A m \in 1..n : l[m] \in Event
  <2> HIDE DEF S, n
  <2> QED
    BY <1>1, <1>2
<1>5. l \in Seq(Event) /\ Len(l) = n
  <2>1. l \in [1..n -> Event]
    <3> HIDE DEF S, n
    <3> QED
      BY <1>4
  <2> HIDE DEF S, n, l
  <2> QED
    BY <1>1, <2>1
<1>6. ASSUME NEW s \in S PROVE l[s.seq] = s.ev
  <2> HIDE DEF S, n
  <2>1. s.seq \in 1..n
    BY <1>1
  <2>2. (CHOOSE t \in S : t.seq = s.seq) = s
    BY <1>1
  <2> QED
    BY <2>1, <2>2
<1> HIDE DEF S, n, l
<1> QED
  BY <1>1, <1>3, <1>5, <1>6 DEF S, n

(* Databases that agree in their events and counts have one log. *)
LEMMA SameLog ==
  ASSUME NEW d, NEW D, D.events = d.events, \A r \in Runs : D.run[r].count = d.run[r].count
  PROVE  LogOf(D) = LogOf(d)
BY DEF LogOf, EventsOf
-----------------------------------------------------------------------------
(* What a transaction has made of the database it started from: its view   *)
(* holds in addition the fresh events before its position in the batch,    *)
(* under the next ingest sequences of their runs.                          *)

FreshBefore(K, b, p) ==
  {i \in DOMAIN b : /\ i < p
                    /\ b[i].valid
                    /\ b[i].key \notin K
                    /\ \A j \in 1..(i - 1) : b[j].valid => b[j].key # b[i].key}

FreshFor(K, b, p, r) == {i \in FreshBefore(K, b, p) : b[i].run = r}

Below(S, i) == {j \in S : j < i}

Entry(b, S, count, i) == [ev |-> b[i], seq |-> count + 1 + Cardinality(Below(S, i))]

SeenKeys(b, p) == {b[i].key : i \in {j \in DOMAIN b : j < p /\ b[j].valid}}

Grown(d, D, b, p) ==
  /\ KeysIn(D) = KeysIn(d) \cup SeenKeys(b, p)
  /\ \A r \in Runs :
       LET S == FreshFor(KeysIn(d), b, p, r)
       IN /\ EventsOf(D, r) = EventsOf(d, r) \cup {Entry(b, S, d.run[r].count, i) : i \in S}
          /\ D.run[r].count = d.run[r].count + Cardinality(S)

(* The fresh events of a batch are finitely many. *)
LEMMA FreshIsFinite ==
  ASSUME NEW b \in Seq(Event), NEW K, NEW p, NEW r
  PROVE  /\ FreshFor(K, b, p, r) \in SUBSET (1..Len(b))
         /\ FreshFor(K, b, p, r) \in SUBSET Nat
         /\ IsFiniteSet(FreshFor(K, b, p, r))
         /\ Cardinality(FreshFor(K, b, p, r)) \in Nat
<1>1. FreshFor(K, b, p, r) \in SUBSET (1..Len(b))
  BY DEF FreshFor, FreshBefore
<1>2. IsFiniteSet(1..Len(b))
  BY FS_Interval
<1> QED
  BY <1>1, <1>2, FS_Subset, FS_CardinalityType

(* Before its first event a transaction has added nothing.                 *)
LEMMA GrownStart ==
  ASSUME NEW d, Sound(d), NEW b \in Seq(Event)
  PROVE  Grown(d, d, b, 1)
<1>1. \A i \in DOMAIN b : ~(i < 1)
  OBVIOUS
<1>2. SeenKeys(b, 1) = {} /\ \A r \in Runs : FreshFor(KeysIn(d), b, 1, r) = {}
  BY <1>1 DEF SeenKeys, FreshFor, FreshBefore
<1>3. \A r \in Runs : d.run[r].count + Cardinality({}) = d.run[r].count
  BY FS_EmptySet DEF Sound, Database, RunRow
<1>4. ASSUME NEW r \in Runs
      PROVE  {Entry(b, {}, d.run[r].count, i) : i \in {}} = {}
  OBVIOUS
<1> QED
  BY <1>2, <1>3, <1>4 DEF Grown

(* What the next event of the batch adds to these sets. *)
LEMMA SeenOneMore ==
  ASSUME NEW b \in Seq(Event), NEW p \in 1..Len(b)
  PROVE  SeenKeys(b, p + 1) = SeenKeys(b, p) \cup (IF b[p].valid THEN {b[p].key} ELSE {})
<1>1. \A i \in DOMAIN b : i < p + 1 <=> i < p \/ i = p
  OBVIOUS
<1>2. p \in DOMAIN b
  OBVIOUS
<1> QED
  BY <1>1, <1>2 DEF SeenKeys

(* And to the fresh events of a run. *)
LEMMA FreshOneMore ==
  ASSUME NEW b \in Seq(Event), NEW K, NEW p \in 1..Len(b), NEW r \in Runs
  PROVE  FreshFor(K, b, p + 1, r) =
           FreshFor(K, b, p, r) \cup
             (IF b[p].valid /\ b[p].key \notin K \cup SeenKeys(b, p) /\ b[p].run = r
              THEN {p} ELSE {})
<1>1. \A i \in DOMAIN b : i < p + 1 <=> i < p \/ i = p
  OBVIOUS
<1>2. p \in DOMAIN b /\ ~(p < p)
  OBVIOUS
<1>4. (\A j \in 1..(p - 1) : b[j].valid => b[j].key # b[p].key) <=> b[p].key \notin SeenKeys(b, p)
  <2>1. 1..(p - 1) = {j \in DOMAIN b : j < p}
    OBVIOUS
  <2> QED
    BY <2>1 DEF SeenKeys
<1>5. p \in FreshBefore(K, b, p + 1) <=> b[p].valid /\ b[p].key \notin K \cup SeenKeys(b, p)
  BY <1>1, <1>2, <1>4 DEF FreshBefore
<1>6. \A i \in DOMAIN b \ {p} : i \in FreshBefore(K, b, p + 1) <=> i \in FreshBefore(K, b, p)
  BY <1>1 DEF FreshBefore
<1>7. /\ p \notin FreshBefore(K, b, p)
      /\ FreshBefore(K, b, p) \subseteq DOMAIN b
      /\ FreshBefore(K, b, p + 1) \subseteq DOMAIN b
  BY <1>2 DEF FreshBefore
<1> QED
  BY <1>2, <1>5, <1>6, <1>7 DEF FreshFor

(* A repeat and an invalid event add nothing. *)
LEMMA GrownSkip ==
  ASSUME NEW d, NEW D, NEW b \in Seq(Event), NEW p \in 1..Len(b), Grown(d, D, b, p),
         b[p].valid => b[p].key \in KeysIn(D)
  PROVE  Grown(d, D, b, p + 1)
<1>1. KeysIn(D) = KeysIn(d) \cup SeenKeys(b, p)
  BY DEF Grown
<1>2. KeysIn(D) = KeysIn(d) \cup SeenKeys(b, p + 1)
  BY <1>1, SeenOneMore
<1>3. ASSUME NEW r \in Runs
      PROVE  FreshFor(KeysIn(d), b, p + 1, r) = FreshFor(KeysIn(d), b, p, r)
  <2>1. ~(b[p].valid /\ b[p].key \notin KeysIn(d) \cup SeenKeys(b, p))
    BY <1>1
  <2>2. FreshFor(KeysIn(d), b, p + 1, r) =
          FreshFor(KeysIn(d), b, p, r) \cup
            (IF b[p].valid /\ b[p].key \notin KeysIn(d) \cup SeenKeys(b, p) /\ b[p].run = r
             THEN {p} ELSE {})
    BY FreshOneMore
  <2> QED
    BY <2>1, <2>2
<1> QED
  BY <1>2, <1>3 DEF Grown

(* Nor does what leaves events and counts alone. *)
LEMMA GrownSame ==
  ASSUME NEW d, NEW D, NEW n, NEW b, NEW p, Grown(d, D, b, p),
         n.events = D.events, \A r \in Runs : n.run[r].count = D.run[r].count
  PROVE  Grown(d, n, b, p)
BY DEF Grown, KeysIn, EventsOf

(* A new event takes the next sequence of its run, and leaves the places   *)
(* of the earlier ones.                                                    *)
LEMMA GrownInsert ==
  ASSUME NEW d, Sound(d), NEW D, Sound(D), NEW b \in Seq(Event), NEW p \in 1..Len(b),
         Grown(d, D, b, p), b[p].valid, b[p].key \notin KeysIn(D)
  PROVE  Grown(d, InsertEvent(D, b[p]), b, p + 1)
<1> DEFINE e == b[p]
           K == KeysIn(d)
           n == InsertEvent(D, e)
           S(r) == FreshFor(K, b, p, r)
           T(r) == FreshFor(K, b, p + 1, r)
<1>1. KeysIn(D) = K \cup SeenKeys(b, p)
  BY DEF Grown
<1>2. /\ SeenKeys(b, p + 1) = SeenKeys(b, p) \cup {e.key}
      /\ \A r \in Runs : T(r) = IF r = e.run THEN S(r) \cup {p} ELSE S(r)
  <2>1. SeenKeys(b, p + 1) = SeenKeys(b, p) \cup {e.key}
    BY SeenOneMore
  <2>2. ASSUME NEW r \in Runs
        PROVE  T(r) = IF r = e.run THEN S(r) \cup {p} ELSE S(r)
    <3>1. T(r) = S(r) \cup (IF e.valid /\ e.key \notin K \cup SeenKeys(b, p) /\ e.run = r
                           THEN {p} ELSE {})
      BY FreshOneMore
    <3>2. e.valid /\ e.key \notin K \cup SeenKeys(b, p)
      BY <1>1
    <3> HIDE DEF S, T, K, e
    <3> QED
      BY <3>1, <3>2
  <2> QED
    BY <2>1, <2>2
<1>3. e \in Event /\ e.run \in Runs
  <2>1. e \in Event
    OBVIOUS
  <2> QED
    BY <2>1 DEF Event
<1>4. /\ n.events = D.events \cup {[ev |-> e, seq |-> D.run[e.run].count + 1]}
      /\ n.run[e.run].count = D.run[e.run].count + 1
      /\ \A r \in Runs : r # e.run => n.run[r] = D.run[r]
  <2>1. D.run[e.run] \in RunRow /\ D.run[e.run].next = D.run[e.run].count + 1
    BY <1>3 DEF Sound, Exact, SummaryOf, Database
  <2>2. /\ EnsureRun(D.run[e.run], e).next = D.run[e.run].next
        /\ EnsureRun(D.run[e.run], e).count = D.run[e.run].count
    BY <1>3 DEF EnsureRun, AbsentRun, Sound, Exact
  <2> QED
    BY <1>3, <2>1, <2>2 DEF InsertEvent, UpdateRun, Sound, Database
<1>5. KeysIn(n) = K \cup SeenKeys(b, p + 1)
  <2>1. KeysIn(n) = KeysIn(D) \cup {e.key}
    <3> DEFINE x == [ev |-> e, seq |-> D.run[e.run].count + 1]
    <3>1. x.ev.key = e.key
      OBVIOUS
    <3>2. n.events = D.events \cup {x}
      BY <1>4
    <3> HIDE DEF n, x, e
    <3> QED
      BY <3>1, <3>2 DEF KeysIn
  <2> HIDE DEF n
  <2> QED
    BY <1>1, <1>2, <2>1
<1>6. ASSUME NEW r \in Runs
      PROVE  /\ EventsOf(n, r) = EventsOf(d, r) \cup {Entry(b, T(r), d.run[r].count, i) : i \in T(r)}
             /\ n.run[r].count = d.run[r].count + Cardinality(T(r))
  <2>1. /\ EventsOf(D, r) = EventsOf(d, r) \cup {Entry(b, S(r), d.run[r].count, i) : i \in S(r)}
        /\ D.run[r].count = d.run[r].count + Cardinality(S(r))
    BY DEF Grown
  <2>2. CASE r # e.run
    <3>1. T(r) = S(r)
      BY <1>2, <2>2
    <3>2. EventsOf(n, r) = EventsOf(D, r) /\ n.run[r] = D.run[r]
      BY <1>4, <2>2 DEF EventsOf
    <3> HIDE DEF S, T, n
    <3> QED
      BY <2>1, <3>1, <3>2
  <2>3. CASE r = e.run
    <3>1. T(r) = S(r) \cup {p}
      BY <1>2, <2>3
    <3>2. /\ S(r) \in SUBSET Nat /\ IsFiniteSet(S(r)) /\ Cardinality(S(r)) \in Nat
          /\ \A i \in S(r) : i < p
          /\ d.run[r].count \in Nat
      <4>1. S(r) \in SUBSET Nat /\ IsFiniteSet(S(r)) /\ Cardinality(S(r)) \in Nat
        BY FreshIsFinite
      <4>2. \A i \in S(r) : i < p
        BY DEF FreshFor, FreshBefore
      <4>3. d.run[r].count \in Nat
        BY DEF Sound, Database, RunRow
      <4> QED
        BY <4>1, <4>2, <4>3
    <3>3. Cardinality(T(r)) = Cardinality(S(r)) + 1
      <4>1. p \notin S(r)
        BY <3>2
      <4> HIDE DEF S, T
      <4> QED
        BY <3>1, <3>2, <4>1, FS_AddElement
    <3>4. Below(T(r), p) = S(r) /\ \A i \in S(r) : Below(T(r), i) = Below(S(r), i)
      <4>1. \A i \in S(r) : ~(p < i)
        BY <3>2
      <4> HIDE DEF S, T
      <4> QED
        BY <3>1, <3>2, <4>1 DEF Below
    <3>5. EventsOf(n, r) = EventsOf(D, r) \cup {[ev |-> e, seq |-> D.run[r].count + 1]}
      BY <1>4, <2>3 DEF EventsOf
    <3>6. Entry(b, T(r), d.run[r].count, p) = [ev |-> e, seq |-> D.run[r].count + 1]
      <4>1. d.run[r].count + 1 + Cardinality(S(r)) = D.run[r].count + 1
        <5> HIDE DEF S
        <5> QED
          BY <2>1, <3>2
      <4> HIDE DEF S, T
      <4> QED
        BY <3>4, <4>1 DEF Entry
    <3>7. \A i \in S(r) : Entry(b, T(r), d.run[r].count, i) = Entry(b, S(r), d.run[r].count, i)
      <4> HIDE DEF S, T
      <4> QED
        BY <3>4 DEF Entry
    <3>8. {Entry(b, T(r), d.run[r].count, i) : i \in T(r)} =
            {Entry(b, S(r), d.run[r].count, i) : i \in S(r)} \cup
              {[ev |-> e, seq |-> D.run[r].count + 1]}
      <4> HIDE DEF S, T
      <4> QED
        BY <3>1, <3>6, <3>7
    <3>9. n.run[r].count = d.run[r].count + Cardinality(T(r))
      <4>1. n.run[r].count = D.run[r].count + 1
        BY <1>4, <2>3
      <4> HIDE DEF S, T, n
      <4> QED
        BY <2>1, <3>2, <3>3, <4>1
    <3> HIDE DEF S, T, n
    <3> QED
      BY <2>1, <3>5, <3>8, <3>9
  <2> QED
    BY <2>2, <2>3
<1> QED
  BY <1>5, <1>6 DEF Grown

(* What a sequence must agree with to be a concatenation. *)
LEMMA Concatenation ==
  ASSUME NEW T, NEW s \in Seq(T), NEW t \in Seq(T), NEW u \in Seq(T), Len(u) = Len(s) + Len(t),
         \A n \in 1..Len(s) : u[n] = s[n],
         \A m \in 1..Len(t) : u[Len(s) + m] = t[m]
  PROVE  u = s \o t
<1>1. s \o t \in Seq(T) /\ Len(s \o t) = Len(s) + Len(t)
  OBVIOUS
<1>2. ASSUME NEW n \in 1..Len(u)
      PROVE  u[n] = (s \o t)[n]
  <2>0. n \in Nat /\ Len(s) \in Nat /\ Len(t) \in Nat
    OBVIOUS
  <2>1. CASE n <= Len(s)
    <3>1. (s \o t)[n] = s[n]
      BY <2>0, <2>1
    <3> QED
      BY <2>0, <2>1, <3>1
  <2>2. CASE ~(n <= Len(s))
    <3>1. n - Len(s) \in 1..Len(t) /\ Len(s) + (n - Len(s)) = n
      BY <2>0, <2>2
    <3>2. u[n] = t[n - Len(s)]
      BY <3>1
    <3>3. (s \o t)[n] = t[n - Len(s)]
      BY <2>0, <2>2
    <3> QED
      BY <3>2, <3>3
  <2> QED
    BY <2>1, <2>2
<1> QED
  BY <1>1, <1>2

(* The fresh events of a batch, in its order. *)
InBatchOrder(b, S) ==
  [n \in 1..Cardinality(S) |-> b[CHOOSE i \in S : Cardinality({j \in S : j < i}) = n - 1]]

(* The log of what a transaction made is the log it started from with the  *)
(* fresh events of its batch appended to each run.                         *)
LEMMA GrownLog ==
  ASSUME NEW d, Sound(d), NEW D, Sound(D), NEW b \in Seq(Event), NEW p, Grown(d, D, b, p),
         NEW r \in Runs
  PROVE  LogOf(D)[r] = LogOf(d)[r] \o InBatchOrder(b, FreshFor(KeysIn(d), b, p, r))
<1> DEFINE S == FreshFor(KeysIn(d), b, p, r)
           old == LogOf(d)[r]
           new == LogOf(D)[r]
           tail == InBatchOrder(b, S)
           count == d.run[r].count
           at(m) == CHOOSE i \in S : Cardinality({j \in S : j < i}) = m - 1
<1>1. /\ old \in Seq(Event) /\ Len(old) = count /\ count \in Nat
      /\ \A s \in EventsOf(d, r) : s.seq \in 1..count /\ old[s.seq] = s.ev
      /\ \A n \in 1..count : \E s \in EventsOf(d, r) : s.seq = n
  BY LogEntries
<1>2. /\ new \in Seq(Event) /\ Len(new) = D.run[r].count
      /\ \A s \in EventsOf(D, r) : new[s.seq] = s.ev
  BY LogEntries
<1>3. /\ S \in SUBSET (1..Len(b)) /\ S \in SUBSET Nat /\ IsFiniteSet(S) /\ Cardinality(S) \in Nat
  BY FreshIsFinite
<1>4. /\ EventsOf(D, r) = EventsOf(d, r) \cup {Entry(b, S, count, i) : i \in S}
      /\ D.run[r].count = count + Cardinality(S)
  BY DEF Grown
<1>5. ASSUME NEW m \in 1..Cardinality(S)
      PROVE  /\ at(m) \in S
             /\ Cardinality(Below(S, at(m))) = m - 1
             /\ tail[m] = b[at(m)]
  <2>1. \E i \in S : Cardinality({j \in S : j < i}) = m - 1
    <3> HIDE DEF S
    <3> QED
      BY <1>3, EveryPositionIsTaken
  <2> QED
    <3> HIDE DEF S
    <3> QED
      BY <2>1 DEF Below, InBatchOrder
<1>6. tail \in Seq(Event) /\ Len(tail) = Cardinality(S)
  <2>1. \A m \in 1..Cardinality(S) : tail[m] \in Event
    <3>1. \A i \in 1..Len(b) : b[i] \in Event
      OBVIOUS
    <3> HIDE DEF S, tail, at
    <3> QED
      BY <1>3, <1>5, <3>1
  <2>2. tail = [m \in 1..Cardinality(S) |-> tail[m]]
    BY DEF InBatchOrder
  <2>3. tail \in [1..Cardinality(S) -> Event]
    <3> HIDE DEF S, tail
    <3> QED
      BY <2>1, <2>2
  <2> HIDE DEF S, tail
  <2> QED
    BY <1>3, <2>3
<1>7. ASSUME NEW n \in 1..count
      PROVE  new[n] = old[n]
  <2>1. PICK s \in EventsOf(d, r) : s.seq = n
    BY <1>1
  <2> HIDE DEF old, new, S
  <2> QED
    BY <1>1, <1>2, <1>4, <2>1
<1>8. ASSUME NEW m \in 1..Cardinality(S)
      PROVE  new[count + m] = tail[m]
  <2> DEFINE x == Entry(b, S, count, at(m))
  <2>1. x.ev = b[at(m)] /\ x.seq = count + m
    <3>1. x.ev = b[at(m)] /\ x.seq = count + 1 + Cardinality(Below(S, at(m)))
      BY DEF Entry
    <3>2. Cardinality(Below(S, at(m))) = m - 1
      BY <1>5
    <3>3. m \in Nat
      BY <1>3
    <3> HIDE DEF x, at, S, count
    <3> QED
      BY <1>1, <3>1, <3>2, <3>3
  <2>2. x \in EventsOf(D, r)
    <3> HIDE DEF at, S
    <3> QED
      BY <1>4, <1>5
  <2> HIDE DEF x, at, S, old, new, tail
  <2> QED
    BY <1>2, <1>5, <2>1, <2>2
<1>9. new = old \o tail
  <2> HIDE DEF S, old, new, tail, count
  <2>1. Len(new) = Len(old) + Len(tail)
    BY <1>1, <1>2, <1>4, <1>6
  <2>2. /\ \A n \in 1..Len(old) : new[n] = old[n]
        /\ \A m \in 1..Len(tail) : new[Len(old) + m] = tail[m]
    BY <1>1, <1>6, <1>7, <1>8
  <2> QED
    BY <1>1, <1>2, <1>6, <2>1, <2>2, Concatenation
<1> QED
  BY <1>9
-----------------------------------------------------------------------------
(* The invariant: a transaction that may still commit has made of the      *)
(* database what the beginning of its batch makes of it.                   *)

SoundInv == Sound(db) /\ \A c \in Conns : Sound(tx[c].view)

Growing(c) ==
  tx[c].pc # "idle" /\ tx[c].target = None =>
    /\ tx[c].batch \in Batches
    /\ tx[c].snapshot = "none" => tx[c].pos = 1
    /\ tx[c].pc = "write" => Current(c).valid
    /\ tx[c].snapshot # "stale" => Grown(db, ViewOf(c), tx[c].batch, tx[c].pos)

GrowthInv == \A c \in Conns : Growing(c) /\ Checked(c)

(* Every view is sound. *)
LEMMA SoundAlways == Spec => []SoundInv
<1>1. TypeOK /\ Finite /\ ExactInv => SoundInv
  BY DEF TypeOK, Transaction, Finite, ExactInv, SoundInv, Sound
<1> QED
  BY <1>1, TypeCorrect, FiniteAlways, ExactAlways, PTL

(* What the assumption says of batches, one by one. *)
LEMMA BatchesAreSequences == \A b \in Batches : b \in Seq(Event)
BY EventStoreAssumption

(* The commit of another connection leaves a transaction without a         *)
(* snapshot, which has done nothing, or with a stale one.                  *)
LEMMA GrowthOutdated ==
  ASSUME Sound(db'), NEW c \in Conns, Growing(c),
         tx'[c].pc = tx[c].pc, tx'[c].target = tx[c].target, tx'[c].pos = tx[c].pos,
         tx'[c].batch = tx[c].batch, tx'[c].snapshot # "fresh",
         tx'[c].snapshot \in {"none", "fresh", "stale"},
         tx'[c].snapshot = "none" => tx[c].snapshot = "none"
  PROVE  Growing(c)'
<1> SUFFICES ASSUME tx'[c].pc # "idle", tx'[c].target = None
             PROVE  /\ tx'[c].batch \in Batches
                    /\ tx'[c].snapshot = "none" => tx'[c].pos = 1
                    /\ tx'[c].pc = "write" => Current(c)'.valid
                    /\ tx'[c].snapshot # "stale" =>
                         Grown(db', ViewOf(c)', tx'[c].batch, tx'[c].pos)
  BY DEF Growing
<1>1. /\ tx[c].batch \in Batches
      /\ tx[c].snapshot = "none" => tx[c].pos = 1
      /\ tx[c].pc = "write" => Current(c).valid
  BY DEF Growing
<1>2. Current(c)' = Current(c)
  BY DEF Current
<1>3. ASSUME tx'[c].snapshot # "stale"
      PROVE  Grown(db', ViewOf(c)', tx'[c].batch, tx'[c].pos)
  <2>1. tx'[c].snapshot = "none" /\ tx'[c].pos = 1
    BY <1>1, <1>3
  <2>2. ViewOf(c)' = db'
    BY <2>1 DEF ViewOf
  <2>3. Grown(db', db', tx'[c].batch, 1)
    BY <1>1, BatchesAreSequences, GrownStart
  <2> QED
    BY <2>1, <2>2, <2>3
<1> QED
  BY <1>1, <1>2, <1>3

(* A step of another connection keeps it. *)
LEMMA GrowthOthers ==
  ASSUME TypeOK, TypeOK', Sound(db'), NEW c \in Conns, Growing(c), NEW k \in Conns, k # c,
         \/ \E b \in Batches : BeginInsert(k, b)
         \/ \E r \in Runs : DeleteBegin(k, r)
         \/ Step(k) \/ Abort(k)
  PROVE  Growing(c)'
<1>1. ASSUME tx'[c] = tx[c], db' = db
      PROVE  Growing(c)'
  BY <1>1 DEF Growing, Current, ViewOf
<1>2. CASE Commit(k) /\ writer = k
  <2>1. tx' = [Outdated(tx) EXCEPT ![k] = Idle("stored")]
    BY <1>2 DEF Commit
  <2>2. tx'[c] = Outdated(tx)[c]
    BY <2>1, OutdatedType DEF TypeOK
  <2>3. tx'[c].snapshot \in {"none", "fresh", "stale"}
    BY DEF TypeOK, Transaction
  <2>4. /\ tx'[c].pc = tx[c].pc /\ tx'[c].target = tx[c].target /\ tx'[c].pos = tx[c].pos
        /\ tx'[c].batch = tx[c].batch /\ tx'[c].snapshot # "fresh"
        /\ tx'[c].snapshot = "none" => tx[c].snapshot = "none"
    BY <2>2, OutdatedType, OutdatedNone DEF TypeOK
  <2> QED
    BY <2>3, <2>4, GrowthOutdated
<1>3. CASE Commit(k) /\ writer # k
  BY <1>1, <1>3 DEF Commit, TypeOK
<1>4. CASE \/ \E b \in Batches : BeginInsert(k, b)
           \/ \E r \in Runs : DeleteBegin(k, r)
           \/ CheckDuplicate(k) \/ Busy(k) \/ WriteEvent(k) \/ WriteQuarantine(k)
           \/ DeleteWrite(k) \/ RejectEvent(k) \/ Abort(k)
  BY <1>1, <1>4 DEF TypeOK, BeginInsert, DeleteBegin, CheckDuplicate, Busy, WriteEvent,
                    WriteQuarantine, DeleteWrite, RejectEvent, Abort
<1> QED
  BY <1>2, <1>3, <1>4 DEF Step

(* So does a step of its own. *)
LEMMA GrowthOwn ==
  ASSUME TypeOK, SoundInv, Isolation, NEW c \in Conns, Growing(c), Checked(c),
         \/ \E b \in Batches : BeginInsert(c, b)
         \/ \E r \in Runs : DeleteBegin(c, r)
         \/ Step(c) \/ Abort(c)
  PROVE  Growing(c)'
<1> USE EventStoreAssumption
<1>0. Isolated(c) /\ tx[c] \in Transaction /\ Sound(db) /\ Sound(tx[c].view)
  BY DEF Isolation, TypeOK, SoundInv
<1>1. ASSUME tx'[c].pc = "idle" \/ tx'[c].target # None
      PROVE  Growing(c)'
  BY <1>1 DEF Growing
<1>a. ASSUME NEW b \in Batches, tx'[c].batch = b, NEW p \in Nat, tx'[c].pos = p, NEW v, tx'[c].view = v,
             tx'[c].snapshot # "none", tx'[c].pc = "write" => b[p].valid, db' = db,
             tx'[c].snapshot # "stale" => Grown(db, v, b, p)
      PROVE  Growing(c)'
  BY <1>a DEF Growing, Current, ViewOf
<1>b. ASSUME HasNext(c)
      PROVE  /\ tx[c].target = None /\ tx[c].pc = "next"
             /\ tx[c].batch \in Batches /\ tx[c].batch \in Seq(Event)
             /\ tx[c].pos \in 1..Len(tx[c].batch)
             /\ tx[c].snapshot # "stale" => Grown(db, ViewOf(c), tx[c].batch, tx[c].pos)
  <2>1. tx[c].target = None /\ tx[c].pc = "next"
    BY <1>0, <1>b DEF HasNext, Isolated, Transaction
  <2>2. tx[c].batch \in Batches /\ tx[c].batch \in Seq(Event)
    BY <2>1, BatchesAreSequences DEF Growing
  <2>3. tx[c].pos \in 1..Len(tx[c].batch)
    BY <1>0, <1>b, <2>2 DEF HasNext, Transaction
  <2> QED
    BY <2>1, <2>2, <2>3 DEF Growing
<1>2. CASE \E b \in Batches : BeginInsert(c, b)
  <2>1. PICK b \in Batches : BeginInsert(c, b)
    BY <1>2
  <2>2. tx' = [tx EXCEPT ![c] = [Idle("none") EXCEPT !.pc = "next", !.batch = b]] /\ db' = db
    BY <2>1 DEF BeginInsert
  <2>3. /\ tx'[c].pc = "next" /\ tx'[c].batch = b /\ tx'[c].pos = 1
        /\ tx'[c].snapshot = "none"
    BY <2>2 DEF TypeOK, Idle
  <2>4. Grown(db, db, b, 1)
    BY <1>0, BatchesAreSequences, GrownStart
  <2> QED
    BY <2>2, <2>3, <2>4 DEF Growing, ViewOf
<1>3. CASE \E r \in Runs : DeleteBegin(c, r)
  BY <1>1, <1>3 DEF DeleteBegin, TypeOK, Idle
<1>4. CASE CheckDuplicate(c)
  <2> DEFINE b == tx[c].batch
             p == tx[c].pos
             v == ViewOf(c)
             duplicate == b[p].key \in KeysIn(v)
  <2>1. HasNext(c) /\ b[p].valid /\ db' = db
    BY <1>4 DEF CheckDuplicate, Current
  <2>2. /\ tx'[c].snapshot = IF tx[c].snapshot = "none" THEN "fresh" ELSE tx[c].snapshot
        /\ tx'[c].view = v /\ tx'[c].batch = b
        /\ tx'[c].pc = IF duplicate THEN "next" ELSE "write"
        /\ tx'[c].pos = IF duplicate THEN p + 1 ELSE p
    BY <1>0, <1>4 DEF CheckDuplicate, TypeOK, Transaction, Current
  <2>3. /\ b \in Batches /\ b \in Seq(Event) /\ p \in 1..Len(b)
        /\ tx[c].snapshot # "stale" => Grown(db, v, b, p)
    BY <1>b, <2>1
  <2>4. tx'[c].snapshot # "none" /\ (tx'[c].snapshot = "stale" <=> tx[c].snapshot = "stale")
    BY <2>2
  <2> HIDE DEF b, p, v
  <2>5. p \in Nat /\ p + 1 \in Nat
    BY <2>3
  <2>6. CASE duplicate
    <3>1. tx[c].snapshot # "stale" => Grown(db, v, b, p + 1)
      BY <2>3, <2>6, GrownSkip
    <3>2. tx'[c].pc = "next" /\ tx'[c].pos = p + 1
      BY <2>2, <2>6
    <3> QED
      BY <1>a, <2>1, <2>2, <2>3, <2>4, <2>5, <3>1, <3>2
  <2>7. CASE ~duplicate
    <3>1. tx'[c].pos = p
      BY <2>2, <2>7
    <3> QED
      BY <1>a, <2>1, <2>2, <2>3, <2>4, <2>5, <3>1
  <2> QED
    BY <2>6, <2>7
<1>5. CASE WriteEvent(c)
  <2> DEFINE b == tx[c].batch
             p == tx[c].pos
             v == tx[c].view
  <2>1. tx[c].target = None /\ tx[c].pc = "write" /\ CanWrite(c) /\ db' = db
    BY <1>5 DEF WriteEvent
  <2>2. /\ tx'[c].view = InsertEvent(v, b[p]) /\ tx'[c].pc = "next" /\ tx'[c].pos = p + 1
        /\ tx'[c].batch = b /\ tx'[c].snapshot = tx[c].snapshot
    BY <1>0, <1>5 DEF WriteEvent, TypeOK, Transaction, Current
  <2>3. tx[c].snapshot = "fresh"
    BY <1>0, <2>1 DEF Isolated, CanWrite, Transaction
  <2>4. b \in Batches /\ b \in Seq(Event)
    BY <2>1, BatchesAreSequences DEF Growing
  <2>5. p \in 1..Len(b)
    BY <1>0, <2>1, <2>4 DEF TypeOK, Transaction
  <2>6. Grown(db, v, b, p)
    BY <2>1, <2>3 DEF Growing, ViewOf
  <2>7. b[p].valid /\ b[p].key \notin KeysIn(v)
    BY <2>1 DEF Growing, Checked, Current
  <2>8. Sound(v)
    BY <1>0
  <2> HIDE DEF b, p, v
  <2>9. Grown(db, InsertEvent(v, b[p]), b, p + 1)
    BY <1>0, <2>4, <2>5, <2>6, <2>7, <2>8, GrownInsert
  <2> QED
    BY <1>a, <2>1, <2>2, <2>3, <2>4, <2>5, <2>9
<1>6. CASE WriteQuarantine(c)
  <2> DEFINE b == tx[c].batch
             p == tx[c].pos
             v == ViewOf(c)
  <2>1. HasNext(c) /\ ~b[p].valid /\ db' = db /\ CanWrite(c)
    BY <1>6 DEF WriteQuarantine, Current
  <2>2. /\ tx'[c].view = QuarantineEvent(v) /\ tx'[c].pc = "next" /\ tx'[c].pos = p + 1
        /\ tx'[c].batch = b /\ tx'[c].snapshot = "fresh"
    BY <1>0, <1>6 DEF WriteQuarantine, HasNext, TypeOK, Transaction
  <2>3. tx[c].snapshot # "stale"
    BY <1>0, <2>1 DEF Isolated, CanWrite
  <2>4. b \in Batches /\ b \in Seq(Event) /\ p \in 1..Len(b) /\ Grown(db, v, b, p)
    BY <1>b, <2>1, <2>3
  <2>5. v \in Database
    BY ViewType
  <2> HIDE DEF b, p, v
  <2>6. Grown(db, v, b, p + 1)
    BY <2>1, <2>4, GrownSkip
  <2>7. QuarantineEvent(v).events = v.events /\ QuarantineEvent(v).run = v.run
    BY <2>5 DEF QuarantineEvent, Database
  <2>8. Grown(db, QuarantineEvent(v), b, p + 1)
    BY <2>6, <2>7, GrownSame
  <2> QED
    BY <1>a, <2>1, <2>2, <2>4, <2>8
<1>7. CASE DeleteWrite(c)
  BY <1>1, <1>7 DEF DeleteWrite, TypeOK, Transaction
<1>8. CASE RejectEvent(c) \/ Busy(c) \/ Abort(c)
  BY <1>1, <1>8 DEF RejectEvent, Busy, Abort, TypeOK, Idle
<1>9. CASE Commit(c)
  BY <1>1, <1>9, OutdatedType DEF TypeOK, Idle, Commit
<1> QED
  BY <1>2, <1>3, <1>4, <1>5, <1>6, <1>7, <1>8, <1>9 DEF Step

(* And so does every step. *)
LEMMA GrowthStep ==
  ASSUME TypeOK, TypeOK', SoundInv, SoundInv', Isolation, GrowthInv, [Next]_vars
  PROVE  GrowthInv'
<1>0. Sound(db')
  BY DEF SoundInv
<1>1. ASSUME (\E r \in Runs, at \in Clock : MarkRunIncomplete(r, at)) \/ OtherCommit,
             NEW c \in Conns
      PROVE  Growing(c)'
  <2>1. tx' = Outdated(tx)
    BY <1>1 DEF MarkRunIncomplete, OtherCommit
  <2>2. tx'[c].snapshot \in {"none", "fresh", "stale"}
    BY DEF TypeOK, Transaction
  <2>3. /\ tx'[c].pc = tx[c].pc /\ tx'[c].target = tx[c].target /\ tx'[c].pos = tx[c].pos
        /\ tx'[c].batch = tx[c].batch /\ tx'[c].snapshot # "fresh"
        /\ tx'[c].snapshot = "none" => tx[c].snapshot = "none"
    BY <2>1, OutdatedType, OutdatedNone DEF TypeOK
  <2> QED
    BY <1>0, <2>2, <2>3, GrowthOutdated DEF GrowthInv
<1>2. ASSUME UNCHANGED vars, NEW c \in Conns
      PROVE  Growing(c)'
  <2>1. Growing(c)
    BY DEF GrowthInv
  <2> QED
    BY <1>2, <2>1 DEF vars, Growing, Current, ViewOf
<1>3. ASSUME NEW c \in Conns, NEW k \in Conns,
             \/ \E b \in Batches : BeginInsert(k, b)
             \/ \E r \in Runs : DeleteBegin(k, r)
             \/ Step(k) \/ Abort(k)
      PROVE  Growing(c)'
  <2>1. Growing(c) /\ Checked(c)
    BY DEF GrowthInv
  <2>2. CASE k = c
    BY <1>3, <2>1, <2>2, GrowthOwn
  <2>3. CASE k # c
    BY <1>0, <1>3, <2>1, <2>3, GrowthOthers
  <2> QED
    BY <2>2, <2>3
<1>4. \A c \in Conns : Growing(c)'
  BY <1>1, <1>2, <1>3 DEF Next
<1>5. \A c \in Conns : Checked(c)'
  BY CheckedStep DEF GrowthInv
<1> QED
  BY <1>4, <1>5 DEF GrowthInv

(* The invariant holds always. *)
LEMMA GrowthAlways == Spec => []GrowthInv
<1>1. Init => GrowthInv
  BY DEF Init, GrowthInv, Growing, Checked, Idle
<1>2. TypeOK /\ TypeOK' /\ SoundInv /\ SoundInv' /\ Isolation /\ GrowthInv /\ [Next]_vars
        => GrowthInv'
  BY GrowthStep
<1> QED
  BY <1>1, <1>2, TypeCorrect, SoundAlways, IsolationAlways, PTL DEF Spec
-----------------------------------------------------------------------------
(* What changes the database is a commit or an evaluator's UPDATE. *)
LEMMA WhoWrites ==
  ASSUME TypeOK, [Next]_vars
  PROVE  \/ db' = db
         \/ \E c \in Conns : /\ writer = c /\ db' = tx[c].view
                             /\ tx[c].pc = "next" /\ tx[c].pos > Len(tx[c].batch)
         \/ \E r \in Runs, at \in Clock : db' = MarkIncomplete(db, r, at)
<1>1. ASSUME NEW c \in Conns, Commit(c)
      PROVE  \/ db' = db
             \/ /\ writer = c /\ db' = tx[c].view
                /\ tx[c].pc = "next" /\ tx[c].pos > Len(tx[c].batch)
  BY <1>1 DEF Commit
<1>2. ASSUME NEW c \in Conns,
             \/ \E b \in Batches : BeginInsert(c, b)
             \/ \E r \in Runs : DeleteBegin(c, r)
             \/ CheckDuplicate(c) \/ Busy(c) \/ WriteEvent(c) \/ WriteQuarantine(c)
             \/ DeleteWrite(c) \/ RejectEvent(c) \/ Abort(c)
      PROVE  db' = db
  BY <1>2 DEF BeginInsert, DeleteBegin, CheckDuplicate, Busy, WriteEvent, WriteQuarantine,
              DeleteWrite, RejectEvent, Abort
<1>3. ASSUME NEW r \in Runs, NEW at \in Clock, MarkRunIncomplete(r, at)
      PROVE  db' = MarkIncomplete(db, r, at)
  BY <1>3 DEF MarkRunIncomplete
<1>4. ASSUME OtherCommit \/ UNCHANGED vars
      PROVE  db' = db
  BY <1>4 DEF OtherCommit, vars
<1> QED
  BY <1>1, <1>2, <1>3, <1>4 DEF Next, Step

(* The log that RunLog sees is that of the committed database. *)
LEMMA LogIs == Log = LogOf(db) /\ Log' = LogOf(db')
BY DEF Log, LogOf, EventsOf

(* The keys the log holds are those of the database. *)
LEMMA KeysAre ==
  ASSUME Sound(db)
  PROVE  RL!StoredKeys = KeysIn(db)
<1>1. ASSUME NEW r \in Runs
      PROVE  RL!Entries(r) = {s.ev : s \in EventsOf(db, r)}
  <2>1. /\ LogOf(db)[r] \in Seq(Event) /\ Len(LogOf(db)[r]) = db.run[r].count
        /\ \A s \in EventsOf(db, r) : /\ s.seq \in 1..db.run[r].count
                                      /\ LogOf(db)[r][s.seq] = s.ev
        /\ \A n \in 1..db.run[r].count : \E s \in EventsOf(db, r) : s.seq = n
    BY LogEntries
  <2>2. DOMAIN LogOf(db)[r] = 1..db.run[r].count
    BY <2>1
  <2>3. RL!Entries(r) = {LogOf(db)[r][i] : i \in DOMAIN LogOf(db)[r]}
    BY LogIs DEF RL!Entries
  <2> QED
    BY <2>1, <2>2, <2>3
<1>2. \A s \in db.events : s.ev.run \in Runs
  BY DEF Sound, Database, StoredEvent, Event
<1>3. UNION {RL!Entries(r) : r \in Runs} = {s.ev : s \in db.events}
  <2>1. UNION {RL!Entries(r) : r \in Runs} = UNION {{s.ev : s \in EventsOf(db, r)} : r \in Runs}
    BY <1>1
  <2>2. \A s \in db.events : s \in EventsOf(db, s.ev.run)
    BY DEF EventsOf
  <2>3. \A r \in Runs : EventsOf(db, r) \subseteq db.events
    BY DEF EventsOf
  <2> QED
    BY <1>2, <2>1, <2>2, <2>3
<1> QED
  BY <1>3 DEF RL!StoredKeys, KeysIn

(* What RunLog appends for a batch are the fresh events of all of it. *)
LEMMA AddedIs ==
  ASSUME Sound(db), NEW b \in Seq(Event), NEW p \in Nat, p > Len(b), NEW r \in Runs
  PROVE  RL!AddedTo(b, r) = InBatchOrder(b, FreshFor(KeysIn(db), b, p, r))
<1>1. \A i \in DOMAIN b : i < p
  OBVIOUS
<1>2. RL!Fresh(b) = FreshBefore(KeysIn(db), b, p)
  BY <1>1, KeysAre DEF RL!Fresh, FreshBefore
<1>3. {i \in RL!Fresh(b) : b[i].run = r} = FreshFor(KeysIn(db), b, p, r)
  BY <1>2 DEF FreshFor
<1>4. RL!AddedTo(b, r) = InBatchOrder(b, {i \in RL!Fresh(b) : b[i].run = r})
  BY DEF RL!AddedTo, InBatchOrder, RL!Cardinality, Cardinality
<1> QED
  BY <1>3, <1>4

(* The commit of a batch appends it. *)
LEMMA CommitAppends ==
  ASSUME TypeOK, SoundInv, GrowthInv, Isolation, NEW c \in Conns, writer = c, db' = tx[c].view,
         tx[c].pc = "next", tx[c].pos > Len(tx[c].batch), tx[c].target = None
  PROVE  \E b \in Batches : RL!AppendBatch(b)
<1> DEFINE b == tx[c].batch
           p == tx[c].pos
           D == tx[c].view
<1>1. b \in Batches /\ tx[c].snapshot = "fresh" /\ p \in Nat
  BY DEF GrowthInv, Growing, Isolation, Isolated, TypeOK, Transaction
<1>2. Grown(db, D, b, p)
  BY <1>1 DEF GrowthInv, Growing, ViewOf
<1>3. Sound(db) /\ Sound(D) /\ b \in Seq(Event)
  BY <1>1, BatchesAreSequences DEF SoundInv
<1>4. p > Len(b) /\ db' = D
  OBVIOUS
<1> HIDE DEF b, p, D
<1>5. ASSUME NEW r \in Runs
      PROVE  LogOf(D)[r] = LogOf(db)[r] \o RL!AddedTo(b, r)
  <2>1. LogOf(D)[r] = LogOf(db)[r] \o InBatchOrder(b, FreshFor(KeysIn(db), b, p, r))
    BY <1>2, <1>3, GrownLog
  <2>2. RL!AddedTo(b, r) = InBatchOrder(b, FreshFor(KeysIn(db), b, p, r))
    BY <1>1, <1>3, <1>4, AddedIs
  <2> QED
    BY <2>1, <2>2
<1>6. LogOf(D) = [r \in Runs |-> LogOf(D)[r]]
  BY DEF LogOf
<1>7. Log' = [r \in Runs |-> Log[r] \o RL!AddedTo(b, r)]
  BY <1>4, <1>5, <1>6, LogIs
<1> QED
  BY <1>1, <1>7 DEF RL!AppendBatch

(* A run with the same events and the same count has the same log. *)
LEMMA SameLogOfRun ==
  ASSUME NEW d, NEW D, NEW r \in Runs,
         EventsOf(D, r) = EventsOf(d, r), D.run[r].count = d.run[r].count
  PROVE  LogOf(D)[r] = LogOf(d)[r]
<1>1. LogOf(D)[r] = [n \in 1..D.run[r].count |-> (CHOOSE s \in EventsOf(D, r) : s.seq = n).ev]
  BY DEF LogOf
<1>2. LogOf(d)[r] = [n \in 1..d.run[r].count |-> (CHOOSE s \in EventsOf(d, r) : s.seq = n).ev]
  BY DEF LogOf
<1> QED
  BY <1>1, <1>2

(* The commit of a deletion empties one log. *)
LEMMA CommitDeletes ==
  ASSUME TypeOK, Isolation, NEW c \in Conns, writer = c, db' = tx[c].view, tx[c].target # None
  PROVE  \E r \in Runs : RL!DeleteRun(r)
<1> DEFINE r == tx[c].target
<1>1. r \in Runs /\ Removed(db, db', r)
  BY DEF TypeOK, Transaction, Isolation, Isolated
<1>2. db.run \in [Runs -> RunRow]
  BY DEF TypeOK, Database
<1> HIDE DEF r
<1>3. db'.run[r].count = 0 /\ \A q \in Runs \ {r} : db'.run[q] = db.run[q]
  BY <1>1, <1>2 DEF Removed, AbsentRun
<1>4. \A q \in Runs \ {r} : EventsOf(db', q) = EventsOf(db, q)
  BY <1>1 DEF Removed, EventsOf
<1>5. LogOf(db')[r] = <<>>
  <2>1. LogOf(db')[r] = [n \in 1..0 |-> (CHOOSE s \in EventsOf(db', r) : s.seq = n).ev]
    BY <1>1, <1>3 DEF LogOf
  <2>2. 1..0 = {}
    OBVIOUS
  <2> QED
    BY <2>1, <2>2
<1>6. ASSUME NEW q \in Runs \ {r} PROVE LogOf(db')[q] = LogOf(db)[q]
  <2>1. db'.run[q].count = db.run[q].count /\ EventsOf(db', q) = EventsOf(db, q)
    BY <1>3, <1>4
  <2> QED
    BY <2>1, SameLogOfRun
<1>7. LogOf(db') = [LogOf(db) EXCEPT ![r] = <<>>]
  <2>1. LogOf(db') = [q \in Runs |-> LogOf(db')[q]] /\ LogOf(db) = [q \in Runs |-> LogOf(db)[q]]
    BY DEF LogOf
  <2> QED
    BY <1>5, <1>6, <2>1
<1> QED
  BY <1>1, <1>7, LogIs DEF RL!DeleteRun

(* Every step of the store is one step of the log, or none. *)
LEMMA StepImplements ==
  ASSUME TypeOK, SoundInv, GrowthInv, Isolation, [Next]_vars
  PROVE  [RL!Next]_(RL!vars)
<1>1. CASE db' = db
  BY <1>1, LogIs DEF RL!vars
<1>2. ASSUME NEW r \in Runs, NEW at \in Clock, db' = MarkIncomplete(db, r, at)
      PROVE  RL!vars' = RL!vars
  <2>1. /\ db'.events = db.events
        /\ \A q \in Runs : db'.run[q].count = db.run[q].count
    BY <1>2 DEF MarkIncomplete, TypeOK, Database, RunRow
  <2> QED
    BY <2>1, SameLog, LogIs DEF RL!vars
<1>3. ASSUME NEW c \in Conns, writer = c, db' = tx[c].view,
             tx[c].pc = "next", tx[c].pos > Len(tx[c].batch)
      PROVE  RL!Next
  <2>1. CASE tx[c].target = None
    BY <1>3, <2>1, CommitAppends DEF RL!Next
  <2>2. CASE tx[c].target # None
    BY <1>3, <2>2, CommitDeletes DEF RL!Next
  <2> QED
    BY <2>1, <2>2
<1> QED
  BY <1>1, <1>2, <1>3, WhoWrites

(* Concurrent transactions, snapshots, refused upgrades and rollbacks      *)
(* amount to whole batches appended one after the other, each event once   *)
(* and in the order of its batch, for any number of connections.           *)
THEOREM StoreImplementsRunLog == Spec => ImplementsRunLog
<1>1. Init => RL!Init
  <2>1. ASSUME Init PROVE LogOf(db) = [r \in Runs |-> <<>>]
    <3>1. \A r \in Runs : db.run[r].count = 0
      BY <2>1 DEF Init, EmptyDb, AbsentRun
    <3>2. 1..0 = {}
      OBVIOUS
    <3>3. \A r \in Runs : LogOf(db)[r] = <<>>
      BY <3>1, <3>2 DEF LogOf
    <3> QED
      BY <3>3 DEF LogOf
  <2> QED
    BY <2>1, LogIs DEF RL!Init
<1>2. TypeOK /\ SoundInv /\ GrowthInv /\ Isolation /\ [Next]_vars => [RL!Next]_(RL!vars)
  BY StepImplements
<1> QED
  BY <1>1, <1>2, TypeCorrect, SoundAlways, GrowthAlways, IsolationAlways, PTL
     DEF Spec, ImplementsRunLog, RL!Spec
=============================================================================
