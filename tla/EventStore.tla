----------------------------- MODULE EventStore -----------------------------
(***************************************************************************)
(* The event store of internal/store: the tables events, runs, steps and   *)
(* quarantine of one SQLite database in WAL mode, and the transactions     *)
(* that several connections run on it at the same time.  The collector has *)
(* a pool of four connections; the command line (delete, doctor) opens its *)
(* own.  Store.Open asks for no immediate transactions, so a transaction   *)
(* starts as a reader: its first SELECT fixes a snapshot, its first write  *)
(* must take the single write lock, and SQLite refuses that at once when   *)
(* another connection has committed since the snapshot was taken.          *)
(***************************************************************************)
EXTENDS Naturals, Sequences, FiniteSets

CONSTANTS Conns,      \* database connections
          Runs,       \* run identifiers
          Steps,      \* step identifiers
          Keys,       \* (source, source_event_id) pairs
          Ids,        \* event_id values
          Batches,    \* the batches that callers insert
          Clock,      \* the times an evaluator may read when it marks a run
          MaxQuarantine, \* bound on quarantine rows (checking only)
          None        \* SQL NULL, and "no connection"

Statuses == {"started", "completed", "failed", "cancelled", "incomplete", "unknown"}

(* event.go: the type of an event, as far as the store tells types apart. *)
RunEnding == {"run.completed", "run.failed", "run.cancelled", "run.incomplete"}

Types == {"run.started", "error.recorded", "other"} \cup RunEnding

Modes == {"off", "metadata", "detailed"}

(* An event as prepareEvent hands it on.  "valid" is the verdict of        *)
(* event.Validate and of the identity checks; step is None for an event    *)
(* that belongs to no step.                                                *)
Event == [id: Ids, key: Keys, run: Runs, step: Steps \cup {None},
          type: Types, status: Statuses, at: Nat, mode: Modes, valid: BOOLEAN]

ASSUME EventStoreAssumption ==
  /\ None \notin Nat
  /\ None \notin Conns
  /\ None \notin Runs
  /\ None \notin Steps
  /\ Batches \subseteq Seq(Event)
  /\ Clock \subseteq Nat
  /\ MaxQuarantine \in Nat

VARIABLES db,      \* the committed database
          tx,      \* the transaction each connection has open
          writer   \* the connection that holds the write lock, or None

vars == <<db, tx, writer>>
-----------------------------------------------------------------------------
(* Rows.  A row that is not in the table is the value a fresh one has,     *)
(* under the status "absent".                                              *)

AbsentRun == [status |-> "absent", started |-> None, ended |-> None, last |-> None,
              count |-> 0, errors |-> 0, next |-> 1, modes |-> <<>>]

AbsentStep == [status |-> "absent", started |-> None, ended |-> None]

EmptyDb == [events |-> {}, run |-> [r \in Runs |-> AbsentRun],
            step |-> [r \in Runs |-> [s \in Steps |-> AbsentStep]], quarantine |-> 0]

EventsOf(d, r) == {s \in d.events : s.ev.run = r}

KeysIn(d) == {s.ev.key : s \in d.events}

IdsIn(d) == {s.ev.id : s \in d.events}

(* The comparisons of the CASE expressions: n is NULL or t is before it. *)
Before(t, n) == n = None \/ t < n

Earlier(t, n) == IF Before(t, n) THEN t ELSE n

Later(t, n) == IF n = None \/ t > n THEN t ELSE n

(* runTerminalStatus: the status a run takes from the event that ends it. *)
StatusOf(type) == CASE type = "run.completed" -> "completed"
                    [] type = "run.failed" -> "failed"
                    [] type = "run.cancelled" -> "cancelled"
                    [] OTHER -> "incomplete"

(* terminalStatus: an event status that ends a step. *)
StepEnding == {"completed", "failed", "cancelled", "incomplete"}

(* mergeCaptureModes returns early, with the list as it was, when the mode *)
(* is in it already.                                                       *)
MergeCaptureModes(modes, mode) ==
  IF \E i \in DOMAIN modes : modes[i] = mode THEN modes
  ELSE IF mode = "detailed" THEN <<mode>>
  ELSE Append(modes, mode)

EnsureRun(row, e) ==
  IF row.status = "absent" THEN [AbsentRun EXCEPT !.status = "unknown", !.last = e.at]
  ELSE row

(* Defect: last_event_at is the event received last, not the latest one.   *)
UpdateRun_LastReceived(row, e) ==
  [row EXCEPT !.status = IF e.type = "run.started" /\ row.ended = None THEN e.status
                         ELSE IF e.type \in RunEnding /\ Before(e.at, row.ended)
                              THEN StatusOf(e.type) ELSE @,
              !.started = IF e.type = "run.started" THEN Earlier(e.at, @) ELSE @,
              !.ended = IF e.type \in RunEnding THEN Earlier(e.at, @) ELSE @,
              !.last = e.at,
              !.count = @ + 1,
              !.errors = @ + (IF e.type = "error.recorded" THEN 1 ELSE 0),
              !.next = @ + 1]

(* Defect: every run-ending event sets the status, a later one too.        *)
UpdateRun_LaterEndWins(row, e) ==
  [row EXCEPT !.status = IF e.type = "run.started" /\ row.ended = None THEN e.status
                         ELSE IF e.type \in RunEnding THEN StatusOf(e.type) ELSE @,
              !.started = IF e.type = "run.started" THEN Earlier(e.at, @) ELSE @,
              !.ended = IF e.type \in RunEnding THEN Earlier(e.at, @) ELSE @,
              !.last = Later(e.at, @),
              !.count = @ + 1,
              !.errors = @ + (IF e.type = "error.recorded" THEN 1 ELSE 0),
              !.next = @ + 1]

(* allocateRunSequence and updateRun, on the row ensureRun left. *)
UpdateRun(row, e) ==
  LET ends == e.type \in RunEnding
      starts == e.type = "run.started"
  IN [status |-> IF starts /\ row.ended = None THEN e.status
                 ELSE IF ends /\ Before(e.at, row.ended) THEN StatusOf(e.type)
                 ELSE row.status,
      started |-> IF starts THEN Earlier(e.at, row.started) ELSE row.started,
      ended |-> IF ends THEN Earlier(e.at, row.ended) ELSE row.ended,
      last |-> Later(e.at, row.last),
      count |-> row.count + 1,
      errors |-> row.errors + (IF e.type = "error.recorded" THEN 1 ELSE 0),
      next |-> row.next + 1,
      modes |-> MergeCaptureModes(row.modes, e.mode)]

(* Defect: a step starts when its last start was received.                 *)
UpdateStep_LastReceived(row, e) ==
  [status |-> e.status,
   started |-> IF e.status = "started" THEN e.at ELSE row.started,
   ended |-> IF e.status \in StepEnding THEN Earlier(e.at, row.ended) ELSE row.ended]

UpdateStep(row, e) ==
  [status |-> e.status,
   started |-> IF e.status = "started" THEN Earlier(e.at, row.started) ELSE row.started,
   ended |-> IF e.status \in StepEnding THEN Earlier(e.at, row.ended) ELSE row.ended]

(* insertEvent: the run and step rows and the event, in one database d. *)
InsertEvent(d, e) ==
  LET row == EnsureRun(d.run[e.run], e)
  IN [events |-> d.events \cup {[ev |-> e, seq |-> row.next]},
      run |-> [d.run EXCEPT ![e.run] = UpdateRun(row, e)],
      step |-> IF e.step = None THEN d.step
               ELSE [d.step EXCEPT ![e.run][e.step] = UpdateStep(@, e)],
      quarantine |-> d.quarantine]

QuarantineEvent(d) == [d EXCEPT !.quarantine = @ + 1]

(* Defect: the row of the run is left behind.                              *)
RemoveRun_KeepsRow(d, r) ==
  [events |-> d.events \ EventsOf(d, r), run |-> d.run,
   step |-> [d.step EXCEPT ![r] = [s \in Steps |-> AbsentStep]],
   quarantine |-> d.quarantine]

(* The four DELETE statements of DeleteRun. *)
RemoveRun(d, r) ==
  [events |-> d.events \ EventsOf(d, r),
   run |-> [d.run EXCEPT ![r] = AbsentRun],
   step |-> [d.step EXCEPT ![r] = [s \in Steps |-> AbsentStep]],
   quarantine |-> d.quarantine]

(* MarkRunIncomplete: one UPDATE with status = 'started' in its WHERE. *)
MarkIncomplete(d, r, at) ==
  LET row == [d.run[r] EXCEPT !.status = "incomplete",
                              !.ended = IF @ = None THEN at ELSE @]
  IN [d EXCEPT !.run = [@ EXCEPT ![r] = row]]
-----------------------------------------------------------------------------
(* Transactions.  "res" is what the last finished call returned.           *)

Idle(res) == [pc |-> "idle", batch |-> <<>>, pos |-> 1, target |-> None,
              snapshot |-> "none", view |-> EmptyDb, seen |-> 0, res |-> res]

Init ==
  /\ db = EmptyDb
  /\ tx = [c \in Conns |-> Idle("none")]
  /\ writer = None

Current(c) == tx[c].batch[tx[c].pos]

HasNext(c) == tx[c].pc = "next" /\ tx[c].pos <= Len(tx[c].batch)

(* The database as the next statement of c sees it. *)
ViewOf(c) == IF tx[c].snapshot = "none" THEN db ELSE tx[c].view

(* Defect: a transaction may write on a snapshot others have overtaken.    *)
CanWrite_Stale(c) == writer \in {c, None}

(* SQLite lets c write: c holds the lock, or the lock is free and nothing  *)
(* was committed since c's snapshot.                                       *)
CanWrite(c) == writer = c \/ (writer = None /\ tx[c].snapshot # "stale")

WantsWrite(c) == tx[c].pc = "write" \/ (HasNext(c) /\ ~Current(c).valid)

(* A commit makes every snapshot taken before it stale. *)
Outdated(t) ==
  [c \in Conns |-> IF t[c].snapshot = "fresh" THEN [t[c] EXCEPT !.snapshot = "stale"] ELSE t[c]]

Released(c) == IF writer = c THEN None ELSE writer

BeginInsert(c, b) ==
  /\ tx[c].pc = "idle"
  /\ b # <<>>
  /\ (\E i \in DOMAIN b : ~b[i].valid) => db.quarantine < MaxQuarantine
  /\ tx' = [tx EXCEPT ![c] = [Idle("none") EXCEPT !.pc = "next", !.batch = b]]
  /\ UNCHANGED <<db, writer>>

(* Defect: no duplicate check; only the unique event_id is left.           *)
CheckDuplicate_None(c) ==
  /\ HasNext(c)
  /\ Current(c).valid
  /\ tx' = [tx EXCEPT ![c].view = ViewOf(c),
                      ![c].snapshot = IF @ = "none" THEN "fresh" ELSE @,
                      ![c].pc = "write"]
  /\ UNCHANGED <<db, writer>>

(* SELECT EXISTS(... source = ? AND source_event_id = ?). *)
CheckDuplicate(c) ==
  /\ HasNext(c)
  /\ Current(c).valid
  /\ LET duplicate == Current(c).key \in KeysIn(ViewOf(c))
     IN tx' = [tx EXCEPT ![c].view = ViewOf(c),
                         ![c].snapshot = IF @ = "none" THEN "fresh" ELSE @,
                         ![c].pc = IF duplicate THEN "next" ELSE "write",
                         ![c].pos = IF duplicate THEN @ + 1 ELSE @]
  /\ UNCHANGED <<db, writer>>

(* insertEvent succeeds. *)
WriteEvent(c) ==
  /\ tx[c].pc = "write"
  /\ tx[c].target = None
  /\ CanWrite(c)
  /\ Current(c).id \notin IdsIn(tx[c].view)
  /\ tx' = [tx EXCEPT ![c].view = InsertEvent(@, Current(c)),
                      ![c].pc = "next",
                      ![c].pos = @ + 1]
  /\ writer' = c
  /\ UNCHANGED db

(* insertEvent fails on the unique event_id; the deferred Rollback undoes  *)
(* everything the transaction wrote.                                       *)
RejectEvent(c) ==
  /\ tx[c].pc = "write"
  /\ tx[c].target = None
  /\ CanWrite(c)
  /\ Current(c).id \in IdsIn(tx[c].view)
  /\ tx' = [tx EXCEPT ![c] = Idle("rejected")]
  /\ writer' = None
  /\ UNCHANGED db

WriteQuarantine(c) ==
  /\ HasNext(c)
  /\ ~Current(c).valid
  /\ CanWrite(c)
  /\ tx' = [tx EXCEPT ![c].view = QuarantineEvent(ViewOf(c)),
                      ![c].snapshot = "fresh",
                      ![c].pos = @ + 1]
  /\ writer' = c
  /\ UNCHANGED db

DeleteBegin(c, r) ==
  /\ tx[c].pc = "idle"
  /\ db.run[r].status # "absent"
  /\ tx' = [tx EXCEPT ![c] = [Idle("none") EXCEPT !.pc = "write", !.target = r,
                                                  !.snapshot = "fresh", !.view = db,
                                                  !.seen = Cardinality(EventsOf(db, r))]]
  /\ UNCHANGED <<db, writer>>

DeleteWrite(c) ==
  /\ tx[c].pc = "write"
  /\ tx[c].target # None
  /\ CanWrite(c)
  /\ tx' = [tx EXCEPT ![c].view = RemoveRun(@, tx[c].target), ![c].pc = "next"]
  /\ writer' = c
  /\ UNCHANGED db

(* Defect: a refused writer waits for a lock it can no longer get.         *)
Busy_Waits(c) ==
  /\ WantsWrite(c)
  /\ ~CanWrite(c)
  /\ UNCHANGED vars

(* SQLITE_BUSY: at once when c has a snapshot, after busy_timeout when it  *)
(* has none.                                                               *)
Busy(c) ==
  /\ WantsWrite(c)
  /\ ~CanWrite(c)
  /\ tx' = [tx EXCEPT ![c] = Idle("busy")]
  /\ UNCHANGED <<db, writer>>

Commit(c) ==
  /\ tx[c].pc = "next"
  /\ tx[c].pos > Len(tx[c].batch)
  /\ IF writer = c
     THEN db' = tx[c].view /\ tx' = [Outdated(tx) EXCEPT ![c] = Idle("stored")]
     ELSE db' = db /\ tx' = [tx EXCEPT ![c] = Idle("stored")]
  /\ writer' = Released(c)

(* Defect: no deferred Rollback; what was written so far is kept.          *)
Abort_KeepsWrites(c) ==
  /\ tx[c].pc # "idle"
  /\ tx' = [Outdated(tx) EXCEPT ![c] = Idle("cancelled")]
  /\ db' = IF writer = c THEN tx[c].view ELSE db
  /\ writer' = Released(c)

(* The request's context is cancelled, or the process dies. *)
Abort(c) ==
  /\ tx[c].pc # "idle"
  /\ tx' = [tx EXCEPT ![c] = Idle("cancelled")]
  /\ writer' = Released(c)
  /\ UNCHANGED db

(* Defect: the UPDATE does not ask for status = 'started'.                 *)
MarkRunIncomplete_AnyStatus(r, at) ==
  /\ writer = None
  /\ db.run[r].status # "absent"
  /\ db' = MarkIncomplete(db, r, at)
  /\ tx' = Outdated(tx)
  /\ UNCHANGED writer

MarkRunIncomplete(r, at) ==
  /\ writer = None
  /\ db.run[r].status = "started"
  /\ db' = MarkIncomplete(db, r, at)
  /\ tx' = Outdated(tx)
  /\ UNCHANGED writer

(* A commit to another table (an alert, a session, a source setting). *)
OtherCommit ==
  /\ writer = None
  /\ \E c \in Conns : tx[c].snapshot = "fresh"
  /\ tx' = Outdated(tx)
  /\ UNCHANGED <<db, writer>>

Step(c) ==
  \/ CheckDuplicate(c) \/ WriteEvent(c) \/ RejectEvent(c) \/ WriteQuarantine(c)
  \/ DeleteWrite(c) \/ Busy(c) \/ Commit(c)

Next ==
  \/ \E c \in Conns : \/ \E b \in Batches : BeginInsert(c, b)
                      \/ \E r \in Runs : DeleteBegin(c, r)
                      \/ Step(c)
                      \/ Abort(c)
  \/ \E r \in Runs, at \in Clock : MarkRunIncomplete(r, at)
  \/ OtherCommit

Spec == Init /\ [][Next]_vars

(* A goroutine that is inside a call keeps executing its statements. *)
FairSpec == Spec /\ \A c \in Conns : WF_vars(Step(c))
-----------------------------------------------------------------------------
(* Types. *)

StoredEvent == [ev: Event, seq: Nat]

Time == Nat \cup {None}

RunRow == [status: Statuses \cup {"absent"}, started: Time, ended: Time, last: Time,
           count: Nat, errors: Nat, next: Nat, modes: Seq(Modes)]

StepRow == [status: Statuses \cup {"absent"}, started: Time, ended: Time]

Database == [events: SUBSET StoredEvent, run: [Runs -> RunRow],
             step: [Runs -> [Steps -> StepRow]], quarantine: Nat]

Transaction == [pc: {"idle", "next", "write"}, batch: Batches \cup {<<>>}, pos: Nat \ {0},
                target: Runs \cup {None}, snapshot: {"none", "fresh", "stale"},
                view: Database, seen: Nat,
                res: {"none", "stored", "rejected", "busy", "cancelled"}]

(* The committed tables and every transaction hold values of their column  *)
(* types (migrations/001_initial.sql), whatever transactions interleave.   *)
TypeOK ==
  /\ db \in Database
  /\ tx \in [Conns -> Transaction]
  /\ writer \in Conns \cup {None}
  /\ \A c \in Conns : tx[c].pc = "write" /\ tx[c].target = None => tx[c].pos <= Len(tx[c].batch)
-----------------------------------------------------------------------------
(* Safety. *)

(* The counters of every run agree with its rows in events, and its ingest *)
(* sequences are 1, 2, ..., event_count with no gap and no repeat, however *)
(* the insertions of several connections interleave with deletions (the    *)
(* "lying summary" that docs/architecture.md says one transaction rules    *)
(* out).                                                                   *)
SummaryOf(d) ==
  \A r \in Runs :
    LET es == EventsOf(d, r) IN
      /\ d.run[r].count = Cardinality(es)
      /\ d.run[r].errors = Cardinality({s \in es : s.ev.type = "error.recorded"})
      /\ d.run[r].next = d.run[r].count + 1
      /\ {s.seq : s \in es} = 1..d.run[r].count

SummaryIsExact == SummaryOf(db)

(* started_at and last_event_at of a run are the earliest run.started and  *)
(* the latest event it holds, in whatever order the events were received.  *)
TimesOf(d) ==
  \A r \in Runs :
    LET es == EventsOf(d, r)
        starts == {s.ev.at : s \in {x \in es : x.ev.type = "run.started"}}
        times == {s.ev.at : s \in es}
    IN /\ d.run[r].started \in (IF starts = {} THEN {None} ELSE starts)
       /\ \A t \in starts : d.run[r].started <= t
       /\ d.run[r].last \in (IF times = {} THEN {None} ELSE times)
       /\ \A t \in times : t <= d.run[r].last

RunTimesAreExact == TimesOf(db)

(* A run with an end has a reason for it: an event that ends a run, of     *)
(* that time and with that outcome, or the evaluator's "incomplete"; no    *)
(* run-ending event it holds is earlier; and a run with no end has         *)
(* received no run-ending event and is not called ended by anything but    *)
(* its own run.started.                                                    *)
EndOf(d) ==
  \A r \in Runs :
    LET row == d.run[r]
        ends == {s \in EventsOf(d, r) : s.ev.type \in RunEnding}
    IN IF row.ended = None
       THEN /\ ends = {}
            /\ row.status \notin {"absent", "unknown"} =>
                 \E s \in EventsOf(d, r) :
                   s.ev.type = "run.started" /\ s.ev.status = row.status
       ELSE /\ \A s \in ends : row.ended <= s.ev.at
            /\ \/ row.status = "incomplete"
               \/ \E s \in ends : s.ev.at = row.ended /\ StatusOf(s.ev.type) = row.status

RunEndHasCause == EndOf(db)

(* A source event is stored at most once and an event_id names one event,  *)
(* although the duplicate check and the insertion are separate statements  *)
(* of transactions that overlap.                                           *)
DistinctIn(d) ==
  \A a, b \in d.events : a.ev.key = b.ev.key \/ a.ev.id = b.ev.id => a = b

EventsAreDistinct == DistinctIn(db)

(* A step row exists exactly for the steps some stored event names, and    *)
(* its times are the earliest start and the earliest end among them.       *)
StepsOf(d) ==
  \A r \in Runs, st \in Steps :
    LET es == {s.ev : s \in {x \in EventsOf(d, r) : x.ev.step = st}}
        starts == {e.at : e \in {x \in es : x.status = "started"}}
        ends == {e.at : e \in {x \in es : x.status \in StepEnding}}
        row == d.step[r][st]
    IN /\ row.status = "absent" <=> es = {}
       /\ row.started \in (IF starts = {} THEN {None} ELSE starts)
       /\ \A t \in starts : row.started <= t
       /\ row.ended \in (IF ends = {} THEN {None} ELSE ends)
       /\ \A t \in ends : row.ended <= t

StepTimesAreExact == StepsOf(db)
-----------------------------------------------------------------------------
(* Action properties. *)

(* A committed event is never lost or rewritten by another transaction: it *)
(* leaves the store only together with its whole run.                      *)
EventsKept ==
  \A s \in db.events : s \in db'.events \/ EventsOf(db', s.ev.run) = {}

EventsPersist == [][EventsKept]_vars

(* The end of a run, once known, only moves to an earlier time, and its    *)
(* status changes only together with its end.                              *)
EndOnlyEarlier ==
  \A r \in Runs :
    db.run[r].ended # None /\ db'.run[r].status # "absent" =>
      \/ db'.run[r].ended = db.run[r].ended /\ db'.run[r].status = db.run[r].status
      \/ db'.run[r].ended # None /\ db'.run[r].ended < db.run[r].ended

EndMovesEarlier == [][EndOnlyEarlier]_vars

(* What DeleteRun reports is what its commit removes, although it counts   *)
(* the rows before it takes the write lock.                                *)
DeleteReport ==
  \A c \in Conns :
    tx[c].target # None /\ tx'[c].res = "stored" =>
      /\ tx[c].seen = Cardinality(EventsOf(db, tx[c].target))
      /\ EventsOf(db', tx[c].target) = {}

DeleteReportIsExact == [][DeleteReport]_vars

(* The store implements the log of RunLog: concurrent transactions,        *)
(* snapshots, refused upgrades and rollbacks amount to whole batches       *)
(* appended one after the other.                                           *)
Log == [r \in Runs |-> [i \in 1..db.run[r].count |->
                          (CHOOSE s \in EventsOf(db, r) : s.seq = i).ev]]

RL == INSTANCE RunLog WITH log <- Log

ImplementsRunLog == RL!Spec
-----------------------------------------------------------------------------
(* Liveness. *)

(* Every call on the store returns: no transaction waits for ever for the  *)
(* write lock.                                                             *)
CallsReturn == \A c \in Conns : tx[c].pc # "idle" ~> tx[c].pc = "idle"
=============================================================================
