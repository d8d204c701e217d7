------------------------------- MODULE Alerts -------------------------------
(***************************************************************************)
(* The evaluation of run health: internal/alerts over the tables runs and  *)
(* alerts.  A pass lists the runs in each status and then, statement by    *)
(* statement, opens, resolves and marks.  Two passes can run at once: the  *)
(* ticker of Evaluator.Run starts one, and so does a committed ingest, for *)
(* which start.go keeps a flag of its own.  Events, acknowledgements and   *)
(* deletions come between any two statements.                              *)
(*                                                                         *)
(* The key of an alert is its type and run; alertStableID makes the        *)
(* primary key from the same two, so the table has one row for a key, open *)
(* or not.  Two parts have no effect and are left out: run_incomplete is   *)
(* resolved but never opened, and no code records the heartbeats that      *)
(* evaluateSources looks at.                                               *)
(***************************************************************************)
EXTENDS Naturals, Sequences, FiniteSets

CONSTANTS Runs,         \* run identifiers, ordered as the database orders ids
          Events,       \* the events that arrive, and how late they do
          Deletable,    \* the runs a user may delete
          MaxFailures,  \* bound on the statements that fail (a locked database)
          PageLimit,    \* runs a pass reads of one status (500 in the code)
          StalledAfter, \* silence, in ticks, after which a run is stalled
          MaxTime,      \* bound on the clock (checking only)
          MaxHandlers,  \* bound on ingests between commit and callback (checking only)
          None

Passes == {"ticker", "trigger"}

AlertTypes == {"run_failed", "run_stalled"}

(* runTerminalStatus: the statuses that end a run, and the events that do. *)
Ends == [completed |-> "run.completed", failed |-> "run.failed",
         cancelled |-> "run.cancelled", incomplete |-> "run.incomplete"]

Terminal == DOMAIN Ends

RunEnding == {Ends[s] : s \in Terminal}

Statuses == Terminal \cup {"started", "unknown"}

AlertRow == [state: {"open", "acknowledged", "resolved"}, by: Passes, notices: Nat]

ASSUME AlertsAssumption ==
  /\ Runs \subseteq Nat /\ IsFiniteSet(Runs)
  /\ Events \subseteq [type: {"run.started", "other"} \cup RunEnding, status: Statuses, lag: Nat]
  /\ Deletable \subseteq Runs
  /\ MaxFailures \in Nat /\ MaxTime \in Nat /\ MaxHandlers \in Nat
  /\ PageLimit \in Nat \ {0}
  /\ StalledAfter \in Nat \ {0}
  /\ None \notin Nat \cup AlertRow

VARIABLES now,     \* the clock
          run,     \* table runs
          alert,   \* table alerts; None where there is no row
          pass,    \* the passes
          owed,    \* ingests that committed and have not called onAccepted yet
          failures \* statements that failed so far

vars == <<now, run, alert, pass, owed, failures>>
-----------------------------------------------------------------------------
(* Defect: a pass does not look at incomplete runs.                        *)
Stages_NoIncomplete == <<"completed", "failed", "cancelled", "started">>

(* The statuses a pass goes through, in the order it does. *)
Stages == <<"completed", "failed", "cancelled", "incomplete", "started">>

AbsentRun == [status |-> "absent", started |-> None, ended |-> None, last |-> None]

Earlier(t, n) == IF n = None \/ t < n THEN t ELSE n

(* What updateRun makes of a row.  A row ensureRun just made is "unknown". *)
UpdateRun(row, e, at) ==
  LET ends == e.type \in RunEnding /\ (row.ended = None \/ at < row.ended)
  IN [status |-> IF e.type = "run.started" /\ row.ended = None THEN e.status
                 ELSE IF ends THEN CHOOSE s \in Terminal : Ends[s] = e.type
                 ELSE IF row.status = "absent" THEN "unknown" ELSE row.status,
      started |-> IF e.type = "run.started" THEN Earlier(at, row.started) ELSE row.started,
      ended |-> IF ends THEN at ELSE row.ended,
      last |-> IF row.last = None \/ at > row.last THEN at ELSE row.last]

(* ORDER BY COALESCE(started_at, last_event_at) DESC, id DESC. *)
SortAt(row) == IF row.started = None THEN row.last ELSE row.started

Newer(r, s) == \/ SortAt(run[r]) > SortAt(run[s])
               \/ SortAt(run[r]) = SortAt(run[s]) /\ r > s

InStatus(status) == {r \in Runs : run[r].status = status}

(* ListRuns: the first page of the runs in a status has the runs that fewer*)
(* than PageLimit precede.                                                 *)
ListRuns(status) ==
  {r \in InStatus(status) :
     Cardinality({q \in InStatus(status) : Newer(q, r)}) < PageLimit}

(* The rows of a query in their order: a position is the number of rows    *)
(* that come before.                                                       *)
InOrder(rows) ==
  [i \in 1..Cardinality(rows) |->
     CHOOSE r \in rows : Cardinality({q \in rows : Newer(q, r)}) = i - 1]

(* A run whose last event is at or before the cutoff of a pass. *)
Silent(r, at) == run[r].last + StalledAfter <= at

IsOpen(a) == a # None /\ a.state # "resolved"
-----------------------------------------------------------------------------
(* An error ends a pass as the last stage does: it is logged.              *)
Resting == [pc |-> "idle", stage |-> 1, page |-> <<>>, at |-> 0, inserted |-> FALSE]

Begun == [Resting EXCEPT !.pc = "list", !.at = now]

Init ==
  /\ now = 0
  /\ run = [r \in Runs |-> AbsentRun]
  /\ alert = [t \in AlertTypes |-> [r \in Runs |-> None]]
  /\ pass = [p \in Passes |-> Resting]
  /\ owed = 0
  /\ failures = 0

Tick ==
  /\ now < MaxTime
  /\ now' = now + 1
  /\ UNCHANGED <<run, alert, pass, owed, failures>>

(* InsertEvents commits an event of r that happened a while ago. *)
Deliver(r, e) ==
  /\ e.lag <= now
  /\ owed < MaxHandlers
  /\ run' = [run EXCEPT ![r] = UpdateRun(@, e, now - e.lag)]
  /\ owed' = owed + 1
  /\ UNCHANGED <<now, alert, pass, failures>>

(* onAccepted: triggerEvaluation starts a pass unless it has one running. *)
Accepted ==
  /\ owed > 0
  /\ owed' = owed - 1
  /\ pass' = IF pass["trigger"].pc = "idle" THEN [pass EXCEPT !["trigger"] = Begun] ELSE pass
  /\ UNCHANGED <<now, run, alert, failures>>

(* The ticker of Evaluator.Run fires. *)
Fire ==
  /\ pass["ticker"].pc = "idle"
  /\ pass' = [pass EXCEPT !["ticker"] = Begun]
  /\ UNCHANGED <<now, run, alert, owed, failures>>

(* DeleteRun; the foreign key of alerts cascades. *)
DeleteRun(r) ==
  /\ run[r].status # "absent"
  /\ run' = [run EXCEPT ![r] = AbsentRun]
  /\ alert' = [t \in AlertTypes |-> [alert[t] EXCEPT ![r] = None]]
  /\ UNCHANGED <<now, pass, owed, failures>>

AcknowledgeAlert(t, r) ==
  /\ alert[t][r] # None
  /\ alert[t][r].state = "open"
  /\ alert' = [alert EXCEPT ![t][r].state = "acknowledged"]
  /\ UNCHANGED <<now, run, pass, owed, failures>>
-----------------------------------------------------------------------------
(* A pass.                                                                 *)

Stage(p) == Stages[pass[p].stage]

Target(p) == Head(pass[p].page)

At(p, pc) == pass[p].pc = pc

Go(p, t) == pass' = [pass EXCEPT ![p] = t]

(* Defect: a failed run opens no alert.                                    *)
Entry_NoFailure(stage) == IF Stages[stage] = "started" THEN "mark" ELSE "resolve"

(* The first statement of a pass for a run listed in a stage. *)
Entry(stage) == CASE Stages[stage] = "failed" -> "open"
                  [] Stages[stage] = "started" -> "mark"
                  [] OTHER -> "resolve"

(* t goes on with the runs of page, with the next stage when there are     *)
(* none, and ends after the last stage.                                    *)
With(t, page) ==
  IF page # <<>> THEN [t EXCEPT !.page = page, !.pc = Entry(t.stage), !.inserted = FALSE]
  ELSE IF t.stage < Len(Stages)
       THEN [t EXCEPT !.stage = @ + 1, !.page = <<>>, !.pc = "list", !.inserted = FALSE]
  ELSE Resting

NextRun(p) == Go(p, With(pass[p], Tail(pass[p].page)))

(* ListRuns, and for the runs that are active the check against the cutoff.*)
List(p) ==
  /\ At(p, "list")
  /\ LET rows == {r \in ListRuns(Stage(p)) : Stage(p) = "started" => Silent(r, pass[p].at)}
     IN Go(p, With(pass[p], InOrder(rows)))
  /\ UNCHANGED <<now, run, alert, owed, failures>>

(* Defect: the UPDATE does not ask for status = 'started'.                 *)
Mark_AnyStatus(p) ==
  /\ At(p, "mark")
  /\ run' = IF run[Target(p)].status = "absent" THEN run
            ELSE [run EXCEPT ![Target(p)].status = "incomplete",
                             ![Target(p)].ended = IF @ = None THEN pass[p].at ELSE @]
  /\ Go(p, [pass[p] EXCEPT !.pc = "open"])
  /\ UNCHANGED <<now, alert, owed, failures>>

(* Defect: a run that was marked is not reported.                          *)
Mark_NotReported(p) ==
  /\ At(p, "mark")
  /\ IF run[Target(p)].status # "started"
       THEN Go(p, [pass[p] EXCEPT !.pc = "open"]) /\ UNCHANGED run
       ELSE /\ run' = [run EXCEPT ![Target(p)].status = "incomplete",
                                  ![Target(p)].ended = IF @ = None THEN pass[p].at ELSE @]
            /\ NextRun(p)
  /\ UNCHANGED <<now, alert, owed, failures>>

(* MarkRunIncomplete: no row is touched when the run is active no more.    *)
Mark(p) ==
  /\ At(p, "mark")
  /\ run' = IF run[Target(p)].status # "started" THEN run
            ELSE [run EXCEPT ![Target(p)].status = "incomplete",
                             ![Target(p)].ended = IF @ = None THEN pass[p].at ELSE @]
  /\ Go(p, [pass[p] EXCEPT !.pc = "open"])
  /\ UNCHANGED <<now, alert, owed, failures>>

AlertOf(p) == IF Stage(p) = "failed" THEN "run_failed" ELSE "run_stalled"

(* The INSERT of OpenAlert.  An open row with the key makes it a no-op.  A *)
(* resolved row has the primary key, and a deleted run fails the foreign   *)
(* key: both are errors, and an error ends the pass.                       *)
Insert(p) ==
  /\ At(p, "open")
  /\ LET t == AlertOf(p)
         r == Target(p)
         row == alert[t][r]
     IN IF IsOpen(row)
        THEN Go(p, [pass[p] EXCEPT !.pc = "read"]) /\ UNCHANGED alert
        ELSE IF row # None \/ run[r].status = "absent"
        THEN Go(p, Resting) /\ UNCHANGED alert
        ELSE /\ alert' = [alert EXCEPT ![t][r] = [state |-> "open", by |-> p, notices |-> 0]]
             /\ Go(p, [pass[p] EXCEPT !.pc = "read", !.inserted = TRUE])
  /\ UNCHANGED <<now, run, owed, failures>>

(* Defect: every pass that finds the alert notifies.                       *)
Created_Always(p) == TRUE

(* The row GetAlertByKey finds has the id and created_at of this call.     *)
Created(p) == pass[p].inserted /\ alert[AlertOf(p)][Target(p)].by = p

(* GetAlertByKey, then notify. *)
Read(p) ==
  /\ At(p, "read")
  /\ LET t == AlertOf(p)
         r == Target(p)
     IN IF ~IsOpen(alert[t][r])
        THEN Go(p, Resting) /\ UNCHANGED alert
        ELSE /\ alert' = IF Created(p) /\ alert[t][r].state = "open"
                         THEN [alert EXCEPT ![t][r].notices = @ + 1] ELSE alert
             /\ IF Stage(p) = "failed" THEN Go(p, [pass[p] EXCEPT !.pc = "resolve", !.inserted = FALSE])
                ELSE NextRun(p)
  /\ UNCHANGED <<now, run, owed, failures>>

(* ResolveAlerts(run_stalled) for a run in a terminal status. *)
Resolve(p) ==
  /\ At(p, "resolve")
  /\ LET r == Target(p)
     IN alert' = IF IsOpen(alert["run_stalled"][r])
                 THEN [alert EXCEPT !["run_stalled"][r].state = "resolved"] ELSE alert
  /\ NextRun(p)
  /\ UNCHANGED <<now, run, owed, failures>>

(* A statement fails: SQLITE_BUSY after the busy timeout. *)
Fail(p) ==
  /\ failures < MaxFailures
  /\ pass[p].pc # "idle"
  /\ failures' = failures + 1
  /\ Go(p, Resting)
  /\ UNCHANGED <<now, run, alert, owed>>

Step(p) == List(p) \/ Mark(p) \/ Insert(p) \/ Read(p) \/ Resolve(p)

Next ==
  \/ Tick
  \/ \E r \in Runs, e \in Events : Deliver(r, e)
  \/ Accepted
  \/ Fire
  \/ \E r \in Deletable : DeleteRun(r)
  \/ \E t \in AlertTypes, r \in Runs : AcknowledgeAlert(t, r)
  \/ \E p \in Passes : Step(p) \/ Fail(p)

Spec == Init /\ [][Next]_vars

(* The goroutine of Evaluator.Run goes on: its ticker fires again and      *)
(* again, and a pass that it began takes its next statement.  Nothing is   *)
(* asked of the passes that ingests trigger.                               *)
FairSpec == Spec /\ WF_vars(Fire \/ Step("ticker"))
-----------------------------------------------------------------------------
(* Properties.                                                             *)

(* The types of the tables and of the passes.  An alert belongs to a run   *)
(* that exists, whatever a pass still does after the run was deleted: the  *)
(* foreign key refuses and cascades.                                       *)
TypeOK ==
  /\ now \in 0 .. MaxTime
  /\ owed \in 0 .. MaxHandlers
  /\ failures \in 0 .. MaxFailures
  /\ run \in [Runs -> [status: Statuses \cup {"absent"},
                       started: Nat \cup {None}, ended: Nat \cup {None}, last: Nat \cup {None}]]
  /\ alert \in [AlertTypes -> [Runs -> {None} \cup AlertRow]]
  /\ pass \in [Passes -> [pc: {"idle", "list", "mark", "open", "read", "resolve"},
                          stage: 1 .. Len(Stages), page: Seq(Runs), at: Nat, inserted: BOOLEAN]]
  /\ \A p \in Passes : pass[p].pc \in {"idle", "list"} <=> pass[p].page = <<>>
  /\ \A t \in AlertTypes, r \in Runs : alert[t][r] # None => run[r].status # "absent"

(* The user is notified of an alert at most once, however many passes find *)
(* it, at the same time or later.                                          *)
NotifiedOnce ==
  \A t \in AlertTypes, r \in Runs : alert[t][r] # None => alert[t][r].notices <= 1

(* The end of a run gives way only to an event that dates it earlier, and  *)
(* never to MarkRunIncomplete: a pass may have listed the run before its   *)
(* end arrived.                                                            *)
ReportedEndStays ==
  [][\A r \in Runs :
       run[r].ended # None /\ run'[r].status \notin {run[r].status, "absent"}
         => run'[r].ended < run[r].ended]_vars

(* A pass has marked the run, and nothing has arrived since that happened  *)
(* later: every end that a source reports is the time of one of its events.*)
Marked(r) ==
  run[r].status = "incomplete" /\ run[r].ended # None /\ run[r].ended > run[r].last

(* Silence does not end a run without being reported: a run that was marked*)
(* has its stalled alert, or the pass that marked it is about to open it.  *)
(* If a statement fails in between, no later pass looks at the run again.  *)
MarkedRunsAreReported ==
  \A r \in Runs : Marked(r) /\ failures = 0 =>
    \/ alert["run_stalled"][r] # None
    \/ \E p \in Passes : At(p, "open") /\ Stage(p) = "started" /\ Target(p) = r

(* A run that failed gets its alert.  A trigger that comes while a pass is *)
(* running is dropped; the ticker makes up for it.                         *)
FailedRunsAreReported ==
  \A r \in Runs : run[r].status = "failed"
                    ~> (alert["run_failed"][r] # None \/ run[r].status # "failed")

(* The stalled alert of a run that is active no more is resolved: "A run   *)
(* that reached a terminal state is no longer stalled" (evaluator.go:127). *)
(* A run is active again when its source dates a start with no end in it.  *)
StalledAlertsClear ==
  \A r \in Runs : (IsOpen(alert["run_stalled"][r]) /\ run[r].status \in Terminal)
                    ~> (~IsOpen(alert["run_stalled"][r]) \/ run[r].status \notin Terminal)

(* Said of the code and not true: a run that recovered is never marked     *)
(* incomplete (TestARecoveredRunIsNeverMarkedIncomplete).  A pass marks    *)
(* what it listed, and an event may have arrived since.                    *)
RecoveredRunIsNeverMarked ==
  [][\A r \in Runs : run[r].status = "started" /\ run'[r].status = "incomplete"
                      => Silent(r, now)]_vars
=============================================================================
