---------------------------- MODULE MCEventStore ----------------------------
(* Small instances of EventStore. *)
EXTENDS EventStore, TLC

CONSTANTS r1, r2, s1, c1, c2

Ev(n, run, step, type, status, at) ==
  [id |-> n, key |-> n, run |-> run, step |-> step, type |-> type, status |-> status,
   at |-> at, mode |-> "metadata", valid |-> TRUE]

(* Two runs, of which one may be deleted while the other grows.  The       *)
(* events of the first, and of its step, arrive in any order: two ends of  *)
(* different times, a repeat of the start under a new event_id, a bad      *)
(* event before valid ones, an event_id that two source events share.      *)
Start == Ev(1, r1, s1, "run.started", "started", 2)
Completed == Ev(2, r1, s1, "run.completed", "completed", 3)
Failed == Ev(3, r1, s1, "run.failed", "failed", 2)
Again == [Start EXCEPT !.id = 5]
Resumed == Ev(8, r1, s1, "other", "started", 1)
Bad == [Start EXCEPT !.id = 6, !.key = 6, !.valid = FALSE]
Other == [Ev(7, r2, None, "error.recorded", "failed", 1) EXCEPT !.id = 3]

RunBatches == {<<Start, Other>>, <<Completed, Again>>, <<Bad, Failed, Resumed>>}
=============================================================================
