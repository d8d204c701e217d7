------------------------------ MODULE MCAlerts ------------------------------
(***************************************************************************)
(* Alerts with a run, two passes, a user and a statement that fails.       *)
(***************************************************************************)
EXTENDS Alerts

MCRuns1 == {1}

Event(type, status, lag) == [type |-> type, status |-> status, lag |-> lag]

MCStarts == {Event("run.started", "started", 0)}

MCCompletes == MCStarts \cup {Event("run.completed", "completed", 0)}

(* A run that starts and fails; a report that it went idle comes late.     *)
MCEvents == MCStarts \cup {Event("run.failed", "failed", 0),
                          Event("run.incomplete", "incomplete", 1)}

MCNone == {}
=============================================================================
