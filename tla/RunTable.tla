------------------------------ MODULE RunTable ------------------------------
(***************************************************************************)
(* The table of runs as the callers of the other modules find it: other    *)
(* processes and requests insert events and delete runs at any moment.     *)
(* Each insertion and each deletion is one committed transaction, as       *)
(* EventStore shows; a deleted run comes back when an agent posts one of   *)
(* its events again.                                                       *)
(***************************************************************************)
EXTENDS Naturals, Sequences, FiniteSets

CONSTANTS Runs,   \* run identifiers, numbers because identifiers are ordered
          StepIds, \* step identifiers
          Events, \* the events agents report; "source" is source_sequence
          Null

ASSUME RunTableAssumption ==
  /\ Runs \subseteq Nat
  /\ Null \notin Nat
  /\ \A e \in Events : e.run \in Runs /\ e.at \in Nat /\ e.source \in Nat \cup {Null} /\ e.status # "absent"

VARIABLE db

Store == INSTANCE EventStore WITH
  Steps <- StepIds, Conns <- {}, Keys <- {}, Ids <- {}, Batches <- {}, Clock <- {},
  MaxQuarantine <- 0, None <- Null, tx <- <<>>, writer <- Null

Present(d, r) == d.run[r].status # "absent"

(* runSortAt; a run has an event, so that created_at is never asked for.   *)
SortAt(d, r) == IF d.run[r].started # Null THEN d.run[r].started ELSE d.run[r].last

TableInit == db = Store!EmptyDb

Ingest(e) ==
  /\ e.key \notin Store!KeysIn(db)
  /\ db' = Store!InsertEvent(db, e)

(* handleDeleteRun and "traceboard delete": the run is read, its title is  *)
(* confirmed, and what is there under its identifier is deleted.           *)
Delete(r) ==
  /\ Present(db, r)
  /\ db' = Store!RemoveRun(db, r)

TableStep == (\E e \in Events : Ingest(e)) \/ (\E r \in Runs : Delete(r))

(* What a step did to the runs, for the histories of the callers. *)
Removed == {r \in Runs : Present(db, r) /\ ~Present(db', r)}

Moved == {r \in Runs : Present(db, r) /\ Present(db', r) /\ SortAt(db', r) # SortAt(db, r)}
=============================================================================
