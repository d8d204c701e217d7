----------------------------- MODULE Retention -----------------------------
(***************************************************************************)
(* retention.Apply: the runs that a policy selects are listed in one       *)
(* query, each is read again, and then they are deleted one after the      *)
(* other, the oldest first; the first deletion that fails ends the call.   *)
(***************************************************************************)
EXTENDS RunTable

CONSTANTS Policies, \* [cutoff, keep]: the time "days" reach back to and the
                    \* number of runs of a project, 0 when there is no such limit
          Project   \* the project of each run, or Null

VARIABLE job  \* the call of Apply: the rows to read, to delete and deleted;
              \* history: the rows selected, the runs others deleted since

NoJob == [pc |-> "idle", listed |-> {}, todo |-> {}, deleted |-> {}, selected |-> {}, gone |-> {}]

RetentionInit == job = NoJob

(* Later in the index: ORDER BY the sort time DESC, id DESC. *)
Newer(d, q, r) == SortAt(d, q) > SortAt(d, r) \/ (SortAt(d, q) = SortAt(d, r) /\ q > r)

(* ROW_NUMBER within the project: active runs take positions, too. *)
Position(d, r) ==
  1 + Cardinality({q \in Runs : Present(d, q) /\ Project[q] = Project[r] /\ Newer(d, q, r)})

(* Defect: the condition of age and the cap forget the active runs.        *)
Selected_AnyRun(d, policy) ==
  {r \in Runs :
     /\ Present(d, r)
     /\ \/ policy.cutoff > 0 /\ SortAt(d, r) < policy.cutoff
        \/ policy.keep > 0 /\ Project[r] # Null /\ Position(d, r) > policy.keep}

(* SelectRetentionCandidates. *)
Selected(d, policy) ==
  {r \in Runs :
     /\ Present(d, r)
     /\ d.run[r].ended # Null
     /\ \/ policy.cutoff > 0 /\ SortAt(d, r) < policy.cutoff
        \/ policy.keep > 0 /\ Project[r] # Null /\ Position(d, r) > policy.keep}

(* The query of Preview. *)
ApplyBegin(policy) ==
  LET rows == {[run |-> r, at |-> SortAt(db, r)] : r \in Selected(db, policy)}
  IN /\ job.pc \notin {"reading", "deleting"}
     /\ job' = [NoJob EXCEPT !.pc = "reading", !.listed = rows, !.selected = rows]
     /\ UNCHANGED db

(* Defect: the newest first.                                               *)
First_Newest(rows) ==
  CHOOSE x \in rows : \A y \in rows : x.at > y.at \/ (x.at = y.at /\ x.run >= y.run)

(* The query's ORDER BY: the oldest first. *)
First(rows) ==
  CHOOSE x \in rows : \A y \in rows : x.at < y.at \/ (x.at = y.at /\ x.run <= y.run)

(* GetRun for a row of the query, on another connection: a run that is     *)
(* gone by now is skipped.                                                 *)
ReadCandidate ==
  /\ job.pc = "reading"
  /\ job.listed # {}
  /\ LET x == First(job.listed)
     IN job' = [job EXCEPT !.listed = @ \ {x},
                           !.todo = IF Present(db, x.run) THEN @ \cup {x} ELSE @]
  /\ UNCHANGED db

ReadingEnds ==
  /\ job.pc = "reading"
  /\ job.listed = {}
  /\ job' = [job EXCEPT !.pc = "deleting"]
  /\ UNCHANGED db

(* DeleteRun takes what is there under the identifier. *)
DeleteCandidate ==
  /\ job.pc = "deleting"
  /\ job.todo # {}
  /\ LET x == First(job.todo)
     IN /\ Present(db, x.run)
        /\ db' = Store!RemoveRun(db, x.run)
        /\ job' = [job EXCEPT !.todo = @ \ {x}, !.deleted = @ \cup {x}]

(* ErrRunNotFound for a run that others have deleted; any other error of   *)
(* the store ends the call in the same way.                                *)
DeleteFails ==
  /\ job.pc = "deleting"
  /\ job.todo # {}
  /\ job' = [job EXCEPT !.pc = "failed"]
  /\ UNCHANGED db

ApplyEnds ==
  /\ job.pc = "deleting"
  /\ job.todo = {}
  /\ job' = [job EXCEPT !.pc = "done"]
  /\ UNCHANGED db

RetentionStep ==
  \/ \E policy \in Policies : ApplyBegin(policy)
  \/ ReadCandidate \/ ReadingEnds \/ DeleteCandidate \/ DeleteFails \/ ApplyEnds

(* History: what a step of others does to the runs of the call. *)
JobWatches ==
  job' = IF job.pc \in {"reading", "deleting"} THEN [job EXCEPT !.gone = @ \cup Removed] ELSE job

(* A call, while others change the table. *)
RetentionSpec ==
  TableInit /\ RetentionInit /\ [][(TableStep /\ JobWatches) \/ RetentionStep]_<<db, job>>
-----------------------------------------------------------------------------
(* A run that has not ended is exempt from every policy: what a deletion   *)
(* of the call takes has ended, although the run was selected long before  *)
(* and events of it arrived since; except for a run that others deleted    *)
(* and an agent brought back in between, which the call takes as it is.    *)
ExemptRuns ==
  \A r \in Removed :
    job'.deleted # job.deleted => db.run[r].ended # Null \/ r \in job.gone

ExemptRunsStay == [][ExemptRuns]_<<db, job>>

(* A call that succeeds has deleted every run it selected that nobody else *)
(* deleted; one that stops half way has deleted the oldest of them, so     *)
(* that no run it took is newer than one it left.                          *)
ApplyIsOrdered ==
  /\ job.pc = "done" => \A x \in job.selected : x \in job.deleted \/ x.run \in job.gone
  /\ \A x \in job.deleted, y \in job.selected \ job.deleted :
       x.at <= y.at \/ y.run \in job.gone
=============================================================================
