------------------------------ MODULE RunIndex ------------------------------
(***************************************************************************)
(* Reading the table of runs: pages of Store.ListRuns, the newest first,   *)
(* with a cursor of the last run's sort time and identifier.               *)
(***************************************************************************)
EXTENDS RunTable

CONSTANT PageSize \* the limit of a page

ASSUME IndexAssumption ==
  /\ PageSize \in Nat \ {0}
  /\ Null \notin [at: Nat, run: Nat]

VARIABLE list  \* a client that reads page after page; history: the runs
               \* present from the start and neither deleted nor moved since

NoList == [pc |-> "idle", cursor |-> Null, shown |-> <<>>, stable |-> {}]

IndexInit == list = NoList

KeyAt(d, r) == [at |-> SortAt(d, r), run |-> r]

(* Defect: the cursor compares times alone.                                *)
Behind_TimeOnly(x, y) == x.at < y.at

(* The row comparison of the ORDER BY and of the cursor condition. *)
Behind(x, y) == x.at < y.at \/ (x.at = y.at /\ x.run < y.run)

(* The rows behind a cursor. *)
Rows(d, cursor) ==
  {x \in {KeyAt(d, r) : r \in {q \in Runs : Present(d, q)}} : cursor # Null => Behind(x, cursor)}

Ahead(x, y) == x.at > y.at \/ (x.at = y.at /\ x.run > y.run)

Ordered(rows) ==
  [i \in 1..Cardinality(rows) |->
     CHOOSE x \in rows : Cardinality({y \in rows : Ahead(y, x)}) = i - 1]

(* ListRuns: one row more than the limit is read to know whether there is  *)
(* another page, and the cursor is that of the last row shown.             *)
ListRuns(d, cursor, limit) ==
  LET rows == Ordered(Rows(d, cursor))
      more == Len(rows) > limit
      page == IF more THEN SubSeq(rows, 1, limit) ELSE rows
  IN [runs |-> [i \in DOMAIN page |-> page[i].run],
      next |-> IF more THEN page[limit] ELSE Null]

(* handleListRuns, for the first page and for each cursor. *)
ListPage ==
  /\ list.pc = "idle" \/ (list.pc = "open" /\ list.cursor # Null)
  /\ LET from == IF list.pc = "idle" THEN [NoList EXCEPT !.stable = {r \in Runs : Present(db, r)}]
                 ELSE list
         page == ListRuns(db, from.cursor, PageSize)
     IN list' = [from EXCEPT !.pc = "open", !.cursor = page.next, !.shown = @ \o page.runs]
  /\ UNCHANGED db

Finished == list.pc = "open" /\ list.cursor = Null

ListCloses ==
  /\ Finished
  /\ list' = NoList
  /\ UNCHANGED db

IndexStep == ListPage \/ ListCloses

ListWatches ==
  list' = IF list.pc = "idle" THEN list
          ELSE [list EXCEPT !.stable = @ \ (Removed \cup Moved)]

(* A client, while others change the table. *)
IndexSpec ==
  TableInit /\ IndexInit /\ [][(TableStep /\ ListWatches) \/ IndexStep]_<<db, list>>
-----------------------------------------------------------------------------
(* Whoever reads the index page by page, while runs arrive, change and are *)
(* deleted, sees every run that was there all the time and kept its place  *)
(* exactly once, equal sort times and full pages included.                 *)
StableRunsAreListedOnce ==
  Finished =>
    \A r \in list.stable :
      Cardinality({i \in DOMAIN list.shown : list.shown[i] = r}) = 1
=============================================================================
