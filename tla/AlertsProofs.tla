---------------------------- MODULE AlertsProofs ----------------------------
(***************************************************************************)
(* Proofs about the evaluation of alerts, for every set of runs, every     *)
(* number of failures and every interleaving of the two passes with        *)
(* events, deletions and acknowledgements.                                 *)
(*                                                                         *)
(* A pass notifies in a later step than the one that inserts the alert, and*)
(* the alert may be acknowledged, resolved, deleted and inserted again in  *)
(* between.  The invariant therefore says what a pass that has inserted    *)
(* still knows: a row that bears its name has not been notified yet        *)
(* (PassInv).  Of the rows of runs it says what the order of a page and the*)
(* end of a run rest on (RowInv).                                          *)
(***************************************************************************)
EXTENDS Alerts, FiniteSetTheorems, TLAPS

RowStatuses == Statuses \cup {"absent"}

RunRow == [status: RowStatuses, started: Nat \cup {None}, ended: Nat \cup {None},
           last: Nat \cup {None}]

PassState == [pc: {"idle", "list", "mark", "open", "read", "resolve"},
              stage: 1 .. Len(Stages), page: Seq(Runs), at: Nat, inserted: BOOLEAN]

(* A run that is in the table has had an event, and one that has an end is *)
(* over.                                                                   *)
RowHolds(row) ==
  /\ row.status # "absent" => row.last \in Nat
  /\ row.ended \in Nat => row.status \in Terminal

RowInv == \A r \in Runs : RowHolds(run[r])

(* The end of a run stays, or moves to an earlier time.                    *)
EndStays(r) ==
  run[r].ended # None /\ run'[r].status \notin {run[r].status, "absent"}
    => run'[r].ended < run[r].ended

(* A pass that is about to insert has not inserted, only active runs are   *)
(* marked, and the row of a pass that inserted and has not yet read it back*)
(* is not notified.                                                        *)
PassHolds(p) ==
  /\ pass[p].pc \in {"mark", "open"} => ~pass[p].inserted
  /\ pass[p].pc = "mark" => Stages[pass[p].stage] = "started"
  /\ (pass[p].pc = "read" /\ pass[p].inserted) =>
       \/ alert[AlertOf(p)][Target(p)] = None
       \/ alert[AlertOf(p)][Target(p)].by # p
       \/ alert[AlertOf(p)][Target(p)].notices = 0

PassInv == \A p \in Passes : PassHolds(p)

AlertsInv == TypeOK /\ RowInv /\ PassInv /\ NotifiedOnce
-----------------------------------------------------------------------------
(* The statuses that end a run, and the stages of a pass.                  *)
LEMMA TerminalIs == Terminal = {"completed", "failed", "cancelled", "incomplete"}
  BY DEF Terminal, Ends

LEMMA StagesAre ==
  /\ Len(Stages) = 5
  /\ \A s \in 1 .. 5 : Stages[s] \in {"completed", "failed", "cancelled", "incomplete", "started"}
  BY DEF Stages

(* In a finite set with a strict total order, every position is that of an *)
(* element: as many elements come before it as the position has before it. *)
LEMMA EveryPositionIsTaken ==
  ASSUME NEW S, IsFiniteSet(S), NEW R,
         \A x \in S : <<x, x>> \notin R,
         \A x, y \in S : x # y => <<x, y>> \in R \/ <<y, x>> \in R,
         \A x, y, z \in S : <<x, y>> \in R /\ <<y, z>> \in R => <<x, z>> \in R
  PROVE  \A i \in 1 .. Cardinality(S) :
           \E x \in S : Cardinality({y \in S : <<y, x>> \in R}) = i - 1
<1> DEFINE before(x) == {y \in S : <<y, x>> \in R}
           n == Cardinality(S)
           rank == [x \in S |-> Cardinality(before(x)) + 1]
<1>n. n \in Nat
  BY FS_CardinalityType
<1>1. ASSUME NEW x \in S
      PROVE  IsFiniteSet(before(x)) /\ Cardinality(before(x)) \in Nat
  <2>1. before(x) \in SUBSET S
    OBVIOUS
  <2> QED  BY <2>1, FS_Subset, FS_CardinalityType
<1>2. ASSUME NEW x \in S
      PROVE  /\ IsFiniteSet(before(x) \cup {x})
             /\ Cardinality(before(x) \cup {x}) = Cardinality(before(x)) + 1
  <2>1. x \notin before(x)
    OBVIOUS
  <2> HIDE DEF before
  <2> QED  BY <1>1, <2>1, FS_AddElement
<1>3. ASSUME NEW x \in S, NEW T \in SUBSET S, before(x) \cup {x} \subseteq T
      PROVE  Cardinality(before(x)) + 1 <= Cardinality(T)
  <2>1. IsFiniteSet(T)
    BY FS_Subset
  <2>2. before(x) \cup {x} \in SUBSET T
    BY <1>3
  <2> HIDE DEF before
  <2>3. Cardinality(before(x) \cup {x}) <= Cardinality(T)
    BY ONLY <2>1, <2>2, FS_Subset
  <2> QED  BY <1>2, <2>3
<1>4. rank \in [S -> 1 .. n]
  <2>1. ASSUME NEW x \in S
        PROVE  Cardinality(before(x)) + 1 \in 1 .. n
    <3>1. before(x) \cup {x} \subseteq S
      OBVIOUS
    <3>2. S \in SUBSET S
      OBVIOUS
    <3> HIDE DEF before
    <3>3. Cardinality(before(x)) + 1 <= Cardinality(S)
      BY <1>3, <3>1, <3>2
    <3> QED  BY <1>1, <1>n, <3>3
  <2> HIDE DEF before, n
  <2> QED  BY <2>1
<1>5. ASSUME NEW x \in S, NEW y \in S, <<x, y>> \in R
      PROVE  rank[x] # rank[y]
  <2>1. before(y) \in SUBSET S
    OBVIOUS
  <2>2. before(x) \cup {x} \subseteq before(y)
    BY <1>5
  <2> HIDE DEF before
  <2>3. Cardinality(before(x)) + 1 <= Cardinality(before(y))
    BY <1>3, <2>1, <2>2
  <2> QED  BY <1>1, <2>3
<1>6. rank \in Injection(S, 1 .. n)
  <2>1. \A x, y \in S : rank[x] = rank[y] => x = y
    <3> HIDE DEF rank
    <3> QED  BY <1>5
  <2> HIDE DEF rank, n
  <2> QED  BY <1>4, <2>1 DEF Injection, IsInjective
<1>7. IsFiniteSet(1 .. n) /\ Cardinality(1 .. n) = n
  <2>1. 1 \in Int /\ n \in Int
    BY <1>n
  <2>2. IsFiniteSet(1 .. n) /\ Cardinality(1 .. n) = IF 1 > n THEN 0 ELSE n - 1 + 1
    <3> HIDE DEF n
    <3> QED  BY <2>1, FS_Interval
  <2> HIDE DEF n
  <2> QED  BY <1>n, <2>2
<1>8. rank \in Surjection(S, 1 .. n)
  <2>1. Cardinality(S) = Cardinality(1 .. n)
    BY <1>7
  <2> HIDE DEF rank, n
  <2> QED  BY <1>6, <1>7, <2>1, FS_Injection
<1> SUFFICES ASSUME NEW i \in 1 .. n
             PROVE  \E x \in S : Cardinality(before(x)) = i - 1
  OBVIOUS
<1>9. PICK x \in S : rank[x] = i
  <2> HIDE DEF rank, n
  <2> QED  BY <1>8 DEF Surjection
<1>10. Cardinality(before(x)) + 1 = i
  <2> HIDE DEF before, n
  <2> QED  BY <1>9
<1> HIDE DEF before, rank, n
<1> QED  BY <1>1, <1>10
-----------------------------------------------------------------------------
(* The rows of runs that a stage asks for are ordered: by the time of a run*)
(* and, at the same time, by its identifier.                               *)
LEMMA RowsAreOrdered ==
  ASSUME TypeOK, RowInv, NEW rows \in SUBSET Runs, \A r \in rows : run[r].status # "absent"
  PROVE  /\ \A x \in rows : ~Newer(x, x)
         /\ \A x, y \in rows : x # y => Newer(x, y) \/ Newer(y, x)
         /\ \A x, y, z \in rows : Newer(x, y) /\ Newer(y, z) => Newer(x, z)
<1>1. \A r \in rows : SortAt(run[r]) \in Nat
  <2>1. \A r \in rows : run[r].last \in Nat /\ run[r].started \in Nat \cup {None}
    <3>1. run \in [Runs -> RunRow]
      BY DEF TypeOK, RunRow, RowStatuses
    <3>2. \A r \in rows : RowHolds(run[r])
      BY DEF RowInv
    <3> QED  BY <3>1, <3>2 DEF RowHolds, RunRow
  <2> QED  BY <2>1 DEF SortAt
<1>2. rows \subseteq Nat
  BY AlertsAssumption
<1> DEFINE at(r) == SortAt(run[r])
<1>3. /\ \A r \in rows : at(r) \in Nat /\ r \in Nat
      /\ \A r, q : Newer(r, q) <=> at(r) > at(q) \/ (at(r) = at(q) /\ r > q)
  BY <1>1, <1>2 DEF Newer
<1> HIDE DEF at
<1>4. \A x \in rows : ~Newer(x, x)
  BY ONLY <1>3
<1>5. \A x, y \in rows : x # y => Newer(x, y) \/ Newer(y, x)
  BY ONLY <1>3
<1>6. \A x, y, z \in rows : Newer(x, y) /\ Newer(y, z) => Newer(x, z)
  <2> SUFFICES ASSUME NEW x \in rows, NEW y \in rows, NEW z \in rows, Newer(x, y), Newer(y, z)
               PROVE  Newer(x, z)
    OBVIOUS
  <2> QED
    BY <1>3
<1> QED
  BY <1>4, <1>5, <1>6

(* The page of a stage is a sequence of runs, without runs when there are  *)
(* no rows.                                                                *)
LEMMA PagesAreSequences ==
  ASSUME TypeOK, RowInv, NEW rows \in SUBSET Runs, \A r \in rows : run[r].status # "absent"
  PROVE  InOrder(rows) \in Seq(Runs)
<1> DEFINE R == {pair \in Runs \X Runs : Newer(pair[1], pair[2])}
<1>1. IsFiniteSet(rows) /\ Cardinality(rows) \in Nat
  BY AlertsAssumption, FS_Subset, FS_CardinalityType
<1>2. \A x, y \in rows : <<x, y>> \in R <=> Newer(x, y)
  OBVIOUS
<1>3. /\ \A x \in rows : <<x, x>> \notin R
      /\ \A x, y \in rows : x # y => <<x, y>> \in R \/ <<y, x>> \in R
      /\ \A x, y, z \in rows : <<x, y>> \in R /\ <<y, z>> \in R => <<x, z>> \in R
  <2> HIDE DEF R
  <2> QED  BY <1>2, RowsAreOrdered
<1>4. \A i \in 1 .. Cardinality(rows) :
        \E r \in rows : Cardinality({q \in rows : <<q, r>> \in R}) = i - 1
  <2> HIDE DEF R
  <2> QED  BY <1>1, <1>3, EveryPositionIsTaken
<1>5. ASSUME NEW r \in rows
      PROVE  {q \in rows : <<q, r>> \in R} = {q \in rows : Newer(q, r)}
  <2> HIDE DEF R
  <2> QED  BY <1>2
<1>6. \A i \in 1 .. Cardinality(rows) :
        \E r \in rows : Cardinality({q \in rows : Newer(q, r)}) = i - 1
  <2> HIDE DEF R
  <2> QED  BY <1>4, <1>5
<1>7. \A i \in 1 .. Cardinality(rows) :
        (CHOOSE r \in rows : Cardinality({q \in rows : Newer(q, r)}) = i - 1) \in Runs
  BY <1>6
<1> HIDE DEF R
<1>9. InOrder(rows) \in [1 .. Cardinality(rows) -> Runs]
  BY <1>7 DEF InOrder
<1> QED  BY <1>1, <1>9

(* What a pass becomes when it goes on with the runs of page.              *)
LEMMA PassGoesOn ==
  ASSUME NEW t \in PassState, NEW page \in Seq(Runs)
  PROVE  /\ With(t, page) \in PassState
         /\ With(t, page).pc \in {"idle", "list"} <=> With(t, page).page = <<>>
         /\ With(t, page).pc # "read"
         /\ With(t, page).inserted = FALSE
         /\ With(t, page).pc = "mark" => Stages[With(t, page).stage] = "started"
<1>1. t.stage \in 1 .. 5 /\ Len(Stages) = 5
  BY StagesAre DEF PassState
<1>2. CASE page # <<>>
  <2>1. /\ Entry(t.stage) \in {"open", "mark", "resolve"}
        /\ Entry(t.stage) = "mark" => Stages[t.stage] = "started"
    BY DEF Entry
  <2>2. With(t, page) = [pc |-> Entry(t.stage), stage |-> t.stage, page |-> page, at |-> t.at,
                         inserted |-> FALSE]
    BY <1>2 DEF With, PassState
  <2> QED  BY <1>2, <2>1, <2>2 DEF PassState
<1>3. CASE page = <<>> /\ t.stage < Len(Stages)
  <2>1. With(t, page) = [pc |-> "list", stage |-> t.stage + 1, page |-> <<>>, at |-> t.at,
                         inserted |-> FALSE]
    BY <1>3 DEF With, PassState
  <2>2. t.stage + 1 \in 1 .. Len(Stages)
    BY <1>1, <1>3
  <2>3. <<>> \in Seq(Runs)
    OBVIOUS
  <2> QED  BY <2>1, <2>2, <2>3 DEF PassState
<1>4. CASE page = <<>> /\ ~(t.stage < Len(Stages))
  <2>1. With(t, page) = [pc |-> "idle", stage |-> 1, page |-> <<>>, at |-> 0, inserted |-> FALSE]
    BY <1>4 DEF With, Resting
  <2>2. <<>> \in Seq(Runs)
    OBVIOUS
  <2> QED  BY <1>1, <2>1, <2>2 DEF PassState
<1> QED  BY <1>2, <1>3, <1>4

LEMMA RestingIsAPass ==
  /\ Resting \in PassState /\ Resting.pc = "idle" /\ Resting.page = <<>> /\ Resting.inserted = FALSE
<1>1. <<>> \in Seq(Runs) /\ 1 \in 1 .. Len(Stages)
  BY StagesAre
<1> QED  BY <1>1 DEF Resting, PassState

LEMMA BegunIsAPass ==
  ASSUME now \in 0 .. MaxTime
  PROVE  Begun \in PassState /\ Begun.pc = "list" /\ Begun.page = <<>> /\ Begun.inserted = FALSE
<1>1. <<>> \in Seq(Runs) /\ 1 \in 1 .. Len(Stages) /\ now \in Nat
  BY StagesAre, AlertsAssumption
<1>2. ASSUME NEW t \in PassState, NEW n \in Nat
      PROVE  LET b == [t EXCEPT !.pc = "list", !.at = n]
             IN  /\ b \in PassState /\ b.pc = "list"
                 /\ b.page = t.page /\ b.inserted = t.inserted
  BY DEF PassState
<1> QED  BY <1>1, <1>2, RestingIsAPass DEF Begun

(* The type invariant with the sets of this module.                        *)
LEMMA TypesAre ==
  TypeOK <=> /\ now \in 0 .. MaxTime
             /\ owed \in 0 .. MaxHandlers
             /\ failures \in 0 .. MaxFailures
             /\ run \in [Runs -> RunRow]
             /\ alert \in [AlertTypes -> [Runs -> {None} \cup AlertRow]]
             /\ pass \in [Passes -> PassState]
             /\ \A p \in Passes : pass[p].pc \in {"idle", "list"} <=> pass[p].page = <<>>
             /\ \A t \in AlertTypes, r \in Runs :
                  alert[t][r] # None => run[r].status # "absent"
  BY DEF TypeOK, RunRow, AlertRow, PassState, RowStatuses

(* What an event makes of a row: it stays a row of the table, its end      *)
(* stays or moves to an earlier time, and no end is later than the last    *)
(* event unless it was before.                                             *)
LEMMA RowsAreUpdated ==
  ASSUME NEW row \in RunRow, RowHolds(row), NEW e \in Events, NEW at \in Nat
  PROVE  LET new == UpdateRun(row, e, at)
         IN  /\ new \in RunRow /\ new.status # "absent" /\ RowHolds(new)
             /\ row.ended # None /\ new.status # row.status => new.ended < row.ended
             /\ new.ended # None /\ new.ended > new.last =>
                  /\ new.status = row.status /\ new.ended = row.ended
                  /\ row.ended > row.last
<1> DEFINE new == UpdateRun(row, e, at)
           ends == e.type \in RunEnding /\ (row.ended = None \/ at < row.ended)
           end == CHOOSE s \in Terminal : Ends[s] = e.type
<1>1. /\ row.status \in RowStatuses /\ row.started \in Nat \cup {None}
      /\ row.ended \in Nat \cup {None} /\ row.last \in Nat \cup {None}
      /\ e.status \in Statuses /\ None \notin Nat
  BY AlertsAssumption DEF RunRow
<1>2. ends => end \in Terminal
  BY DEF RunEnding
<1>3. /\ new.status = IF e.type = "run.started" /\ row.ended = None THEN e.status
                      ELSE IF ends THEN end
                      ELSE IF row.status = "absent" THEN "unknown" ELSE row.status
      /\ new.ended = IF ends THEN at ELSE row.ended
      /\ new.last = IF row.last = None \/ at > row.last THEN at ELSE row.last
      /\ new.started = IF e.type = "run.started" THEN Earlier(at, row.started) ELSE row.started
      /\ new = [status |-> new.status, started |-> new.started, ended |-> new.ended,
                last |-> new.last]
  BY DEF UpdateRun
<1>4. e.type = "run.started" => ~ends
  BY TerminalIs DEF RunEnding, Ends
<1>5. /\ Terminal \subseteq Statuses /\ Statuses \subseteq RowStatuses
      /\ "unknown" \in Statuses /\ "absent" \notin Statuses
  BY TerminalIs DEF Statuses, RowStatuses
<1>6. \A n \in Nat \cup {None} : Earlier(at, n) \in Nat
  BY DEF Earlier
<1>7. (row.status # "absent" => row.last \in Nat) /\ (row.ended \in Nat => row.status \in Terminal)
  BY DEF RowHolds
<1> HIDE DEF new, ends, end
<1>8. new.status \in Statuses /\ new.last \in Nat
  BY <1>1, <1>2, <1>3, <1>5 DEF RowStatuses
<1>9. new \in RunRow
  BY <1>1, <1>3, <1>5, <1>6, <1>8 DEF RunRow
<1>10. new.ended \in Nat => new.status \in Terminal
  BY <1>1, <1>2, <1>3, <1>4, <1>5, <1>7
<1>11. row.ended # None /\ new.status # row.status => new.ended < row.ended
  BY <1>1, <1>3, <1>5, <1>7 DEF ends
<1>12. new.ended # None /\ new.ended > new.last =>
         new.status = row.status /\ new.ended = row.ended /\ row.ended > row.last
  <2> SUFFICES ASSUME new.ended # None, new.ended > new.last
               PROVE  new.status = row.status /\ new.ended = row.ended /\ row.ended > row.last
    OBVIOUS
  <2>1. ~ends
    BY <1>1, <1>3
  <2>2. row.ended \in Nat /\ row.status \in Terminal /\ row.status # "absent"
    BY <1>1, <1>3, <1>5, <1>7, <2>1
  <2> QED  BY <1>1, <1>3, <1>7, <2>1, <2>2
<1> QED  BY <1>5, <1>8, <1>9, <1>10, <1>11, <1>12 DEF new, RowHolds
-----------------------------------------------------------------------------
LEMMA TypesAreNext ==
  TypeOK' <=> /\ now' \in 0 .. MaxTime
              /\ owed' \in 0 .. MaxHandlers
              /\ failures' \in 0 .. MaxFailures
              /\ run' \in [Runs -> RunRow]
              /\ alert' \in [AlertTypes -> [Runs -> {None} \cup AlertRow]]
              /\ pass' \in [Passes -> PassState]
              /\ \A p \in Passes : pass'[p].pc \in {"idle", "list"} <=> pass'[p].page = <<>>
              /\ \A t \in AlertTypes, r \in Runs :
                   alert'[t][r] # None => run'[r].status # "absent"
  BY DEF TypeOK, RunRow, AlertRow, PassState, RowStatuses

(* A pass that has a run has one of the table's identifiers, and the alert *)
(* it is about is of one of the two types.                                 *)
LEMMA TargetsAreRuns ==
  ASSUME TypeOK, NEW p \in Passes
  PROVE  /\ AlertOf(p) \in AlertTypes
         /\ pass[p].page # <<>> => Target(p) \in Runs /\ Tail(pass[p].page) \in Seq(Runs)
         /\ pass[p].pc \notin {"idle", "list"} => pass[p].page # <<>>
<1>1. pass[p] \in PassState
  BY TypesAre
<1>2. pass[p].page \in Seq(Runs)
  BY <1>1 DEF PassState
<1>3. pass[p].page # <<>> => Head(pass[p].page) \in Runs /\ Tail(pass[p].page) \in Seq(Runs)
  BY <1>2
<1>4. pass[p].pc \notin {"idle", "list"} => pass[p].page # <<>>
  BY TypesAre
<1> QED  BY <1>3, <1>4 DEF AlertOf, AlertTypes, Target

(* A step that leaves a pass alone leaves what it knows: it gives no row   *)
(* the name of the pass, and no such row another notice.                   *)
LEMMA OthersPassHolds ==
  ASSUME TypeOK, NEW q \in Passes, PassHolds(q), pass'[q] = pass[q],
         \A t \in AlertTypes, r \in Runs :
           \/ alert'[t][r] = None
           \/ alert'[t][r].by # q
           \/ /\ alert[t][r] # None
              /\ alert[t][r].by = q
              /\ alert'[t][r].notices = alert[t][r].notices
  PROVE  PassHolds(q)'
<1>1. AlertOf(q)' = AlertOf(q) /\ Target(q)' = Target(q)
  BY DEF AlertOf, Target, Stage
<1>2. ASSUME pass[q].pc = "read", pass[q].inserted
      PROVE  \/ alert'[AlertOf(q)][Target(q)] = None
             \/ alert'[AlertOf(q)][Target(q)].by # q
             \/ alert'[AlertOf(q)][Target(q)].notices = 0
  <2>1. AlertOf(q) \in AlertTypes /\ Target(q) \in Runs
    BY <1>2, TargetsAreRuns
  <2> QED  BY <1>2, <2>1 DEF PassHolds
<1> QED  BY <1>1, <1>2 DEF PassHolds

(* A step of pass p, to a state in which it has inserted nothing.          *)
LEMMA PassMoves ==
  ASSUME TypeOK, PassInv, NEW p \in Passes, NEW t \in PassState,
         t.pc \in {"idle", "list"} <=> t.page = <<>>,
         t.inserted = FALSE,
         t.pc = "mark" => Stages[t.stage] = "started",
         pass' = [pass EXCEPT ![p] = t],
         \A q \in Passes \ {p}, u \in AlertTypes, r \in Runs :
           \/ alert'[u][r] = None
           \/ alert'[u][r].by # q
           \/ /\ alert[u][r] # None
              /\ alert[u][r].by = q
              /\ alert'[u][r].notices = alert[u][r].notices
  PROVE  /\ pass' \in [Passes -> PassState]
         /\ \A q \in Passes : pass'[q].pc \in {"idle", "list"} <=> pass'[q].page = <<>>
         /\ PassInv'
<1>1. pass \in [Passes -> PassState]
      /\ \A q \in Passes : pass[q].pc \in {"idle", "list"} <=> pass[q].page = <<>>
  BY TypesAre
<1>2. pass'[p] = t /\ \A q \in Passes \ {p} : pass'[q] = pass[q]
  BY <1>1
<1>3. pass' \in [Passes -> PassState]
  BY <1>1
<1>4. \A q \in Passes : pass'[q].pc \in {"idle", "list"} <=> pass'[q].page = <<>>
  BY <1>1, <1>2
<1>5. PassHolds(p)'
  BY <1>2 DEF PassHolds
<1>6. ASSUME NEW q \in Passes \ {p}
      PROVE  PassHolds(q)'
  <2>1. PassHolds(q) /\ pass'[q] = pass[q]
    BY <1>2 DEF PassInv
  <2> QED  BY <2>1, OthersPassHolds
<1> QED  BY <1>3, <1>4, <1>5, <1>6 DEF PassInv

(* A step of no pass that leaves the alerts with their passes and notices. *)
LEMMA PassesRest ==
  ASSUME TypeOK, PassInv, pass' = pass,
         \A u \in AlertTypes, r \in Runs :
           \/ alert'[u][r] = None
           \/ /\ alert[u][r] # None
              /\ alert'[u][r].by = alert[u][r].by
              /\ alert'[u][r].notices = alert[u][r].notices
  PROVE  PassInv'
<1> SUFFICES ASSUME NEW q \in Passes
             PROVE  PassHolds(q)'
  BY DEF PassInv
<1> QED  BY OthersPassHolds DEF PassInv-----------------------------------------------------------------------------
(* The actions, one by one.                                                *)
LEMMA TickKeeps ==
  ASSUME AlertsInv, Tick
  PROVE  AlertsInv'
<1>1. now' \in 0 .. MaxTime
  BY AlertsAssumption, TypesAre DEF AlertsInv, Tick
<1>2. TypeOK'
  BY <1>1, TypesAre, TypesAreNext DEF AlertsInv, Tick
<1>3. PassInv'
  BY PassesRest DEF AlertsInv, Tick
<1> QED  BY <1>2, <1>3 DEF AlertsInv, Tick, RowInv, NotifiedOnce

LEMMA DeliverKeeps ==
  ASSUME AlertsInv, NEW r \in Runs, NEW e \in Events, Deliver(r, e)
  PROVE  /\ AlertsInv'
         /\ \A q \in Runs : EndStays(q) /\ (Marked(q)' => Marked(q))
<1> DEFINE new == UpdateRun(run[r], e, now - e.lag)
<1>0. TypeOK /\ RowInv /\ PassInv
  BY DEF AlertsInv
<1>1. now - e.lag \in Nat /\ run[r] \in RunRow /\ run \in [Runs -> RunRow]
  BY <1>0, AlertsAssumption, TypesAre DEF Deliver
<1>2. run' = [run EXCEPT ![r] = new]
  BY DEF Deliver
<1>3. /\ new \in RunRow /\ new.status # "absent" /\ RowHolds(new)
      /\ run[r].ended # None /\ new.status # run[r].status => new.ended < run[r].ended
      /\ new.ended # None /\ new.ended > new.last =>
           /\ new.status = run[r].status /\ new.ended = run[r].ended
           /\ run[r].ended > run[r].last
  BY <1>0, <1>1, RowsAreUpdated DEF RowInv
<1> HIDE DEF new
<1>4. /\ run' \in [Runs -> RunRow]
      /\ run'[r] = new
      /\ \A q \in Runs \ {r} : run'[q] = run[q]
  BY <1>1, <1>2, <1>3
<1>5. owed' \in 0 .. MaxHandlers
  BY <1>0, AlertsAssumption, TypesAre DEF Deliver
<1>6. TypeOK'
  BY <1>0, <1>3, <1>4, <1>5, TypesAre, TypesAreNext DEF Deliver
<1>7. RowInv'
  BY <1>0, <1>3, <1>4 DEF RowInv
<1>8. PassInv'
  BY <1>0, PassesRest DEF Deliver
<1>9. NotifiedOnce'
  BY DEF AlertsInv, NotifiedOnce, Deliver
<1>10. ASSUME NEW q \in Runs PROVE EndStays(q) /\ (Marked(q)' => Marked(q))
  BY <1>3, <1>4 DEF EndStays, Marked
<1> QED  BY <1>6, <1>7, <1>8, <1>9, <1>10 DEF AlertsInv

LEMMA DeleteKeeps ==
  ASSUME AlertsInv, NEW r \in Runs, DeleteRun(r)
  PROVE  /\ AlertsInv'
         /\ \A q \in Runs : EndStays(q) /\ (Marked(q)' => Marked(q) /\ run'[q] = run[q])
         /\ \A q \in Runs : run'[q] = run[q] \/ run'[q].status = "absent"
         /\ \A u \in AlertTypes, q \in Runs : alert'[u][q] = alert[u][q] \/ run'[q].status = "absent"
<1>0. TypeOK /\ RowInv /\ PassInv /\ NotifiedOnce
  BY DEF AlertsInv
<1>1. AbsentRun \in RunRow /\ AbsentRun.status = "absent" /\ RowHolds(AbsentRun)
  BY AlertsAssumption DEF AbsentRun, RunRow, RowStatuses, RowHolds
<1>2. /\ run' \in [Runs -> RunRow]
      /\ run'[r] = AbsentRun
      /\ \A q \in Runs \ {r} : run'[q] = run[q]
  BY <1>0, <1>1, TypesAre DEF DeleteRun
<1>3. /\ alert' \in [AlertTypes -> [Runs -> {None} \cup AlertRow]]
      /\ \A u \in AlertTypes : /\ alert'[u][r] = None
                               /\ \A q \in Runs \ {r} : alert'[u][q] = alert[u][q]
  BY <1>0, TypesAre DEF DeleteRun
<1>4. TypeOK'
  BY <1>0, <1>2, <1>3, TypesAre, TypesAreNext DEF DeleteRun
<1>5. RowInv'
  BY <1>0, <1>1, <1>2 DEF RowInv
<1>6. pass' = pass
  BY DEF DeleteRun
<1>7. PassInv'
  <2>1. ASSUME NEW u \in AlertTypes, NEW q \in Runs
        PROVE  alert'[u][q] = None \/ alert'[u][q] = alert[u][q]
    BY <1>3
  <2> QED  BY <1>0, <1>6, <2>1, PassesRest
<1>8. NotifiedOnce'
  BY <1>0, <1>3 DEF NotifiedOnce
<1>9. /\ \A q \in Runs : EndStays(q) /\ (Marked(q)' => Marked(q) /\ run'[q] = run[q])
      /\ \A q \in Runs : run'[q] = run[q] \/ run'[q].status = "absent"
      /\ \A u \in AlertTypes, q \in Runs : alert'[u][q] = alert[u][q] \/ run'[q].status = "absent"
  BY <1>1, <1>2, <1>3 DEF EndStays, Marked
<1> QED  BY <1>4, <1>5, <1>7, <1>8, <1>9 DEF AlertsInv

LEMMA AcknowledgeKeeps ==
  ASSUME AlertsInv, NEW t \in AlertTypes, NEW r \in Runs, AcknowledgeAlert(t, r)
  PROVE  AlertsInv'
<1>0. TypeOK /\ RowInv /\ PassInv /\ NotifiedOnce
  BY DEF AlertsInv
<1> DEFINE row == [state |-> "acknowledged", by |-> alert[t][r].by,
                   notices |-> alert[t][r].notices]
<1>1. alert[t][r] \in AlertRow
  BY <1>0, TypesAre DEF AcknowledgeAlert
<1>2. [alert[t][r] EXCEPT !.state = "acknowledged"] = row /\ row \in AlertRow
  BY <1>1 DEF AlertRow
<1>3. alert' = [alert EXCEPT ![t][r] = row]
  BY <1>2 DEF AcknowledgeAlert
<1>4. row.by = alert[t][r].by /\ row.notices = alert[t][r].notices
  OBVIOUS
<1> HIDE DEF row
<1>5. /\ alert' \in [AlertTypes -> [Runs -> {None} \cup AlertRow]]
      /\ alert'[t][r] = row
      /\ \A u \in AlertTypes, q \in Runs : <<u, q>> # <<t, r>> => alert'[u][q] = alert[u][q]
  BY <1>0, <1>2, <1>3, TypesAre
<1>6. alert[t][r] # None /\ run' = run /\ now' = now /\ pass' = pass /\ owed' = owed
      /\ failures' = failures
  BY DEF AcknowledgeAlert
<1>7. TypeOK'
  BY <1>0, <1>5, <1>6, TypesAre, TypesAreNext
<1>8. RowInv'
  BY <1>0, <1>6 DEF RowInv
<1>9. PassInv'
  <2>1. ASSUME NEW u \in AlertTypes, NEW q \in Runs
        PROVE  \/ alert'[u][q] = None
               \/ /\ alert[u][q] # None
                  /\ alert'[u][q].by = alert[u][q].by
                  /\ alert'[u][q].notices = alert[u][q].notices
    BY <1>4, <1>5, <1>6
  <2> QED  BY <1>0, <1>6, <2>1, PassesRest
<1>10. NotifiedOnce'
  BY <1>0, <1>4, <1>5, <1>6 DEF NotifiedOnce
<1> QED  BY <1>7, <1>8, <1>9, <1>10 DEF AlertsInv

(* A pass that begins, rests or lists: nothing else changes but counters.  *)
LEMMA PassAloneKeeps ==
  ASSUME AlertsInv, NEW p \in Passes, NEW t \in PassState,
         t.pc \in {"idle", "list"} <=> t.page = <<>>,
         t.inserted = FALSE,
         t.pc = "mark" => Stages[t.stage] = "started",
         pass' = [pass EXCEPT ![p] = t],
         run' = run, alert' = alert, now' = now,
         owed' \in 0 .. MaxHandlers, failures' \in 0 .. MaxFailures
  PROVE  AlertsInv'
<1>0. TypeOK /\ RowInv /\ PassInv /\ NotifiedOnce
  BY DEF AlertsInv
<1>1. /\ pass' \in [Passes -> PassState]
      /\ \A q \in Passes : pass'[q].pc \in {"idle", "list"} <=> pass'[q].page = <<>>
      /\ PassInv'
  BY <1>0, PassMoves
<1>2. TypeOK'
  BY <1>0, <1>1, TypesAre, TypesAreNext
<1> QED  BY <1>0, <1>1, <1>2 DEF AlertsInv, RowInv, NotifiedOnce
LEMMA AcceptedKeeps ==
  ASSUME AlertsInv, Accepted
  PROVE  AlertsInv'
<1>0. TypeOK /\ RowInv /\ PassInv /\ NotifiedOnce
  BY DEF AlertsInv
<1>1. owed' \in 0 .. MaxHandlers
  BY <1>0, AlertsAssumption, TypesAre DEF Accepted
<1>2. now \in 0 .. MaxTime /\ failures \in 0 .. MaxFailures
  BY <1>0, TypesAre
<1>3. CASE pass["trigger"].pc = "idle"
  <2>1. pass' = [pass EXCEPT !["trigger"] = Begun] /\ "trigger" \in Passes
    BY <1>3 DEF Accepted, Passes
  <2> QED  BY <1>1, <1>2, <2>1, BegunIsAPass, PassAloneKeeps DEF Accepted
<1>4. CASE pass["trigger"].pc # "idle"
  <2>1. pass' = pass /\ run' = run /\ alert' = alert /\ now' = now /\ failures' = failures
    BY <1>4 DEF Accepted
  <2>2. TypeOK'
    BY <1>0, <1>1, <2>1, TypesAre, TypesAreNext
  <2>3. PassInv'
    BY <1>0, <2>1, PassesRest
  <2> QED  BY <1>0, <2>1, <2>2, <2>3 DEF AlertsInv, RowInv, NotifiedOnce
<1> QED  BY <1>3, <1>4

LEMMA FireKeeps ==
  ASSUME AlertsInv, Fire
  PROVE  AlertsInv'
<1>1. now \in 0 .. MaxTime /\ owed \in 0 .. MaxHandlers /\ failures \in 0 .. MaxFailures
  BY TypesAre DEF AlertsInv
<1>2. "ticker" \in Passes
  BY DEF Passes
<1> QED  BY <1>1, <1>2, BegunIsAPass, PassAloneKeeps DEF Fire

LEMMA FailKeeps ==
  ASSUME AlertsInv, NEW p \in Passes, Fail(p)
  PROVE  AlertsInv'
<1>1. now \in 0 .. MaxTime /\ owed \in 0 .. MaxHandlers /\ failures' \in 0 .. MaxFailures
  BY AlertsAssumption, TypesAre DEF AlertsInv, Fail
<1> QED  BY <1>1, RestingIsAPass, PassAloneKeeps DEF Fail, Go

LEMMA ListKeeps ==
  ASSUME AlertsInv, NEW p \in Passes, List(p)
  PROVE  AlertsInv'
<1> DEFINE rows == {r \in ListRuns(Stage(p)) : Stage(p) = "started" => Silent(r, pass[p].at)}
<1>0. TypeOK /\ RowInv
  BY DEF AlertsInv
<1>1. owed \in 0 .. MaxHandlers /\ failures \in 0 .. MaxFailures /\ pass[p] \in PassState
  BY <1>0, TypesAre
<1>2. Stage(p) # "absent"
  BY <1>1, StagesAre DEF Stage, PassState
<1>3. rows \in SUBSET Runs /\ \A r \in rows : run[r].status # "absent"
  BY <1>2 DEF ListRuns, InStatus
<1>4. pass' = [pass EXCEPT ![p] = With(pass[p], InOrder(rows))]
  BY DEF List, Go
<1> HIDE DEF rows
<1>5. InOrder(rows) \in Seq(Runs)
  BY <1>0, <1>3, PagesAreSequences
<1> DEFINE t == With(pass[p], InOrder(rows))
<1>6. /\ t \in PassState
      /\ t.pc \in {"idle", "list"} <=> t.page = <<>>
      /\ t.inserted = FALSE
      /\ t.pc = "mark" => Stages[t.stage] = "started"
  BY <1>1, <1>5, PassGoesOn
<1>7. pass' = [pass EXCEPT ![p] = t]
  BY <1>4
<1> HIDE DEF t
<1>8. run' = run /\ alert' = alert /\ now' = now /\ owed' = owed /\ failures' = failures
  BY DEF List
<1> QED  BY <1>1, <1>6, <1>7, <1>8, PassAloneKeeps

LEMMA MarkKeeps ==
  ASSUME AlertsInv, NEW p \in Passes, Mark(p)
  PROVE  /\ AlertsInv'
         /\ \A q \in Runs : EndStays(q) /\ (Marked(q)' => Marked(q) \/ q = Target(p))
         /\ Stage(p) = "started"
<1> DEFINE r == Target(p)
           end == IF run[r].ended = None THEN pass[p].at ELSE run[r].ended
           row == [run[r] EXCEPT !.status = "incomplete", !.ended = end]
           t == [pass[p] EXCEPT !.pc = "open"]
<1>0. TypeOK /\ RowInv /\ PassInv /\ NotifiedOnce
  BY DEF AlertsInv
<1>1. pass[p] \in PassState /\ pass[p].pc = "mark" /\ pass[p].inserted = FALSE
  <2>1. pass[p] \in PassState /\ pass[p].pc = "mark"
    BY <1>0, TypesAre DEF Mark, At
  <2> QED  BY <1>0, <2>1 DEF PassInv, PassHolds, PassState
<1>2. r \in Runs /\ pass[p].page # <<>>
  BY <1>0, <1>1, TargetsAreRuns
<1>3. t \in PassState /\ t.pc = "open" /\ t.page # <<>> /\ t.inserted = FALSE
  BY <1>1, <1>2 DEF PassState
<1>4. pass' = [pass EXCEPT ![p] = t] /\ alert' = alert /\ now' = now /\ owed' = owed
      /\ failures' = failures
  BY DEF Mark, Go
<1> HIDE DEF t
<1>5. /\ pass' \in [Passes -> PassState]
      /\ \A q \in Passes : pass'[q].pc \in {"idle", "list"} <=> pass'[q].page = <<>>
      /\ PassInv'
  BY <1>0, <1>3, <1>4, PassMoves
<1>6. /\ run' \in [Runs -> RunRow]
      /\ \A q \in Runs : \/ run'[q] = run[q]
                         \/ /\ run[q].status = "started" /\ q = r
                            /\ run'[q].status = "incomplete" /\ run'[q].last = run[q].last
  <2>1. run \in [Runs -> RunRow] /\ run[r] \in RunRow
    BY <1>0, <1>2, TypesAre
  <2>2. CASE run[r].status # "started"
    BY <2>1, <2>2 DEF Mark
  <2>3. CASE run[r].status = "started"
    <3>1. ASSUME NEW x \in RunRow, NEW e \in Nat \cup {None}
          PROVE  LET y == [x EXCEPT !.status = "incomplete", !.ended = e]
                 IN  y \in RunRow /\ y.status = "incomplete" /\ y.last = x.last
      BY TerminalIs DEF RunRow, RowStatuses, Statuses
    <3>2. end \in Nat \cup {None}
      BY <1>1, <2>1 DEF RunRow, PassState
    <3>3. run' = [run EXCEPT ![r] = row]
      BY <1>2, <2>1, <2>3 DEF Mark
    <3>4. row \in RunRow /\ row.status = "incomplete" /\ row.last = run[r].last
      <4> HIDE DEF end
      <4> QED  BY <2>1, <3>1, <3>2
    <3> HIDE DEF row, r
    <3> QED  BY <1>2, <2>1, <2>3, <3>3, <3>4
  <2> QED  BY <2>2, <2>3
<1>7. /\ "incomplete" \in Terminal
      /\ \A q \in Runs : run[q].status = "started" => run[q].ended = None
  <2>1. "incomplete" \in Terminal /\ "started" \notin Terminal
    BY TerminalIs
  <2>2. \A q \in Runs : run[q].ended \in Nat \cup {None}
    BY <1>0, TypesAre DEF RunRow
  <2> QED  BY <1>0, <2>1, <2>2 DEF RowInv, RowHolds
<1>8. TypeOK'
  BY <1>0, <1>4, <1>5, <1>6, TypesAre, TypesAreNext
<1>9. RowInv'
  BY <1>0, <1>6, <1>7 DEF RowInv, RowHolds
<1>10. NotifiedOnce'
  BY <1>0, <1>4 DEF NotifiedOnce
<1>11. \A q \in Runs : EndStays(q) /\ (Marked(q)' => Marked(q) \/ q = Target(p))
  BY <1>6, <1>7 DEF EndStays, Marked
<1>12. Stage(p) = "started"
  BY <1>0, <1>1 DEF PassInv, PassHolds, Stage
<1> QED  BY <1>5, <1>8, <1>9, <1>10, <1>11, <1>12 DEF AlertsInv
(* A pass that inserts opens the row in its own name and without notices;  *)
(* no other pass has that name.                                            *)
LEMMA InsertKeeps ==
  ASSUME AlertsInv, NEW p \in Passes, Insert(p)
  PROVE  AlertsInv'
<1> DEFINE u == AlertOf(p)
           r == Target(p)
           new == [state |-> "open", by |-> p, notices |-> 0]
<1>0. TypeOK /\ RowInv /\ PassInv /\ NotifiedOnce
  BY DEF AlertsInv
<1>1. pass[p] \in PassState /\ pass[p].pc = "open" /\ pass[p].inserted = FALSE
  <2>1. pass[p] \in PassState /\ pass[p].pc = "open"
    BY <1>0, TypesAre DEF Insert, At
  <2> QED  BY <1>0, <2>1 DEF PassInv, PassHolds, PassState
<1>2. u \in AlertTypes /\ r \in Runs /\ pass[p].page # <<>>
  BY <1>0, <1>1, TargetsAreRuns
<1>3. /\ run' = run /\ now' = now /\ owed' = owed /\ failures' = failures
      /\ now \in 0 .. MaxTime /\ owed \in 0 .. MaxHandlers /\ failures \in 0 .. MaxFailures
  BY <1>0, TypesAre DEF Insert
<1>4. CASE IsOpen(alert[u][r])
  <2> DEFINE t == [pass[p] EXCEPT !.pc = "read"]
  <2>1. t \in PassState /\ t.pc = "read" /\ t.page # <<>> /\ t.inserted = FALSE
    BY <1>1, <1>2 DEF PassState
  <2>2. pass' = [pass EXCEPT ![p] = t] /\ alert' = alert
    BY <1>4 DEF Insert, Go
  <2> HIDE DEF t
  <2> QED  BY <1>3, <2>1, <2>2, PassAloneKeeps
<1>5. CASE ~IsOpen(alert[u][r]) /\ (alert[u][r] # None \/ run[r].status = "absent")
  <2>1. pass' = [pass EXCEPT ![p] = Resting] /\ alert' = alert
    BY <1>5 DEF Insert, Go
  <2> QED  BY <1>3, <2>1, RestingIsAPass, PassAloneKeeps
<1>6. CASE ~IsOpen(alert[u][r]) /\ alert[u][r] = None /\ run[r].status # "absent"
  <2> DEFINE t == [pass[p] EXCEPT !.pc = "read", !.inserted = TRUE]
  <2>1. t \in PassState /\ t.pc = "read" /\ t.page # <<>> /\ t.page = pass[p].page
        /\ t.stage = pass[p].stage
    BY <1>1, <1>2 DEF PassState
  <2>2. pass' = [pass EXCEPT ![p] = t]
    BY <1>6 DEF Insert, Go
  <2>3. alert' = [alert EXCEPT ![u][r] = new]
    BY <1>6 DEF Insert
  <2>4. new \in AlertRow /\ new.by = p /\ new.notices = 0
    BY DEF AlertRow
  <2> HIDE DEF t, new
  <2>5. /\ pass' \in [Passes -> PassState]
        /\ pass'[p] = t
        /\ \A q \in Passes \ {p} : pass'[q] = pass[q]
    BY <1>0, <2>1, <2>2, TypesAre
  <2>6. \A q \in Passes : pass'[q].pc \in {"idle", "list"} <=> pass'[q].page = <<>>
    BY <1>0, <2>1, <2>5, TypesAre
  <2>7. /\ alert' \in [AlertTypes -> [Runs -> {None} \cup AlertRow]]
        /\ alert'[u][r] = new
        /\ \A v \in AlertTypes, q \in Runs : <<v, q>> # <<u, r>> => alert'[v][q] = alert[v][q]
    <3> HIDE DEF u, r
    <3> QED  BY <1>0, <1>2, <2>3, <2>4, TypesAre
  <2>8. TypeOK'
    <3> HIDE DEF u, r
    <3> QED  BY <1>0, <1>3, <1>6, <2>5, <2>6, <2>7, TypesAre, TypesAreNext
  <2>9. PassHolds(p)'
    <3>1. AlertOf(p)' = u /\ Target(p)' = r
      BY <2>1, <2>5 DEF AlertOf, Target, Stage
    <3>2. alert'[AlertOf(p)'][Target(p)'].notices = 0
      <4> HIDE DEF u, r
      <4> QED  BY <2>4, <2>7, <3>1
    <3> HIDE DEF u, r
    <3> QED  BY <2>1, <2>5, <3>2 DEF PassHolds
  <2>10. ASSUME NEW q \in Passes \ {p}
         PROVE  PassHolds(q)'
    <3>1. PassHolds(q) /\ pass'[q] = pass[q]
      BY <1>0, <2>5 DEF PassInv
    <3>2. ASSUME NEW v \in AlertTypes, NEW s \in Runs
          PROVE  \/ alert'[v][s] = None
                 \/ alert'[v][s].by # q
                 \/ /\ alert[v][s] # None
                    /\ alert[v][s].by = q
                    /\ alert'[v][s].notices = alert[v][s].notices
      <4> HIDE DEF u, r
      <4>1. alert'[v][s] = new \/ alert'[v][s] = alert[v][s]
        BY <2>7
      <4> QED  BY <2>4, <4>1
    <3> QED  BY <1>0, <3>1, <3>2, OthersPassHolds
  <2>11. NotifiedOnce'
    <3> HIDE DEF u, r
    <3> QED  BY <1>0, <2>4, <2>7 DEF NotifiedOnce
  <2>12. RowInv'
    BY <1>0, <1>3 DEF RowInv
  <2>13. PassInv'
    BY <2>9, <2>10 DEF PassInv
  <2> QED  BY <2>8, <2>11, <2>12, <2>13 DEF AlertsInv
<1> QED  BY <1>4, <1>5, <1>6

(* A pass goes on, and one row may get another state or its first notice;  *)
(* a row with the name of another pass gets no notice.                     *)
LEMMA RowChangeKeeps ==
  ASSUME AlertsInv, NEW p \in Passes, NEW t \in PassState,
         t.pc \in {"idle", "list"} <=> t.page = <<>>,
         t.inserted = FALSE,
         t.pc = "mark" => Stages[t.stage] = "started",
         pass' = [pass EXCEPT ![p] = t],
         NEW u \in AlertTypes, NEW r \in Runs, NEW new \in AlertRow,
         alert[u][r] # None,
         alert' = [alert EXCEPT ![u][r] = new],
         new.by = alert[u][r].by,
         new.by # p => new.notices = alert[u][r].notices,
         new.notices <= 1,
         run' = run, now' = now, owed' = owed, failures' = failures
  PROVE  AlertsInv'
<1>0. TypeOK /\ RowInv /\ PassInv /\ NotifiedOnce
  BY DEF AlertsInv
<1>1. /\ alert' \in [AlertTypes -> [Runs -> {None} \cup AlertRow]]
      /\ alert'[u][r] = new
      /\ \A v \in AlertTypes, q \in Runs : <<v, q>> # <<u, r>> => alert'[v][q] = alert[v][q]
  BY <1>0, TypesAre
<1>2. ASSUME NEW q \in Passes \ {p}, NEW v \in AlertTypes, NEW s \in Runs
      PROVE  \/ alert'[v][s] = None
             \/ alert'[v][s].by # q
             \/ /\ alert[v][s] # None
                /\ alert[v][s].by = q
                /\ alert'[v][s].notices = alert[v][s].notices
  BY <1>1
<1>3. /\ pass' \in [Passes -> PassState]
      /\ \A q \in Passes : pass'[q].pc \in {"idle", "list"} <=> pass'[q].page = <<>>
      /\ PassInv'
  BY <1>0, <1>2, PassMoves
<1>4. TypeOK'
  BY <1>0, <1>1, <1>3, TypesAre, TypesAreNext
<1>5. NotifiedOnce'
  BY <1>0, <1>1 DEF NotifiedOnce
<1> QED  BY <1>0, <1>3, <1>4, <1>5 DEF AlertsInv, RowInv
LEMMA ReadKeeps ==
  ASSUME AlertsInv, NEW p \in Passes, Read(p)
  PROVE  AlertsInv'
<1> DEFINE u == AlertOf(p)
           r == Target(p)
<1>0. TypeOK /\ RowInv /\ PassInv /\ NotifiedOnce
  BY DEF AlertsInv
<1>1. pass[p] \in PassState /\ pass[p].pc = "read"
  BY <1>0, TypesAre DEF Read, At
<1>2. u \in AlertTypes /\ r \in Runs /\ pass[p].page # <<>> /\ Tail(pass[p].page) \in Seq(Runs)
  BY <1>0, <1>1, TargetsAreRuns
<1>3. /\ run' = run /\ now' = now /\ owed' = owed /\ failures' = failures
      /\ owed \in 0 .. MaxHandlers /\ failures \in 0 .. MaxFailures
  BY <1>0, TypesAre DEF Read
<1>4. CASE ~IsOpen(alert[u][r])
  <2>1. pass' = [pass EXCEPT ![p] = Resting] /\ alert' = alert
    BY <1>4 DEF Read, Go
  <2> QED  BY <1>3, <2>1, RestingIsAPass, PassAloneKeeps
<1>5. CASE IsOpen(alert[u][r])
  <2>1. PICK t \in PassState : /\ t.pc \in {"idle", "list"} <=> t.page = <<>>
                               /\ t.inserted = FALSE
                               /\ t.pc = "mark" => Stages[t.stage] = "started"
                               /\ pass' = [pass EXCEPT ![p] = t]
    <3>1. CASE Stage(p) = "failed"
      <4> DEFINE t == [pass[p] EXCEPT !.pc = "resolve", !.inserted = FALSE]
      <4>1. t \in PassState /\ t.pc = "resolve" /\ t.page # <<>> /\ t.inserted = FALSE
        BY <1>1, <1>2 DEF PassState
      <4>2. pass' = [pass EXCEPT ![p] = t]
        BY <1>5, <3>1 DEF Read, Go
      <4> HIDE DEF t
      <4> QED  BY <4>1, <4>2
    <3>2. CASE Stage(p) # "failed"
      <4> DEFINE t == With(pass[p], Tail(pass[p].page))
      <4>1. /\ t \in PassState /\ t.inserted = FALSE
            /\ t.pc \in {"idle", "list"} <=> t.page = <<>>
            /\ t.pc = "mark" => Stages[t.stage] = "started"
        BY <1>1, <1>2, PassGoesOn
      <4>2. pass' = [pass EXCEPT ![p] = t]
        BY <1>5, <3>2 DEF Read, NextRun, Go
      <4> HIDE DEF t
      <4> QED  BY <4>1, <4>2
    <3> QED  BY <3>1, <3>2
  <2>2. CASE Created(p) /\ alert[u][r].state = "open"
    <3> DEFINE new == [alert[u][r] EXCEPT !.notices = @ + 1]
    <3>1. alert[u][r] \in AlertRow /\ alert[u][r] # None
      BY <1>0, <1>2, <1>5, TypesAre DEF IsOpen
    <3>2. alert[u][r].by = p /\ alert[u][r].notices = 0
      BY <1>0, <1>1, <2>2, <3>1 DEF Created, PassInv, PassHolds
    <3>3. new \in AlertRow /\ new.by = p /\ new.notices <= 1
      BY <3>1, <3>2 DEF AlertRow
    <3>4. alert' = [alert EXCEPT ![u][r] = new]
      BY <1>5, <2>2 DEF Read
    <3> HIDE DEF new, u, r
    <3>5. /\ new.by = alert[u][r].by
          /\ new.by # p => new.notices = alert[u][r].notices
      BY <3>2, <3>3
    <3>6. u \in AlertTypes /\ r \in Runs
      BY <1>2
    <3> QED  BY <1>3, <2>1, <3>1, <3>3, <3>4, <3>5, <3>6, RowChangeKeeps
  <2>3. CASE ~(Created(p) /\ alert[u][r].state = "open")
    <3>1. alert' = alert
      BY <1>5, <2>3 DEF Read
    <3> QED  BY <1>3, <2>1, <3>1, PassAloneKeeps
  <2> QED  BY <2>2, <2>3
<1> QED  BY <1>4, <1>5

LEMMA ResolveKeeps ==
  ASSUME AlertsInv, NEW p \in Passes, Resolve(p)
  PROVE  AlertsInv'
<1> DEFINE u == "run_stalled"
           r == Target(p)
           t == With(pass[p], Tail(pass[p].page))
<1>0. TypeOK /\ RowInv /\ PassInv /\ NotifiedOnce
  BY DEF AlertsInv
<1>1. pass[p] \in PassState /\ pass[p].pc = "resolve"
  BY <1>0, TypesAre DEF Resolve, At
<1>2. u \in AlertTypes /\ r \in Runs /\ Tail(pass[p].page) \in Seq(Runs)
  BY <1>0, <1>1, TargetsAreRuns DEF AlertTypes
<1>3. /\ run' = run /\ now' = now /\ owed' = owed /\ failures' = failures
      /\ owed \in 0 .. MaxHandlers /\ failures \in 0 .. MaxFailures
  BY <1>0, TypesAre DEF Resolve
<1>4. /\ t \in PassState /\ t.inserted = FALSE
      /\ t.pc \in {"idle", "list"} <=> t.page = <<>>
      /\ t.pc = "mark" => Stages[t.stage] = "started"
  BY <1>1, <1>2, PassGoesOn
<1>5. pass' = [pass EXCEPT ![p] = t]
  BY DEF Resolve, NextRun, Go
<1> HIDE DEF t
<1>6. CASE IsOpen(alert[u][r])
  <2> DEFINE new == [alert[u][r] EXCEPT !.state = "resolved"]
  <2>1. alert[u][r] \in AlertRow /\ alert[u][r] # None
    BY <1>0, <1>2, <1>6, TypesAre DEF IsOpen
  <2>2. new \in AlertRow /\ new.by = alert[u][r].by /\ new.notices = alert[u][r].notices
    BY <2>1 DEF AlertRow
  <2>3. alert' = [alert EXCEPT ![u][r] = new]
    BY <1>6 DEF Resolve
  <2>4. new.notices <= 1
    BY <1>0, <1>2, <2>1, <2>2 DEF NotifiedOnce
  <2> HIDE DEF new, r
  <2> QED  BY <1>2, <1>3, <1>4, <1>5, <2>1, <2>2, <2>3, <2>4, RowChangeKeeps
<1>7. CASE ~IsOpen(alert[u][r])
  <2>1. alert' = alert
    BY <1>7 DEF Resolve
  <2> QED  BY <1>3, <1>4, <1>5, <2>1, PassAloneKeeps
<1> QED  BY <1>6, <1>7
-----------------------------------------------------------------------------
(* The specification.                                                      *)
LEMMA InitHolds == Init => AlertsInv
<1> SUFFICES ASSUME Init
             PROVE  AlertsInv
  OBVIOUS
<1>1. now \in 0 .. MaxTime /\ owed \in 0 .. MaxHandlers /\ failures \in 0 .. MaxFailures
  BY AlertsAssumption DEF Init
<1>2. AbsentRun \in RunRow /\ RowHolds(AbsentRun)
  BY AlertsAssumption DEF AbsentRun, RunRow, RowStatuses, RowHolds
<1>3. run \in [Runs -> RunRow] /\ \A r \in Runs : run[r] = AbsentRun
  BY <1>2 DEF Init
<1>4. alert \in [AlertTypes -> [Runs -> {None} \cup AlertRow]]
      /\ \A t \in AlertTypes, r \in Runs : alert[t][r] = None
  BY DEF Init
<1>5. pass \in [Passes -> PassState] /\ \A p \in Passes : pass[p] = Resting
  BY RestingIsAPass DEF Init
<1>6. TypeOK
  BY <1>1, <1>3, <1>4, <1>5, RestingIsAPass, TypesAre
<1>7. RowInv
  BY <1>2, <1>3 DEF RowInv
<1>8. PassInv
  BY <1>5, RestingIsAPass DEF PassInv, PassHolds
<1>9. NotifiedOnce
  BY <1>4 DEF NotifiedOnce
<1> QED  BY <1>6, <1>7, <1>8, <1>9 DEF AlertsInv

(* Every step keeps the invariant, and the ends of runs.                   *)
LEMMA NextHolds ==
  ASSUME AlertsInv, [Next]_vars
  PROVE  /\ AlertsInv'
         /\ \A r \in Runs : EndStays(r)
<1>0. run' = run => \A r \in Runs : EndStays(r)
  BY DEF EndStays
<1>1. CASE Tick
  BY <1>0, <1>1, TickKeeps DEF Tick
<1>2. CASE \E r \in Runs, e \in Events : Deliver(r, e)
  BY <1>2, DeliverKeeps
<1>3. CASE Accepted
  BY <1>0, <1>3, AcceptedKeeps DEF Accepted
<1>4. CASE Fire
  BY <1>0, <1>4, FireKeeps DEF Fire
<1>5. CASE \E r \in Deletable : DeleteRun(r)
  <2>1. PICK r \in Runs : DeleteRun(r)
    BY <1>5, AlertsAssumption
  <2> QED  BY <2>1, DeleteKeeps
<1>6. CASE \E t \in AlertTypes, r \in Runs : AcknowledgeAlert(t, r)
  BY <1>0, <1>6, AcknowledgeKeeps DEF AcknowledgeAlert
<1>7. ASSUME NEW p \in Passes, Step(p)
      PROVE  /\ AlertsInv'
             /\ \A r \in Runs : EndStays(r)
  <2>1. CASE List(p)
    BY <1>0, <2>1, ListKeeps DEF List
  <2>2. CASE Mark(p)
    BY <2>2, MarkKeeps
  <2>3. CASE Insert(p)
    BY <1>0, <2>3, InsertKeeps DEF Insert
  <2>4. CASE Read(p)
    BY <1>0, <2>4, ReadKeeps DEF Read
  <2>5. CASE Resolve(p)
    BY <1>0, <2>5, ResolveKeeps DEF Resolve
  <2> QED  BY <1>7, <2>1, <2>2, <2>3, <2>4, <2>5 DEF Step
<1>8. CASE \E p \in Passes : Fail(p)
  BY <1>0, <1>8, FailKeeps DEF Fail
<1>9. CASE UNCHANGED vars
  <2>1. /\ now' = now /\ run' = run /\ alert' = alert /\ pass' = pass /\ owed' = owed
        /\ failures' = failures
    BY <1>9 DEF vars
  <2>2. TypeOK'
    BY <2>1, TypesAre, TypesAreNext DEF AlertsInv
  <2>3. PassInv'
    BY <2>1, PassesRest DEF AlertsInv
  <2> QED  BY <1>0, <2>1, <2>2, <2>3 DEF AlertsInv, RowInv, NotifiedOnce
<1> QED  BY <1>1, <1>2, <1>3, <1>4, <1>5, <1>6, <1>7, <1>8, <1>9 DEF Next

(* A step that marks no other run keeps that marked runs are reported, if  *)
(* it leaves the stalled alert of a marked run in place and a pass that is *)
(* about to open one either stays or has opened it.                        *)
LEMMA ReportsRemain ==
  ASSUME AlertsInv, MarkedRunsAreReported, failures' = 0 => failures = 0,
         \A r \in Runs : Marked(r)' => Marked(r),
         \A r \in Runs : Marked(r)' /\ alert["run_stalled"][r] # None
                           => alert'["run_stalled"][r] # None,
         \A p \in Passes : pass[p].pc = "open" /\ Stage(p) = "started" =>
           \/ pass'[p] = pass[p]
           \/ failures' # 0
           \/ \A r \in Runs : r = Target(p) /\ Marked(r)' => alert'["run_stalled"][r] # None
  PROVE  MarkedRunsAreReported'
<1> SUFFICES ASSUME NEW r \in Runs, Marked(r)', failures' = 0,
                    alert'["run_stalled"][r] = None
             PROVE  \E p \in Passes : (At(p, "open") /\ Stage(p) = "started" /\ Target(p) = r)'
  BY DEF MarkedRunsAreReported
<1>1. PICK p \in Passes : At(p, "open") /\ Stage(p) = "started" /\ Target(p) = r
  BY DEF MarkedRunsAreReported
<1>2. pass'[p] = pass[p]
  BY <1>1 DEF At
<1> QED  BY <1>1, <1>2 DEF At, Stage, Target

(* Every step keeps that marked runs are reported.                         *)
LEMMA ReportsNext ==
  ASSUME AlertsInv, MarkedRunsAreReported, [Next]_vars
  PROVE  MarkedRunsAreReported'
<1>0. /\ TypeOK /\ RowInv /\ PassInv
      /\ failures \in Nat /\ "run_stalled" \in AlertTypes
      /\ alert \in [AlertTypes -> [Runs -> {None} \cup AlertRow]]
      /\ pass \in [Passes -> PassState] /\ None \notin AlertRow
  <2>1. None \notin AlertRow
    BY AlertsAssumption DEF AlertRow
  <2> QED  BY <2>1, TypesAre, AlertsAssumption DEF AlertsInv, AlertTypes
<1>r. run' = run => \A r \in Runs : Marked(r)' <=> Marked(r)
  BY DEF Marked
<1>1. CASE UNCHANGED <<run, alert, pass, failures>>
  BY <1>1, <1>r, ReportsRemain
<1>2. CASE Accepted
  BY <1>2, <1>r, <1>0, ReportsRemain DEF Accepted, Passes
<1>3. CASE Fire
  BY <1>3, <1>r, <1>0, ReportsRemain DEF Fire, Passes
<1>4. ASSUME NEW r \in Runs, NEW e \in Events, Deliver(r, e) PROVE MarkedRunsAreReported'
  <2>1. \A q \in Runs : Marked(q)' => Marked(q)
    BY <1>4, DeliverKeeps
  <2> QED  BY <1>4, <2>1, ReportsRemain DEF Deliver
<1>5. ASSUME NEW r \in Runs, DeleteRun(r) PROVE MarkedRunsAreReported'
  <2>1. \A q \in Runs : Marked(q)' => Marked(q) /\ run'[q].status # "absent"
    BY <1>5, DeleteKeeps DEF Marked
  <2>2. \A q \in Runs : alert'["run_stalled"][q] = alert["run_stalled"][q] \/ run'[q].status = "absent"
    BY <1>0, <1>5, DeleteKeeps
  <2> QED  BY <1>5, <2>1, <2>2, ReportsRemain DEF DeleteRun
<1>6. ASSUME NEW t \in AlertTypes, NEW r \in Runs, AcknowledgeAlert(t, r)
      PROVE  MarkedRunsAreReported'
  <2>1. TypeOK'
    BY <1>6, AcknowledgeKeeps DEF AlertsInv
  <2>2. \A q \in Runs : alert["run_stalled"][q] # None => alert'["run_stalled"][q] # None
    <3>1. alert[t][r] \in AlertRow
      BY <1>0, <1>6 DEF AcknowledgeAlert
    <3>2. [alert[t][r] EXCEPT !.state = "acknowledged"] \in AlertRow
      BY <3>1 DEF AlertRow
    <3> DEFINE new == [alert[t][r] EXCEPT !.state = "acknowledged"]
    <3>3. alert' = [alert EXCEPT ![t][r] = new]
      BY <1>6 DEF AcknowledgeAlert
    <3> HIDE DEF new
    <3>4. new # None
      BY <1>0, <3>2 DEF new
    <3> QED  BY <1>0, <3>3, <3>4
  <2> QED  BY <1>6, <1>r, <2>2, ReportsRemain DEF AcknowledgeAlert
<1>7. ASSUME NEW p \in Passes, Fail(p) PROVE MarkedRunsAreReported'
  <2>1. failures' # 0
    BY <1>0, <1>7 DEF Fail
  <2> QED  BY <2>1 DEF MarkedRunsAreReported
<1>8. ASSUME NEW p \in Passes, List(p) PROVE MarkedRunsAreReported'
  BY <1>8, <1>r, <1>0, ReportsRemain DEF List, Go, At
<1>9. ASSUME NEW p \in Passes, Resolve(p) PROVE MarkedRunsAreReported'
  <2>1. \A q \in Runs : alert["run_stalled"][q] # None => alert'["run_stalled"][q] # None
    <3> DEFINE r == Target(p)
               new == [alert["run_stalled"][r] EXCEPT !.state = "resolved"]
    <3>1. r \in Runs
      BY <1>0, <1>9, TargetsAreRuns DEF Resolve, At
    <3>2. CASE ~IsOpen(alert["run_stalled"][r])
      BY <1>9, <3>2 DEF Resolve
    <3>3. CASE IsOpen(alert["run_stalled"][r])
      <4>1. alert["run_stalled"][r] \in AlertRow
        BY <1>0, <3>1, <3>3 DEF IsOpen
      <4>2. new \in AlertRow
        BY <4>1 DEF AlertRow
      <4>3. alert' = [alert EXCEPT !["run_stalled"][r] = new]
        BY <1>9, <3>3 DEF Resolve
      <4>4. new # None
        BY <1>0, <4>2
      <4> HIDE DEF new, r
      <4> QED  BY <1>0, <4>3, <4>4
    <3> QED  BY <3>2, <3>3
  <2>2. \A q \in Passes : q = p \/ pass'[q] = pass[q]
    BY <1>0, <1>9 DEF Resolve, NextRun, Go
  <2> QED  BY <1>9, <1>r, <2>1, <2>2, ReportsRemain DEF Resolve, At
<1>10. ASSUME NEW p \in Passes, Read(p) PROVE MarkedRunsAreReported'
  <2>1. \A q \in Runs : alert["run_stalled"][q] # None => alert'["run_stalled"][q] # None
    <3> DEFINE u == AlertOf(p)
               r == Target(p)
               new == [alert[u][r] EXCEPT !.notices = @ + 1]
    <3>1. u \in AlertTypes /\ r \in Runs
      BY <1>0, <1>10, TargetsAreRuns DEF Read, At
    <3>2. CASE alert' = alert
      BY <3>2
    <3>3. CASE IsOpen(alert[u][r]) /\ alert' = [alert EXCEPT ![u][r] = new]
      <4>1. alert[u][r] \in AlertRow
        BY <1>0, <3>1, <3>3 DEF IsOpen
      <4>2. new \in AlertRow
        BY <4>1 DEF AlertRow
      <4>3. new # None
        BY <1>0, <4>2
      <4> HIDE DEF new, r, u
      <4> QED  BY <1>0, <3>3, <4>3
    <3>4. alert' = alert \/ (IsOpen(alert[u][r]) /\ alert' = [alert EXCEPT ![u][r] = new])
      <4>1. [alert EXCEPT ![u][r].notices = @ + 1] = [alert EXCEPT ![u][r] = new]
        OBVIOUS
      <4> HIDE DEF new
      <4> QED  BY <1>10, <4>1 DEF Read
    <3> QED  BY <3>2, <3>3, <3>4
  <2>2. \A q \in Passes : q = p \/ pass'[q] = pass[q]
    BY <1>0, <1>10 DEF Read, NextRun, Go
  <2> QED  BY <1>10, <1>r, <2>1, <2>2, ReportsRemain DEF Read, At
<1>11. ASSUME NEW p \in Passes, Insert(p) PROVE MarkedRunsAreReported'
  <2> DEFINE u == AlertOf(p)
             r == Target(p)
             new == [state |-> "open", by |-> p, notices |-> 0]
  <2>1. u \in AlertTypes /\ r \in Runs
    BY <1>0, <1>11, TargetsAreRuns DEF Insert, At
  <2>2. new # None
    <3>1. new \in AlertRow
      BY DEF AlertRow
    <3> QED  BY <1>0, <3>1
  <2>3. /\ run' = run /\ failures' = failures
        /\ \/ alert' = alert /\ (alert[u][r] # None \/ run[r].status = "absent")
           \/ alert' = [alert EXCEPT ![u][r] = new]
    BY <1>11 DEF Insert, IsOpen
  <2>4. \A q \in Passes : q = p \/ pass'[q] = pass[q]
    BY <1>0, <1>11 DEF Insert, Go
  <2> HIDE DEF new
  <2>5. \A v \in AlertTypes, q \in Runs : alert[v][q] # None => alert'[v][q] # None
    <3> HIDE DEF u, r
    <3> QED  BY <1>0, <2>2, <2>3
  <2>6. alert'[u][r] # None \/ run'[r].status = "absent"
    <3> HIDE DEF u, r
    <3> QED  BY <1>0, <2>1, <2>2, <2>3
  <2>7. Stage(p) = "started" => u = "run_stalled"
    BY DEF AlertOf
  <2>8. \A q \in Runs : Stage(p) = "started" /\ q = r /\ Marked(q)'
                          => alert'["run_stalled"][q] # None
    <3> HIDE DEF u, r
    <3> QED  BY <2>6, <2>7 DEF Marked
  <2> QED  BY <1>0, <1>r, <2>3, <2>4, <2>5, <2>8, ReportsRemain
<1>12. ASSUME NEW p \in Passes, Mark(p) PROVE MarkedRunsAreReported'
  <2>1. /\ Stage(p) = "started" /\ Target(p) \in Runs
        /\ \A q \in Runs : Marked(q)' => Marked(q) \/ q = Target(p)
    BY <1>0, <1>12, MarkKeeps, TargetsAreRuns DEF Mark, At
  <2>2. /\ pass' = [pass EXCEPT ![p] = [pass[p] EXCEPT !.pc = "open"]]
        /\ alert' = alert /\ failures' = failures /\ pass[p].pc = "mark"
    BY <1>12 DEF Mark, Go, At
  <2>3. (At(p, "open") /\ Stage(p) = "started" /\ Target(p) = Target(p))'
    <3>1. pass'[p].pc = "open" /\ pass'[p].stage = pass[p].stage
      BY <1>0, <2>2 DEF PassState
    <3> QED  BY <2>1, <3>1 DEF At, Stage
  <2>4. Target(p)' = Target(p)
    BY <1>0, <2>2 DEF PassState, Target
  <2>5. \A q \in Passes : q = p \/ pass'[q] = pass[q]
    BY <1>0, <2>2
  <2> SUFFICES ASSUME NEW q \in Runs, Marked(q)', failures' = 0, alert'["run_stalled"][q] = None
               PROVE  \E o \in Passes : (At(o, "open") /\ Stage(o) = "started" /\ Target(o) = q)'
    BY DEF MarkedRunsAreReported
  <2>6. CASE q = Target(p)
    BY <2>3, <2>4, <2>6
  <2>7. CASE q # Target(p)
    <3>1. PICK o \in Passes : At(o, "open") /\ Stage(o) = "started" /\ Target(o) = q
      BY <2>1, <2>2, <2>7 DEF MarkedRunsAreReported
    <3>2. pass'[o] = pass[o]
      BY <2>2, <2>5, <3>1 DEF At
    <3> QED  BY <3>1, <3>2 DEF At, Stage, Target
  <2> QED  BY <2>6, <2>7
<1>13. \A r \in Deletable : r \in Runs
  BY AlertsAssumption
<1> QED  BY <1>1, <1>2, <1>3, <1>4, <1>5, <1>6, <1>7, <1>8, <1>9, <1>10, <1>11, <1>12, <1>13
         DEF Next, Step, Tick, vars

(* The tables and the passes hold values of their types; a pass has runs to*)
(* go through whenever it is past the query of a stage, and an alert       *)
(* belongs to a run that exists.                                           *)
THEOREM AlertsTypes == Spec => []TypeOK
<1>1. Init => AlertsInv
  BY InitHolds
<1>2. AlertsInv /\ [Next]_vars => AlertsInv'
  BY NextHolds
<1>3. AlertsInv => TypeOK
  BY DEF AlertsInv
<1> QED  BY <1>1, <1>2, <1>3, PTL DEF Spec

(* An alert notifies at most once, whichever pass inserted it, whichever   *)
(* passes find it and whatever a user does to it in between.               *)
THEOREM AlertsNotifyOnce == Spec => []NotifiedOnce
<1>1. Init => AlertsInv
  BY InitHolds
<1>2. AlertsInv /\ [Next]_vars => AlertsInv'
  BY NextHolds
<1>3. AlertsInv => NotifiedOnce
  BY DEF AlertsInv
<1> QED  BY <1>1, <1>2, <1>3, PTL DEF Spec

(* While no statement fails, a run that silence ended has its stalled      *)
(* alert, or the pass that marked it goes on to open it: whatever happens  *)
(* to the run, to its alerts and in the other pass meanwhile.              *)
THEOREM MarkedRunsHaveAlerts == Spec => []MarkedRunsAreReported
<1>1. Init => AlertsInv /\ MarkedRunsAreReported
  BY InitHolds DEF Init, MarkedRunsAreReported, Marked, AbsentRun
<1>2. AlertsInv /\ MarkedRunsAreReported /\ [Next]_vars => (AlertsInv /\ MarkedRunsAreReported)'
  BY NextHolds, ReportsNext
<1> QED  BY <1>1, <1>2, PTL DEF Spec

(* The end of a run gives way only to an earlier one, and never to the     *)
(* silence that a pass saw, however long ago it listed the run.            *)
THEOREM ReportedEndsStay == Spec => ReportedEndStays
<1> DEFINE Stays == \A r \in Runs : EndStays(r)
<1>1. Init => AlertsInv
  BY InitHolds
<1>2. AlertsInv /\ [Next]_vars => AlertsInv'
  BY NextHolds
<1>3. AlertsInv /\ [Next]_vars => [Stays]_vars
  BY NextHolds
<1>4. [][Stays]_vars <=> ReportedEndStays
  BY DEF ReportedEndStays, EndStays
<1> QED  BY <1>1, <1>2, <1>3, <1>4, PTL DEF Spec
=============================================================================
