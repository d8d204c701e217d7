------------------------------- MODULE RunLog -------------------------------
(***************************************************************************)
(* What the event store promises, with no transactions in it: every run is *)
(* a log of distinct source events in the order they were received, a      *)
(* batch is appended whole and in one step (an invalid event and a repeat  *)
(* leave no entry), and a log disappears only as a whole.                  *)
(***************************************************************************)
EXTENDS Naturals, Sequences, FiniteSets

CONSTANTS Runs, Batches

VARIABLE log

vars == <<log>>

Entries(r) == {log[r][i] : i \in DOMAIN log[r]}

StoredKeys == {e.key : e \in UNION {Entries(r) : r \in Runs}}

(* The positions of batch b that add an entry: the first valid event under *)
(* a key the store does not hold.                                          *)
Fresh(b) ==
  {i \in DOMAIN b : /\ b[i].valid
                    /\ b[i].key \notin StoredKeys
                    /\ \A j \in 1..(i - 1) : b[j].valid => b[j].key # b[i].key}

(* The entries batch b adds to run r, in batch order. *)
AddedTo(b, r) ==
  LET at == {i \in Fresh(b) : b[i].run = r}
  IN [n \in 1..Cardinality(at) |->
        b[CHOOSE i \in at : Cardinality({j \in at : j < i}) = n - 1]]

Init == log = [r \in Runs |-> <<>>]

AppendBatch(b) == log' = [r \in Runs |-> log[r] \o AddedTo(b, r)]

DeleteRun(r) == log' = [log EXCEPT ![r] = <<>>]

Next == \/ \E b \in Batches : AppendBatch(b)
        \/ \E r \in Runs : DeleteRun(r)

Spec == Init /\ [][Next]_vars
=============================================================================
