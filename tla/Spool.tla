-------------------------------- MODULE Spool --------------------------------
(***************************************************************************)
(* The local disk spool of internal/ingest/spool.go: one file per source   *)
(* under one directory, shared by the collector process, which drains it   *)
(* when it starts and sweeps aged entries out of it, and by the short-     *)
(* lived "traceboard hook" processes, which append to it when a delivery   *)
(* fails.  Spool.mu orders the calls inside one process only, so every     *)
(* process is sequential here and nothing orders two processes: a file may *)
(* be replaced between the moment another process reads it and the moment  *)
(* that process installs its own version.                                  *)
(***************************************************************************)
EXTENDS Naturals, Sequences, SequencesExt, FiniteSets, FiniteSetsExt

CONSTANTS Hooks,     \* hook processes
          Server,    \* the collector process
          Sources,   \* sanitized source names: numbers, for their sorted order
          Payloads,  \* the events hooks may have to spool
          Groups,    \* the payload sequences that calls of Append carry
          Size,      \* the length of the line of each payload
          Limit,     \* Spool.limitBytes
          LineMax,   \* the longest line bufio.Scanner accepts
          MaxAge,    \* Spool.maxAge
          MaxTime    \* bound on the clock (checking only)

Procs == Hooks \cup {Server}

ASSUME SpoolAssumption ==
  /\ Server \notin Hooks
  /\ Sources \subseteq Nat
  /\ Groups \subseteq Seq(Payloads)
  /\ Size \in [Payloads -> Nat]
  /\ Limit \in Nat /\ LineMax \in Nat /\ MaxAge \in Nat /\ MaxTime \in Nat

VARIABLES now,     \* the wall clock
          file,    \* the entries of each source's file; <<>> is no file
          proc,    \* the call each process is in
          called,  \* history: payloads that Append was called with
          taken,   \* history: payloads the collector's ingest did not refuse
          fate     \* history: what became of payloads that left the spool

vars == <<now, file, proc, called, taken, fate>>
-----------------------------------------------------------------------------
(* A spoolEntry: the payload and the time of the Append call. *)
Entry == [p: Payloads, at: Nat]

PayloadsIn(q) == {q[i].p : i \in DOMAIN q}

Bytes(q) ==
  LET sum[i \in 0..Len(q)] == IF i = 0 THEN 0 ELSE sum[i - 1] + Size[q[i].p]
  IN sum[Len(q)]

(* Defect: the new entries go instead of the oldest ones.                  *)
Newest_KeepsOldest(q) ==
  LET last == Max({i \in 0..Len(q) : Bytes(SubSeq(q, 1, i)) <= Limit})
  IN SubSeq(q, 1, last)

(* The loop of appendLocked: oldest entries go until the rest fits. *)
Newest(q) ==
  LET first == Min({i \in 1..(Len(q) + 1) : Bytes(SubSeq(q, i, Len(q))) <= Limit})
  IN SubSeq(q, first, Len(q))

(* readEntries fails on a line the scanner cannot hold. *)
Readable(q) == \A i \in DOMAIN q : Size[q[i].p] <= LineMax

(* Defect: an entry exactly as old as the limit goes too.                  *)
Expired_Inclusive(entry, at) == entry.at + MaxAge <= at

Expired(entry, at) == entry.at + MaxAge < at

(* The loop of Expire: what is left of the entries of a file. *)
Unexpired(q, at) ==
  LET kept[i \in 0..Len(q)] ==
        IF i = 0 THEN <<>>
        ELSE IF Expired(q[i], at) THEN kept[i - 1] ELSE Append(kept[i - 1], q[i])
  IN kept[Len(q)]

(* The memory of a process: the sources still to visit, the time fixed at  *)
(* the start, the entries to append, those read and those to be written.   *)
Resting == [op |-> "none", pc |-> "idle", todo |-> {}, at |-> 0, new |-> <<>>,
            buf |-> <<>>, keep |-> <<>>, next |-> 1]

NoFate == [refused |-> {}, dropped |-> {}, expired |-> {}, overwritten |-> {}]

Init ==
  /\ now = 0
  /\ file = [s \in Sources |-> <<>>]
  /\ proc = [q \in Procs |-> Resting]
  /\ called = {}
  /\ taken = {}
  /\ fate = NoFate

(* The source a call is working on: directory entries are sorted. *)
Source(q) == Min(proc[q].todo)

NonEmpty == {s \in Sources : file[s] # <<>>}

InFiles == UNION {PayloadsIn(file[s]) : s \in Sources}

Appending == UNION {PayloadsIn(proc[h].new) : h \in Hooks}

-----------------------------------------------------------------------------
(* Calls.  Append stamps its entries before it reads the file; Expire      *)
(* fixes its cutoff after it lists the directory.                          *)

StartAppend(h, s, group) ==
  /\ proc[h].pc = "idle"
  /\ ToSet(group) \cap called = {}
  /\ called' = called \cup ToSet(group)
  /\ proc' = [proc EXCEPT ![h] =
                [Resting EXCEPT !.op = "append", !.pc = "read", !.todo = {s},
                                !.new = [i \in DOMAIN group |-> [p |-> group[i], at |-> now]]]]
  /\ UNCHANGED <<now, file, taken, fate>>

StartExpire(q) ==
  /\ proc[q].pc = "idle"
  /\ NonEmpty # {}
  /\ proc' = [proc EXCEPT ![q] = [Resting EXCEPT !.op = "expire", !.pc = "read",
                                    !.todo = NonEmpty, !.at = now]]
  /\ UNCHANGED <<now, file, called, taken, fate>>

StartDrain ==
  /\ proc[Server].pc = "idle"
  /\ NonEmpty # {}
  /\ proc' = [proc EXCEPT ![Server] = [Resting EXCEPT !.op = "drain", !.pc = "read",
                                         !.todo = NonEmpty]]
  /\ UNCHANGED <<now, file, called, taken, fate>>

(* The rest of a call after it is done with its current source. *)
Done(t) == LET rest == t.todo \ {Min(t.todo)}
           IN IF rest = {} THEN Resting
              ELSE [t EXCEPT !.todo = rest, !.pc = "read", !.buf = <<>>, !.keep = <<>>, !.next = 1]

(* A line that is too long fails the call, whatever it is. *)
ReadFails(q) ==
  /\ proc[q].pc = "read"
  /\ ~Readable(file[Source(q)])
  /\ proc' = [proc EXCEPT ![q] = Resting]
  /\ fate' = [fate EXCEPT !.refused = @ \cup PayloadsIn(proc[q].new)]
  /\ UNCHANGED <<now, file, called, taken>>

ReadForAppend(h) ==
  /\ proc[h].pc = "read" /\ proc[h].op = "append"
  /\ Readable(file[Source(h)])
  /\ LET buf == file[Source(h)]
     IN proc' = [proc EXCEPT ![h].buf = buf, ![h].pc = "write",
                             ![h].keep = Newest(buf \o proc[h].new)]
  /\ UNCHANGED <<now, file, called, taken, fate>>

ReadForExpire(q) ==
  /\ proc[q].pc = "read" /\ proc[q].op = "expire"
  /\ Readable(file[Source(q)])
  /\ LET buf == file[Source(q)]
         keep == Unexpired(buf, proc[q].at)
     IN proc' = [proc EXCEPT ![q] = IF Len(keep) = Len(buf) THEN Done(@)
                                    ELSE [@ EXCEPT !.buf = buf, !.keep = keep, !.pc = "write"]]
  /\ UNCHANGED <<now, file, called, taken, fate>>

ReadForDrain ==
  /\ proc[Server].pc = "read" /\ proc[Server].op = "drain"
  /\ Readable(file[Source(Server)])
  /\ proc' = [proc EXCEPT ![Server].buf = file[Source(Server)], ![Server].pc = "consume"]
  /\ UNCHANGED <<now, file, called, taken, fate>>

(* Defect: an entry that was refused is not kept.                          *)
Consume_DropsRefused(accepted) ==
  /\ proc[Server].pc = "consume"
  /\ proc[Server].next <= Len(proc[Server].buf)
  /\ LET entry == proc[Server].buf[proc[Server].next]
     IN /\ taken' = IF accepted THEN taken \cup {entry.p} ELSE taken
        /\ proc' = [proc EXCEPT ![Server].next = @ + 1]
  /\ UNCHANGED <<now, file, called, fate>>

(* consume: Ingest stores the entry, knows it already or discards it       *)
(* because capture is off; or it reports a quarantined event and stores    *)
(* nothing, and the entry stays.                                           *)
Consume(accepted) ==
  /\ proc[Server].pc = "consume"
  /\ proc[Server].next <= Len(proc[Server].buf)
  /\ LET entry == proc[Server].buf[proc[Server].next]
     IN /\ taken' = IF accepted THEN taken \cup {entry.p} ELSE taken
        /\ proc' = [proc EXCEPT ![Server].next = @ + 1,
                                ![Server].keep = IF accepted THEN @ ELSE Append(@, entry)]
  /\ UNCHANGED <<now, file, called, fate>>

Consumed ==
  /\ proc[Server].pc = "consume"
  /\ proc[Server].next > Len(proc[Server].buf)
  /\ proc' = [proc EXCEPT ![Server].pc = "write"]
  /\ UNCHANGED <<now, file, called, taken, fate>>

(* rewrite: a synced temporary file is renamed over the old one, or the    *)
(* file is removed when nothing is left.  The history records which        *)
(* entries go because the call says so, and which ones only because they   *)
(* were not there when the call read the file.                             *)
Rewrite(q) ==
  /\ proc[q].pc = "write"
  /\ LET t == proc[q]
         s == Source(q)
         cut == PayloadsIn(t.buf \o t.new) \ PayloadsIn(t.keep)
     IN /\ file' = [file EXCEPT ![s] = t.keep]
        /\ proc' = [proc EXCEPT ![q] = Done(@)]
        /\ fate' = [fate EXCEPT
                      !.dropped = IF t.op = "append" THEN @ \cup cut ELSE @,
                      !.expired = IF t.op = "expire" THEN @ \cup cut ELSE @,
                      !.overwritten = @ \cup ((PayloadsIn(file[s]) \ PayloadsIn(t.buf)) \ PayloadsIn(t.keep))]
  /\ UNCHANGED <<now, called, taken>>

(* The process is killed.  A temporary file it leaves is not a spool file. *)
Crash(q) ==
  /\ proc[q].pc # "idle"
  /\ proc' = [proc EXCEPT ![q] = Resting]
  /\ fate' = [fate EXCEPT !.refused = @ \cup PayloadsIn(proc[q].new)]
  /\ UNCHANGED <<now, file, called, taken>>

Tick ==
  /\ now < MaxTime
  /\ now' = now + 1
  /\ UNCHANGED <<file, proc, called, taken, fate>>

Work(q) == \/ ReadFails(q) \/ ReadForExpire(q) \/ Rewrite(q)
           \/ q \in Hooks /\ ReadForAppend(q)
           \/ q = Server /\ (ReadForDrain \/ Consumed \/ \E a \in BOOLEAN : Consume(a))

Next ==
  \/ \E h \in Hooks, s \in Sources, group \in Groups : StartAppend(h, s, group)
  \/ \E q \in Procs : StartExpire(q) \/ Work(q) \/ Crash(q)
  \/ StartDrain
  \/ Tick

Spec == Init /\ [][Next]_vars
-----------------------------------------------------------------------------
(* Types. *)

Call == [op: {"none", "append", "drain", "expire"}, pc: {"idle", "read", "consume", "write"},
         todo: SUBSET Sources, at: Nat, new: Seq(Entry), buf: Seq(Entry), keep: Seq(Entry),
         next: Nat \ {0}]

Fate == [refused: SUBSET Payloads, dropped: SUBSET Payloads, expired: SUBSET Payloads,
         overwritten: SUBSET Payloads]

(* Files and calls hold entries, and a process inside a call has a source  *)
(* to work on.                                                             *)
TypeOK ==
  /\ now \in Nat
  /\ file \in [Sources -> Seq(Entry)]
  /\ proc \in [Procs -> Call]
  /\ \A q \in Procs : proc[q].todo = {} <=> proc[q].pc = "idle"
  /\ called \subseteq Payloads
  /\ taken \subseteq Payloads
  /\ fate \in Fate
-----------------------------------------------------------------------------
(* Safety. *)

(* Every payload given to Append is in a file, on its way there, taken by *)
(* the collector, or lost in one of the four ways that have a name: the    *)
(* call was refused or killed, the ceiling dropped it, it aged out, or     *)
(* another process wrote over it.  A drain that crashes half way, in       *)
(* particular, loses nothing, and one whose entries are refused keeps them.*)
EveryPayloadIsAccountedFor ==
  called \subseteq InFiles \cup taken \cup Appending \cup
                   fate.refused \cup fate.dropped \cup fate.expired \cup fate.overwritten

(* An entry goes for its age only when it is older than the limit by the   *)
(* clock of the moment it goes, and with it everything the call had read   *)
(* that is as old: the sweep leaves no aged entry behind that it saw.      *)
SweepTakesExactlyTheAged ==
  \A q \in Procs :
    proc[q].op = "expire" /\ proc[q].pc = "write" =>
      \A i \in DOMAIN proc[q].buf :
        /\ proc[q].buf[i].at + MaxAge < proc[q].at => proc[q].buf[i].p \notin PayloadsIn(proc[q].keep)
        /\ proc[q].buf[i].p \notin PayloadsIn(proc[q].keep) => proc[q].buf[i].at + MaxAge < now

(* No file is longer than the limit, whichever process wrote it last and   *)
(* whatever it read before.                                                *)
FileWithinLimit == \A s \in Sources : Bytes(file[s]) <= Limit

(* Whatever an Append drops was read from the file ahead of everything it  *)
(* keeps, and an entry goes only when it and what follows it are over the  *)
(* limit.                                                                  *)
KeepsNewest ==
  \A h \in Hooks :
    proc[h].op = "append" /\ proc[h].pc = "write" =>
      LET all == proc[h].buf \o proc[h].new
      IN /\ IsSuffix(proc[h].keep, all)
         /\ \A i \in DOMAIN all :
              Bytes(SubSeq(all, i, Len(all))) <= Limit => all[i].p \in PayloadsIn(proc[h].keep)

(* "When the ceiling is reached the newest events are kept"                *)
(* (architecture.md:110): whatever several processes make of a file, it is *)
(* within its limit, and an append takes the oldest entries first and no   *)
(* more than it must (appendLocked).  It takes them at once: the grace of  *)
(* 24 hours that the comment on LossWarningGrace speaks of (spool.go:25)   *)
(* only dates the warning that State reports, and no entry waits for it.   *)
CeilingHolds == FileWithinLimit /\ KeepsNewest

-----------------------------------------------------------------------------
(* Expectations stated elsewhere that the code does not meet. *)

(* "deletes only the lines the consumer accepted, so a collector restart   *)
(* never loses or duplicates events" (spool.go, Drain).                    *)
NothingIsOverwritten == fate.overwritten = {}
=============================================================================
