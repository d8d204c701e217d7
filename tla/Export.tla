------------------------------- MODULE Export -------------------------------
(***************************************************************************)
(* export.Run, for the command line and for the dashboard's button: the    *)
(* run, its steps and its events are read one after the other, the events  *)
(* page by page, while others insert and delete; then the document is      *)
(* written to a file.  What else a document holds (the alerts, the words   *)
(* of a title) is read last and is left out.                               *)
(***************************************************************************)
EXTENDS RunTable

CONSTANTS Exported,  \* the runs that are exported
          EventPage, \* events of one range read (1000 in the code)
          ExportFiles, \* files of the export directory
          Missing,   \* a file that is not there
          Torn,      \* a file that is truncated and not written yet
          FileOf     \* the file of a run: sanitizeExportName and the format

ASSUME ExportAssumption == Exported \subseteq Runs /\ EventPage \in Nat \ {0} /\ FileOf \in [Runs -> ExportFiles]

Order == INSTANCE Timeline WITH None <- Null

VARIABLES export, \* a call of Run; history: "disturbed" when its run was
                  \* deleted since the call began, "ordered" when its events
                  \* had been stored in the order of the timeline
          disk    \* the files

NoExport == [pc |-> "idle", run |-> Null, raw |-> FALSE, count |-> 0,
             steps |-> {}, events |-> <<>>, after |-> 0, disturbed |-> FALSE, ordered |-> TRUE]

ExportInit ==
  /\ export = NoExport
  /\ disk = [f \in ExportFiles |-> Missing]

Under(pc) == export.pc = pc

Target == FileOf[export.run]

ExportFails == export' = NoExport

(* Defect: the run is read after its steps and events.                     *)
Reads_RunLast == [idle |-> "steps", steps |-> "head", events |-> "run", run |-> "stat"]

(* Collect: what is read next. *)
Reads == [idle |-> "run", run |-> "steps", steps |-> "head", events |-> "stat"]

ExportBegin(r) ==
  /\ Under("idle")
  /\ export' = [NoExport EXCEPT !.pc = Reads["idle"], !.run = r]
  /\ UNCHANGED <<db, disk>>

(* GetRun. *)
ReadRun ==
  /\ Under("run")
  /\ IF ~Present(db, export.run) THEN ExportFails
     ELSE export' = [export EXCEPT !.pc = Reads["run"], !.count = db.run[export.run].count]
  /\ UNCHANGED <<db, disk>>

(* ListSteps: no step of an absent run is an answer, too. *)
ReadSteps ==
  /\ Under("steps")
  /\ export' = [export EXCEPT !.pc = Reads["steps"],
       !.steps = {s \in StepIds : db.step[export.run][s].status # "absent"}]
  /\ UNCHANGED <<db, disk>>

(* ListEvents, the first statement; ListAllEvents has no use for the head  *)
(* of the run that it returns.                                             *)
ReadHead ==
  /\ Under("head")
  /\ IF ~Present(db, export.run) THEN ExportFails
     ELSE export' = [export EXCEPT !.pc = "events"]
  /\ UNCHANGED <<db, disk>>

(* The rows of a range read, in the order of the timeline.                 *)
EventRows(d, r, after) ==
  LET rows == {s \in Store!EventsOf(d, r) : s.seq > after}
      Before(s, t) == Order!Precedes(s.ev, s.seq, t.ev, t.seq)
  IN [i \in 1..Cardinality(rows) |->
        CHOOSE s \in rows : Cardinality({t \in rows : Before(t, s)}) = i - 1]

InTimelineOrder(d, r) ==
  \A s, t \in Store!EventsOf(d, r) : s.seq < t.seq => ~Order!Sooner(t.ev, s.ev)

(* ListEvents, the second statement, and the loop of ListAllEvents: the    *)
(* cursor of a page that is not the last is its highest sequence.          *)
ReadEvents ==
  /\ Under("events")
  /\ LET rows == EventRows(db, export.run, export.after)
         more == Len(rows) > EventPage
         page == IF more THEN SubSeq(rows, 1, EventPage) ELSE rows
         highest == CHOOSE n \in {page[i].seq : i \in DOMAIN page} :
                      \A i \in DOMAIN page : page[i].seq <= n
     IN export' = [export EXCEPT !.events = @ \o page,
                                 !.after = IF more THEN highest ELSE @,
                                 !.ordered = @ /\ InTimelineOrder(db, export.run),
                                 !.pc = IF more THEN "head" ELSE Reads["events"]]
  /\ UNCHANGED <<db, disk>>

(* os.Stat: an export is not written over without force.  What was asked   *)
(* for, the force and the raw bundle, matters only now.                    *)
ExportStat(force, raw) ==
  /\ Under("stat")
  /\ IF disk[Target] # Missing /\ ~force THEN ExportFails
     ELSE export' = [export EXCEPT !.pc = "open", !.raw = raw]
  /\ UNCHANGED <<db, disk>>

(* writePrivateFile truncates; writeRawBundle creates, and first removes   *)
(* what is there.                                                          *)
Open ==
  /\ Under("open")
  /\ IF export.raw /\ disk[Target] # Missing
     THEN disk' = [disk EXCEPT ![Target] = Missing] /\ UNCHANGED export
     ELSE /\ disk' = [disk EXCEPT ![Target] = Torn]
          /\ export' = [export EXCEPT !.pc = "write"]
  /\ UNCHANGED db

Write ==
  /\ Under("write")
  /\ disk' = [disk EXCEPT ![Target] = "whole"]
  /\ export' = NoExport
  /\ UNCHANGED db

(* The process is killed, or a statement or a write fails. *)
ExportAborts ==
  /\ ~Under("idle")
  /\ ExportFails
  /\ UNCHANGED <<db, disk>>

ExportStep ==
  \/ \E r \in Exported : ExportBegin(r)
  \/ ReadRun \/ ReadSteps \/ ReadHead \/ ReadEvents
  \/ \E force, raw \in BOOLEAN : ExportStat(force, raw)
  \/ Open \/ Write \/ ExportAborts

(* History: what a step of others does to the run of the call. *)
ExportWatches ==
  export' = [export EXCEPT !.disturbed = @ \/ export.run \in Removed]

(* A call, while others change the table. *)
ExportSpec ==
  TableInit /\ ExportInit /\
  [][(TableStep /\ ExportWatches /\ UNCHANGED disk) \/ ExportStep]_<<db, export, disk>>
-----------------------------------------------------------------------------
(* A document holds together although its parts were read one by one: it   *)
(* has at least the events that its run counts, an event for every step it *)
(* lists, and no event twice; unless the run was deleted in between, or    *)
(* its events had not been stored in the order of the timeline.            *)
DocumentsHoldTogether ==
  Under("write") /\ export.ordered /\ ~export.disturbed =>
    LET es == export.events IN
      /\ Len(es) >= export.count
      /\ \A s \in export.steps : \E i \in DOMAIN es : es[i].ev.step = s
      /\ \A i, j \in DOMAIN es : es[i].seq = es[j].seq => i = j
=============================================================================
