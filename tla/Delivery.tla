------------------------------ MODULE Delivery ------------------------------
(***************************************************************************)
(* The way of an event from an agent to the store.  A "traceboard hook"    *)
(* process (cmd/traceboard/hook.go) maps one native payload to one event,  *)
(* posts it with a short timeout and spools it when it does not hear of a  *)
(* success; the collector (start.go, internal/ingest/service.go) drains    *)
(* the spool when it starts and serves posts afterwards, both through      *)
(* Service.Ingest; either process may die at any moment.                   *)
(*                                                                         *)
(* The store is RunLog, which EventStore implements.  The files of the     *)
(* spool, their ceiling and two hooks that write one at the same time are  *)
(* the subject of Spool: here an append is one step, and the collector     *)
(* replaces what it read.  A post has one event, as every hook's has.      *)
(***************************************************************************)
EXTENDS Naturals, Sequences, FiniteSets

CONSTANTS Hooks,    \* hook processes
          Payloads, \* native payloads
          Stamped,  \* the payloads that say when they happened
          Bodied,   \* the payloads with the body of a prompt or a tool's call
          Kind,     \* what the store makes of the event of a payload
          TheRun,   \* the run they belong to
          Nil

CaptureModes == {"off", "metadata", "detailed"}

(* An event the store takes, one whose schema version it does not know,    *)
(* and one whose event_id is taken, which fails the insertion.             *)
Kinds == {"good", "unsupported", "conflicting"}

(* What a call of Ingest comes to, and why an event was given up. *)
Answers == {"off", "stored", "failed", "quarantined"}

Reasons == {"off", "killed", "rejected", "overwritten", "expired"}

ASSUME DeliveryAssumption ==
  /\ Stamped \subseteq Payloads /\ Bodied \subseteq Payloads
  /\ Kind \in [Payloads -> Kinds]
  /\ Nil \notin Payloads /\ Nil \notin Hooks
  /\ Nil \notin CaptureModes \cup Answers \cup Reasons

VARIABLES given,   \* the payload each hook process is given
          file,    \* the source's capture mode in the configuration file
          hook,    \* the hook processes
          request, \* the collector's side of each hook's post
          spool,   \* the hooks whose event is in the spool
          server,  \* the collector process
          log,     \* the store, a RunLog
          fate     \* history: why an event was not kept

deliveryVars == <<given, file, hook, request, spool, server, log, fate>>

EventLog == INSTANCE RunLog WITH Runs <- {TheRun}, Batches <- {}
-----------------------------------------------------------------------------
(* Defect: the identifier depends on the path the event takes.             *)
IdentityOf_PerPath(h, path) == <<given[h], h, path>>

(* deriveID: the fields of the event and the payload.  An event with no    *)
(* time of its own gets the time the hook ran.                             *)
IdentityOf(h, path) == IF given[h] \in Stamped THEN <<given[h]>> ELSE <<given[h], h>>

(* Defect: content is kept as the hook sent it.                            *)
PrepareEvent_KeepsContent(h, path, mode) ==
  [from |-> h, key |-> IdentityOf(h, path), run |-> TheRun, valid |-> Kind[given[h]] = "good",
   content |-> hook[h].content, raw |-> given[h] \in Bodied /\ mode = "detailed",
   attributes |-> given[h] \in Bodied]

(* Service.prepare, and the event of the hook or of its spool entry: where *)
(* the payload's body is.  The hook sends it as content if it may, and in  *)
(* any case as the raw payload and among the attributes, and the           *)
(* collector keeps attributes in every mode.                               *)
PrepareEvent(h, path, mode) ==
  [from |-> h, key |-> IdentityOf(h, path), run |-> TheRun, valid |-> Kind[given[h]] = "good",
   content |-> hook[h].content /\ mode = "detailed",
   raw |-> given[h] \in Bodied /\ mode = "detailed",
   attributes |-> given[h] \in Bodied]

(* What Ingest may make of an event in a capture mode.  Mode off stops an  *)
(* event, but not one of an unsupported version; an insertion may fail.    *)
Outcomes(h, mode) ==
  LET kind == Kind[given[h]]
  IN IF mode = "off" /\ kind # "unsupported" THEN {"off"}
     ELSE {"failed"} \cup (CASE kind = "unsupported" -> {"quarantined"}
                             [] kind = "conflicting" -> {}
                             [] kind = "good" -> {"stored"})

(* The effect of a call of Ingest on the store: RunLog leaves out a        *)
(* repeat and an invalid event.                                            *)
IngestEvent(h, path, outcome) ==
  IF outcome \in {"stored", "quarantined"}
  THEN EventLog!AppendBatch(<<PrepareEvent(h, path, server.mode)>>)
  ELSE UNCHANGED log

(* ingestStatus is no success; drainSpool's consumer returns an error.     *)
IsRefused(outcome) == outcome \in {"failed", "quarantined"}

Resting == [pc |-> "idle", content |-> FALSE]

Down == [pc |-> "down", mode |-> Nil, read |-> {}, todo |-> {}, taken |-> {}]

DeliveryInit ==
  /\ given \in [Hooks -> Payloads]
  /\ file \in CaptureModes
  /\ hook = [h \in Hooks |-> Resting]
  /\ request = [h \in Hooks |-> Nil]
  /\ spool = {}
  /\ server = Down
  /\ EventLog!Init
  /\ fate = [h \in Hooks |-> Nil]

(* "traceboard configure" saves another mode. *)
SaveMode(mode) ==
  /\ file' = mode
  /\ UNCHANGED <<given, hook, request, spool, server, log, fate>>

-----------------------------------------------------------------------------
(* The hook process.                                                       *)

(* runHook up to the delivery: the content, the body of the payload, is    *)
(* left out unless the configuration says "detailed" at that moment.       *)
StartHook(h) ==
  /\ hook[h].pc = "idle"
  /\ hook' = [hook EXCEPT ![h] = [pc |-> "ready",
                                      content |-> file = "detailed" /\ given[h] \in Bodied]]
  /\ UNCHANGED <<given, file, request, spool, server, log, fate>>

PostEvent(h) ==
  /\ hook[h].pc = "ready"
  /\ server.pc = "up"
  /\ hook' = [hook EXCEPT ![h].pc = "waiting"]
  /\ request' = [request EXCEPT ![h] = "sent"]
  /\ UNCHANGED <<given, file, spool, server, log, fate>>

(* Nothing listens: the collector is down or has not got that far. *)
PostFails(h) ==
  /\ hook[h].pc = "ready"
  /\ server.pc # "up"
  /\ hook' = [hook EXCEPT ![h].pc = "spooling"]
  /\ UNCHANGED <<given, file, request, spool, server, log, fate>>

(* Defect: any answer counts as delivered.                                 *)
Answered_AnyStatus(h) ==
  /\ hook[h].pc = "waiting"
  /\ request[h] \notin {Nil, "sent"}
  /\ hook' = [hook EXCEPT ![h].pc = "done"]
  /\ request' = [request EXCEPT ![h] = Nil]
  /\ UNCHANGED <<given, file, spool, server, log, fate>>

Answered(h) ==
  /\ hook[h].pc = "waiting"
  /\ request[h] \notin {Nil, "sent"}
  /\ hook' = [hook EXCEPT ![h].pc = IF IsRefused(request[h]) THEN "spooling" ELSE "done"]
  /\ request' = [request EXCEPT ![h] = Nil]
  /\ UNCHANGED <<given, file, spool, server, log, fate>>

(* The hook's timeout, or its connection breaks.  The collector may be     *)
(* working on the request, or have stored the event.                       *)
TimesOut(h) ==
  /\ hook[h].pc = "waiting"
  /\ hook' = [hook EXCEPT ![h].pc = "spooling"]
  /\ request' = [request EXCEPT ![h] = IF @ = "sent" THEN @ ELSE Nil]
  /\ UNCHANGED <<given, file, spool, server, log, fate>>

SpoolAppend(h) ==
  /\ hook[h].pc = "spooling"
  /\ hook' = [hook EXCEPT ![h].pc = "done"]
  /\ spool' = spool \cup {h}
  /\ UNCHANGED <<given, file, request, server, log, fate>>

(* The spool cannot be opened or written: the hook says so and is done. *)
SpoolRejects(h) ==
  /\ hook[h].pc = "spooling"
  /\ hook' = [hook EXCEPT ![h].pc = "done"]
  /\ fate' = [fate EXCEPT ![h] = "rejected"]
  /\ UNCHANGED <<given, file, request, spool, server, log>>

HookDies(h) ==
  /\ hook[h].pc \in {"ready", "waiting", "spooling"}
  /\ hook' = [hook EXCEPT ![h].pc = "done"]
  /\ request' = [request EXCEPT ![h] = IF @ = "sent" THEN @ ELSE Nil]
  /\ fate' = [fate EXCEPT ![h] = "killed"]
  /\ UNCHANGED <<given, file, spool, server, log>>

-----------------------------------------------------------------------------
(* The collector.                                                          *)

(* runStart: capture modes are read once, then the spool is. *)
StartCollector ==
  /\ server.pc = "down"
  /\ server' = [Down EXCEPT !.pc = "draining", !.mode = file, !.read = spool, !.todo = spool]
  /\ UNCHANGED <<given, file, hook, request, spool, log, fate>>

(* The consumer of drainSpool on one entry. *)
DrainEntry(h) ==
  /\ server.pc = "draining"
  /\ h \in server.todo
  /\ \E outcome \in Outcomes(h, server.mode) :
       /\ IngestEvent(h, "drain", outcome)
       /\ server' = [server EXCEPT !.todo = @ \ {h},
                                   !.taken = IF IsRefused(outcome) THEN @ ELSE @ \cup {h}]
       /\ fate' = IF outcome = "off" THEN [fate EXCEPT ![h] = "off"] ELSE fate
  /\ UNCHANGED <<given, file, hook, request, spool>>

(* The file is replaced by what was read and not taken: an entry appended  *)
(* since is gone (Spool, NothingIsOverwritten).                            *)
DrainEnds ==
  /\ server.pc = "draining"
  /\ server.todo = {}
  /\ spool' = server.read \ server.taken
  /\ server' = [Down EXCEPT !.pc = "drained", !.mode = server.mode]
  /\ fate' = [h \in Hooks |-> IF h \in spool \ server.read THEN "overwritten" ELSE fate[h]]
  /\ UNCHANGED <<given, file, hook, request, log>>

StartServing ==
  /\ server.pc = "drained"
  /\ server' = [server EXCEPT !.pc = "up"]
  /\ UNCHANGED <<given, file, hook, request, spool, log, fate>>

(* handleIngestEvents, for a hook that may have gone meanwhile. *)
Serve(h) ==
  /\ server.pc = "up"
  /\ request[h] = "sent"
  /\ \E outcome \in Outcomes(h, server.mode) :
       /\ IngestEvent(h, "post", outcome)
       /\ request' = [request EXCEPT ![h] = IF hook[h].pc = "waiting" THEN outcome ELSE Nil]
       /\ fate' = IF outcome = "off" THEN [fate EXCEPT ![h] = "off"] ELSE fate
  /\ UNCHANGED <<given, file, hook, spool, server>>

(* A signal, a crash or a power failure. *)
CollectorDies ==
  /\ server.pc # "down"
  /\ server' = Down
  /\ request' = [h \in Hooks |-> Nil]
  /\ UNCHANGED <<given, file, hook, spool, log, fate>>

(* A sweep of the collector or of another hook finds the entry too old. *)
EntryExpires(h) ==
  /\ h \in spool
  /\ spool' = spool \ {h}
  /\ fate' = [fate EXCEPT ![h] = "expired"]
  /\ UNCHANGED <<given, file, hook, request, server, log>>

-----------------------------------------------------------------------------
(* What a hook process does next. *)
Proceed(h) == PostEvent(h) \/ PostFails(h) \/ TimesOut(h) \/ SpoolAppend(h) \/ SpoolRejects(h)

DeliveryNext ==
  \/ \E mode \in CaptureModes : SaveMode(mode)
  \/ \E h \in Hooks : \/ StartHook(h) \/ Proceed(h) \/ Answered(h) \/ HookDies(h)
                      \/ DrainEntry(h) \/ Serve(h) \/ EntryExpires(h)
  \/ StartCollector \/ DrainEnds \/ StartServing \/ CollectorDies

DeliverySpec == DeliveryInit /\ [][DeliveryNext]_deliveryVars
-----------------------------------------------------------------------------
Stored == EventLog!Entries(TheRun)

Event == [from: Hooks, key: {IdentityOf(h, "post") : h \in Hooks}, run: {TheRun},
          valid: {TRUE}, content: BOOLEAN, raw: BOOLEAN, attributes: BOOLEAN]

(* The variables hold what the processes can put there: only good events   *)
(* are stored, only a hook that is done is in the spool, and a drain takes *)
(* of what it read.                                                        *)
DeliveryTypeOK ==
  /\ given \in [Hooks -> Payloads]
  /\ file \in CaptureModes
  /\ hook \in [Hooks -> [pc: {"idle", "ready", "waiting", "spooling", "done"}, content: BOOLEAN]]
  /\ request \in [Hooks -> {Nil, "sent"} \cup Answers]
  /\ \A h \in Hooks : request[h] \notin {Nil, "sent"} => hook[h].pc = "waiting"
  /\ spool \subseteq {h \in Hooks : hook[h].pc = "done"}
  /\ server \in [pc: {"down", "draining", "drained", "up"}, mode: CaptureModes \cup {Nil},
                 read: SUBSET Hooks, todo: SUBSET Hooks, taken: SUBSET Hooks]
  /\ server.todo \cup server.taken \subseteq server.read
  /\ server.mode = Nil <=> server.pc = "down"
  /\ Stored \subseteq Event
  /\ fate \in [Hooks -> {Nil} \cup Reasons]

(* An event a hook was given is stored, or in the spool, or was turned     *)
(* away or given up for a reason of its own: whatever dies, times out or   *)
(* is refused, and in whatever order, it is not forgotten.                 *)
NothingVanishes ==
  \A h \in Hooks :
    hook[h].pc = "done" =>
      \/ IdentityOf(h, "post") \in EventLog!StoredKeys
      \/ h \in spool
      \/ fate[h] # Nil

(* A native payload is stored once, although it is posted, spooled after a *)
(* timeout that overtook the answer, drained twice around a crash, or      *)
(* handed to two hook processes.  A payload without a time of its own is   *)
(* an event of its own in each process.                                    *)
StoredOnce ==
  \A i, j \in DOMAIN log[TheRun] :
    i # j => /\ log[TheRun][i].from # log[TheRun][j].from
             /\ given[log[TheRun][i].from] = given[log[TheRun][j].from]
                  => given[log[TheRun][i].from] \notin Stamped

NewEntries == {i \in DOMAIN log'[TheRun] : i > Len(log[TheRun])}

(* In mode off nothing is stored; the content and the raw payload of an    *)
(* event are only while the collector's capture mode is "detailed", also   *)
(* those of an entry that was spooled under another mode; and content only *)
(* if the hook was allowed it too, whatever was configured since.  The     *)
(* attributes are stored in either mode.                                   *)
ModeRespected ==
  \A i \in NewEntries :
    LET e == log'[TheRun][i]
    IN /\ server.mode # "off"
       /\ e.content \/ e.raw => server.mode = "detailed"
       /\ e.content => hook[e.from].content

CaptureModeIsRespected == [][ModeRespected]_deliveryVars

(* What service.go and the documents say of metadata mode: bodies are      *)
(* withheld.  A hook's payload is among its event's attributes, which are  *)
(* not.                                                                    *)
BodiesWithheld ==
  \A i \in NewEntries :
    LET e == log'[TheRun][i]
    IN server.mode = "metadata" => ~e.content /\ ~e.raw /\ ~e.attributes

BodiesAreWithheld == [][BodiesWithheld]_deliveryVars
=============================================================================
