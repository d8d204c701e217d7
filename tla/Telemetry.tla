----------------------------- MODULE Telemetry -----------------------------
(***************************************************************************)
(* Agents that report to the collector: an OTLP exporter posts a request,  *)
(* a hook posts a payload, and both post again when they do not hear of a  *)
(* success.  The handler maps the request to events (Mapping), leaves out  *)
(* what is too much and what the capture mode of the source forbids, and   *)
(* inserts the rest in one transaction (EventStore, whose concurrent       *)
(* transactions amount to whole batches one after the other).  Requests    *)
(* reach the collector in any order.                                       *)
(***************************************************************************)
EXTENDS Mapping

CONSTANTS Requests,  \* what agents have to report
          Off,       \* the sources whose capture mode is "off"
          MaxEvents, \* MaxEventsPerBatch
          MaxTime    \* bound on the clock (checking only)

IsSequence(q) == q \in Seq(ToSet(q))

(* What the decoders deliver: slices of items, and times that are numbers. *)
WellFormed(r) ==
  IF r.signal = "hook" THEN r.payload.time \in Nat /\ r.payload.source \in Adapters
  ELSE /\ IsSequence(r.groups)
       /\ \A g \in ToSet(r.groups) :
            /\ IsSequence(g.items)
            /\ \A x \in ToSet(g.items) :
                 CASE r.signal = "otlp-traces" -> /\ x.start \in Nat /\ x.end \in Nat
                                                  /\ x.root \in BOOLEAN /\ x.error \in BOOLEAN
                   [] r.signal = "otlp-logs" -> x.time \in Nat
                   [] OTHER -> r.signal = "otlp-metrics"

ASSUME TelemetryAssumption ==
  /\ MaxEvents \in Nat \ {0} /\ MaxTime \in Nat \ {0}
  /\ None \notin Nat \cup {"run.failed", "run.completed"}
  /\ \A r \in Requests : WellFormed(r)

VARIABLES db,   \* the tables of EventStore
          now,  \* the collector's clock
          taken \* history: the requests a call has stored

vars == <<db, now, taken>>

(* The events of a request when the clock says t. *)
EventsOf(r, t) ==
  IF r.signal = "hook" THEN HookEvents(r.payload, t) ELSE Normalize(r, ResolveSource(r), t)

SourceOf(r) == IF r.signal = "hook" THEN r.payload.source ELSE ResolveSource(r)

AllEvents == UNION {ToSet(EventsOf(r, t)) : r \in Requests, t \in 0..MaxTime}

RunsSeen == {e.run : e \in AllEvents}

StepsSeen == {e.step : e \in AllEvents} \ {None}

Store == INSTANCE EventStore WITH
  Runs <- RunsSeen, Steps <- StepsSeen, Conns <- {}, Keys <- {}, Ids <- {}, Batches <- {},
  Clock <- {}, MaxQuarantine <- 0, tx <- <<>>, writer <- None
-----------------------------------------------------------------------------
(* Defect: the identifier holds the time the request was received.         *)
KeyOf_Received(r, e, t) == <<SourceOf(r), e.run, e.step, e.type, t>>

(* deriveIdentifier, and for a hook deriveID, which adds the payload.      *)
KeyOf(r, e, t) ==
  IF r.signal = "hook" THEN <<"hook", e.run, e.step, e.type, e.at, r.payload>>
  ELSE <<SourceOf(r), e.run, e.step, e.type, e.at>>

(* Service.prepare: the event as the store gets it. *)
Prepare(r, e, t) ==
  [id |-> KeyOf(r, e, t), key |-> KeyOf(r, e, t), run |-> e.run, step |-> e.step,
   type |-> e.type, status |-> e.status, at |-> e.at, mode |-> "metadata", valid |-> TRUE]

(* Service.Ingest: the batch is cut, then filtered.  Every event has the   *)
(* source of the request, so that one mode is asked for.                   *)
Batch(r, t) ==
  LET es == EventsOf(r, t)
      kept == SubSeq(es, 1, IF Len(es) < MaxEvents THEN Len(es) ELSE MaxEvents)
  IN IF SourceOf(r) \in Off THEN <<>> ELSE [i \in DOMAIN kept |-> Prepare(r, kept[i], t)]

BatchOf == [r \in Requests |-> [t \in 0..MaxTime |-> Batch(r, t)]]

InsertOne(d, e) == IF e.key \in Store!KeysIn(d) THEN d ELSE Store!InsertEvent(d, e)

(* InsertEvents leaves out what is stored already. *)
Insert(d, batch) ==
  LET after[i \in 0..Len(batch)] == IF i = 0 THEN d ELSE InsertOne(after[i - 1], batch[i])
  IN after[Len(batch)]

Init ==
  /\ db = Store!EmptyDb
  /\ now = 1
  /\ taken = {}

Tick ==
  /\ now < MaxTime
  /\ now' = now + 1
  /\ UNCHANGED <<db, taken>>

(* handleOTLP and handleIngestEvents.  An agent posts again when it hears  *)
(* of no success: the answer was lost, or the request, or the transaction  *)
(* failed, and only an answer that was lost leaves something here.         *)
Post(r) ==
  /\ db' = Insert(db, BatchOf[r][now])
  /\ taken' = taken \cup {r}
  /\ UNCHANGED now

Next == Tick \/ \E r \in Requests : Post(r)

Spec == Init /\ [][Next]_vars
-----------------------------------------------------------------------------
(* What the agents meant.                                                  *)

Items(r) ==
  IF r.signal = "hook" THEN {r.payload}
  ELSE UNION {ToSet(r.groups[g].items) : g \in DOMAIN r.groups}

(* Every item of r says when it happened, and a payload what it is about.  *)
Timed(r) ==
  CASE r.signal = "hook" ->
         r.payload.time > 0 /\ r.payload.session # None /\ r.payload.name # None
    [] r.signal = "otlp-traces" -> \A x \in Items(r) : x.start + x.end > 0
    [] r.signal = "otlp-logs" -> \A x \in Items(r) : x.time > 0
    [] OTHER -> FALSE

(* Requests that are stored as a whole, at times of their own.             *)
Whole == {r \in Requests : SourceOf(r) \notin Off /\ Timed(r) /\ Len(EventsOf(r, 0)) <= MaxEvents}

(* The ends that agents report: a root span that has an error or has       *)
(* finished, and the payloads that say that a session has ended, failed or *)
(* is idle, in the words of their source.  "times" are the times the agent *)
(* gives for it, of a span its start and its end; an item without any has  *)
(* that of the clock t.                                                    *)
SpanReport(s, source, t) ==
  [run |-> RunIdentifier(s, source, t),
   times |-> IF s.start + s.end > 0 THEN {s.start, s.end} \ {0} ELSE {t},
   status |-> IF s.error \/ s.code = "error" THEN "failed" ELSE "completed"]

(* What each source says when it is done with a session. *)
SaysCompleted ==
  (Adapters \X {"session.end", "run.completed"}) \cup
  {<<"opencode", "session.completed">>, <<"claude-code", "SessionEnd">>, <<"claude-code", "Stop">>,
   <<"codex", "turn.end">>, <<"codex", "stop">>, <<"antigravity", "conversation.end">>,
   <<"antigravity", "execution.end">>, <<"antigravity", "stop.reason">>, <<"gemini-cli", "turn.end">>}

SaysFailed ==
  (Adapters \X {"session.error", "run.failed"}) \cup
  {<<"opencode", "error">>, <<"codex", "error">>, <<"antigravity", "execution.error">>,
   <<"gemini-cli", "turn.error">>}

SaysIdle ==
  (Adapters \X {"session.idle", "run.incomplete"}) \cup
  {<<"opencode", "session.updated">>, <<"opencode", "idle">>}

PayloadReport(p, t) ==
  LET said == <<p.source, p.name>>
  IN [run |-> <<p.session>>,
      times |-> {IF p.time > 0 THEN p.time ELSE t},
      status |-> IF p.session = None \/ p.name = None THEN "none"
                 ELSE CASE said \in SaysCompleted -> "completed"
                        [] said \in SaysFailed -> "failed"
                        [] said \in SaysIdle -> "incomplete"
                        [] p.name = "run.cancelled" -> "cancelled"
                        [] OTHER -> "none"]

Reports(r, t) ==
  CASE r.signal = "hook" -> {x \in {PayloadReport(r.payload, t)} : x.status # "none"}
    [] r.signal = "otlp-traces" ->
         UNION {LET g == r.groups[i]
                    own == IF g.service = None THEN SourceOf(r) ELSE g.service
                    roots == {s \in ToSet(g.items) : s.root /\ (s.error \/ s.code = "error" \/ s.end > 0)}
                IN {SpanReport(s, own, t) : s \in roots} : i \in DOMAIN r.groups}
    [] OTHER -> {}

ReportsBy == [r \in Requests |-> [t \in 0..MaxTime |-> Reports(r, t)]]

(* The model calls of the spans of a request, and the step of a call.      *)
ModelCalls ==
  UNION {{<<r, s>> : s \in {x \in Items(r) : x.op \in ModelOperations}} :
           r \in {x \in Requests : x.signal = "otlp-traces"}}

CallStep(c, t) == Append(SpanId(c[2], t), "request")

CallSteps == {CallStep(c, t) : c \in ModelCalls, t \in 0..MaxTime}

(* No two calls have one step, as no two spans have one identifier, and a  *)
(* call whose span has no time is in a request that is never cut.          *)
CallsAreTheirOwn ==
  \A c \in ModelCalls :
    /\ \A x \in ModelCalls, t \in 0..MaxTime, u \in 0..MaxTime :
         CallStep(c, t) = CallStep(x, u) => c = x
    /\ \A t \in 0..MaxTime : CallStep(c, t) # None
    /\ \/ c[2].start + c[2].end > 0
       \/ \A t \in 0..MaxTime : Len(EventsOf(c[1], t)) <= MaxEvents
-----------------------------------------------------------------------------
(* Safety. *)

(* A run ends when its agent says so: its outcome is that of a finished or *)
(* failed root span, or of a payload that ends a session, of that run, and *)
(* its end one of the times the agent gave for it; an error of any other   *)
(* span, or of a log record, ends nothing; and an end that was reported in *)
(* full is not missed, in whatever order and however often requests        *)
(* arrive.  Of a span's two times the code takes the start.                *)
RunsEndWithTheirAgents ==
  LET reported == UNION {ReportsBy[r][t] : r \in taken, t \in 1..now}
      whole == UNION {ReportsBy[r][now] : r \in taken \cap Whole}
  IN /\ \A u \in RunsSeen :
          db.run[u].ended # None =>
            \E x \in reported : /\ x.run = u
                                /\ db.run[u].ended \in x.times
                                /\ x.status = db.run[u].status
     /\ \A x \in whole : /\ db.run[x.run].ended # None
                         /\ \E n \in x.times : db.run[x.run].ended <= n

(* A model call whose completion is stored is not shown as under way.  The *)
(* two events of a span's call have the same time and travel in one        *)
(* request, which may be cut between them and may be posted again.  A hook *)
(* posts them one by one, and the later arrival counts: only a start that  *)
(* was stored after the completion leaves such a call under way.           *)
ModelCallsFinish ==
  \A x \in db.events :
    /\ x.ev.type = "model.completed" /\ x.ev.step # None
    /\ db.step[x.ev.run][x.ev.step].status = "started"
    => /\ x.ev.step \notin CallSteps
       /\ \E y \in db.events : /\ y.ev.run = x.ev.run /\ y.ev.step = x.ev.step
                               /\ y.ev.status = "started" /\ x.seq < y.seq

(* A request that was stored and is posted again, at any later time and    *)
(* after any others, adds nothing to the store and changes nothing in it,  *)
(* if every item of the request says when it happened.                     *)
RetriesAddNothing ==
  \A r \in taken : Timed(r) => \A t \in now..MaxTime : Insert(db, BatchOf[r][t]) = db
=============================================================================
