------------------------------ MODULE Mapping ------------------------------
(***************************************************************************)
(* What agents report and the events it becomes: OpenTelemetry spans, log  *)
(* records and metrics (internal/otlp/normalize.go) and hook payloads      *)
(* (internal/hooks, cmd/traceboard/hook.go).  Pure operators: the only     *)
(* outside input is the clock, for what has no time of its own.            *)
(*                                                                         *)
(* A span is [kind, conv, trace, id, root, op, start, end, code, error]:   *)
(* conv is its conversation attribute, error tells whether it has an       *)
(* error.type; start and end are 0 when they are not set.  A log record is *)
(* [kind, conv, trace, name, severe, time], a metric [kind], a payload     *)
(* [kind, source, name, session, step, time].  A request has groups of     *)
(* items, one for each resource: [signal, groups], a group being           *)
(* [service, items].                                                       *)
(***************************************************************************)
EXTENDS Naturals, Sequences, FiniteSets, SequencesExt

CONSTANTS None  \* an attribute, a name or an identifier that is not there

(* Identity fields and outcome of an event; attributes are left out.       *)
NewEvent(run, step, type, status, at) ==
  [run |-> run, step |-> step, type |-> type, status |-> status, at |-> at]

(* Defect: the sort is not stable, equal times come out reversed.          *)
SortByTime_Unstable(es) ==
  LET Sooner(i, j) == es[i].at < es[j].at \/ (es[i].at = es[j].at /\ i > j)
      Rank(i) == Cardinality({j \in DOMAIN es : Sooner(j, i)}) + 1
  IN [k \in DOMAIN es |-> es[CHOOSE i \in DOMAIN es : Rank(i) = k]]

(* sort.SliceStable by OccurredAt. *)
SortByTime(es) ==
  LET Sooner(i, j) == es[i].at < es[j].at \/ (es[i].at = es[j].at /\ i < j)
      Rank(i) == Cardinality({j \in DOMAIN es : Sooner(j, i)}) + 1
  IN [k \in DOMAIN es |-> es[CHOOSE i \in DOMAIN es : Rank(i) = k]]
-----------------------------------------------------------------------------
(* Spans.                                                                  *)

(* spanTime; now is the clock as this call reads it.                       *)
SpanTime(s, now) ==
  CASE s.start > 0 -> s.start
    [] s.start = 0 /\ s.end > 0 -> s.end
    [] OTHER -> now

(* spanID.  A span with no identifier has a hash of its name, trace and    *)
(* time, which the model has no two spans share.                           *)
SpanId(s, now) ==
  IF s.id # None THEN <<"span", s.id>> ELSE <<"hash", s.trace, SpanTime(s, now)>>

RunIdentifier(s, source, now) ==
  IF s.conv # None THEN <<source, s.conv>>
  ELSE IF s.trace # None THEN <<source, "trace", s.trace>>
  ELSE <<source>> \o SpanId(s, now)

SpanStatus(s) == CASE s.code = "error" -> "failed"
                   [] s.code = "ok" -> "completed"
                   [] OTHER -> "unknown"

ModelOperations == {"chat", "generate_content", "text_completion", "embeddings"}

(* Defect: an error of any span is an error of the run.                    *)
TerminalType_AnySpan(s) ==
  IF s.error \/ s.code = "error" THEN "run.failed"
  ELSE IF s.root /\ s.end > 0 THEN "run.completed"
  ELSE None

(* terminalEventFor, and the end of a root span that reported no error. *)
TerminalType(s) ==
  CASE s.root /\ (s.error \/ s.code = "error") -> "run.failed"
    [] ~s.root /\ s.error -> "tool.failed"
    [] ~s.root /\ ~s.error /\ s.code = "error" -> "error.recorded"
    [] s.root /\ ~s.error /\ s.code # "error" /\ s.end > 0 -> "run.completed"
    [] OTHER -> None

(* traceSpanEvents: every event of a span has the span's time.             *)
SpanEvents(s, source, now) ==
  LET run == RunIdentifier(s, source, now)
      at == SpanTime(s, now)
      id == SpanId(s, now)
      terminal == TerminalType(s)
      started == IF s.root THEN <<NewEvent(run, None, "run.started", "started", at)>> ELSE <<>>
      requested == IF s.op \in ModelOperations \ {"embeddings"}
                   THEN <<NewEvent(run, Append(id, "request"), "model.requested", "started", at)>>
                   ELSE <<>>
      completed == IF s.op \in ModelOperations
                   THEN <<NewEvent(run, Append(id, "request"), "model.completed", SpanStatus(s), at)>>
                   ELSE <<>>
      ended == CASE terminal = None -> <<>>
                 [] terminal = "run.completed" ->
                      <<NewEvent(run, None, terminal, "completed", at)>>
                 [] OTHER -> <<NewEvent(run, id, terminal, "failed", at)>>
      all == started \o requested \o completed \o ended
  IN IF all # <<>> THEN all
     ELSE <<NewEvent(run, id, "source.extension", "unknown", at)>>

(* Log records and metrics.  recordTimeNano takes the observed time for a  *)
(* missing one: "time" is what is left of both.                            *)
LogType(l) ==
  CASE l.name = "prompt" -> "prompt.received"
    [] l.name = "tool" -> "tool.started"
    [] l.name \notin {"prompt", "tool"} /\ (l.name = "error" \/ l.severe) -> "error.recorded"
    [] OTHER -> "source.extension"

LogEvents(l, source, now) ==
  LET run == IF l.conv # None THEN <<source, l.conv>> ELSE <<source, "unattributed">>
      step == IF l.trace # None THEN <<"span", l.trace>> ELSE None
      at == IF l.time > 0 THEN l.time ELSE now
  IN <<NewEvent(run, step, LogType(l), IF l.severe THEN "failed" ELSE "unknown", at)>>

(* A metric happens whenever it is normalized. *)
MetricEvents(source, now) ==
  <<NewEvent(<<source, "metrics">>, None, "source.extension", "unknown", now)>>

(* The events of an item; in a request of traces a group has its own       *)
(* source, in the others runs are named for the request's.                 *)
ItemEvents(request, group, item, source, now) ==
  CASE request.signal = "otlp-traces" ->
         SpanEvents(item, IF group.service # None THEN group.service ELSE source, now)
    [] request.signal = "otlp-logs" -> LogEvents(item, source, now)
    [] request.signal = "otlp-metrics" -> MetricEvents(source, now)

GroupEvents(request, group, source, now) ==
  FlattenSeq([i \in DOMAIN group.items |->
                ItemEvents(request, group, group.items[i], source, now)])

(* Normalize; normalizeMetrics does not sort, and has equal times.         *)
Normalize(request, source, now) ==
  SortByTime(FlattenSeq([g \in DOMAIN request.groups |->
                           GroupEvents(request, request.groups[g], source, now)]))

(* ResolveSourceName: the first service that is named. *)
ResolveSource(request) ==
  LET named == {g \in DOMAIN request.groups : request.groups[g].service # None}
  IN IF named = {} THEN request.signal
     ELSE request.groups[CHOOSE g \in named : \A h \in named : g <= h].service
-----------------------------------------------------------------------------
(* Hook payloads.                                                          *)

(* KnownTypes: the normalized event types. *)
KnownTypes ==
  {"run.started", "run.completed", "run.failed", "run.cancelled", "run.incomplete",
   "prompt.received", "model.requested", "model.completed", "tool.started", "tool.completed",
   "tool.failed", "file.changed", "command.started", "command.completed", "command.failed",
   "permission.requested", "permission.resolved", "subagent.started", "subagent.completed",
   "context.compacted", "error.recorded", "source.connected", "source.disconnected",
   "source.extension"}

(* The sources that have an adapter. *)
Adapters == {"opencode", "claude-code", "codex", "antigravity", "gemini-cli"}

(* resolve: the lifecycle name a source's own name stands for, by the      *)
(* aliases of its adapter; "commandFailure" is commandFailure, and a name  *)
(* that is canonical, or that no rule knows, stands for itself.            *)
Canonical(source, name) ==
  LET Of(agent, names) == source = agent /\ name \in names
  IN CASE \/ Of("opencode", {"session.created"})
          \/ Of("claude-code", {"SessionStart", "SessionStartResumed"})
          \/ Of("antigravity", {"conversation.start", "execution.start"}) -> "session.start"
       [] \/ Of("opencode", {"session.completed"})
          \/ Of("claude-code", {"SessionEnd", "Stop"})
          \/ Of("codex", {"turn.end", "stop"})
          \/ Of("antigravity", {"conversation.end", "execution.end", "stop.reason"})
          \/ Of("gemini-cli", {"turn.end"}) -> "session.end"
       [] \/ Of("opencode", {"error"}) \/ Of("codex", {"error"})
          \/ Of("antigravity", {"execution.error"})
          \/ Of("gemini-cli", {"turn.error"}) -> "session.error"
       [] Of("opencode", {"session.updated", "idle"}) -> "session.idle"
       [] \/ Of("claude-code", {"UserPromptSubmit"})
          \/ Of("codex", {"turn.start"}) \/ Of("gemini-cli", {"turn.start"}) -> "prompt.submit"
       [] \/ Of("opencode", {"message.updated"})
          \/ Of("claude-code", {"Notification"}) -> "message.received"
       [] \/ Of("antigravity", {"model.response"}) \/ Of("gemini-cli", {"model.response"})
          \/ Of("opencode", {"message.part.updated"}) -> "model.finish"
       [] \/ Of("claude-code", {"PreToolUse"}) \/ Of("gemini-cli", {"tool.call"})
          \/ Of("codex", {"tool.start"}) \/ Of("antigravity", {"tool.start"}) -> "tool.execute.before"
       [] \/ Of("claude-code", {"PostToolUse"}) \/ Of("gemini-cli", {"tool.result"})
          \/ Of("codex", {"tool.end"}) \/ Of("antigravity", {"tool.end"}) -> "tool.execute.after"
       [] \/ Of("claude-code", {"PostToolUseFailure"})
          \/ Of("codex", {"tool.failed"}) \/ Of("antigravity", {"tool.failed"}) -> "tool.execute.error"
       [] Of("opencode", {"file.changed"}) -> "file.write"
       [] Of("codex", {"command.failed"}) -> "commandFailure"
       [] \/ Of("opencode", {"permission.asked"}) \/ Of("antigravity", {"permission.request"})
          \/ Of("claude-code", {"PermissionRequest"}) -> "permission.ask"
       [] \/ Of("opencode", {"permission.replied"}) \/ Of("codex", {"permission.reply"})
          \/ Of("antigravity", {"permission.resolved"}) -> "permission.answer"
       [] \/ Of("opencode", {"session.compacted"}) \/ Of("claude-code", {"PreCompact"})
          \/ Of("codex", {"compaction"}) \/ Of("antigravity", {"context.compacted"}) -> "context.compact"
       [] Of("claude-code", {"SubagentStart"}) -> "subagent.start"
       [] Of("claude-code", {"SubagentStop"}) -> "subagent.end"
       [] OTHER -> name

(* canonicalLifecycle: the type, the status, and whether the event keeps   *)
(* its step.  A name without a rule is kept as a type if it is one.        *)
Rule(canonical) ==
  CASE canonical = "session.start" -> <<"run.started", "started", FALSE>>
    [] canonical = "session.end" -> <<"run.completed", "completed", FALSE>>
    [] canonical = "session.error" -> <<"run.failed", "failed", FALSE>>
    [] canonical = "session.idle" -> <<"run.incomplete", "incomplete", FALSE>>
    [] canonical \in {"prompt.submit", "message.received"} -> <<"prompt.received", "completed", FALSE>>
    [] canonical = "model.request" -> <<"model.requested", "started", TRUE>>
    [] canonical = "model.finish" -> <<"model.completed", "completed", TRUE>>
    [] canonical = "tool.execute.before" -> <<"tool.started", "started", TRUE>>
    [] canonical = "tool.execute.after" -> <<"tool.completed", "completed", TRUE>>
    [] canonical = "tool.execute.error" -> <<"tool.failed", "failed", TRUE>>
    [] canonical \in {"file.write", "file.edit", "file.remove"} -> <<"file.changed", "completed", FALSE>>
    [] canonical = "command.start" -> <<"command.started", "started", TRUE>>
    [] canonical = "command.finish" -> <<"command.completed", "completed", TRUE>>
    [] canonical = "commandFailure" -> <<"command.failed", "failed", FALSE>>
    [] canonical = "permission.ask" -> <<"permission.requested", "started", TRUE>>
    [] canonical = "permission.answer" -> <<"permission.resolved", "completed", TRUE>>
    [] canonical = "context.compact" -> <<"context.compacted", "completed", FALSE>>
    [] canonical = "subagent.start" -> <<"subagent.started", "started", TRUE>>
    [] canonical = "subagent.end" -> <<"subagent.completed", "completed", TRUE>>
    [] canonical \in {"source.heartbeat", "source.connect"} -> <<"source.connected", "unknown", FALSE>>
    [] canonical = "source.disconnect" -> <<"source.disconnected", "unknown", FALSE>>
    [] OTHER -> <<IF canonical \in KnownTypes THEN canonical ELSE "source.extension", "unknown", TRUE>>

(* mapHookPayload: the run is the session, under its bare name.  Without a *)
(* session or a name a payload is unmapped, and happens when it is read.   *)
HookEvents(p, now) ==
  LET rule == Rule(Canonical(p.source, p.name))
      step == IF rule[3] /\ p.step # None THEN <<p.step>> ELSE None
      at == IF p.time > 0 THEN p.time ELSE now
  IN IF p.session = None \/ p.name = None
     THEN <<NewEvent(<<p.source, "unattributed">>, None, "source.extension", "unknown", now)>>
     ELSE <<NewEvent(<<p.session>>, step, rule[1], rule[2], at)>>
=============================================================================
