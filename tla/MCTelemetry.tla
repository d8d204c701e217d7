---------------------------- MODULE MCTelemetry ----------------------------
(* Requests whose spans, records and payloads interact: spans of one trace *)
(* in two requests, two turns of one conversation, two services in one     *)
(* request, equal times, missing times, and a request over the limit;      *)
(* payloads of hooks that come in any order; and OpenCode's plugin.  They  *)
(* share nothing but the collector, so that a behaviour has one of them.   *)
EXTENDS Telemetry, Plugin

Span(conv, trace, id, root, op, start, end, code, error) ==
  [conv |-> conv, trace |-> trace, id |-> id, root |-> root, op |-> op,
   start |-> start, end |-> end, code |-> code, error |-> error]

Traces(groups) == [signal |-> "otlp-traces", groups |-> groups]

From(service, items) == [service |-> service, items |-> items]

Hook(source, name, session, step, time) ==
  [signal |-> "hook",
   payload |-> [source |-> source, name |-> name, session |-> session, step |-> step, time |-> time]]

(* A failing model call below a root that succeeds. *)
Child == Traces(<<From("a", <<Span(None, "t1", "s1", FALSE, "chat", 2, 3, "error", FALSE),
                              Span(None, "t1", "s2", FALSE, None, 3, 3, "ok", FALSE)>>)>>)
Root == Traces(<<From("a", <<Span(None, "t1", "s3", TRUE, "chat", 2, 4, "ok", FALSE)>>)>>)

(* Two turns of a conversation, the second one failing, with another       *)
(* service's span and one without identifiers; five events are too many.   *)
Turn1 == Traces(<<From(None, <<>>),
                  From("a", <<Span("c1", "t2", "s4", TRUE, None, 3, 4, "unset", FALSE)>>),
                  From("b", <<Span("c1", "t3", None, FALSE, None, 0, 3, "unset", TRUE)>>)>>)
Turn2 == Traces(<<From("a", <<Span("c1", "t4", "s5", TRUE, "chat", 3, 4, "unset", TRUE),
                              Span("c1", None, "s6", FALSE, "embeddings", 2, 0, "ok", FALSE)>>)>>)

Untimed == Traces(<<From("a", <<Span(None, None, "s7", TRUE, "chat", 0, 0, "unset", TRUE)>>)>>)

Logs == [signal |-> "otlp-logs",
         groups |-> <<From("a", <<[conv |-> "c1", trace |-> None, name |-> "error", severe |-> TRUE, time |-> 2],
                                  [conv |-> None, trace |-> "t1", name |-> "tool", severe |-> FALSE, time |-> 0]>>)>>]

Metrics == [signal |-> "otlp-metrics", groups |-> <<From("off", <<[unit |-> None]>>)>>]

Exported == {Child, Root, Turn1, Turn2, Untimed, Logs, Metrics,
             Hook("claude-code", "PostToolUse", "c1", "k", 3), Hook("claude-code", "Stop", "c1", None, 0)}

(* A model call of a hook, in two payloads; two ends of its session, one   *)
(* without a time; and a payload without a session and a name.             *)
Hooked == {Hook("antigravity", "model.request", "c2", "m", 2),
           Hook("antigravity", "model.response", "c2", "m", 3),
           Hook("antigravity", "stop.reason", "c2", None, 0),
           Hook("gemini-cli", "turn.error", "c2", None, 2),
           Hook("opencode", None, None, None, 2)}

MCRequests == Exported \cup Hooked

MCOff == {"off"}

(* These requests are among those the theorem on model calls is about. *)
ASSUME MCCallsAreTheirOwn == CallsAreTheirOwn
-----------------------------------------------------------------------------
AgentsInit == Init /\ PluginInit

AgentsNext ==
  \/ /\ PluginInit /\ UNCHANGED pluginVars
     /\ Next
     /\ taken' \subseteq Exported \/ taken' \subseteq Hooked
  \/ Init /\ PluginStep /\ UNCHANGED vars

AgentsSpec == AgentsInit /\ [][AgentsNext]_<<vars, pluginVars>>
=============================================================================
