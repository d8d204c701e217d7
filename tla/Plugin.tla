------------------------------- MODULE Plugin -------------------------------
(***************************************************************************)
(* The OpenCode plugin that configure.go installs: it names a run for each *)
(* event OpenCode emits, keeps the events in a batcher, and posts a batch  *)
(* when a timer fires.  A post is given up after a while, what became of   *)
(* it or not, and OpenCode may end at any time; the plugin starts again    *)
(* with it.                                                                *)
(***************************************************************************)
EXTENDS Naturals, Sequences

CONSTANTS Sessions,  \* the sessions of a user
          MaxEmitted \* bound on the events that are emitted (checking only)

ASSUME PluginAssumption == "process" \notin Sessions /\ MaxEmitted \in Nat

(* The run of events that belong to no session is "process", too. *)
Origins == Sessions \cup {"process"}

VARIABLES active,  \* activeSession; "process" for null
          batcher, \* the queue of the batcher, and whether its timer is set
          posts,   \* the batches under way
          stored,  \* the events the collector has
          emitted  \* the number of events emitted

pluginVars == <<active, batcher, posts, stored, emitted>>

Batcher(queue, timer) == [queue |-> queue, timer |-> timer]

PluginInit ==
  /\ active = "process"
  /\ batcher = Batcher(<<>>, FALSE)
  /\ posts = {}
  /\ stored = {}
  /\ emitted = 0

(* Batcher.push. *)
Push(e) == batcher' = Batcher(Append(batcher.queue, e), TRUE)

(* The event handler.  An event has an origin, the session it is about or  *)
(* "process", and may carry the identifier of its session.                 *)
Emit(origin, created, explicit) ==
  /\ emitted < MaxEmitted
  /\ created \/ explicit => origin \in Sessions
  /\ active' = CASE created /\ explicit -> origin
                 [] created /\ ~explicit -> "process"
                 [] OTHER -> active
  /\ Push([n |-> emitted, origin |-> origin, explicit |-> explicit,
           run |-> IF explicit THEN origin ELSE active'])
  /\ emitted' = emitted + 1
  /\ UNCHANGED <<posts, stored>>

(* Defect: the queue is not emptied.                                       *)
Flush_KeepsQueue ==
  /\ batcher.timer
  /\ batcher' = Batcher(batcher.queue, FALSE)
  /\ posts' = posts \cup {batcher.queue}
  /\ UNCHANGED <<active, stored, emitted>>

(* The timer fires: flush, up to its await. *)
Flush ==
  /\ batcher.timer
  /\ batcher' = Batcher(<<>>, FALSE)
  /\ posts' = posts \cup {batcher.queue}
  /\ UNCHANGED <<active, stored, emitted>>

(* The collector stores a batch, and the answer is heard or not. *)
Arrives(batch) ==
  /\ batch \in posts
  /\ stored' = stored \cup {batch[i] : i \in DOMAIN batch}
  /\ posts' = posts \ {batch}
  /\ UNCHANGED <<active, batcher, emitted>>

(* The collector is not there, refuses the batch or is too slow: an error  *)
(* is dropped with its batch.                                              *)
IsLost(batch) ==
  /\ batch \in posts
  /\ posts' = posts \ {batch}
  /\ UNCHANGED <<active, batcher, stored, emitted>>

Restart ==
  /\ active' = "process"
  /\ batcher' = Batcher(<<>>, FALSE)
  /\ posts' = {}
  /\ UNCHANGED <<stored, emitted>>

PluginStep ==
  \/ \E origin \in Origins, created, explicit \in BOOLEAN : Emit(origin, created, explicit)
  \/ Flush
  \/ \E batch \in posts : Arrives(batch) \/ IsLost(batch)
  \/ Restart

PluginSpec == PluginInit /\ [][PluginStep]_pluginVars
-----------------------------------------------------------------------------
Queued == {batcher.queue[i] : i \in DOMAIN batcher.queue}

Posted == UNION {{batch[i] : i \in DOMAIN batch} : batch \in posts}

(* An event is in one place, the queue, one post or the collector, although*)
(* events are emitted while posts are under way; none stays in the queue   *)
(* without a timer that will send it; and one that carries its session     *)
(* goes to the run of that session.                                        *)
BatchesAreDisjoint ==
  /\ Queued # {} => batcher.timer
  /\ Queued \cap (Posted \cup stored) = {}
  /\ Posted \cap stored = {}
  /\ \A a, b \in posts : a # b =>
       \A i \in DOMAIN a, j \in DOMAIN b : a[i] # b[j]
  /\ \A e \in stored : e.explicit => e.run = e.origin
=============================================================================
