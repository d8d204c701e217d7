--------------------------- MODULE DeliveryProofs ---------------------------
(***************************************************************************)
(* The way of an event from an agent to the store, for any hook processes  *)
(* and payloads: none is forgotten, none is stored twice, and the capture  *)
(* mode is respected.                                                      *)
(***************************************************************************)
EXTENDS Delivery, FiniteSetTheorems, TLAPS

Key(h) == IdentityOf(h, "post")

(* The store holds events under the keys of the hooks they are from, and   *)
(* no key twice.                                                           *)
LogInv ==
  /\ log \in [{TheRun} -> Seq(Event)]
  /\ \A i \in DOMAIN log[TheRun] : log[TheRun][i].key = Key(log[TheRun][i].from)
  /\ \A i, j \in DOMAIN log[TheRun] : log[TheRun][i].key = log[TheRun][j].key => i = j

(* The event of h is stored, or was given up for a reason that is known.   *)
Settled(h) == Key(h) \in EventLog!StoredKeys \/ fate[h] # Nil

(* An answer that is no refusal, and a drain that takes an entry, settle   *)
(* the event; NothingVanishes follows for a hook that is done.             *)
SettledInv ==
  /\ \A h \in Hooks : request[h] \in {"stored", "off"} => Settled(h)
  /\ \A h \in server.taken : Settled(h)

(* The part of TypeOK that is about the collector. *)
Servers == [pc: {"down", "draining", "drained", "up"}, mode: CaptureModes \cup {Nil},
            read: SUBSET Hooks, todo: SUBSET Hooks, taken: SUBSET Hooks]

ServerOK ==
  /\ server \in Servers
  /\ server.todo \cup server.taken \subseteq server.read
  /\ server.mode = Nil <=> server.pc = "down"

(* A drain has read entries of hooks that are done. *)
ReadInv == \A h \in server.read : hook[h].pc = "done"

DeliveryInv == DeliveryTypeOK /\ ReadInv /\ LogInv /\ SettledInv /\ NothingVanishes
-----------------------------------------------------------------------------
(* RunLog, for a batch of one event.                                       *)

LEMMA KeysOfLog ==
  /\ EventLog!StoredKeys = {log[TheRun][i].key : i \in DOMAIN log[TheRun]}
  /\ EventLog!StoredKeys' = {log'[TheRun][i].key : i \in DOMAIN log'[TheRun]}
  <1>1. /\ UNION {EventLog!Entries(r) : r \in {TheRun}} = {log[TheRun][i] : i \in DOMAIN log[TheRun]}
        /\ UNION {EventLog!Entries(r)' : r \in {TheRun}} = {log'[TheRun][i] : i \in DOMAIN log'[TheRun]}
    BY DEF EventLog!Entries
  <1> QED BY <1>1 DEF EventLog!StoredKeys

(* The instance of RunLog has a name of its own for Cardinality. *)
LEMMA StoreCounts == \A S : EventLog!Cardinality(S) = Cardinality(S)
  BY DEF EventLog!Cardinality, Cardinality

(* What a batch of one event adds: the event, or nothing. *)
LEMMA AddedByOne ==
  ASSUME NEW e, e.run = TheRun
  PROVE  EventLog!AddedTo(<<e>>, TheRun) =
           IF e.valid = TRUE /\ e.key \notin EventLog!StoredKeys THEN <<e>> ELSE <<>>
  <1> DEFINE b == <<e>>
             at == {i \in EventLog!Fresh(b) : b[i].run = TheRun}
             pick(n) == CHOOSE i \in at : EventLog!Cardinality({j \in at : j < i}) = n - 1
  <1>1. DOMAIN b = {1} /\ b[1] = e
    OBVIOUS
  <1>2. EventLog!AddedTo(b, TheRun) = [n \in 1..EventLog!Cardinality(at) |-> b[pick(n)]]
    BY DEF EventLog!AddedTo
  <1>3. at = IF e.valid /\ e.key \notin EventLog!StoredKeys THEN {1} ELSE {}
    <2>1. \A i \in DOMAIN b : i \in EventLog!Fresh(b) <=> e.valid /\ e.key \notin EventLog!StoredKeys
      <3>1. 1..(1 - 1) = {}
        OBVIOUS
      <3> QED BY <1>1, <3>1 DEF EventLog!Fresh
    <2> QED BY <1>1, <2>1 DEF EventLog!Fresh
  <1>4. CASE at = {}
    <2>1. EventLog!Cardinality(at) = 0
      BY <1>4, FS_EmptySet, StoreCounts
    <2>2. EventLog!AddedTo(b, TheRun) = <<>>
      <3> HIDE DEF at, pick
      <3>1. 1..0 = {}
        OBVIOUS
      <3> QED BY <1>2, <2>1, <3>1
    <2> QED BY <1>3, <1>4, <2>2
  <1>5. CASE at = {1}
    <2>1. EventLog!Cardinality(at) = 1
      BY <1>5, FS_Singleton, StoreCounts
    <2>2. pick(1) = 1
      <3>1. {j \in at : j < 1} = {}
        BY <1>5
      <3>2. EventLog!Cardinality({j \in at : j < 1}) = 0
        BY <3>1, FS_EmptySet, StoreCounts
      <3>3. EventLog!Cardinality({j \in at : j < 1}) = 1 - 1
        BY <3>2
      <3> QED BY <1>5, <3>3
    <2> HIDE DEF at, pick
    <2>3. EventLog!AddedTo(b, TheRun) = [n \in 1..1 |-> b[pick(n)]]
      BY <1>2, <2>1
    <2>4. [n \in 1..1 |-> b[pick(n)]] = <<e>>
      BY <1>1, <2>2
    <2> QED BY <1>3, <1>5, <2>3, <2>4
  <1> QED BY <1>3, <1>4, <1>5
-----------------------------------------------------------------------------
(* A call of Ingest.                                                       *)

LEMMA GivenStays ==
  ASSUME given' = given
  PROVE  /\ Event' = Event
         /\ \A h : Key(h)' = Key(h)
  BY DEF Event, Key, IdentityOf

(* What an outcome says of the event. *)
LEMMA OutcomeMeans ==
  ASSUME DeliveryTypeOK, NEW h \in Hooks, NEW mode, NEW outcome \in Outcomes(h, mode)
  PROVE  /\ outcome \in {"off", "failed", "quarantined", "stored"}
         /\ outcome = "stored" => Kind[given[h]] = "good" /\ mode # "off"
         /\ outcome = "quarantined" => Kind[given[h]] # "good"
  <1>1. Kind[given[h]] \in Kinds
    BY DeliveryAssumption DEF DeliveryTypeOK
  <1> QED BY <1>1 DEF Outcomes, Kinds

LEMMA Unappended ==
  ASSUME LogInv, UNCHANGED <<log, given>>
  PROVE  LogInv' /\ EventLog!StoredKeys' = EventLog!StoredKeys /\ ModeRespected
  <1>1. NewEntries = {}
    BY DEF LogInv, NewEntries
  <1>2. EventLog!StoredKeys' = EventLog!StoredKeys
    BY DEF EventLog!StoredKeys, EventLog!Entries
  <1> QED BY <1>1, <1>2, GivenStays DEF LogInv, ModeRespected

(* The log after an event was appended to it. *)
LEMMA Appended ==
  ASSUME LogInv, given' = given, NEW e \in Event,
         e.key = Key(e.from), e.key \notin EventLog!StoredKeys,
         server.mode # "off", e.content \/ e.raw => server.mode = "detailed",
         e.content => hook[e.from].content,
         log' = [r \in {TheRun} |-> log[r] \o <<e>>]
  PROVE  /\ LogInv'
         /\ EventLog!StoredKeys' = EventLog!StoredKeys \cup {e.key}
         /\ ModeRespected
  <1> DEFINE old == log[TheRun]
             new == log'[TheRun]
  <1>1. /\ old \in Seq(Event) /\ new \in Seq(Event)
        /\ Len(old) \in Nat /\ DOMAIN old = 1..Len(old)
        /\ DOMAIN new = 1..(Len(old) + 1)
        /\ \A i \in DOMAIN old : new[i] = old[i]
        /\ new[Len(old) + 1] = e
    <2>1. new = old \o <<e>> /\ old \in Seq(Event)
      BY DEF LogInv
    <2> HIDE DEF old, new
    <2> QED BY <2>1
  <1>2. log' \in [{TheRun} -> Seq(Event')]
    BY <1>1, GivenStays
  <1> USE KeysOfLog DEF LogInv
  <1> HIDE DEF new
  <1>3. \A i \in DOMAIN old : old[i].key \in EventLog!StoredKeys
    OBVIOUS
  <1> HIDE DEF old
  <1>4. \A i \in DOMAIN new : new[i].key = Key(new[i].from)
    <2>1. \A i \in DOMAIN old : old[i].key = Key(old[i].from)
      BY DEF old
    <2>2. \A i \in DOMAIN new : i \in DOMAIN old \/ i = Len(old) + 1
      BY <1>1
    <2>3. \A i \in DOMAIN old : new[i].key = Key(new[i].from)
      BY <1>1, <2>1
    <2>4. new[Len(old) + 1].key = Key(new[Len(old) + 1].from)
      BY <1>1
    <2> QED BY <2>2, <2>3, <2>4
  <1>5. \A i, j \in DOMAIN new : new[i].key = new[j].key => i = j
    <2>1. \A i, j \in DOMAIN old : old[i].key = old[j].key => i = j
      BY DEF old
    <2>2. \A i \in DOMAIN old : new[i].key # e.key
      BY <1>1, <1>3
    <2>3. \A i \in DOMAIN new : i \in DOMAIN old \/ i = Len(old) + 1
      BY <1>1
    <2> QED BY <1>1, <2>1, <2>2, <2>3
  <1>6. LogInv'
    BY <1>2, <1>4, <1>5, GivenStays DEF new
  <1>7. EventLog!StoredKeys' = EventLog!StoredKeys \cup {e.key}
    <2>1. EventLog!StoredKeys' = {new[i].key : i \in DOMAIN new}
      BY DEF new
    <2>2. EventLog!StoredKeys = {old[i].key : i \in DOMAIN old}
      BY DEF old
    <2>3. DOMAIN new = DOMAIN old \cup {Len(old) + 1}
      BY <1>1
    <2>4. {new[i].key : i \in DOMAIN new} = {new[i].key : i \in DOMAIN old} \cup {e.key}
      BY <1>1, <2>3
    <2>5. {new[i].key : i \in DOMAIN old} = {old[i].key : i \in DOMAIN old}
      BY <1>1
    <2> QED BY <2>1, <2>2, <2>4, <2>5
  <1>8. ModeRespected
    <2>1. NewEntries = {Len(old) + 1}
      BY <1>1 DEF NewEntries, old, new
    <2> QED BY <1>1, <2>1 DEF ModeRespected, new
  <1> QED BY <1>6, <1>7, <1>8

LEMMA Ingested ==
  ASSUME DeliveryTypeOK, LogInv, given' = given,
         NEW h \in Hooks, NEW path, NEW outcome \in Outcomes(h, server.mode),
         IngestEvent(h, path, outcome)
  PROVE  /\ LogInv' /\ ModeRespected
         /\ EventLog!StoredKeys \subseteq EventLog!StoredKeys'
         /\ outcome = "stored" => Key(h) \in EventLog!StoredKeys'
  <1> DEFINE e == PrepareEvent(h, path, server.mode)
  <1>1. /\ e.run = TheRun /\ e.key = Key(h) /\ e.from = h
        /\ e.valid = (Kind[given[h]] = "good")
        /\ e.content = (hook[h].content /\ server.mode = "detailed")
        /\ e.raw = (given[h] \in Bodied /\ server.mode = "detailed")
    BY DEF PrepareEvent, Key, IdentityOf
  <1>2. e.valid = TRUE => e \in Event
    <2>1. hook[h].content \in BOOLEAN
      BY DEF DeliveryTypeOK
    <2>2. IdentityOf(h, path) = IdentityOf(h, "post")
      BY DEF IdentityOf
    <2> DEFINE body == given[h] \in Bodied
               sent == hook[h].content /\ server.mode = "detailed"
               kept == body /\ server.mode = "detailed"
    <2>3. body \in BOOLEAN /\ sent \in BOOLEAN /\ kept \in BOOLEAN
      OBVIOUS
    <2> DEFINE id == IdentityOf(h, "post")
    <2>4. Kind[given[h]] = "good"
            => e = [from |-> h, key |-> id, run |-> TheRun, valid |-> TRUE,
                    content |-> sent, raw |-> kept, attributes |-> body]
      BY <2>2 DEF PrepareEvent
    <2>5. e.valid = TRUE => Kind[given[h]] = "good"
      BY <1>1
    <2>6. id \in {IdentityOf(g, "post") : g \in Hooks}
      OBVIOUS
    <2> HIDE DEF e, body, sent, kept, id
    <2>7. [from |-> h, key |-> id, run |-> TheRun, valid |-> TRUE,
           content |-> sent, raw |-> kept, attributes |-> body] \in Event
      BY <2>3, <2>6 DEF Event
    <2> QED BY <2>4, <2>5, <2>7
  <1>3. CASE outcome \in {"stored", "quarantined"}
    <2>1. log' = [r \in {TheRun} |-> log[r] \o EventLog!AddedTo(<<e>>, r)]
      BY <1>3 DEF IngestEvent, EventLog!AppendBatch
    <2> HIDE DEF e
    <2>2. CASE e.valid = TRUE /\ e.key \notin EventLog!StoredKeys
      <3>1. log' = [r \in {TheRun} |-> log[r] \o <<e>>]
        BY <1>1, <2>1, <2>2, AddedByOne
      <3>2. outcome = "stored" /\ server.mode # "off"
        BY <1>1, <1>3, <2>2, OutcomeMeans
      <3> QED BY <1>1, <1>2, <2>2, <3>1, <3>2, Appended
    <2>3. CASE ~(e.valid = TRUE /\ e.key \notin EventLog!StoredKeys)
      <3>1. log' = [r \in {TheRun} |-> log[r] \o <<>>]
        BY <1>1, <2>1, <2>3, AddedByOne
      <3>2. log' = log
        BY <3>1 DEF LogInv
      <3>3. outcome = "stored" => Key(h) \in EventLog!StoredKeys
        BY <1>1, <2>3, OutcomeMeans
      <3> QED BY <3>2, <3>3, Unappended
    <2> QED BY <2>2, <2>3
  <1>4. CASE outcome \notin {"stored", "quarantined"}
    BY <1>4, Unappended DEF IngestEvent
  <1> QED BY <1>3, <1>4
-----------------------------------------------------------------------------
(* The inductive invariant.                                                *)

(* Keys stay in the store and reasons stay known. *)
Remembers ==
  /\ EventLog!StoredKeys \subseteq EventLog!StoredKeys'
  /\ \A h \in Hooks : fate[h] # Nil => fate'[h] # Nil

LEMMA SettledStays ==
  ASSUME given' = given, Remembers
  PROVE  \A h \in Hooks : Settled(h) => Settled(h)'
  BY GivenStays DEF Remembers, Settled

LEMMA StoredTyped ==
  ASSUME LogInv
  PROVE  Stored \subseteq Event
  BY DEF LogInv, Stored, EventLog!Entries

LEMMA ServerTyped ==
  ASSUME DeliveryTypeOK
  PROVE  /\ ServerOK
         /\ server = [pc |-> server.pc, mode |-> server.mode, read |-> server.read,
                      todo |-> server.todo, taken |-> server.taken]
  <1>1. ServerOK
    BY DEF DeliveryTypeOK, ServerOK, Servers
  <1> QED BY <1>1 DEF ServerOK, Servers

(* Listed by its fields, the record of the collector has its type. *)
LEMMA ServerBecomes ==
  ASSUME NEW pc \in {"down", "draining", "drained", "up"}, NEW mode \in CaptureModes \cup {Nil},
         NEW read \in SUBSET Hooks, NEW todo \in SUBSET read, NEW taken \in SUBSET read,
         mode = Nil <=> pc = "down",
         server' = [pc |-> pc, mode |-> mode, read |-> read, todo |-> todo, taken |-> taken]
  PROVE  ServerOK'
  BY DEF ServerOK, Servers

LEMMA DeliveryInitInv == DeliveryInit => DeliveryInv
  <1> SUFFICES ASSUME DeliveryInit PROVE DeliveryInv
    OBVIOUS
  <1>1. LogInv
    BY DEF DeliveryInit, LogInv, EventLog!Init
  <1>2. DeliveryTypeOK /\ ReadInv
    BY <1>1, StoredTyped, DeliveryAssumption DEF DeliveryInit, DeliveryTypeOK, ReadInv, Resting, Down, CaptureModes
  <1>3. SettledInv /\ NothingVanishes
    BY DeliveryAssumption DEF DeliveryInit, SettledInv, NothingVanishes, Resting, Down, Answers
  <1> QED BY <1>1, <1>2, <1>3 DEF DeliveryInv

(* A step of a hook process. *)
HookStep(h) == StartHook(h) \/ Proceed(h) \/ Answered(h) \/ HookDies(h)

LEMMA HookInv ==
  ASSUME DeliveryInv, NEW h \in Hooks, HookStep(h)
  PROVE  DeliveryInv'
  <1> USE DeliveryAssumption DEF DeliveryInv
  <1>1. UNCHANGED <<given, file, server, log>>
    BY DEF HookStep, StartHook, Proceed, PostEvent, PostFails, Answered, TimesOut, SpoolAppend,
           SpoolRejects, HookDies
  <1>2. LogInv' /\ EventLog!StoredKeys' = EventLog!StoredKeys
    BY <1>1, Unappended
  <1>3. Stored' \subseteq Event'
    <2>1. Stored \subseteq Event /\ Stored' = Stored
      BY <1>1, StoredTyped DEF Stored, EventLog!Entries
    <2> QED BY <1>1, <2>1, GivenStays
  <1>4. DeliveryTypeOK'
    <2>1. /\ hook' \in [Hooks -> [pc: {"idle", "ready", "waiting", "spooling", "done"}, content: BOOLEAN]]
          /\ request' \in [Hooks -> {Nil, "sent"} \cup Answers]
          /\ fate' \in [Hooks -> {Nil} \cup Reasons]
      <3>1. hook' \in [Hooks -> [pc: {"idle", "ready", "waiting", "spooling", "done"}, content: BOOLEAN]]
        <4>1. hook[h] \in [pc: {"idle", "ready", "waiting", "spooling", "done"}, content: BOOLEAN]
          BY DEF DeliveryTypeOK
        <4>2. PICK pc \in {"ready", "waiting", "spooling", "done"}, content \in BOOLEAN :
                hook' = [hook EXCEPT ![h] = [pc |-> pc, content |-> content]]
          <5>1. CASE StartHook(h)
            BY <5>1 DEF StartHook
          <5>2. CASE \E pc \in {"ready", "waiting", "spooling", "done"} : hook' = [hook EXCEPT ![h].pc = pc]
            <6>1. \A pc : [hook[h] EXCEPT !.pc = pc] = [pc |-> pc, content |-> hook[h].content]
              BY <4>1
            <6> QED BY <4>1, <5>2, <6>1
          <5> QED BY <5>1, <5>2 DEF HookStep, Proceed, PostEvent, PostFails, Answered, TimesOut,
                                    SpoolAppend, SpoolRejects, HookDies
        <4> QED BY <4>2 DEF DeliveryTypeOK
      <3>2. request' \in [Hooks -> {Nil, "sent"} \cup Answers]
        BY DEF DeliveryTypeOK, HookStep, StartHook, Proceed, PostEvent, PostFails, Answered, TimesOut,
               SpoolAppend, SpoolRejects, HookDies
      <3>3. fate' \in [Hooks -> {Nil} \cup Reasons]
        BY DEF DeliveryTypeOK, Reasons, HookStep, StartHook, Proceed, PostEvent, PostFails, Answered, TimesOut,
               SpoolAppend, SpoolRejects, HookDies
      <3> QED BY <3>1, <3>2, <3>3
    <2>2. \A g \in Hooks : request'[g] \notin {Nil, "sent"} => hook'[g].pc = "waiting"
      BY DEF DeliveryTypeOK, HookStep, StartHook, Proceed, PostEvent, PostFails, Answered, TimesOut,
             SpoolAppend, SpoolRejects, HookDies
    <2>3. spool' \subseteq {g \in Hooks : hook'[g].pc = "done"}
      BY DEF DeliveryTypeOK, HookStep, StartHook, Proceed, PostEvent, PostFails, Answered, TimesOut,
             SpoolAppend, SpoolRejects, HookDies
    <2> QED BY <1>1, <1>3, <2>1, <2>2, <2>3 DEF DeliveryTypeOK
  <1>5. Remembers
    BY <1>2 DEF Remembers, Reasons, DeliveryTypeOK, HookStep, StartHook, Proceed, PostEvent, PostFails, Answered,
                TimesOut, SpoolAppend, SpoolRejects, HookDies
  <1>6. \A g \in Hooks : Settled(g) => Settled(g)'
    BY <1>1, <1>5, SettledStays
  <1>7. SettledInv'
    <2>1. \A g \in Hooks : request'[g] \in {"stored", "off"} => request[g] = request'[g]
      BY DEF DeliveryTypeOK, Answers, HookStep, StartHook, Proceed, PostEvent, PostFails, Answered, TimesOut,
             SpoolAppend, SpoolRejects, HookDies
    <2> QED BY <1>1, <1>6, <2>1 DEF SettledInv, DeliveryTypeOK
  <1>8. NothingVanishes'
    <2>1. \A g \in Hooks \ {h} :
            hook'[g] = hook[g] /\ (g \in spool => g \in spool')
      BY DEF DeliveryTypeOK, HookStep, StartHook, Proceed, PostEvent, PostFails, Answered, TimesOut,
             SpoolAppend, SpoolRejects, HookDies
    <2>2. hook'[h].pc = "done" => Settled(h)' \/ h \in spool'
      <3>1. CASE StartHook(h) \/ PostEvent(h) \/ PostFails(h) \/ TimesOut(h)
        BY <3>1 DEF DeliveryTypeOK, StartHook, PostEvent, PostFails, TimesOut
      <3>2. CASE Answered(h)
        <4>1. hook'[h].pc = "done" => request[h] \in {"stored", "off"}
          BY <3>2 DEF DeliveryTypeOK, Answers, Answered, IsRefused
        <4> QED BY <1>6, <4>1 DEF SettledInv
      <3>3. CASE SpoolAppend(h)
        BY <3>3 DEF SpoolAppend
      <3>4. CASE SpoolRejects(h) \/ HookDies(h)
        BY <3>4 DEF SpoolRejects, HookDies, Settled, DeliveryTypeOK, Reasons
      <3> QED BY <3>1, <3>2, <3>3, <3>4 DEF HookStep, Proceed
    <2>3. \A g \in Hooks : hook[g].pc = "done" => Settled(g) \/ g \in spool
      BY DEF NothingVanishes, Settled, Key
    <2>4. \A g \in Hooks : hook'[g].pc = "done" => Settled(g)' \/ g \in spool'
      BY <1>6, <2>1, <2>2, <2>3
    <2> QED BY <2>4 DEF NothingVanishes, Settled, Key
  <1>9. ReadInv'
    <2>1. \A g \in Hooks : hook[g].pc = "done" => hook'[g].pc = "done"
      BY DEF DeliveryTypeOK, HookStep, StartHook, Proceed, PostEvent, PostFails, Answered, TimesOut, SpoolAppend,
             SpoolRejects, HookDies
    <2> QED BY <1>1, <2>1 DEF ReadInv, DeliveryTypeOK
  <1> QED BY <1>2, <1>4, <1>7, <1>8, <1>9

(* A step of the collector that calls Ingest for h. *)
LEMMA IngestInv ==
  ASSUME DeliveryInv, NEW h \in Hooks, DrainEntry(h) \/ Serve(h)
  PROVE  DeliveryInv' /\ ModeRespected
  <1> USE DeliveryAssumption DEF DeliveryInv
  <1>1. PICK path \in {"drain", "post"}, outcome \in Outcomes(h, server.mode) :
          /\ IngestEvent(h, path, outcome)
          /\ fate' = IF outcome = "off" THEN [fate EXCEPT ![h] = "off"] ELSE fate
          /\ \/ /\ request' = request
                /\ server.pc = "draining" /\ h \in server.todo
                /\ server' = [server EXCEPT !.todo = @ \ {h},
                                            !.taken = IF IsRefused(outcome) THEN @ ELSE @ \cup {h}]
             \/ /\ server' = server /\ request[h] = "sent"
                /\ request' = [request EXCEPT ![h] = IF hook[h].pc = "waiting" THEN outcome ELSE Nil]
    BY DEF DrainEntry, Serve
  <1>2. UNCHANGED <<given, file, hook, spool>>
    BY DEF DrainEntry, Serve
  <1>3. /\ LogInv' /\ ModeRespected
        /\ EventLog!StoredKeys \subseteq EventLog!StoredKeys'
        /\ outcome = "stored" => Key(h) \in EventLog!StoredKeys'
    BY <1>1, <1>2, Ingested
  <1>4. outcome \in Answers
    BY OutcomeMeans DEF Answers
  <1>10. /\ ServerOK' /\ server'.read = server.read
         /\ \A g \in server'.taken : g \in server.taken \/ (g = h /\ ~IsRefused(outcome))
    <2>1. CASE server' = server
      BY <2>1, ServerTyped DEF ServerOK
    <2>2. CASE /\ server.pc = "draining" /\ h \in server.todo
               /\ server' = [server EXCEPT !.todo = @ \ {h},
                                           !.taken = IF IsRefused(outcome) THEN @ ELSE @ \cup {h}]
      <3>1. server' = [pc |-> "draining", mode |-> server.mode, read |-> server.read,
                       todo |-> server.todo \ {h},
                       taken |-> IF IsRefused(outcome) THEN server.taken ELSE server.taken \cup {h}]
        BY <2>2, ServerTyped
      <3>2. /\ server.mode \in CaptureModes /\ server.read \in SUBSET Hooks
            /\ server.todo \ {h} \in SUBSET server.read
            /\ (IF IsRefused(outcome) THEN server.taken ELSE server.taken \cup {h}) \in SUBSET server.read
        BY <2>2, ServerTyped DEF ServerOK, Servers
      <3> QED BY <3>1, <3>2, ServerBecomes
    <2> QED BY <1>1, <2>1, <2>2
  <1>5. DeliveryTypeOK'
    <2>1. Stored' \subseteq Event'
      BY <1>3 DEF LogInv, Stored, EventLog!Entries
    <2>2. request' \in [Hooks -> {Nil, "sent"} \cup Answers]
      BY <1>1, <1>4 DEF DeliveryTypeOK
    <2>3. fate' \in [Hooks -> {Nil} \cup Reasons]
      BY <1>1 DEF DeliveryTypeOK, Reasons
    <2>5. \A g \in Hooks : request'[g] \notin {Nil, "sent"} => hook'[g].pc = "waiting"
      BY <1>1, <1>2 DEF DeliveryTypeOK
    <2> QED BY <1>2, <1>10, <2>1, <2>2, <2>3, <2>5 DEF DeliveryTypeOK, ServerOK, Servers
  <1>6. \A g \in Hooks : Settled(g) => Settled(g)'
    <2>1. \A g \in Hooks : fate[g] # Nil => fate'[g] # Nil
      BY <1>1 DEF DeliveryTypeOK, Reasons
    <2> QED BY <1>2, <1>3, <2>1, SettledStays DEF Remembers
  <1>7. outcome \in {"stored", "off"} => Settled(h)'
    <2>1. outcome = "off" => fate'[h] = "off"
      BY <1>1 DEF DeliveryTypeOK
    <2> QED BY <1>2, <1>3, <2>1, GivenStays DEF Settled, Reasons
  <1>8. SettledInv'
    <2>1. \A g \in Hooks \ {h} : request'[g] = request[g]
      BY <1>1 DEF DeliveryTypeOK
    <2>2. request'[h] \in {"stored", "off"} => outcome \in {"stored", "off"} \/ Settled(h)
      BY <1>1 DEF DeliveryTypeOK, SettledInv, Answers
    <2>3. \A g \in server'.taken : g \in server.taken \/ (g = h /\ ~IsRefused(outcome))
      BY <1>10
    <2>4. ~IsRefused(outcome) => outcome \in {"stored", "off"}
      BY <1>4 DEF IsRefused, Answers
    <2>5. server.taken \subseteq Hooks
      BY DEF DeliveryTypeOK
    <2> QED BY <1>6, <1>7, <2>1, <2>2, <2>3, <2>4, <2>5 DEF SettledInv
  <1>9. NothingVanishes'
    BY <1>2, <1>6 DEF NothingVanishes, Settled, Key
  <1> QED BY <1>2, <1>3, <1>5, <1>8, <1>9, <1>10 DEF ReadInv

(* The other steps of the collector, a sweep and a command. *)
LEMMA OtherInv ==
  ASSUME DeliveryInv,
         \/ \E mode \in CaptureModes : SaveMode(mode)
         \/ \E h \in Hooks : EntryExpires(h)
         \/ StartCollector \/ DrainEnds \/ StartServing \/ CollectorDies
         \/ UNCHANGED deliveryVars
  PROVE  DeliveryInv'
  <1> USE DeliveryAssumption DEF DeliveryInv
  <1>1. UNCHANGED <<given, hook, log>>
    BY DEF SaveMode, EntryExpires, StartCollector, DrainEnds, StartServing, CollectorDies, deliveryVars
  <1>2. LogInv' /\ EventLog!StoredKeys' = EventLog!StoredKeys
    BY <1>1, Unappended
  <1>9. ServerOK' /\ server'.read \subseteq server.read \cup spool /\ server'.taken \subseteq server.taken
    <2>1. /\ spool \subseteq Hooks /\ file \in CaptureModes /\ Nil \notin CaptureModes
          /\ ServerOK
          /\ server = [pc |-> server.pc, mode |-> server.mode, read |-> server.read,
                       todo |-> server.todo, taken |-> server.taken]
      BY ServerTyped DEF DeliveryTypeOK
    <2>2. CASE StartCollector
      <3>1. server' = [pc |-> "draining", mode |-> file, read |-> spool, todo |-> spool, taken |-> {}]
        BY <2>2 DEF StartCollector, Down
      <3> QED BY <2>1, <3>1, ServerBecomes
    <2>3. CASE DrainEnds
      <3>1. server' = [pc |-> "drained", mode |-> server.mode, read |-> {}, todo |-> {}, taken |-> {}]
        BY <2>3 DEF DrainEnds, Down
      <3>2. server.mode \in CaptureModes
        BY <2>1, <2>3 DEF DrainEnds, ServerOK, Servers
      <3> QED BY <2>1, <3>1, <3>2, ServerBecomes
    <2>4. CASE StartServing
      <3>1. server' = [pc |-> "up", mode |-> server.mode, read |-> server.read,
                       todo |-> server.todo, taken |-> server.taken]
        BY <2>1, <2>4 DEF StartServing
      <3>2. server.mode \in CaptureModes /\ server.read \in SUBSET Hooks /\ server.todo \in SUBSET server.read
            /\ server.taken \in SUBSET server.read
        BY <2>1, <2>4 DEF StartServing, ServerOK, Servers
      <3> QED BY <2>1, <3>1, <3>2, ServerBecomes
    <2>5. CASE CollectorDies
      <3>1. server' = [pc |-> "down", mode |-> Nil, read |-> {}, todo |-> {}, taken |-> {}]
        BY <2>5 DEF CollectorDies, Down
      <3> QED BY <3>1, ServerBecomes
    <2>6. CASE server' = server
      BY <2>1, <2>6 DEF ServerOK
    <2> QED BY <2>2, <2>3, <2>4, <2>5, <2>6 DEF SaveMode, EntryExpires, deliveryVars
  <1>3. DeliveryTypeOK'
    <2>1. Stored' \subseteq Event'
      BY <1>2 DEF LogInv, Stored, EventLog!Entries
    <2>2. request' \in [Hooks -> {Nil, "sent"} \cup Answers] /\ file' \in CaptureModes
      BY DEF DeliveryTypeOK, SaveMode, EntryExpires, StartCollector, DrainEnds, StartServing, CollectorDies, deliveryVars
    <2>3. fate' \in [Hooks -> {Nil} \cup Reasons]
      BY DEF DeliveryTypeOK, Reasons, SaveMode, EntryExpires, StartCollector, DrainEnds, StartServing, CollectorDies, deliveryVars
    <2>5. \A g \in Hooks : request'[g] = Nil \/ request'[g] = request[g]
      BY DEF DeliveryTypeOK, SaveMode, EntryExpires, StartCollector, DrainEnds, StartServing, CollectorDies, deliveryVars
    <2>6. spool' \subseteq spool \cup server.read
      BY DEF DeliveryTypeOK, SaveMode, EntryExpires, StartCollector, DrainEnds, StartServing, CollectorDies, deliveryVars
    <2> QED BY <1>1, <1>9, <2>1, <2>2, <2>3, <2>5, <2>6 DEF DeliveryTypeOK, ReadInv, ServerOK, Servers
  <1>4. ReadInv'
    BY <1>1, <1>9 DEF ReadInv, DeliveryTypeOK
  <1>5. \A g \in Hooks : Settled(g) => Settled(g)'
    <2>1. \A g \in Hooks : fate[g] # Nil => fate'[g] # Nil
      BY DEF DeliveryTypeOK, Reasons, SaveMode, EntryExpires, StartCollector, DrainEnds, StartServing, CollectorDies, deliveryVars
    <2> QED BY <1>1, <1>2, <2>1, SettledStays DEF Remembers
  <1>6. SettledInv'
    <2>1. \A g \in Hooks : request'[g] \in {"stored", "off"} => request[g] = request'[g]
      BY DEF DeliveryTypeOK, Answers, SaveMode, EntryExpires, StartCollector, DrainEnds, StartServing, CollectorDies, deliveryVars
    <2>2. server.taken \subseteq Hooks
      BY DEF DeliveryTypeOK
    <2> QED BY <1>5, <1>9, <2>1, <2>2 DEF SettledInv
  <1>7. \A g \in spool : g \in spool' \/ Settled(g)'
    <2>1. CASE DrainEnds
      <3>1. \A g \in spool : g \in server.taken \/ g \in spool' \/ g \in spool \ server.read
        BY <2>1 DEF DrainEnds
      <3>2. \A g \in spool \ server.read : fate'[g] # Nil
        BY <2>1 DEF DrainEnds, Reasons, DeliveryTypeOK
      <3>3. \A g \in server.taken : Settled(g)'
        BY <1>5 DEF SettledInv, DeliveryTypeOK
      <3> QED BY <3>1, <3>2, <3>3 DEF Settled
    <2>2. CASE \E h \in Hooks : EntryExpires(h)
      BY <2>2 DEF EntryExpires, Settled, Reasons, DeliveryTypeOK
    <2>3. CASE UNCHANGED spool
      BY <2>3
    <2> QED BY <2>1, <2>2, <2>3 DEF SaveMode, StartCollector, StartServing, CollectorDies, deliveryVars
  <1>8. NothingVanishes'
    <2>1. \A g \in Hooks : hook[g].pc = "done" => Settled(g) \/ g \in spool
      BY DEF NothingVanishes, Settled, Key
    <2>2. \A g \in Hooks : hook'[g].pc = "done" => Settled(g)' \/ g \in spool'
      BY <1>1, <1>5, <1>7, <2>1
    <2> QED BY <2>2 DEF NothingVanishes, Settled, Key
  <1> QED BY <1>2, <1>3, <1>4, <1>6, <1>8

LEMMA DeliveryNextInv == DeliveryInv /\ [DeliveryNext]_deliveryVars => DeliveryInv'
  <1> SUFFICES ASSUME DeliveryInv, [DeliveryNext]_deliveryVars PROVE DeliveryInv'
    OBVIOUS
  <1>1. ASSUME NEW h \in Hooks, HookStep(h) PROVE DeliveryInv'
    BY <1>1, HookInv
  <1>2. ASSUME NEW h \in Hooks, DrainEntry(h) \/ Serve(h) PROVE DeliveryInv'
    BY <1>2, IngestInv
  <1>3. CASE \/ \E mode \in CaptureModes : SaveMode(mode)
             \/ \E h \in Hooks : EntryExpires(h)
             \/ StartCollector \/ DrainEnds \/ StartServing \/ CollectorDies
             \/ UNCHANGED deliveryVars
    BY <1>3, OtherInv
  <1> QED BY <1>1, <1>2, <1>3 DEF DeliveryNext, HookStep

LEMMA DeliveryInvariant == DeliverySpec => []DeliveryInv
  BY DeliveryInitInv, DeliveryNextInv, PTL DEF DeliverySpec

(* The variables hold what the processes can put there, and the store      *)
(* holds good events only.                                                 *)
THEOREM DeliveryTypes == DeliverySpec => []DeliveryTypeOK
  <1>1. DeliveryInv => DeliveryTypeOK
    BY DEF DeliveryInv
  <1> QED BY <1>1, DeliveryInvariant, PTL

(* No event is forgotten, whatever dies, times out or is refused: it is in *)
(* the store or in the spool, or the reason it is not is known.            *)
THEOREM NothingIsForgotten == DeliverySpec => []NothingVanishes
  <1>1. DeliveryInv => NothingVanishes
    BY DEF DeliveryInv
  <1> QED BY <1>1, DeliveryInvariant, PTL

(* The keys of the store are distinct, and those of one hook, or of one    *)
(* payload that has a time of its own, are the same.                       *)
THEOREM EventsAreStoredOnce == DeliverySpec => []StoredOnce
  <1>1. LogInv => StoredOnce
    <2> SUFFICES ASSUME LogInv, NEW i \in DOMAIN log[TheRun], NEW j \in DOMAIN log[TheRun], i # j
                 PROVE  /\ log[TheRun][i].from # log[TheRun][j].from
                        /\ given[log[TheRun][i].from] = given[log[TheRun][j].from]
                             => given[log[TheRun][i].from] \notin Stamped
      BY DEF StoredOnce
    <2>1. Key(log[TheRun][i].from) # Key(log[TheRun][j].from)
      BY DEF LogInv
    <2> QED BY <2>1 DEF Key, IdentityOf
  <1>2. DeliveryInv => StoredOnce
    BY <1>1 DEF DeliveryInv
  <1> QED BY <1>2, DeliveryInvariant, PTL

(* What the store gains at any step was let in by the capture mode that    *)
(* the collector read when it started.                                     *)
THEOREM CaptureModeHolds == DeliverySpec => CaptureModeIsRespected
  <1>1. DeliveryInv /\ [DeliveryNext]_deliveryVars => [ModeRespected]_deliveryVars
    <2> SUFFICES ASSUME DeliveryInv, [DeliveryNext]_deliveryVars PROVE ModeRespected
      OBVIOUS
    <2>1. ASSUME NEW h \in Hooks, DrainEntry(h) \/ Serve(h) PROVE ModeRespected
      BY <2>1, IngestInv
    <2>2. CASE UNCHANGED <<log, given>>
      BY <2>2, Unappended DEF DeliveryInv
    <2>3. ASSUME NEW h \in Hooks, HookStep(h) PROVE UNCHANGED <<log, given>>
      BY <2>3 DEF HookStep, StartHook, Proceed, PostEvent, PostFails, Answered, TimesOut, SpoolAppend,
                  SpoolRejects, HookDies
    <2>4. ASSUME \/ \E mode \in CaptureModes : SaveMode(mode)
                 \/ \E h \in Hooks : EntryExpires(h)
                 \/ StartCollector \/ DrainEnds \/ StartServing \/ CollectorDies
                 \/ UNCHANGED deliveryVars
          PROVE  UNCHANGED <<log, given>>
      BY <2>4 DEF SaveMode, EntryExpires, StartCollector, DrainEnds, StartServing, CollectorDies, deliveryVars
    <2> QED BY <2>1, <2>2, <2>3, <2>4 DEF DeliveryNext, HookStep
  <1> QED BY <1>1, DeliveryInvariant, PTL DEF DeliverySpec, CaptureModeIsRespected
=============================================================================
