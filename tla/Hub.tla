-------------------------------- MODULE Hub --------------------------------
(***************************************************************************)
(* The live hub (internal/live/hub.go) and the handler of a dashboard's    *)
(* WebSocket (internal/server/stream.go).                                  *)
(*                                                                         *)
(* A publisher is a goroutine of the collector that reports a committed    *)
(* change: an ingest request, an evaluation, a deletion.  It takes the     *)
(* next stream ID, then, under the read lock of the hub, offers the frame  *)
(* to every subscriber; a full queue loses it.  A connection is the        *)
(* handler of one WebSocket: it subscribes, greets the client with the     *)
(* current stream ID, writes what its queue holds and leaves when a write  *)
(* fails.  The lock is Go's sync.RWMutex: a waiting writer keeps new       *)
(* readers out and, when it unlocks, lets in those that wait.              *)
(***************************************************************************)
EXTENDS Naturals, Sequences, SequencesExt, FiniteSets

CONSTANTS
  Publishers,   \* goroutines that publish
  Conns,        \* WebSocket handlers
  Buffer,       \* SubscriberBuffer, the capacity of a queue
  MaxFrames     \* bound of the model: stream IDs used

ASSUME BufferAssumption == Buffer \in Nat \ {0}
ASSUME MaxFramesAssumption == MaxFrames \in Nat

VARIABLES
  streamID,     \* hub.streamID
  subscribers,  \* hub.subscribers
  pub,          \* per publisher: where it is, the ID of its frame, whom it has left to offer it
  conn          \* per connection: the handler and what its client has seen

vars == <<streamID, subscribers, pub, conn>>

Ids == 1..MaxFrames

(* "waiting" and the two states of a handler that end in "ing" are calls   *)
(* of RLock and Lock that have not returned.                               *)
PublisherStates == {"idle", "numbered", "waiting", "sending"}
ConnStates == {"away", "subscribing", "subscribed", "streaming", "leaving", "left"}

(* A publisher between two calls. *)
Silent == [pc |-> "idle", id |-> 0, left |-> {}]

(* A handler that is not there yet.  channel says that the channel of the  *)
(* subscriber is open, socket that the client is there; hello, last, got,  *)
(* lost and jumped are the client's: the ID it was greeted with, the last  *)
(* one it saw, which of the later frames it has, which a full queue lost,  *)
(* and whether an ID was ever other than the one after the last.           *)
Away == [pc |-> "away", channel |-> FALSE, socket |-> FALSE, queue |-> <<>>,
         hello |-> 0, last |-> 0, got |-> {}, lost |-> {}, jumped |-> FALSE]

(* The connection is of no more use: nothing of the client matters now. *)
Gone(k, pc) == [Away EXCEPT !.pc = pc, !.channel = k.channel, !.queue = k.queue]

(* The frames a client that is there must get, or know that it lacks:      *)
(* those later than its greeting.                                          *)
Due(c) ==
  IF conn[c].pc = "streaming" /\ conn[c].socket THEN (conn[c].hello + 1)..MaxFrames ELSE {}

Queued(c) == ToSet(conn[c].queue)

Reading == {p \in Publishers : pub[p].pc = "sending"}

LockWanted == {c \in Conns : conn[c].pc \in {"subscribing", "leaving"}}

(* What the unlocking of the write lock does: publishers that wait for the *)
(* read lock have it, and range over the subscribers there are now.        *)
Admitted(subs) ==
  [p \in Publishers |->
    IF pub[p].pc = "waiting" THEN [pub[p] EXCEPT !.pc = "sending", !.left = subs] ELSE pub[p]]

Init == /\ streamID = 0
        /\ subscribers = {}
        /\ pub = [p \in Publishers |-> Silent]
        /\ conn = [c \in Conns |-> Away]

------------------------------------------------------------------------------
(* Publish. *)

(* Defect: the ID is taken by a load and a later store. *)
Number_LoadThenStore(p) ==
  /\ pub[p].pc = "idle"
  /\ streamID < MaxFrames
  /\ pub' = [pub EXCEPT ![p] = [pc |-> "numbered", id |-> streamID + 1, left |-> {}]]
  /\ \/ streamID' = streamID + 1
     \/ UNCHANGED streamID
  /\ UNCHANGED <<subscribers, conn>>

Number(p) ==
  /\ pub[p].pc = "idle"
  /\ streamID < MaxFrames
  /\ streamID' = streamID + 1
  /\ pub' = [pub EXCEPT ![p] = [pc |-> "numbered", id |-> streamID + 1, left |-> {}]]
  /\ UNCHANGED <<subscribers, conn>>

RLock(p) ==
  /\ pub[p].pc = "numbered"
  /\ pub' = [pub EXCEPT ![p] =
       IF LockWanted = {} THEN [@ EXCEPT !.pc = "sending", !.left = subscribers]
                          ELSE [@ EXCEPT !.pc = "waiting"]]
  /\ UNCHANGED <<streamID, subscribers, conn>>

(* Defect: the send has no default branch. *)
Offer_Blocks(p, c) ==
  /\ pub[p].pc = "sending"
  /\ c \in pub[p].left
  /\ Len(conn[c].queue) < Buffer
  /\ pub' = [pub EXCEPT ![p].left = @ \ {c}]
  /\ conn' = [conn EXCEPT ![c].queue = Append(@, pub[p].id)]
  /\ UNCHANGED <<streamID, subscribers>>

(* Defect: the loop ends at the first full queue. *)
Offer_StopsAtFull(p, c) ==
  /\ pub[p].pc = "sending"
  /\ c \in pub[p].left
  /\ IF Len(conn[c].queue) < Buffer
     THEN /\ pub' = [pub EXCEPT ![p].left = @ \ {c}]
          /\ conn' = [conn EXCEPT ![c].queue = Append(@, pub[p].id)]
     ELSE /\ pub' = [pub EXCEPT ![p].left = {}]
          /\ conn' = [conn EXCEPT ![c].lost = @ \cup ({pub[p].id} \cap Due(c))]
  /\ UNCHANGED <<streamID, subscribers>>

Offer(p, c) ==
  /\ pub[p].pc = "sending"
  /\ c \in pub[p].left
  /\ pub' = [pub EXCEPT ![p].left = @ \ {c}]
  /\ conn' = IF Len(conn[c].queue) < Buffer
             THEN [conn EXCEPT ![c].queue = Append(@, pub[p].id)]
             ELSE [conn EXCEPT ![c].lost = @ \cup ({pub[p].id} \cap Due(c))]
  /\ UNCHANGED <<streamID, subscribers>>

RUnlock(p) ==
  /\ pub[p].pc = "sending"
  /\ pub[p].left = {}
  /\ pub' = [pub EXCEPT ![p] = Silent]
  /\ UNCHANGED <<streamID, subscribers, conn>>

------------------------------------------------------------------------------
(* The handler of a WebSocket. *)

(* The upgrade, and the call of Subscribe. *)
Connect(c) ==
  /\ conn[c].pc = "away"
  /\ conn' = [conn EXCEPT ![c] = [Away EXCEPT !.pc = "subscribing", !.channel = TRUE, !.socket = TRUE]]
  /\ UNCHANGED <<streamID, subscribers, pub>>

Subscribe(c) ==
  /\ conn[c].pc = "subscribing"
  /\ Reading = {}
  /\ subscribers' = subscribers \cup {c}
  /\ pub' = Admitted(subscribers')
  /\ conn' = [conn EXCEPT ![c].pc = "subscribed"]
  /\ UNCHANGED streamID

Hello(c) ==
  /\ conn[c].pc = "subscribed"
  /\ conn' = [conn EXCEPT ![c] =
       IF @.socket THEN [@ EXCEPT !.pc = "streaming", !.hello = streamID, !.last = streamID]
                   ELSE Gone(@, "leaving")]
  /\ UNCHANGED <<streamID, subscribers, pub>>

(* A frame is written, and the client sees it. *)
Deliver(c) ==
  /\ conn[c].pc = "streaming"
  /\ conn[c].queue # <<>>
  /\ conn[c].socket
  /\ LET k == conn[c]
         id == Head(k.queue)
     IN conn' = [conn EXCEPT ![c] =
          [k EXCEPT !.queue = Tail(k.queue), !.got = k.got \cup ({id} \cap Due(c)), !.last = id,
                    !.jumped = k.jumped \/ id # k.last + 1]]
  /\ UNCHANGED <<streamID, subscribers, pub>>

(* The client goes, or is not heard of before the read deadline: the       *)
(* reader of the connection closes it.                                     *)
SocketCloses(c) ==
  /\ conn[c].pc \in {"subscribing", "subscribed", "streaming"}
  /\ conn[c].socket
  /\ conn' = [conn EXCEPT ![c] = Gone(@, @.pc)]
  /\ UNCHANGED <<streamID, subscribers, pub>>

(* The write deadline of a frame passes. *)
WriteTimesOut(c) ==
  /\ conn[c].pc = "streaming"
  /\ conn[c].queue # <<>>
  /\ conn' = [conn EXCEPT ![c] = Gone([conn[c] EXCEPT !.queue = Tail(conn[c].queue)], "leaving")]
  /\ UNCHANGED <<streamID, subscribers, pub>>

(* Defect: no ticker, only frames find out. *)
PingFails_NoTicker(c) ==
  /\ conn[c].pc = "streaming"
  /\ ~conn[c].socket
  /\ conn[c].queue # <<>>
  /\ conn' = [conn EXCEPT ![c] = Gone(@, "leaving")]
  /\ UNCHANGED <<streamID, subscribers, pub>>

(* The ping of the ticker fails on a closed connection, and so does a frame. *)
PingFails(c) ==
  /\ conn[c].pc = "streaming"
  /\ ~conn[c].socket
  /\ conn' = [conn EXCEPT ![c] = Gone(@, "leaving")]
  /\ UNCHANGED <<streamID, subscribers, pub>>

(* Defect: the channel is closed before the subscriber is deleted. *)
Cancel_ClosesFirst(c) ==
  /\ conn[c].pc = "leaving"
  /\ IF conn[c].channel
     THEN /\ conn' = [conn EXCEPT ![c].channel = FALSE]
          /\ UNCHANGED <<subscribers, pub>>
     ELSE /\ Reading = {}
          /\ subscribers' = subscribers \ {c}
          /\ pub' = Admitted(subscribers')
          /\ conn' = [conn EXCEPT ![c].pc = "left"]
  /\ UNCHANGED streamID

(* cancel, up to the unlocking. *)
Cancel(c) ==
  /\ conn[c].pc = "leaving"
  /\ Reading = {}
  /\ subscribers' = subscribers \ {c}
  /\ pub' = Admitted(subscribers')
  /\ conn' = [conn EXCEPT ![c].pc = "left"]
  /\ UNCHANGED streamID

(* The channel is closed, and the handler returns. *)
Close(c) ==
  /\ conn[c].pc = "left"
  /\ conn' = [conn EXCEPT ![c] = Away]
  /\ UNCHANGED <<streamID, subscribers, pub>>

------------------------------------------------------------------------------
Publish(p) == RLock(p) \/ (\E c \in Conns : Offer(p, c)) \/ RUnlock(p)

Next == \/ \E p \in Publishers : Number(p) \/ Publish(p)
        \/ \E c \in Conns : \/ Connect(c) \/ Subscribe(c) \/ Hello(c) \/ Deliver(c)
                            \/ SocketCloses(c) \/ WriteTimesOut(c) \/ PingFails(c)
                            \/ Cancel(c) \/ Close(c)

Spec == Init /\ [][Next]_vars

(* A goroutine that can run does, a lock is handed to one that waits for   *)
(* it long enough, and the ticker ticks.  Nothing is assumed of clients:   *)
(* a frame may never be written.                                           *)
FairSpec == /\ Spec
            /\ \A p \in Publishers : WF_vars(Publish(p))
            /\ \A c \in Conns : /\ SF_vars(Subscribe(c) \/ Cancel(c))
                                /\ WF_vars(Hello(c) \/ PingFails(c) \/ Close(c))

------------------------------------------------------------------------------
(* Types, and the capacity of a queue. *)
TypeOK ==
  /\ streamID \in 0..MaxFrames
  /\ subscribers \subseteq Conns
  /\ pub \in [Publishers -> [pc : PublisherStates, id : Ids \cup {0}, left : SUBSET Conns]]
  /\ conn \in [Conns -> [pc : ConnStates, channel : BOOLEAN, socket : BOOLEAN, queue : Seq(Ids),
                         hello : 0..MaxFrames, last : 0..MaxFrames, got : SUBSET Ids,
                         lost : SUBSET Ids, jumped : BOOLEAN]]
  /\ \A c \in Conns : Len(conn[c].queue) <= Buffer

(* A frame is never sent on a closed channel, which would end the          *)
(* collector: when a publisher has a subscriber left to offer its frame    *)
(* to, the handler of that subscriber has not closed its channel.          *)
NoSendOnClosedChannel ==
  \A p \in Publishers : \A c \in pub[p].left : conn[c].channel

(* The frame of publisher p is yet to be offered to connection c. *)
UnderWay(p, c) == pub[p].pc \in {"numbered", "waiting"} \/ c \in pub[p].left

(* Nothing published after the greeting of a client is lost on the way to  *)
(* it but by a full queue: what it does not have is queued, lost or under  *)
(* way.  For this the handler subscribes before it reads the stream ID.    *)
EveryFrameHasAFate ==
  \A c \in Conns : \A i \in Due(c) : i <= streamID =>
      \/ i \in conn[c].got \cup conn[c].lost \cup Queued(c)
      \/ \E p \in Publishers : pub[p].id = i /\ UnderWay(p, c)

(* "The client sees the hole": a client that has a frame later than one    *)
(* its queue lost has seen an ID that was not the next one.                *)
HolesShow ==
  \A c \in Conns : \A i \in conn[c].lost : i < conn[c].last => conn[c].jumped

(* Nobody waits for good, whatever clients do: publishing returns, so that *)
(* a committed change cannot hang the request that reports it, and a       *)
(* handler whose client is gone leaves the hub, although both take the     *)
(* same lock.                                                              *)
GoroutinesProceed ==
  /\ \A p \in Publishers : pub[p].pc # "idle" ~> pub[p].pc = "idle"
  /\ \A c \in Conns : c \in subscribers /\ ~conn[c].socket ~> c \notin subscribers
=============================================================================
