----------------------------- MODULE LiveProofs -----------------------------
(***************************************************************************)
(* Both ends of the live socket.  The safety properties of Hub, for any    *)
(* number of publishers, connections and frames and for queues of any      *)
(* capacity; and those of Dashboard, for runs of any length, pages of any  *)
(* size and any number of calls, failures and lost connections.            *)
(***************************************************************************)
EXTENDS Hub, Dashboard, SequenceTheorems, FiniteSetTheorems, WellFoundedInduction, TLAPS

(* The first frame of a queue and the others are what it holds. *)
LEMMA HeadAndTail ==
  ASSUME NEW S, NEW q \in Seq(S), q # <<>>
  PROVE  /\ Head(q) \in S
         /\ Tail(q) \in Seq(S)
         /\ Len(Tail(q)) = Len(q) - 1
         /\ ToSet(q) = {Head(q)} \cup ToSet(Tail(q))
  <1>1. Head(q) \in S /\ Tail(q) \in Seq(S) /\ Len(Tail(q)) = Len(q) - 1 /\ Len(q) \in Nat \ {0}
    OBVIOUS
  <1>2. \A i \in 1..Len(q) : i = 1 \/ (i - 1 \in 1..Len(Tail(q)) /\ q[i] = Tail(q)[i - 1])
    BY <1>1
  <1>3. \A i \in 1..Len(Tail(q)) : i + 1 \in 1..Len(q) /\ Tail(q)[i] = q[i + 1]
    BY <1>1
  <1>4. Head(q) = q[1] /\ 1 \in 1..Len(q) /\ DOMAIN q = 1..Len(q) /\ DOMAIN Tail(q) = 1..Len(Tail(q))
    BY <1>1
  <1>5. ASSUME NEW x \in ToSet(q) PROVE x = Head(q) \/ x \in ToSet(Tail(q))
    BY <1>2, <1>4 DEF ToSet
  <1>6. ASSUME NEW x \in ToSet(Tail(q)) PROVE x \in ToSet(q)
    BY <1>3, <1>4 DEF ToSet
  <1>7. Head(q) \in ToSet(q)
    BY <1>4 DEF ToSet
  <1> QED BY <1>1, <1>5, <1>6, <1>7

(* A queue holds what it held and what is appended. *)
LEMMA AppendedSet ==
  ASSUME NEW S, NEW q \in Seq(S), NEW x \in S
  PROVE  /\ Append(q, x) \in Seq(S)
         /\ Len(Append(q, x)) = Len(q) + 1
         /\ ToSet(Append(q, x)) = ToSet(q) \cup {x}
  <1>1. /\ Append(q, x) \in Seq(S)
        /\ Len(Append(q, x)) = Len(q) + 1
        /\ Len(q) \in Nat
        /\ DOMAIN q = 1..Len(q)
        /\ DOMAIN Append(q, x) = 1..(Len(q) + 1)
        /\ \A i \in 1..Len(q) : Append(q, x)[i] = q[i]
        /\ Append(q, x)[Len(q) + 1] = x
    OBVIOUS
  <1> QED BY <1>1 DEF ToSet

------------------------------------------------------------------------------
(* Types. *)

PubRow == [pc : PublisherStates, id : Ids \cup {0}, left : SUBSET Conns]

ConnRow == [pc : ConnStates, channel : BOOLEAN, socket : BOOLEAN, queue : Seq(Ids),
            hello : 0..MaxFrames, last : 0..MaxFrames, got : SUBSET Ids,
            lost : SUBSET Ids, jumped : BOOLEAN]

(* The constant rows, and what is left of a client that is gone, have      *)
(* types.                                                                  *)
LEMMA RowTypes ==
  /\ Silent \in PubRow
  /\ Away \in ConnRow
  /\ \A k \in ConnRow, s \in ConnStates : Gone(k, s) \in ConnRow
  /\ \A k \in ConnRow, s \in ConnStates : Gone(k, s).queue = k.queue
  <1>1. Ids \subseteq 0..MaxFrames /\ 0 \in 0..MaxFrames /\ <<>> \in Seq(Ids)
    BY MaxFramesAssumption DEF Ids
  <1> QED BY <1>1 DEF Silent, Away, Gone, PubRow, ConnRow, PublisherStates, ConnStates

(* The publishers an unlocking lets in have types. *)
LEMMA AdmittedType ==
  ASSUME pub \in [Publishers -> PubRow], NEW subs \in SUBSET Conns
  PROVE  Admitted(subs) \in [Publishers -> PubRow]
  BY DEF Admitted, PubRow, PublisherStates

Typed ==
  /\ streamID \in 0..MaxFrames
  /\ subscribers \subseteq Conns
  /\ pub \in [Publishers -> PubRow]
  /\ conn \in [Conns -> ConnRow]
  /\ \A c \in Conns : Len(conn[c].queue) <= Buffer

(* A publisher has a frame while it publishes, and offers it to            *)
(* subscribers; the read lock keeps them what they are.                    *)
Publishing ==
  \A p \in Publishers :
    /\ pub[p].pc = "idle" => pub[p] = Silent
    /\ pub[p].pc # "idle" => pub[p].id \in 1..streamID
    /\ pub[p].pc # "sending" => pub[p].left = {}
    /\ pub[p].left \subseteq subscribers

(* Two publishers do not share a frame. *)
Unshared ==
  \A p, q \in Publishers :
    p # q /\ pub[p].pc # "idle" /\ pub[q].pc # "idle" => pub[p].id # pub[q].id

Subscribed ==
  \A c \in Conns :
    /\ c \in subscribers <=> conn[c].pc \in {"subscribed", "streaming", "leaving"}
    /\ conn[c].pc # "away" => conn[c].channel

(* What is known of one connection.  A frame is offered to it once, each   *)
(* one it must get has a fate, and a client that saw no jump has every     *)
(* frame up to the last one it saw.                                        *)
Offered(c) ==
  /\ Queued(c) \cup conn[c].got \subseteq 1..streamID
  /\ conn[c].lost \subseteq Due(c) \cap 1..streamID
  /\ conn[c].lost \cap (conn[c].got \cup Queued(c)) = {}
  /\ \A p \in Publishers : UnderWay(p, c) =>
       pub[p].id \notin conn[c].got \cup conn[c].lost \cup Queued(c)

Fate(c) ==
  \A i \in Due(c) : i <= streamID =>
    \/ i \in conn[c].got \cup conn[c].lost \cup Queued(c)
    \/ \E p \in Publishers : pub[p].id = i /\ UnderWay(p, c)

Contiguous(c) ==
  ~conn[c].jumped =>
    /\ conn[c].hello <= conn[c].last
    /\ (conn[c].hello + 1)..conn[c].last \subseteq conn[c].got

Known(c) == Offered(c) /\ Fate(c) /\ Contiguous(c)

HubInv == Typed /\ Publishing /\ Unshared /\ Subscribed /\ \A c \in Conns : Known(c)

(* The invariant holds initially. *)
LEMMA HubInvInit == Init => HubInv
  <1> SUFFICES ASSUME Init PROVE HubInv
    OBVIOUS
  <1>1. Typed
    BY RowTypes, BufferAssumption, MaxFramesAssumption DEF Init, Typed, Away, Silent
  <1>2. \A c \in Conns : /\ conn[c] = Away
                         /\ Queued(c) = {}
                         /\ Due(c) = {}
    BY DEF Init, Queued, ToSet, Due, Away
  <1> QED
    BY <1>1, <1>2 DEF Init, HubInv, Publishing, Unshared, Subscribed, Known, Offered,
                       Fate, Contiguous, UnderWay, Away, Silent

(* The types of one connection. *)
LEMMA RowOfConn ==
  ASSUME Typed, NEW c \in Conns
  PROVE  /\ conn[c] \in ConnRow
         /\ conn[c].queue \in Seq(Ids)
         /\ Len(conn[c].queue) \in Nat
         /\ Len(conn[c].queue) <= Buffer
  <1>1. conn[c] \in ConnRow /\ conn[c].queue \in Seq(Ids) /\ Len(conn[c].queue) <= Buffer
    BY DEF Typed, ConnRow
  <1> QED BY <1>1

(* A connection replaced by one of the type leaves all of the type. *)
LEMMA ConnReplaced ==
  ASSUME Typed, NEW c \in Conns, NEW k \in ConnRow, Len(k.queue) <= Buffer,
         conn' = [conn EXCEPT ![c] = k]
  PROVE  conn' \in [Conns -> ConnRow] /\ \A d \in Conns : Len(conn'[d].queue) <= Buffer
  BY DEF Typed

(* The fields of a connection whose client is gone. *)
LEMMA GoneFields ==
  \A k \in ConnRow, s \in ConnStates :
    /\ Gone(k, s).pc = s
    /\ Gone(k, s).channel = k.channel
    /\ Gone(k, s).queue = k.queue
    /\ Gone(k, s).hello = 0 /\ Gone(k, s).last = 0
    /\ Gone(k, s).got = {} /\ Gone(k, s).lost = {}
    /\ Gone(k, s).socket = FALSE /\ Gone(k, s).jumped = FALSE
  BY DEF Gone, Away

(* A connection whose first frame was taken has the type. *)
LEMMA TailRow ==
  ASSUME Typed, NEW c \in Conns, conn[c].queue # <<>>
  PROVE  LET k == [conn[c] EXCEPT !.queue = Tail(conn[c].queue)]
         IN  /\ k \in ConnRow
             /\ Len(k.queue) <= Buffer
             /\ k.pc = conn[c].pc
             /\ k.channel = conn[c].channel
             /\ k.queue = Tail(conn[c].queue)
             /\ ToSet(k.queue) \subseteq Queued(c)
  <1>1. /\ Tail(conn[c].queue) \in Seq(Ids)
        /\ Len(Tail(conn[c].queue)) <= Buffer
        /\ ToSet(Tail(conn[c].queue)) \subseteq Queued(c)
    BY RowOfConn, HeadAndTail, BufferAssumption DEF Queued
  <1> QED BY <1>1, RowOfConn DEF ConnRow

(* Every step keeps types and capacities. *)
LEMMA TypedNext == Typed /\ Publishing /\ [Next]_vars => Typed'
  <1> SUFFICES ASSUME Typed, Publishing, [Next]_vars PROVE Typed'
    OBVIOUS
  <1>0. \A p \in Publishers : pub[p] \in PubRow
    BY DEF Typed
  <1>1. ASSUME NEW p \in Publishers, Number(p) PROVE Typed'
    BY <1>1, <1>0, MaxFramesAssumption DEF Typed, Number, PubRow, PublisherStates, Ids
  <1>2. ASSUME NEW p \in Publishers, RLock(p) PROVE Typed'
    <2>1. pub' \in [Publishers -> PubRow]
      BY <1>2, <1>0 DEF Typed, RLock, PubRow, PublisherStates
    <2> QED BY <1>2, <2>1 DEF Typed, RLock
  <1>3. ASSUME NEW p \in Publishers, NEW c \in Conns, Offer(p, c) PROVE Typed'
    <2>1. pub' \in [Publishers -> PubRow]
      BY <1>3, <1>0 DEF Typed, Offer, PubRow
    <2>2. pub[p].id \in Ids
      BY <1>3, MaxFramesAssumption DEF Publishing, Typed, Offer, Ids
    <2>3. CASE Len(conn[c].queue) < Buffer
      <3> DEFINE k == [conn[c] EXCEPT !.queue = Append(conn[c].queue, pub[p].id)]
      <3>1. /\ Append(conn[c].queue, pub[p].id) \in Seq(Ids)
            /\ Len(Append(conn[c].queue, pub[p].id)) <= Buffer
        BY <2>2, <2>3, AppendedSet, RowOfConn, BufferAssumption
      <3>2. k \in ConnRow /\ Len(k.queue) <= Buffer
        BY <3>1, RowOfConn DEF ConnRow
      <3>3. conn' = [conn EXCEPT ![c] = k]
        BY <1>3, <2>3 DEF Offer
      <3> HIDE DEF k
      <3> QED BY <1>3, <2>1, <3>2, <3>3, ConnReplaced DEF Typed, Offer
    <2>4. CASE ~(Len(conn[c].queue) < Buffer)
      <3> DEFINE k == [conn[c] EXCEPT !.lost = @ \cup ({pub[p].id} \cap Due(c))]
      <3>2. k \in ConnRow /\ Len(k.queue) <= Buffer
        BY <2>2, RowOfConn DEF ConnRow
      <3>3. conn' = [conn EXCEPT ![c] = k]
        BY <1>3, <2>4 DEF Offer
      <3> HIDE DEF k
      <3> QED BY <1>3, <2>1, <3>2, <3>3, ConnReplaced DEF Typed, Offer
    <2> QED BY <2>3, <2>4
  <1>4. ASSUME NEW p \in Publishers, RUnlock(p) PROVE Typed'
    BY <1>4, <1>0, RowTypes DEF Typed, RUnlock
  <1>5. ASSUME NEW c \in Conns, Connect(c) PROVE Typed'
    <2> DEFINE k == [Away EXCEPT !.pc = "subscribing", !.channel = TRUE, !.socket = TRUE]
    <2>1. k \in ConnRow /\ Len(k.queue) <= Buffer
      <3>1. Away \in ConnRow /\ Len(Away.queue) = 0
        BY RowTypes DEF Away
      <3>2. k \in ConnRow
        BY <3>1 DEF ConnRow, ConnStates
      <3>3. k.queue = Away.queue
        BY <3>1 DEF ConnRow
      <3> QED BY <3>1, <3>2, <3>3, BufferAssumption
    <2>2. conn' = [conn EXCEPT ![c] = k]
      BY <1>5 DEF Connect
    <2> HIDE DEF k
    <2> QED BY <1>5, <2>1, <2>2, ConnReplaced DEF Typed, Connect
  <1>6. ASSUME NEW c \in Conns, Subscribe(c) PROVE Typed'
    <2> DEFINE k == [conn[c] EXCEPT !.pc = "subscribed"]
    <2>1. k \in ConnRow /\ Len(k.queue) <= Buffer
      BY RowOfConn DEF ConnRow, ConnStates
    <2>2. conn' = [conn EXCEPT ![c] = k]
      BY <1>6 DEF Subscribe
    <2> HIDE DEF k
    <2>3. pub' \in [Publishers -> PubRow]
      BY <1>6, AdmittedType DEF Typed, Subscribe
    <2> QED BY <1>6, <2>1, <2>2, <2>3, ConnReplaced DEF Typed, Subscribe
  <1>7. ASSUME NEW c \in Conns, Hello(c) PROVE Typed'
    <2> DEFINE k == IF conn[c].socket
                    THEN [conn[c] EXCEPT !.pc = "streaming", !.hello = streamID, !.last = streamID]
                    ELSE Gone(conn[c], "leaving")
    <2>1. k \in ConnRow /\ Len(k.queue) <= Buffer
      <3>1. CASE conn[c].socket
        BY <3>1, RowOfConn DEF ConnRow, ConnStates, Typed
      <3>2. CASE ~conn[c].socket
        BY <3>2, RowOfConn, RowTypes DEF ConnStates
      <3> QED BY <3>1, <3>2
    <2>2. conn' = [conn EXCEPT ![c] = k]
      BY <1>7 DEF Hello
    <2> HIDE DEF k
    <2> QED BY <1>7, <2>1, <2>2, ConnReplaced DEF Typed, Hello
  <1>8. ASSUME NEW c \in Conns, Deliver(c) PROVE Typed'
    <2> DEFINE id == Head(conn[c].queue)
               jumped == conn[c].jumped \/ id # conn[c].last + 1
               k == [conn[c] EXCEPT !.queue = Tail(conn[c].queue), !.got = conn[c].got \cup ({id} \cap Due(c)),
                                    !.last = id, !.jumped = jumped]
    <2>1. /\ id \in Ids
          /\ Tail(conn[c].queue) \in Seq(Ids)
          /\ Len(Tail(conn[c].queue)) <= Buffer
      BY <1>8, RowOfConn, HeadAndTail, BufferAssumption DEF Deliver
    <2>2. conn' = [conn EXCEPT ![c] = k]
      BY <1>8 DEF Deliver
    <2> HIDE DEF id
    <2>3. k \in ConnRow /\ Len(k.queue) <= Buffer
      <3>1. jumped \in BOOLEAN
        OBVIOUS
      <3>2. id \in 0..MaxFrames /\ conn[c].got \cup ({id} \cap Due(c)) \in SUBSET Ids /\ conn[c] \in ConnRow
        BY <2>1, RowOfConn, MaxFramesAssumption DEF ConnRow, Ids
      <3> DEFINE got == conn[c].got \cup ({id} \cap Due(c))
      <3> HIDE DEF jumped, got
      <3>3. k \in ConnRow
        BY <2>1, <3>1, <3>2 DEF ConnRow
      <3>4. k.queue = Tail(conn[c].queue)
        BY <3>2 DEF ConnRow
      <3> QED BY <2>1, <3>3, <3>4
    <2> HIDE DEF k
    <2> QED BY <1>8, <2>2, <2>3, ConnReplaced DEF Typed, Deliver
  <1>9. ASSUME NEW c \in Conns, SocketCloses(c) PROVE Typed'
    <2> DEFINE k == Gone(conn[c], conn[c].pc)
    <2>1. k \in ConnRow /\ Len(k.queue) <= Buffer
      BY RowOfConn, RowTypes DEF ConnRow
    <2>2. conn' = [conn EXCEPT ![c] = k]
      BY <1>9 DEF SocketCloses
    <2> HIDE DEF k
    <2> QED BY <1>9, <2>1, <2>2, ConnReplaced DEF Typed, SocketCloses
  <1>10. ASSUME NEW c \in Conns, WriteTimesOut(c) PROVE Typed'
    <2> DEFINE q == [conn[c] EXCEPT !.queue = Tail(conn[c].queue)]
               k == Gone(q, "leaving")
    <2>2. q \in ConnRow /\ Len(q.queue) <= Buffer
      BY <1>10, TailRow DEF WriteTimesOut
    <2>3. conn' = [conn EXCEPT ![c] = k]
      BY <1>10 DEF WriteTimesOut
    <2> HIDE DEF q
    <2>4. k \in ConnRow /\ Len(k.queue) <= Buffer
      BY <2>2, RowTypes DEF ConnStates
    <2> HIDE DEF k
    <2> QED BY <1>10, <2>3, <2>4, ConnReplaced DEF Typed, WriteTimesOut
  <1>11. ASSUME NEW c \in Conns, PingFails(c) PROVE Typed'
    <2> DEFINE k == Gone(conn[c], "leaving")
    <2>1. k \in ConnRow /\ Len(k.queue) <= Buffer
      BY RowOfConn, RowTypes DEF ConnStates
    <2>2. conn' = [conn EXCEPT ![c] = k]
      BY <1>11 DEF PingFails
    <2> HIDE DEF k
    <2> QED BY <1>11, <2>1, <2>2, ConnReplaced DEF Typed, PingFails
  <1>12. ASSUME NEW c \in Conns, Cancel(c) PROVE Typed'
    <2> DEFINE k == [conn[c] EXCEPT !.pc = "left"]
    <2>1. k \in ConnRow /\ Len(k.queue) <= Buffer
      BY RowOfConn DEF ConnRow, ConnStates
    <2>2. conn' = [conn EXCEPT ![c] = k]
      BY <1>12 DEF Cancel
    <2> HIDE DEF k
    <2>3. pub' \in [Publishers -> PubRow]
      BY <1>12, AdmittedType DEF Typed, Cancel
    <2> QED BY <1>12, <2>1, <2>2, <2>3, ConnReplaced DEF Typed, Cancel
  <1>13. ASSUME NEW c \in Conns, Close(c) PROVE Typed'
    <2>1. Away \in ConnRow /\ Len(Away.queue) <= Buffer
      BY RowTypes, BufferAssumption DEF Away
    <2> QED BY <1>13, <2>1, ConnReplaced DEF Typed, Close
  <1>14. CASE UNCHANGED vars
    BY <1>14 DEF Typed, vars
  <1> QED
    BY <1>1, <1>2, <1>3, <1>4, <1>5, <1>6, <1>7, <1>8, <1>9, <1>10, <1>11, <1>12, <1>13, <1>14
       DEF Next, Publish

(* A handler replaced by one that fits the subscribers keeps them all      *)
(* fitting.                                                                *)
LEMMA SubscribedReplaced ==
  ASSUME Typed, Subscribed, NEW c \in Conns, NEW k,
         conn' = [conn EXCEPT ![c] = k],
         subscribers' \ {c} = subscribers \ {c},
         c \in subscribers' <=> k.pc \in {"subscribed", "streaming", "leaving"},
         k.pc # "away" => k.channel
  PROVE  Subscribed'
  BY DEF Subscribed, Typed

(* The pc of a connection changes as the actions say, and its channel is   *)
(* open while it has one.                                                  *)
LEMMA SubscribedNext == Typed /\ Subscribed /\ [Next]_vars => Subscribed'
  <1> SUFFICES ASSUME Typed, Subscribed, [Next]_vars PROVE Subscribed'
    OBVIOUS
  <1>0. \A c \in Conns : /\ conn[c] \in ConnRow
                         /\ c \in subscribers <=> conn[c].pc \in {"subscribed", "streaming", "leaving"}
                         /\ conn[c].pc # "away" => conn[c].channel
    BY DEF Typed, Subscribed
  <1>1. ASSUME NEW p \in Publishers, Number(p) \/ RLock(p) \/ RUnlock(p) PROVE Subscribed'
    BY <1>1 DEF Subscribed, Number, RLock, RUnlock
  <1>2. ASSUME NEW p \in Publishers, NEW c \in Conns, Offer(p, c) PROVE Subscribed'
    BY <1>2, <1>0 DEF Subscribed, Offer, ConnRow, Typed
  <1>3. ASSUME NEW c \in Conns, Connect(c) PROVE Subscribed'
    <2> DEFINE k == [Away EXCEPT !.pc = "subscribing", !.channel = TRUE, !.socket = TRUE]
    <2>1. k.pc = "subscribing" /\ k.channel
      BY DEF Away
    <2>2. conn' = [conn EXCEPT ![c] = k] /\ subscribers' = subscribers /\ c \notin subscribers
      BY <1>3, <1>0 DEF Connect
    <2> HIDE DEF k
    <2> QED BY <2>1, <2>2, SubscribedReplaced
  <1>4. ASSUME NEW c \in Conns, Subscribe(c) PROVE Subscribed'
    <2> DEFINE k == [conn[c] EXCEPT !.pc = "subscribed"]
    <2>1. k.pc = "subscribed" /\ k.channel
      BY <1>4, <1>0 DEF Subscribe, ConnRow
    <2>2. conn' = [conn EXCEPT ![c] = k] /\ subscribers' = subscribers \cup {c}
      BY <1>4 DEF Subscribe
    <2> HIDE DEF k
    <2> QED BY <2>1, <2>2, SubscribedReplaced
  <1>5. ASSUME NEW c \in Conns, Hello(c) PROVE Subscribed'
    <2> DEFINE k == IF conn[c].socket
                    THEN [conn[c] EXCEPT !.pc = "streaming", !.hello = streamID, !.last = streamID]
                    ELSE Gone(conn[c], "leaving")
    <2>1. k.pc \in {"streaming", "leaving"} /\ k.channel
      <3>1. CASE conn[c].socket
        BY <3>1, <1>5, <1>0 DEF Hello, ConnRow
      <3>2. CASE ~conn[c].socket
        BY <3>2, <1>5, <1>0, GoneFields DEF Hello, ConnStates
      <3> QED BY <3>1, <3>2
    <2>2. conn' = [conn EXCEPT ![c] = k] /\ subscribers' = subscribers /\ c \in subscribers
      BY <1>5, <1>0 DEF Hello
    <2> HIDE DEF k
    <2> QED BY <2>1, <2>2, SubscribedReplaced
  <1>6. ASSUME NEW c \in Conns, Deliver(c) PROVE Subscribed'
    <2>1. /\ conn' = [conn EXCEPT ![c] = conn'[c]] /\ subscribers' = subscribers /\ c \in subscribers
          /\ conn'[c].pc = "streaming" /\ conn'[c].channel = conn[c].channel
      BY <1>6, <1>0 DEF Deliver, ConnRow, Typed
    <2> QED BY <2>1, <1>0, SubscribedReplaced
  <1>7. ASSUME NEW c \in Conns, SocketCloses(c) PROVE Subscribed'
    <2> DEFINE k == Gone(conn[c], conn[c].pc)
    <2>1. k.pc = conn[c].pc /\ k.channel = conn[c].channel
      BY <1>0, GoneFields DEF ConnRow
    <2>2. conn' = [conn EXCEPT ![c] = k] /\ subscribers' = subscribers
      BY <1>7 DEF SocketCloses
    <2> HIDE DEF k
    <2> QED BY <2>1, <2>2, <1>0, SubscribedReplaced
  <1>8. ASSUME NEW c \in Conns, WriteTimesOut(c) PROVE Subscribed'
    <2> DEFINE q == [conn[c] EXCEPT !.queue = Tail(conn[c].queue)]
               k == Gone(q, "leaving")
    <2>1. q \in ConnRow /\ q.channel = conn[c].channel
      BY <1>8, TailRow DEF WriteTimesOut
    <2>2. conn' = [conn EXCEPT ![c] = k] /\ subscribers' = subscribers /\ conn[c].pc = "streaming"
      BY <1>8 DEF WriteTimesOut
    <2> HIDE DEF q
    <2>3. k.pc = "leaving" /\ k.channel = conn[c].channel
      BY <2>1, GoneFields DEF ConnStates
    <2> HIDE DEF k
    <2> QED BY <2>2, <2>3, <1>0, SubscribedReplaced
  <1>9. ASSUME NEW c \in Conns, PingFails(c) PROVE Subscribed'
    <2> DEFINE k == Gone(conn[c], "leaving")
    <2>1. k.pc = "leaving" /\ k.channel = conn[c].channel
      BY <1>0, GoneFields DEF ConnStates
    <2>2. conn' = [conn EXCEPT ![c] = k] /\ subscribers' = subscribers /\ conn[c].pc = "streaming"
      BY <1>9 DEF PingFails
    <2> HIDE DEF k
    <2> QED BY <2>1, <2>2, <1>0, SubscribedReplaced
  <1>10. ASSUME NEW c \in Conns, Cancel(c) PROVE Subscribed'
    <2> DEFINE k == [conn[c] EXCEPT !.pc = "left"]
    <2>1. k.pc = "left" /\ k.channel
      BY <1>10, <1>0 DEF Cancel, ConnRow
    <2>2. conn' = [conn EXCEPT ![c] = k] /\ subscribers' = subscribers \ {c}
      BY <1>10 DEF Cancel
    <2> HIDE DEF k
    <2> QED BY <2>1, <2>2, SubscribedReplaced
  <1>11. ASSUME NEW c \in Conns, Close(c) PROVE Subscribed'
    <2>1. conn' = [conn EXCEPT ![c] = Away] /\ subscribers' = subscribers /\ c \notin subscribers
      BY <1>11, <1>0 DEF Close
    <2> QED BY <2>1, SubscribedReplaced DEF Away
  <1>12. CASE UNCHANGED vars
    BY <1>12 DEF Subscribed, vars
  <1> QED
    BY <1>1, <1>2, <1>3, <1>4, <1>5, <1>6, <1>7, <1>8, <1>9, <1>10, <1>11, <1>12 DEF Next, Publish

(* Every step keeps publishers in order and their frames apart. *)
LEMMA PublishingNext ==
  Typed /\ Publishing /\ Unshared /\ [Next]_vars => Publishing' /\ Unshared'
  <1> SUFFICES ASSUME Typed, Publishing, Unshared, [Next]_vars PROVE Publishing' /\ Unshared'
    OBVIOUS
  <1>0. pub \in [Publishers -> PubRow] /\ streamID \in Nat
    BY MaxFramesAssumption DEF Typed
  <1>1. ASSUME NEW p \in Publishers, Number(p) PROVE Publishing' /\ Unshared'
    BY <1>1, <1>0 DEF Publishing, Unshared, Number
  <1>2. ASSUME NEW p \in Publishers, RLock(p) PROVE Publishing' /\ Unshared'
    <2>1. pub' = [pub EXCEPT ![p] = pub'[p]] /\ pub'[p].id = pub[p].id /\ pub[p].pc # "idle"
      BY <1>2, <1>0 DEF RLock, PubRow
    <2>2. \/ pub'[p].pc = "sending" /\ pub'[p].left = subscribers
          \/ pub'[p].pc = "waiting" /\ pub'[p].left = pub[p].left /\ pub[p].pc = "numbered"
      BY <1>2, <1>0 DEF RLock, PubRow
    <2>3. UNCHANGED <<streamID, subscribers>>
      BY <1>2 DEF RLock
    <2> QED BY <1>0, <2>1, <2>2, <2>3 DEF Publishing, Unshared
  <1>3. ASSUME NEW p \in Publishers, NEW c \in Conns, Offer(p, c) PROVE Publishing' /\ Unshared'
    <2>1. /\ pub' = [pub EXCEPT ![p] = pub'[p]]
          /\ pub'[p].id = pub[p].id
          /\ pub'[p].pc = "sending"
          /\ pub'[p].left = pub[p].left \ {c}
          /\ pub[p].pc = "sending"
      BY <1>3, <1>0 DEF Offer, PubRow
    <2>2. UNCHANGED <<streamID, subscribers>>
      BY <1>3 DEF Offer
    <2> QED BY <1>0, <2>1, <2>2 DEF Publishing, Unshared
  <1>4. ASSUME NEW p \in Publishers, RUnlock(p) PROVE Publishing' /\ Unshared'
    <2>1. /\ pub' = [pub EXCEPT ![p] = Silent]
          /\ Silent.pc = "idle" /\ Silent.left = {}
          /\ UNCHANGED <<streamID, subscribers>>
      BY <1>4 DEF RUnlock, Silent
    <2> QED BY <1>0, <2>1 DEF Publishing, Unshared
  <1>5. ASSUME NEW c \in Conns, Subscribe(c) \/ Cancel(c) PROVE Publishing' /\ Unshared'
    <2>1. \A p \in Publishers : pub[p].pc # "sending" /\ pub[p].left = {}
      BY <1>5 DEF Subscribe, Cancel, Reading, Publishing
    <2>2. pub' = Admitted(subscribers') /\ UNCHANGED streamID
      BY <1>5 DEF Subscribe, Cancel
    <2>3. \A p \in Publishers :
            /\ pub'[p].id = pub[p].id
            /\ pub[p].pc = "waiting" => pub'[p].pc = "sending" /\ pub'[p].left = subscribers'
            /\ pub[p].pc # "waiting" => pub'[p] = pub[p]
      BY <1>0, <2>2 DEF Admitted, PubRow
    <2> QED BY <2>1, <2>2, <2>3 DEF Publishing, Unshared, Silent
  <1>6. ASSUME UNCHANGED <<pub, subscribers, streamID>> PROVE Publishing' /\ Unshared'
    BY <1>6 DEF Publishing, Unshared
  <1> QED
    BY <1>1, <1>2, <1>3, <1>4, <1>5, <1>6
       DEF Next, Publish, Connect, Hello, Deliver, SocketCloses, WriteTimesOut, PingFails, Close, vars

(* A connection that does not change, while no frame is numbered, is known *)
(* as before: nothing new comes under way to it, and if it must get frames *)
(* those on their way stay so.                                             *)
LEMMA Unaffected ==
  ASSUME NEW d \in Conns, Known(d), conn'[d] = conn[d], streamID' = streamID,
         \A p \in Publishers : UnderWay(p, d)' => UnderWay(p, d) /\ pub'[p].id = pub[p].id,
         conn[d].pc = "streaming" =>
           \A p \in Publishers : UnderWay(p, d) => UnderWay(p, d)' /\ pub'[p].id = pub[p].id
  PROVE  Known(d)'
  <1>1. /\ Due(d)' = Due(d)
        /\ Queued(d)' = Queued(d)
        /\ conn[d].pc # "streaming" => Due(d) = {}
    BY DEF Due, Queued
  <1>2. Offered(d)'
    BY <1>1 DEF Known, Offered
  <1>3. Fate(d)'
    BY <1>1 DEF Known, Fate
  <1>4. Contiguous(d)'
    BY DEF Known, Contiguous
  <1> QED BY <1>2, <1>3, <1>4 DEF Known

(* Taking and releasing the read lock leaves the frames where they are. *)
LEMMA KnownOfPublishers ==
  HubInv /\ (\E p \in Publishers : RLock(p) \/ RUnlock(p)) => \A d \in Conns : Known(d)'
  <1> SUFFICES ASSUME HubInv, NEW p \in Publishers, RLock(p) \/ RUnlock(p), NEW d \in Conns
               PROVE  Known(d)'
    OBVIOUS
  <1>1. /\ pub \in [Publishers -> PubRow]
        /\ Known(d)
        /\ conn[d].pc = "streaming" => d \in subscribers
        /\ \A q \in Publishers : pub[q].pc # "sending" => pub[q].left = {}
    BY DEF HubInv, Typed, Subscribed, Publishing
  <1>2. CASE RLock(p)
    <2>1. \A q \in Publishers : q # p => pub'[q] = pub[q]
      BY <1>1, <1>2 DEF RLock
    <2>2. /\ pub[p].pc = "numbered" /\ UnderWay(p, d)
          /\ pub'[p].id = pub[p].id
          /\ \/ pub'[p].pc = "waiting"
             \/ pub'[p].pc = "sending" /\ pub'[p].left = subscribers
      BY <1>1, <1>2 DEF RLock, UnderWay, PubRow
    <2>3. conn' = conn /\ streamID' = streamID
      BY <1>2 DEF RLock
    <2> QED BY <1>1, <2>1, <2>2, <2>3, Unaffected DEF UnderWay
  <1>3. CASE RUnlock(p)
    <2>1. \A q \in Publishers : q # p => pub'[q] = pub[q]
      BY <1>1, <1>3 DEF RUnlock
    <2>2. pub'[p] = Silent /\ pub[p].pc = "sending" /\ pub[p].left = {} /\ conn' = conn /\ streamID' = streamID
      BY <1>1, <1>3 DEF RUnlock
    <2> QED BY <1>1, <2>1, <2>2, Unaffected DEF UnderWay, Silent
  <1> QED BY <1>2, <1>3

(* A new frame is under way to every connection. *)
LEMMA KnownOfNumber ==
  HubInv /\ (\E p \in Publishers : Number(p)) => \A d \in Conns : Known(d)'
  <1> SUFFICES ASSUME HubInv, NEW p \in Publishers, Number(p), NEW d \in Conns
               PROVE  Known(d)'
    OBVIOUS
  <1>1. /\ pub \in [Publishers -> PubRow]
        /\ streamID \in Nat
        /\ Known(d)
        /\ pub[p].pc = "idle" /\ pub[p].left = {}
        /\ \A q \in Publishers : UnderWay(q, d) => pub[q].id \in 1..streamID
    BY MaxFramesAssumption DEF HubInv, Typed, Publishing, Number, UnderWay, Silent
  <1>2. /\ pub' = [pub EXCEPT ![p] = [pc |-> "numbered", id |-> streamID + 1, left |-> {}]]
        /\ streamID' = streamID + 1
        /\ conn' = conn
        /\ Due(d)' = Due(d)
        /\ Queued(d)' = Queued(d)
    BY DEF Number, Due, Queued
  <1>3. /\ UnderWay(p, d)' /\ pub'[p].id = streamID + 1
        /\ ~UnderWay(p, d)
        /\ \A q \in Publishers : q # p => pub'[q] = pub[q] /\ (UnderWay(q, d)' <=> UnderWay(q, d))
    BY <1>1, <1>2 DEF UnderWay
  <1>4. Offered(d)'
    BY <1>1, <1>2, <1>3 DEF Known, Offered
  <1>5. Fate(d)'
    <2> SUFFICES ASSUME NEW i \in Due(d), i <= streamID + 1
                 PROVE  \/ i \in conn[d].got \cup conn[d].lost \cup Queued(d)
                        \/ \E q \in Publishers : pub'[q].id = i /\ UnderWay(q, d)'
      BY <1>2 DEF Fate
    <2>1. i \in Nat
      BY DEF Due, Typed, HubInv, ConnRow
    <2>2. CASE i = streamID + 1
      BY <2>2, <1>3
    <2>3. CASE i <= streamID
      BY <2>3, <1>1, <1>3 DEF Known, Fate
    <2> QED BY <2>1, <2>2, <2>3, <1>1
  <1>6. Contiguous(d)'
    BY <1>1, <1>2 DEF Known, Contiguous
  <1> QED BY <1>4, <1>5, <1>6 DEF Known

(* A frame that is offered is queued or lost. *)
LEMMA KnownOfOffer ==
  HubInv /\ (\E p \in Publishers, c \in Conns : Offer(p, c)) => \A d \in Conns : Known(d)'
  <1> SUFFICES ASSUME HubInv, NEW p \in Publishers, NEW c \in Conns, Offer(p, c), NEW d \in Conns
               PROVE  Known(d)'
    OBVIOUS
  <1>1. /\ pub \in [Publishers -> PubRow] /\ conn \in [Conns -> ConnRow]
        /\ Known(d) /\ Known(c)
        /\ UnderWay(p, c) /\ pub[p].pc = "sending"
        /\ pub[p].id \in 1..streamID
    BY DEF HubInv, Typed, Publishing, Offer, UnderWay
  <1>2. /\ \A q \in Publishers : pub'[q].id = pub[q].id
        /\ \A q \in Publishers : q # p => pub'[q] = pub[q]
        /\ pub'[p].pc = "sending" /\ pub'[p].left = pub[p].left \ {c}
        /\ streamID' = streamID
    BY <1>1 DEF Offer, PubRow
  <1>3. CASE d # c
    <2>1. conn'[d] = conn[d]
      BY <1>3, <1>1 DEF Offer
    <2>2. \A q \in Publishers : UnderWay(q, d)' <=> UnderWay(q, d)
      BY <1>1, <1>2, <1>3 DEF UnderWay
    <2> QED BY <1>1, <1>2, <2>1, <2>2, Unaffected
  <1>4. CASE d = c
    <2>1. /\ conn'[c].pc = conn[c].pc /\ conn'[c].socket = conn[c].socket
          /\ conn'[c].hello = conn[c].hello /\ conn'[c].last = conn[c].last
          /\ conn'[c].got = conn[c].got /\ conn'[c].jumped = conn[c].jumped
          /\ Due(c)' = Due(c)
      BY <1>1 DEF Offer, ConnRow, Due
    <2>2. \/ conn'[c].lost = conn[c].lost /\ Queued(c)' = Queued(c) \cup {pub[p].id}
          \/ conn'[c].lost = conn[c].lost \cup ({pub[p].id} \cap Due(c)) /\ Queued(c)' = Queued(c)
      <3>1. conn[c] \in ConnRow /\ conn[c].queue \in Seq(Ids) /\ pub[p].id \in Ids
        BY <1>1, MaxFramesAssumption DEF ConnRow, Ids, HubInv, Typed
      <3>2. CASE Len(conn[c].queue) < Buffer
        <4>1. conn'[c].lost = conn[c].lost /\ conn'[c].queue = Append(conn[c].queue, pub[p].id)
          BY <1>1, <3>1, <3>2 DEF Offer, ConnRow
        <4>2. ToSet(Append(conn[c].queue, pub[p].id)) = ToSet(conn[c].queue) \cup {pub[p].id}
          BY <3>1, AppendedSet
        <4> QED BY <4>1, <4>2 DEF Queued
      <3>3. CASE ~(Len(conn[c].queue) < Buffer)
        BY <1>1, <3>1, <3>3 DEF Offer, ConnRow, Queued
      <3> QED BY <3>2, <3>3
    <2>3. \A q \in Publishers : UnderWay(q, c)' <=> (UnderWay(q, c) /\ q # p)
      BY <1>1, <1>2 DEF UnderWay
    <2>4. \A q \in Publishers : UnderWay(q, c) /\ q # p => pub[q].id # pub[p].id
      BY <1>1 DEF HubInv, Unshared, Publishing, UnderWay
    <2>5. Offered(c)'
      BY <1>1, <1>2, <2>1, <2>2, <2>3, <2>4 DEF Known, Offered
    <2>6. Fate(c)'
      <3> SUFFICES ASSUME NEW i \in Due(c), i <= streamID
                   PROVE  \/ i \in conn'[c].got \cup conn'[c].lost \cup Queued(c)'
                          \/ \E q \in Publishers : pub'[q].id = i /\ UnderWay(q, c)'
        BY <1>2, <2>1 DEF Fate
      <3>1. CASE i \in conn[c].got \cup conn[c].lost \cup Queued(c)
        BY <3>1, <2>1, <2>2
      <3>2. CASE i = pub[p].id
        BY <3>2, <2>2
      <3>3. CASE \E q \in Publishers : pub[q].id = i /\ UnderWay(q, c) /\ q # p
        BY <3>3, <1>2, <2>3
      <3> QED BY <1>1, <3>1, <3>2, <3>3 DEF Known, Fate
    <2>7. Contiguous(c)'
      BY <1>1, <2>1 DEF Known, Contiguous
    <2> QED BY <1>4, <2>5, <2>6, <2>7 DEF Known
  <1> QED BY <1>3, <1>4

(* Subscribing and leaving move no frame of a client that is there. *)
LEMMA KnownOfLock ==
  HubInv /\ (\E c \in Conns : Subscribe(c) \/ Cancel(c)) => \A d \in Conns : Known(d)'
  <1> SUFFICES ASSUME HubInv, NEW c \in Conns, Subscribe(c) \/ Cancel(c), NEW d \in Conns
               PROVE  Known(d)'
    OBVIOUS
  <1>1. /\ pub \in [Publishers -> PubRow] /\ conn \in [Conns -> ConnRow]
        /\ Known(d)
        /\ conn[d].pc = "streaming" => d \in subscribers
        /\ conn[c].pc # "streaming"
        /\ \A q \in Publishers : pub[q].pc # "sending" /\ pub[q].left = {}
    BY DEF HubInv, Typed, Subscribed, Publishing, Subscribe, Cancel, Reading
  <1>2. pub' = Admitted(subscribers') /\ streamID' = streamID /\ subscribers \ {c} \subseteq subscribers'
    BY DEF Subscribe, Cancel
  <1>3. \A q \in Publishers :
          /\ pub'[q].id = pub[q].id
          /\ pub[q].pc = "waiting" => pub'[q].pc = "sending" /\ pub'[q].left = subscribers'
          /\ pub[q].pc # "waiting" => pub'[q] = pub[q]
    BY <1>1, <1>2 DEF Admitted, PubRow
  <1>4. \A q \in Publishers : UnderWay(q, d)' => UnderWay(q, d)
    BY <1>1, <1>3 DEF UnderWay
  <1>5. CASE d # c
    <2>1. conn'[d] = conn[d]
      BY <1>5, <1>1 DEF Subscribe, Cancel
    <2>2. conn[d].pc = "streaming" => \A q \in Publishers : UnderWay(q, d) => UnderWay(q, d)'
      BY <1>1, <1>2, <1>3, <1>5 DEF UnderWay
    <2> QED BY <1>1, <1>2, <1>3, <1>4, <2>1, <2>2, Unaffected
  <1>6. CASE d = c
    <2>1. /\ conn'[c].hello = conn[c].hello /\ conn'[c].last = conn[c].last
          /\ conn'[c].got = conn[c].got /\ conn'[c].jumped = conn[c].jumped
          /\ conn'[c].lost = conn[c].lost /\ conn'[c].queue = conn[c].queue
          /\ conn'[c].pc # "streaming"
      BY <1>1 DEF Subscribe, Cancel, ConnRow
    <2>2. Queued(c)' = Queued(c) /\ Due(c) = {} /\ Due(c)' = {}
      BY <1>1, <2>1 DEF Queued, Due
    <2>3. Offered(c)'
      BY <1>2, <1>3, <1>4, <1>6, <1>1, <2>1, <2>2 DEF Known, Offered
    <2>4. Fate(c)' /\ Contiguous(c)'
      BY <1>1, <1>6, <2>1, <2>2 DEF Known, Fate, Contiguous
    <2> QED BY <1>6, <2>3, <2>4 DEF Known
  <1> QED BY <1>5, <1>6

(* An action of one connection alone. *)
LEMMA KnownOfOthers ==
  ASSUME HubInv, NEW c \in Conns, NEW d \in Conns, d # c, NEW k,
         conn' = [conn EXCEPT ![c] = k], UNCHANGED <<pub, streamID>>
  PROVE  Known(d)'
  <1>1. Known(d) /\ conn'[d] = conn[d]
    BY DEF HubInv, Typed
  <1>2. \A q \in Publishers : UnderWay(q, d)' <=> UnderWay(q, d)
    BY DEF UnderWay
  <1> QED BY <1>1, <1>2, Unaffected

(* Nothing has to be known of a connection whose client is gone. *)
LEMMA KnownOfForgotten ==
  ASSUME HubInv, NEW c \in Conns, UNCHANGED <<pub, streamID>>,
         conn'[c].got = {}, conn'[c].lost = {}, conn'[c].hello = 0, conn'[c].last = 0,
         Due(c)' = {}, Queued(c)' \subseteq Queued(c)
  PROVE  Known(c)'
  <1>1. Known(c) /\ \A q \in Publishers : UnderWay(q, c)' <=> UnderWay(q, c)
    BY DEF HubInv, UnderWay
  <1>2. Offered(c)'
    BY <1>1 DEF Known, Offered
  <1>3. Fate(c)'
    BY DEF Fate
  <1>4. Contiguous(c)'
    BY DEF Contiguous
  <1> QED BY <1>2, <1>3, <1>4 DEF Known

(* A client is due what is later than its greeting: what is under way or   *)
(* queued.                                                                 *)
LEMMA KnownOfHello ==
  HubInv /\ (\E c \in Conns : Hello(c)) => \A d \in Conns : Known(d)'
  <1> SUFFICES ASSUME HubInv, NEW c \in Conns, Hello(c), NEW d \in Conns
               PROVE  Known(d)'
    OBVIOUS
  <1> DEFINE k == IF conn[c].socket
                  THEN [conn[c] EXCEPT !.pc = "streaming", !.hello = streamID, !.last = streamID]
                  ELSE Gone(conn[c], "leaving")
  <1>1. /\ conn' = [conn EXCEPT ![c] = k] /\ UNCHANGED <<pub, streamID>>
        /\ conn[c] \in ConnRow /\ conn \in [Conns -> ConnRow]
        /\ Known(c) /\ Due(c) = {} /\ streamID \in Nat
    BY MaxFramesAssumption DEF Hello, HubInv, Typed, Due
  <1>2. ASSUME d # c PROVE Known(d)'
    <2> HIDE DEF k
    <2> QED BY <1>1, <1>2, KnownOfOthers
  <1>3. CASE d = c /\ ~conn[c].socket
    <2>1. conn'[c] = Gone(conn[c], "leaving")
      BY <1>1, <1>3
    <2>2. /\ conn'[c].queue = conn[c].queue /\ conn'[c].pc = "leaving"
          /\ conn'[c].got = {} /\ conn'[c].lost = {} /\ conn'[c].hello = 0 /\ conn'[c].last = 0
      <3> HIDE DEF k
      <3> QED BY <1>1, <2>1, GoneFields DEF ConnStates
    <2>3. Due(c)' = {} /\ Queued(c)' = Queued(c)
      BY <2>2 DEF Due, Queued
    <2> HIDE DEF k
    <2> QED BY <1>1, <1>3, <2>2, <2>3, KnownOfForgotten
  <1>4. CASE d = c /\ conn[c].socket
    <2>1. /\ conn'[c].hello = streamID /\ conn'[c].last = streamID
          /\ conn'[c].lost = conn[c].lost /\ conn'[c].got = conn[c].got
          /\ conn'[c].queue = conn[c].queue
          /\ Due(c)' = (streamID + 1)..MaxFrames
      BY <1>1, <1>4 DEF ConnRow, Due
    <2>2. /\ conn[c].lost = {} /\ Queued(c)' = Queued(c)
          /\ \A q \in Publishers : UnderWay(q, c)' <=> UnderWay(q, c)
      BY <1>1, <2>1 DEF Known, Offered, Queued, UnderWay
    <2>3. Offered(c)'
      BY <1>1, <2>1, <2>2 DEF Known, Offered
    <2>4. Fate(c)'
      BY <1>1, <2>1 DEF Fate
    <2>5. Contiguous(c)'
      BY <1>1, <2>1 DEF Contiguous
    <2> QED BY <1>4, <2>3, <2>4, <2>5 DEF Known
  <1> QED BY <1>2, <1>3, <1>4

(* A frame that is written goes from the queue to the client. *)
LEMMA KnownOfDeliver ==
  HubInv /\ (\E c \in Conns : Deliver(c)) => \A d \in Conns : Known(d)'
  <1> SUFFICES ASSUME HubInv, NEW c \in Conns, Deliver(c), NEW d \in Conns
               PROVE  Known(d)'
    OBVIOUS
  <1> DEFINE id == Head(conn[c].queue)
             jumped == conn[c].jumped \/ id # conn[c].last + 1
             got == conn[c].got \cup ({id} \cap Due(c))
             k == [conn[c] EXCEPT !.queue = Tail(conn[c].queue), !.got = got,
                                  !.last = id, !.jumped = jumped]
  <1>1. /\ conn' = [conn EXCEPT ![c] = k] /\ UNCHANGED <<pub, streamID>>
        /\ conn[c].pc = "streaming" /\ conn[c].socket
        /\ conn[c] \in ConnRow /\ conn \in [Conns -> ConnRow] /\ Typed
        /\ Known(c)
        /\ conn[c].queue # <<>>
    BY DEF Deliver, HubInv, Typed
  <1>2. Queued(c) = {id} \cup ToSet(Tail(conn[c].queue)) /\ id \in Ids
    BY <1>1, RowOfConn, HeadAndTail DEF Queued
  <1>3. /\ Due(c) = (conn[c].hello + 1)..MaxFrames
        /\ conn[c].hello \in Nat /\ conn[c].last \in Nat /\ id \in 1..MaxFrames
    BY <1>1, <1>2, MaxFramesAssumption DEF Due, ConnRow, Ids
  <1>4. ASSUME d # c PROVE Known(d)'
    <2> HIDE DEF k
    <2> QED BY <1>1, <1>4, KnownOfOthers
  <1> HIDE DEF id, jumped, got
  <1>5. /\ conn'[c].pc = conn[c].pc /\ conn'[c].socket = conn[c].socket
        /\ conn'[c].hello = conn[c].hello /\ conn'[c].lost = conn[c].lost
        /\ conn'[c].got = got /\ conn'[c].last = id
        /\ conn'[c].jumped = jumped
        /\ conn'[c].queue = Tail(conn[c].queue)
    BY <1>1 DEF ConnRow
  <1>6. /\ Due(c)' = Due(c)
        /\ Queued(c)' \subseteq Queued(c)
        /\ got \cup Queued(c)' \subseteq conn[c].got \cup Queued(c)
        /\ conn[c].got \cup Queued(c) \subseteq got \cup Queued(c)' \cup ({id} \ Due(c))
        /\ \A q \in Publishers : UnderWay(q, c)' <=> UnderWay(q, c)
    BY <1>1, <1>2, <1>5 DEF Due, Queued, UnderWay, got
  <1>7. Offered(c)'
    BY <1>1, <1>5, <1>6 DEF Known, Offered
  <1>8. Fate(c)'
    BY <1>1, <1>5, <1>6 DEF Known, Fate
  <1>9. Contiguous(c)'
    <2> SUFFICES ASSUME ~jumped
                 PROVE  conn[c].hello <= id /\ (conn[c].hello + 1)..id \subseteq got
      BY <1>5 DEF Contiguous
    <2>1. ~conn[c].jumped /\ id = conn[c].last + 1
      BY DEF jumped
    <2>2. conn[c].hello <= conn[c].last /\ (conn[c].hello + 1)..conn[c].last \subseteq conn[c].got
      BY <1>1, <2>1 DEF Known, Contiguous
    <2>3. id \in Due(c)
      BY <1>3, <2>1, <2>2
    <2> QED BY <1>3, <2>1, <2>2, <2>3 DEF got
  <1> QED BY <1>4, <1>7, <1>8, <1>9 DEF Known

(* The steps of a handler that greet no client and write it no frame. *)
LEMMA KnownOfConnection ==
  HubInv /\ (\E c \in Conns : Connect(c) \/ Close(c) \/ SocketCloses(c) \/ WriteTimesOut(c) \/ PingFails(c))
    => \A d \in Conns : Known(d)'
  <1> SUFFICES ASSUME HubInv, NEW c \in Conns,
                      Connect(c) \/ Close(c) \/ SocketCloses(c) \/ WriteTimesOut(c) \/ PingFails(c),
                      NEW d \in Conns
               PROVE  Known(d)'
    OBVIOUS
  <1>0. Typed /\ conn[c] \in ConnRow /\ conn \in [Conns -> ConnRow] /\ UNCHANGED <<pub, streamID>>
    BY DEF HubInv, Typed, Connect, Close, SocketCloses, WriteTimesOut, PingFails
  <1>1. ASSUME NEW k, conn' = [conn EXCEPT ![c] = k],
               k.pc # "streaming" \/ ~k.socket,
               k.got = {}, k.lost = {}, k.hello = 0, k.last = 0, ToSet(k.queue) \subseteq Queued(c)
        PROVE  Known(d)'
    <2>1. ASSUME d # c PROVE Known(d)'
      BY <1>0, <1>1, <2>1, KnownOfOthers
    <2>2. conn'[c] = k
      BY <1>0, <1>1
    <2>3. Due(c)' = {} /\ Queued(c)' \subseteq Queued(c)
      BY <1>1, <2>2 DEF Due, Queued
    <2> QED BY <1>0, <1>1, <2>1, <2>2, <2>3, KnownOfForgotten
  <1>2. CASE Connect(c)
    <2> DEFINE k == [Away EXCEPT !.pc = "subscribing", !.channel = TRUE, !.socket = TRUE]
    <2>1. /\ k.pc = "subscribing" /\ k.queue = <<>>
          /\ k.got = {} /\ k.lost = {} /\ k.hello = 0 /\ k.last = 0
      BY DEF Away
    <2>2. ToSet(k.queue) = {}
      BY <2>1 DEF ToSet
    <2>3. conn' = [conn EXCEPT ![c] = k]
      BY <1>2 DEF Connect
    <2> HIDE DEF k
    <2> QED BY <1>1, <2>1, <2>2, <2>3
  <1>3. CASE Close(c)
    <2>1. /\ Away.pc = "away" /\ ToSet(Away.queue) = {}
          /\ Away.got = {} /\ Away.lost = {} /\ Away.hello = 0 /\ Away.last = 0
      BY DEF Away, ToSet
    <2>2. conn' = [conn EXCEPT ![c] = Away]
      BY <1>3 DEF Close
    <2> QED BY <1>1, <2>1, <2>2
  <1>4. CASE SocketCloses(c) \/ PingFails(c)
    <2>1. PICK s \in ConnStates : conn' = [conn EXCEPT ![c] = Gone(conn[c], s)]
      BY <1>0, <1>4 DEF SocketCloses, PingFails, ConnRow, ConnStates
    <2> DEFINE k == Gone(conn[c], s)
    <2>2. /\ k.got = {} /\ k.lost = {} /\ k.hello = 0 /\ k.last = 0 /\ ~k.socket
          /\ k.queue = conn[c].queue
      BY <1>0, GoneFields
    <2>3. ToSet(k.queue) \subseteq Queued(c)
      BY <2>2 DEF Queued
    <2> HIDE DEF k
    <2> QED BY <1>1, <2>1, <2>2, <2>3 DEF k
  <1>5. CASE WriteTimesOut(c)
    <2> DEFINE q == [conn[c] EXCEPT !.queue = Tail(conn[c].queue)]
    <2>1. q \in ConnRow /\ ToSet(q.queue) \subseteq Queued(c)
      BY <1>0, <1>5, TailRow DEF WriteTimesOut
    <2>2. conn' = [conn EXCEPT ![c] = Gone(q, "leaving")]
      BY <1>5 DEF WriteTimesOut
    <2> HIDE DEF q
    <2> QED BY <1>1, <2>1, <2>2, GoneFields DEF ConnStates
  <1> QED BY <1>2, <1>3, <1>4, <1>5

------------------------------------------------------------------------------
(* The theorems. *)

(* Every step keeps what is known of every connection. *)
LEMMA KnownNext == HubInv /\ [Next]_vars => \A d \in Conns : Known(d)'
  <1> SUFFICES ASSUME HubInv, [Next]_vars PROVE \A d \in Conns : Known(d)'
    OBVIOUS
  <1>1. CASE UNCHANGED vars
    <2>1. \A d \in Conns : Known(d)
      BY DEF HubInv
    <2> QED BY <1>1, <2>1, Unaffected DEF vars, UnderWay
  <1> QED
    BY <1>1, KnownOfPublishers, KnownOfNumber, KnownOfOffer, KnownOfLock, KnownOfHello,
       KnownOfDeliver, KnownOfConnection DEF Next, Publish

(* The invariant holds in every reachable state: types, publishers in      *)
(* order, no frame shared, subscribers with open channels, and the fates   *)
(* of frames.                                                              *)
THEOREM HubInvHolds == Spec => []HubInv
  <1>1. HubInv /\ [Next]_vars => HubInv'
    BY TypedNext, SubscribedNext, PublishingNext, KnownNext DEF HubInv
  <1> QED BY <1>1, HubInvInit, PTL DEF Spec

(* Every queue holds at most Buffer frames, and the state has its type.    *)
THEOREM TypesHold == Spec => []TypeOK
  <1>1. HubInv => TypeOK
    BY DEF HubInv, Typed, TypeOK, PubRow, ConnRow
  <1> QED BY <1>1, HubInvHolds, PTL

(* A publisher only has subscribers left to offer its frame to, and a      *)
(* subscriber's channel is open: cancel takes it out of the hub, under the *)
(* write lock, before it closes the channel.                               *)
THEOREM NothingIsSentOnAClosedChannel == Spec => []NoSendOnClosedChannel
  <1>1. HubInv => NoSendOnClosedChannel
    <2> SUFFICES ASSUME HubInv, NEW p \in Publishers, NEW c \in pub[p].left, c \in Conns
                 PROVE  conn[c].channel
      BY DEF NoSendOnClosedChannel, HubInv, Typed, Publishing
    <2>1. c \in subscribers
      BY DEF HubInv, Publishing
    <2>2. conn[c].pc # "away"
      BY <2>1 DEF HubInv, Subscribed
    <2> QED BY <2>2 DEF HubInv, Subscribed
  <1> QED BY <1>1, HubInvHolds, PTL

(* What a greeted client lacks is in its queue, on its way or was lost by  *)
(* its full queue.                                                         *)
THEOREM FramesHaveFates == Spec => []EveryFrameHasAFate
  <1>1. HubInv => EveryFrameHasAFate
    BY DEF HubInv, Known, Fate, EveryFrameHasAFate
  <1> QED BY <1>1, HubInvHolds, PTL

(* A frame that a full queue lost shows as a jump of IDs once the client   *)
(* has a later one.                                                        *)
THEOREM HolesAreShown == Spec => []HolesShow
  <1>1. HubInv => HolesShow
    <2> SUFFICES ASSUME HubInv, NEW c \in Conns, NEW i \in conn[c].lost, i < conn[c].last,
                        ~conn[c].jumped
                 PROVE  FALSE
      BY DEF HolesShow
    <2>1. /\ i \in Due(c) /\ i \notin conn[c].got
          /\ (conn[c].hello + 1)..conn[c].last \subseteq conn[c].got
      BY DEF HubInv, Known, Offered, Contiguous
    <2>2. i \in (conn[c].hello + 1)..MaxFrames /\ conn[c].last \in Nat /\ conn[c].hello \in Nat
      BY <2>1, MaxFramesAssumption DEF Due, HubInv, Typed, ConnRow
    <2> QED BY <2>1, <2>2
  <1> QED BY <1>1, HubInvHolds, PTL

-----------------------------------------------------------------------------
(* Numbers.  Some number of a set is the least, and what holds of 0 and of *)
(* the successor of each number it holds of holds of all.                  *)

LEMMA LeastNumber ==
  ASSUME NEW S \in SUBSET Nat, S # {}
  PROVE  \E n \in S : \A m \in S : n <= m
<1>1. PICK n \in S : \A m \in S : ~(<<m, n>> \in OpToRel(<, Nat))
  BY NatLessThanWellFounded, WFMin
<1>2. ASSUME NEW m \in S PROVE ~(m < n)
  BY <1>1 DEF OpToRel
<1> QED
  BY <1>2

LEMMA AllNumbers ==
  ASSUME NEW S \in SUBSET Nat, 0 \in S, \A n \in S : n + 1 \in S
  PROVE  S = Nat
<1> SUFFICES ASSUME Nat \ S # {} PROVE FALSE
  OBVIOUS
<1>1. PICK n \in Nat \ S : \A m \in Nat \ S : n <= m
  BY LeastNumber
<1>2. n - 1 \in Nat /\ n - 1 \notin Nat \ S /\ (n - 1) + 1 = n
  BY <1>1
<1> QED
  BY <1>1, <1>2

(* A value for each number up to n, each from the one before it.           *)
HasValues(V, b, n, G) ==
  \E f \in [0..n -> V] : f[0] = b /\ \A i \in 1..n : f[i] = G[<<i, f[i - 1]>>]

LEMMA Recursion ==
  ASSUME NEW V, NEW b \in V, NEW n \in Nat, NEW G \in [(1..n) \X V -> V]
  PROVE  HasValues(V, b, n, G)
<1> DEFINE Up(m, f) == f[0] = b /\ \A i \in 1..m : f[i] = G[<<i, f[i - 1]>>]
           S == {m \in Nat : m <= n => \E f \in [0..m -> V] : Up(m, f)}
<1>1. 0 \in S
  <2>1. [i \in 0..0 |-> b] \in [0..0 -> V] /\ Up(0, [i \in 0..0 |-> b])
    OBVIOUS
  <2> QED
    BY <2>1
<1>2. ASSUME NEW m \in S, m + 1 <= n
      PROVE  \E f \in [0..(m + 1) -> V] : Up(m + 1, f)
  <2>1. m \in Nat /\ m <= n /\ m + 1 \in 1..n
    BY <1>2
  <2>2. PICK f \in [0..m -> V] : Up(m, f)
    BY <2>1
  <2> DEFINE g == [i \in 0..(m + 1) |-> IF i = m + 1 THEN G[<<m + 1, f[m]>>] ELSE f[i]]
  <2>3. f[m] \in V /\ G[<<m + 1, f[m]>>] \in V
    BY <2>1
  <2>4. g \in [0..(m + 1) -> V]
    <3>1. \A i \in 0..(m + 1) : i = m + 1 \/ i \in 0..m
      BY <2>1
    <3> QED
      BY <2>3, <3>1
  <2>5. g[0] = b
    BY <2>1, <2>2
  <2>6. \A i \in 1..m : g[i] = G[<<i, g[i - 1]>>]
    <3>1. \A i \in 1..m : /\ i \in 0..(m + 1) /\ i # m + 1
                          /\ i - 1 \in 0..(m + 1) /\ i - 1 # m + 1
      BY <2>1
    <3> QED
      BY <2>2, <3>1
  <2>7. g[m + 1] = G[<<m + 1, g[(m + 1) - 1]>>]
    <3>1. (m + 1) - 1 = m /\ m \in 0..(m + 1) /\ m # m + 1 /\ m + 1 \in 0..(m + 1)
      BY <2>1
    <3> QED
      BY <3>1
  <2>8. \A i \in 1..(m + 1) : i = m + 1 \/ i \in 1..m
    BY <2>1
  <2> HIDE DEF g
  <2>9. Up(m + 1, g)
    BY <2>5, <2>6, <2>7, <2>8
  <2> QED
    BY <2>4, <2>9
<1>3. S = Nat
  <2>1. \A m \in S : m + 1 \in S
    BY <1>2
  <2> HIDE DEF S
  <2>2. S \in SUBSET Nat
    BY DEF S
  <2> QED
    BY <1>1, <2>1, <2>2, AllNumbers
<1> QED
  BY <1>3 DEF HasValues

-----------------------------------------------------------------------------
(* Bags of calls. *)

LEMMA CallsAdded ==
  ASSUME NEW b, NEW S, IsABag(b)
  PROVE  /\ IsABag(b (+) SetToBag(S))
         /\ BagToSet(b (+) SetToBag(S)) = BagToSet(b) \cup S
BY DEF IsABag, BagToSet, SetToBag, (+)

(* One answer leaves the other calls; a call equal to it may remain. *)
LEMMA CallAnswered ==
  ASSUME NEW b, NEW r, IsABag(b)
  PROVE  /\ IsABag(b (-) SetToBag({r}))
         /\ BagToSet(b (-) SetToBag({r})) \subseteq BagToSet(b)
         /\ BagToSet(b) \ {r} \subseteq BagToSet(b (-) SetToBag({r}))
BY DEF IsABag, BagToSet, SetToBag, (-)

-----------------------------------------------------------------------------
(* Reads of an ordered run. *)

(* What two sequences one after the other hold. *)
LEMMA JoinedSet ==
  ASSUME NEW S, NEW s \in Seq(S), NEW t \in Seq(S)
  PROVE  s \o t \in Seq(S) /\ ToSet(s \o t) = ToSet(s) \cup ToSet(t)
<1>1. /\ s \o t \in Seq(S) /\ Len(s) \in Nat /\ Len(t) \in Nat
      /\ DOMAIN s = 1..Len(s) /\ DOMAIN t = 1..Len(t)
      /\ DOMAIN (s \o t) = 1..(Len(s) + Len(t))
      /\ \A i \in 1..(Len(s) + Len(t)) :
           (s \o t)[i] = IF i <= Len(s) THEN s[i] ELSE t[i - Len(s)]
  BY ConcatProperties
<1>2. \A i \in 1..Len(s) : i \in 1..(Len(s) + Len(t)) /\ (s \o t)[i] = s[i]
  BY <1>1
<1>3. \A i \in 1..Len(t) : Len(s) + i \in 1..(Len(s) + Len(t)) /\ (s \o t)[Len(s) + i] = t[i]
  BY <1>1
<1>4. \A i \in 1..(Len(s) + Len(t)) : i \in 1..Len(s) \/ i - Len(s) \in 1..Len(t)
  BY <1>1
<1>5. \A i \in 1..(Len(s) + Len(t)) :
        (i \in 1..Len(s) /\ (s \o t)[i] = s[i])
        \/ (i - Len(s) \in 1..Len(t) /\ (s \o t)[i] = t[i - Len(s)])
  BY <1>1, <1>4
<1>6. ASSUME NEW x \in ToSet(s \o t) PROVE x \in ToSet(s) \cup ToSet(t)
  BY <1>1, <1>5 DEF ToSet
<1>7. ASSUME NEW x \in ToSet(s) PROVE x \in ToSet(s \o t)
  BY <1>1, <1>2 DEF ToSet
<1>8. ASSUME NEW x \in ToSet(t) PROVE x \in ToSet(s \o t)
  <2>1. PICK i \in 1..Len(t) : x = t[i]
    BY <1>1 DEF ToSet
  <2>2. Len(s) + i \in DOMAIN (s \o t) /\ (s \o t)[Len(s) + i] = x
    BY ONLY <1>1, <1>3, <2>1
  <2> QED
    BY <2>2 DEF ToSet
<1> QED
  BY <1>1, <1>6, <1>7, <1>8

(* A finite set in a strict order: every place has a member of it.         *)
LEMMA PlacesAreTaken ==
  ASSUME NEW D, IsFiniteSet(D), NEW R,
         \A i \in D : <<i, i>> \notin R,
         \A i, j \in D : i = j \/ <<i, j>> \in R \/ <<j, i>> \in R,
         \A i, j, k \in D : <<i, j>> \in R /\ <<j, k>> \in R => <<i, k>> \in R
  PROVE  \A k \in 1..Cardinality(D) :
           \E i \in D : Cardinality({j \in D : <<j, i>> \in R}) = k - 1
<1> DEFINE n == Cardinality(D)
           Below(i) == {j \in D : <<j, i>> \in R}
           Rank(i) == Cardinality(Below(i)) + 1
<1>1. n \in Nat
  BY FS_CardinalityType
<1>2. ASSUME NEW i \in D
      PROVE  /\ Below(i) \subseteq D /\ i \notin Below(i)
             /\ IsFiniteSet(Below(i)) /\ Cardinality(Below(i)) \in Nat
             /\ Cardinality(Below(i) \cup {i}) = Rank(i)
  <2>1. Below(i) \subseteq D /\ i \notin Below(i)
    OBVIOUS
  <2>2. IsFiniteSet(Below(i))
    BY <2>1, FS_Subset
  <2> QED
    BY <2>1, <2>2, FS_CardinalityType, FS_AddElement
<1>3. ASSUME NEW i \in D PROVE Rank(i) \in 1..n
  <2>1. Below(i) \cup {i} \in SUBSET D
    BY <1>2
  <2> HIDE DEF Below
  <2>2. Cardinality(Below(i) \cup {i}) <= n
    BY <2>1, FS_Subset
  <2> QED
    BY <1>1, <1>2, <2>2
<1>4. ASSUME NEW i \in D, NEW j \in D, <<i, j>> \in R PROVE Rank(i) < Rank(j)
  <2>1. Below(i) \cup {i} \in SUBSET Below(j)
    BY <1>4
  <2>2. /\ IsFiniteSet(Below(j)) /\ Cardinality(Below(j)) \in Nat
        /\ Cardinality(Below(i)) \in Nat
        /\ Cardinality(Below(i) \cup {i}) = Rank(i)
    BY <1>2
  <2> HIDE DEF Below
  <2>3. Cardinality(Below(i) \cup {i}) <= Cardinality(Below(j))
    BY <2>1, <2>2, FS_Subset
  <2> QED
    BY <2>2, <2>3
<1>5. \A i, j \in D : Rank(i) = Rank(j) => i = j
  <2> SUFFICES ASSUME NEW i \in D, NEW j \in D, i # j PROVE Rank(i) # Rank(j)
    OBVIOUS
  <2>1. Rank(i) \in Nat /\ Rank(j) \in Nat
    BY <1>3
  <2>2. Rank(i) < Rank(j) \/ Rank(j) < Rank(i)
    BY <1>4
  <2> QED
    BY <2>1, <2>2
<1> DEFINE rank == [i \in D |-> Rank(i)]
<1>6. IsFiniteSet(1..n) /\ Cardinality(1..n) = n
  <2>1. 1 \in Int /\ n \in Int
    BY <1>1
  <2> HIDE DEF n
  <2>2. IsFiniteSet(1..n) /\ Cardinality(1..n) = IF 1 > n THEN 0 ELSE n - 1 + 1
    BY <2>1, FS_Interval
  <2> QED
    BY <1>1, <2>2
<1> HIDE DEF Rank
<1>7. rank \in Injection(D, 1..n)
  BY <1>3, <1>5 DEF Injection, IsInjective
<1>8. rank \in Surjection(D, 1..n)
  BY <1>6, <1>7, FS_Injection
<1>9. \A k \in 1..n : \E i \in D : Rank(i) = k
  BY <1>8 DEF Surjection
<1> SUFFICES ASSUME NEW k \in 1..n
             PROVE  \E i \in D : Cardinality(Below(i)) = k - 1
  OBVIOUS
<1>10. PICK i \in D : Rank(i) = k
  BY <1>9
<1>11. Cardinality(Below(i)) \in Nat
  BY <1>2
<1>12. Cardinality(Below(i)) = k - 1
  BY <1>1, <1>10, <1>11 DEF Rank
<1> QED
  BY <1>12

(* The timeline's order of the moments of events: strict, and two moments  *)
(* neither of which comes first stand alike to every other one.            *)
LEMMA MomentsAreOrdered ==
  ASSUME NEW e \in Moment, NEW f \in Moment, NEW g \in Moment
  PROVE  /\ ~Sooner(e, e)
         /\ Sooner(e, f) => ~Sooner(f, e)
         /\ Sooner(e, f) /\ Sooner(f, g) => Sooner(e, g)
         /\ Sooner(e, g) => Sooner(e, f) \/ Sooner(f, g)
<1>1. \A m \in {e, f, g} : m.at \in Nat /\ (m.source = None \/ m.source \in Nat)
  BY DashboardAssumption DEF Moment
<1>2. None \notin Nat
  BY DashboardAssumption
<1> QED
  BY <1>1, <1>2 DEF Sooner

(* The rows are events of the run. *)
LEMMA RowsType ==
  ASSUME log \in Seq(Moment), NEW a \in Nat
  PROVE  Rows(a) \in Seq(DOMAIN log)
<1> USE DashboardAssumption
<1> DEFINE later == {i \in DOMAIN log : i > a}
           Rank(i) == Cardinality({j \in later : Before(j, i)})
           m == Cardinality(later)
           n == IF m > PageSize THEN PageSize + 1 ELSE m
           Row(k) == CHOOSE i \in later : Rank(i) = k - 1
           R == {p \in later \X later : Before(p[1], p[2])}
<1>1. Len(log) \in Nat /\ DOMAIN log = 1..Len(log) /\ \A i \in 1..Len(log) : log[i] \in Moment
  OBVIOUS
<1>2. later \subseteq 1..Len(log)
  BY <1>1
<1>3. IsFiniteSet(later) /\ m \in Nat
  <2>1. 1 \in Int /\ Len(log) \in Int
    BY <1>1
  <2>2. IsFiniteSet(1..Len(log))
    BY ONLY <2>1, FS_Interval
  <2> HIDE DEF later
  <2> QED
    BY <1>2, <2>2, FS_Subset, FS_CardinalityType
<1>4. \A i \in later : i \in Nat /\ log[i] \in Moment
  BY <1>1, <1>2
<1> HIDE DEF later
<1>5. \A i \in later : <<i, i>> \notin R
  BY <1>4, MomentsAreOrdered DEF Before, Precedes
<1>6. \A i, j \in later : i = j \/ <<i, j>> \in R \/ <<j, i>> \in R
  BY <1>4, MomentsAreOrdered DEF Before, Precedes
<1>7. \A i, j, k \in later : <<i, j>> \in R /\ <<j, k>> \in R => <<i, k>> \in R
  <2> SUFFICES ASSUME NEW i \in later, NEW j \in later, NEW k \in later,
                      Before(i, j), Before(j, k)
               PROVE  Before(i, k)
    OBVIOUS
  <2>1. i \in Nat /\ j \in Nat /\ k \in Nat
    BY <1>4
  <2>2. \A e, f, g \in {log[i], log[j], log[k]} :
          /\ Sooner(e, f) /\ Sooner(f, g) => Sooner(e, g)
          /\ Sooner(e, g) => Sooner(e, f) \/ Sooner(f, g)
    BY <1>4, MomentsAreOrdered
  <2> QED
    BY <2>1, <2>2 DEF Before, Precedes
<1>8. ASSUME NEW i \in later PROVE {j \in later : Before(j, i)} = {j \in later : <<j, i>> \in R}
  OBVIOUS
<1> HIDE DEF R
<1>9. \A k \in 1..m : \E i \in later : Cardinality({j \in later : <<j, i>> \in R}) = k - 1
  BY <1>3, <1>5, <1>6, <1>7, PlacesAreTaken
<1>10. \A k \in 1..m : \E i \in later : Rank(i) = k - 1
  BY <1>8, <1>9
<1>11. n \in Nat /\ n <= m
  <2>1. PageSize \in Nat
    OBVIOUS
  <2> HIDE DEF m
  <2> QED
    BY <1>3, <2>1
<1>12. Rows(a) = [k \in 1..n |-> Row(k)]
  BY DEF Rows, later
<1> HIDE DEF Rank, m, n
<1>13. ASSUME NEW k \in 1..n PROVE Row(k) \in DOMAIN log
  <2>1. k \in 1..m
    BY <1>3, <1>11
  <2>2. Row(k) \in later
    BY <1>10, <2>1
  <2> QED
    BY <1>1, <1>2, <2>2
<1> HIDE DEF Row
<1>14. Rows(a) \in [1..n -> DOMAIN log]
  BY <1>12, <1>13
<1> QED
  BY <1>11, <1>14

(* The greatest of numbers that have a bound. *)
LEMMA MaxOf ==
  ASSUME NEW S \in SUBSET Nat, S # {}, NEW b \in Nat, \A x \in S : x <= b
  PROVE  Max(S) \in S /\ \A x \in S : x <= Max(S)
<1> DEFINE B == {m \in Nat : \A x \in S : x <= m}
<1>1. PICK m \in B : \A k \in B : m <= k
  <2>1. B \in SUBSET Nat /\ b \in B
    OBVIOUS
  <2> HIDE DEF B
  <2> QED
    BY <2>1, LeastNumber
<1>2. m \in S
  <2> SUFFICES ASSUME m \notin S PROVE FALSE
    OBVIOUS
  <2>1. PICK y \in S : TRUE
    OBVIOUS
  <2>2. \A x \in S : x \in Nat /\ x <= m /\ x # m /\ x <= m - 1
    BY <1>1
  <2>3. m - 1 \in Nat
    BY <1>1, <2>1, <2>2
  <2>4. m - 1 \in B
    BY <2>2, <2>3
  <2> QED
    BY <1>1, <2>4
<1>3. m \in S /\ \A x \in S : m >= x
  BY <1>1, <1>2
<1>4. Max(S) \in S /\ \A x \in S : Max(S) >= x
  BY <1>3 DEF Max
<1> QED
  BY <1>4

(* The rows of a run whose events arrived in order: the next sequences.    *)
LEMMA RowsOfOrdered ==
  ASSUME log \in Seq(Moment), Ordered, NEW a \in Nat
  PROVE  \E n \in 0..(PageSize + 1) :
           /\ Rows(a) = [k \in 1..n |-> a + k]
           /\ a + n <= Len(log) \/ n = 0
           /\ n <= PageSize => Len(log) <= a + n
<1> USE DashboardAssumption
<1> DEFINE later == {i \in DOMAIN log : i > a}
           Rank(i) == Cardinality({j \in later : Before(j, i)})
           m == Cardinality(later)
           n == IF m > PageSize THEN PageSize + 1 ELSE m
           Row(k) == CHOOSE i \in later : Rank(i) = k - 1
<1>1. Len(log) \in Nat /\ DOMAIN log = 1..Len(log) /\ \A i \in 1..Len(log) : log[i] \in Moment
  OBVIOUS
<1>2. later = (a + 1)..Len(log)
  BY <1>1
<1>3. m = IF a + 1 > Len(log) THEN 0 ELSE Len(log) - a
  <2>1. Cardinality((a + 1)..Len(log)) =
          IF a + 1 > Len(log) THEN 0 ELSE Len(log) - (a + 1) + 1
    <3>1. a + 1 \in Int /\ Len(log) \in Int
      BY <1>1
    <3> QED
      BY ONLY <3>1, FS_Interval
  <2> HIDE DEF later
  <2> QED
    BY <1>1, <1>2, <2>1
<1>4. m \in Nat /\ n \in 0..(PageSize + 1)
  BY <1>1, <1>3
<1>5. ASSUME NEW i \in later PROVE Rank(i) = i - a - 1
  <2>1. i \in 1..Len(log) /\ i > a /\ i \in Nat
    BY <1>1
  <2>2. ASSUME NEW j \in later PROVE Before(j, i) <=> j < i
    <3>1. j \in 1..Len(log) /\ j \in Nat
      BY <1>1
    <3>2. j < i => ~Sooner(log[i], log[j])
      BY <1>1, <2>1, <3>1 DEF Ordered
    <3>3. i < j => ~Sooner(log[j], log[i])
      BY <1>1, <2>1, <3>1 DEF Ordered
    <3>4. ~Sooner(log[i], log[i])
      BY <1>1, <2>1, MomentsAreOrdered
    <3> QED
      BY <2>1, <3>1, <3>2, <3>3, <3>4 DEF Before, Precedes
  <2>3. {j \in later : Before(j, i)} = (a + 1)..(i - 1)
    <3>1. \A j : j \in (a + 1)..(i - 1) <=> j \in (a + 1)..Len(log) /\ j < i
      BY <1>1, <2>1
    <3> HIDE DEF later
    <3> QED
      BY <1>2, <2>2, <3>1
  <2>4. Cardinality((a + 1)..(i - 1)) = i - a - 1
    <3>1. Cardinality((a + 1)..(i - 1)) =
            IF a + 1 > i - 1 THEN 0 ELSE (i - 1) - (a + 1) + 1
      BY <2>1, FS_Interval
    <3> QED
      BY <2>1, <3>1
  <2> QED
    BY <2>3, <2>4
<1>6. ASSUME NEW k \in 1..n PROVE Row(k) = a + k
  <2>1. k \in Nat /\ 1 <= k /\ k <= m /\ a + k \in later
    BY <1>1, <1>2, <1>3, <1>4
  <2>2. Rank(a + k) = k - 1
    <3>1. Rank(a + k) = (a + k) - a - 1
      BY <1>5, <2>1
    <3> HIDE DEF Rank
    <3> QED
      BY <2>1, <3>1
  <2>3. \A i \in later : i \in Nat /\ Rank(i) = i - a - 1
    BY <1>1, <1>5
  <2> HIDE DEF later, Rank
  <2>4. Row(k) \in later /\ Rank(Row(k)) = k - 1
    BY <2>1, <2>2
  <2> QED
    BY <2>1, <2>3, <2>4
<1>7. Rows(a) = [k \in 1..n |-> Row(k)]
  BY DEF Rows
<1> HIDE DEF Row, m, later, Rank
<1>9. /\ a + n <= Len(log) \/ n = 0
      /\ n <= PageSize => Len(log) <= a + n
  <2>1. CASE a + 1 > Len(log)
    BY <1>1, <1>3, <2>1
  <2>2. CASE ~(a + 1 > Len(log))
    <3>1. m = Len(log) - a /\ Len(log) = a + m
      BY <1>1, <1>3, <2>2
    <3>2. m > PageSize => n = PageSize + 1
      OBVIOUS
    <3>3. ~(m > PageSize) => n = m
      OBVIOUS
    <3>4. PageSize \in Nat /\ a \in Nat /\ m \in Nat /\ Len(log) \in Nat
      BY <1>1, <1>4
    <3> HIDE DEF n
    <3>5. CASE m > PageSize
      <4>1. n = PageSize + 1 /\ n <= m /\ ~(n <= PageSize) /\ n \in Nat
        BY ONLY <3>2, <3>4, <3>5
      <4> QED
        BY ONLY <3>1, <3>4, <4>1
    <3>6. CASE ~(m > PageSize)
      BY ONLY <3>1, <3>3, <3>4, <3>6
    <3> QED
      BY <3>5, <3>6
  <2> QED
    BY <2>1, <2>2
<1> HIDE DEF n
<1>8. Rows(a) = [k \in 1..n |-> a + k]
  BY <1>6, <1>7
<1> QED
  BY <1>4, <1>8, <1>9
-----------------------------------------------------------------------------
(* Types. *)

(* A call of the page and what is known of its answer so far.              *)
CallTyped(r) ==
  /\ r = [kind |-> r.kind, after |-> r.after, head |-> r.head, rows |-> r.rows]
  /\ r.kind \in Kinds
  /\ r.after \in Nat \cup {None}
  /\ r.kind # "index" => r.after \in Nat
  /\ r.kind = "open" => r.after = 0
  /\ r.head # None => r.head \in Nat /\ r.head <= Len(log) + 1 /\ r.kind # "index"
  /\ r.rows # None => r.rows \in Seq(DOMAIN log) /\ r.head # None

CallsTyped == IsABag(requests) /\ \A r \in Pending : CallTyped(r)

PageRecord == [open: BOOLEAN, events: Seq(DOMAIN log), applied: Nat \cup {None},
               incomplete: BOOLEAN, more: BOOLEAN, loadingMore: BOOLEAN, mixed: BOOLEAN]

PageTyped ==
  /\ page \in PageRecord
  /\ cursor \in Nat \cup {None}
  /\ page.open => cursor # None
  /\ notices \subseteq Nat \cup {None}
  /\ readFrom \subseteq Nat

LinkTyped ==
  /\ link \in [socket: {"none", "opening", "open"}, timer: BOOLEAN,
               state: {"connecting", "live", "recovering"}, everOpened: BOOLEAN]
  /\ link.timer <=> link.socket = "none"
  /\ losses \in Nat

PageTypes == log \in Seq(Moment) /\ CallsTyped /\ PageTyped /\ LinkTyped

(* A call that starts has its type. *)
LEMMA RequestTyped ==
  ASSUME NEW kind \in Kinds, NEW after \in Nat \cup {None},
         kind # "index" => after \in Nat, kind = "open" => after = 0
  PROVE  CallTyped(Request(kind, after))
BY DEF CallTyped, Request

LEMMA RecoverCallTyped ==
  ASSUME NEW n \in Nat \cup {None}
  PROVE  CallTyped(RecoverCall(n))
<1>1. (IF n = None THEN "index" ELSE "recover") \in Kinds
  BY DEF Kinds
<1>2. /\ (IF n = None THEN "index" ELSE "recover") # "index" => n \in Nat
      /\ (IF n = None THEN "index" ELSE "recover") # "open"
  OBVIOUS
<1> QED
  BY <1>1, <1>2, RequestTyped DEF RecoverCall

(* What an answer holds. *)
LEMMA AnswerTyped ==
  ASSUME log \in Seq(Moment), NEW r, CallTyped(r), r.kind # "index", r.rows # None
  PROVE  /\ Shown(r.rows) \in Seq(DOMAIN log)
         /\ NextSequence(r) \in Nat
         /\ HasMore(r.rows) \in BOOLEAN
         /\ (NextSequence(r) < r.head) \in BOOLEAN
<1> USE DashboardAssumption
<1>1. /\ r.rows \in Seq(DOMAIN log) /\ r.head \in Nat /\ r.after \in Nat
      /\ DOMAIN log = 1..Len(log) /\ Len(log) \in Nat
  BY DEF CallTyped
<1>2. Shown(r.rows) \in Seq(DOMAIN log)
  <2>1. CASE HasMore(r.rows)
    <3>1. PageSize \in Nat /\ Len(r.rows) \in Nat /\ PageSize <= Len(r.rows)
      BY <1>1, <2>1 DEF HasMore
    <3>2. \A i \in 1..PageSize : r.rows[i] \in DOMAIN log
      BY <1>1, <3>1
    <3>3. SubSeq(r.rows, 1, PageSize) \in Seq(DOMAIN log)
      BY <1>1, <3>1, <3>2, SubSeqProperties
    <3> QED
      BY <2>1, <3>3 DEF Shown
  <2>2. CASE ~HasMore(r.rows)
    BY <1>1, <2>2 DEF Shown
  <2> QED
    BY <2>1, <2>2
<1>3. NextSequence(r) \in Nat
  <2> DEFINE S == ToSet(Shown(r.rows)) \cup {r.after}
             b == Len(log) + r.after
  <2>1. ToSet(Shown(r.rows)) \subseteq DOMAIN log
    BY <1>2 DEF ToSet
  <2>2. S \in SUBSET Nat /\ S # {} /\ b \in Nat /\ \A x \in S : x <= b
    BY <1>1, <2>1
  <2> HIDE DEF S, b
  <2>3. Max(S) \in Nat
    BY <2>2, MaxOf
  <2> QED
    BY <1>1, <2>3 DEF NextSequence, S
<1> QED
  BY <1>2, <1>3 DEF HasMore

(* The filter of a refetch keeps the rows that the page does not know.     *)
LEMMA UnknownIs ==
  ASSUME NEW S, NEW q \in Seq(S), NEW known
  PROVE  /\ Unknown(q, known) \in Seq(S)
         /\ ToSet(q) \subseteq ToSet(Unknown(q, known)) \cup known
<1> DEFINE n == Len(q)
           V == Seq(S)
           G == [z \in (1..n) \X V |->
                   IF q[z[1]] \in known THEN z[2] ELSE Append(z[2], q[z[1]])]
           Eq(f) == f = [i \in 0..n |->
                           IF i = 0 THEN <<>>
                           ELSE IF q[i] \in known THEN f[i - 1] ELSE Append(f[i - 1], q[i])]
           kept == CHOOSE f : Eq(f)
<1>1. n \in Nat /\ (\A i \in 1..n : q[i] \in S) /\ <<>> \in V
  OBVIOUS
<1>2. G \in [(1..n) \X V -> V]
  <2>1. \A z \in (1..n) \X V :
          (IF q[z[1]] \in known THEN z[2] ELSE Append(z[2], q[z[1]])) \in V
    BY <1>1
  <2> QED
    BY <2>1
<1>3. PICK g \in [0..n -> V] : g[0] = <<>> /\ \A i \in 1..n : g[i] = G[<<i, g[i - 1]>>]
  <2> HIDE DEF G, n, V
  <2>1. HasValues(V, <<>>, n, G)
    BY <1>1, <1>2, Recursion
  <2> QED
    BY <2>1 DEF HasValues
<1>4. \A i \in 1..n : g[i] = IF q[i] \in known THEN g[i - 1] ELSE Append(g[i - 1], q[i])
  <2>1. \A i \in 1..n : i - 1 \in 0..n
    BY <1>1
  <2>2. \A i \in 1..n : g[i - 1] \in V
    BY <2>1
  <2> QED
    BY <1>3, <2>2
<1> HIDE DEF G, n, V
<1>5. Eq(g)
  <2>1. \A i \in 0..n : i = 0 \/ (i \in 1..n /\ i # 0)
    BY <1>1
  <2>2. \A i \in 0..n :
          g[i] = IF i = 0 THEN <<>>
                 ELSE IF q[i] \in known THEN g[i - 1] ELSE Append(g[i - 1], q[i])
    BY <1>3, <1>4, <2>1
  <2> QED
    BY <1>3, <2>2
<1>6. Eq(kept)
  BY <1>5
<1>7. Unknown(q, known) = kept[n]
  BY DEF Unknown, n
<1> HIDE DEF kept
<1>8. /\ kept[0] = <<>>
      /\ \A i \in 1..n : q[i] \in known => kept[i] = kept[i - 1]
      /\ \A i \in 1..n : q[i] \notin known => kept[i] = Append(kept[i - 1], q[i])
  <2>1. \A i \in 0..n :
          kept[i] = IF i = 0 THEN <<>>
                    ELSE IF q[i] \in known THEN kept[i - 1] ELSE Append(kept[i - 1], q[i])
    BY <1>6
  <2>2. 0 \in 0..n /\ \A i \in 1..n : i \in 0..n /\ i # 0
    BY <1>1
  <2> QED
    BY <2>1, <2>2
<1> DEFINE Good(i) ==
             /\ kept[i] \in Seq(S)
             /\ \A j \in 1..i : q[j] \in ToSet(kept[i]) \cup known
           T == {i \in Nat : i <= n => Good(i)}
<1>9. Good(0)
  BY <1>8
<1>10. ASSUME NEW i \in Nat, i + 1 <= n, Good(i)
       PROVE  Good(i + 1)
  <2>1. /\ i + 1 \in 1..n /\ (i + 1) - 1 = i
        /\ \A j : j \in 1..(i + 1) <=> j \in 1..i \/ j = i + 1
    BY <1>1, <1>10
  <2>2. CASE q[i + 1] \in known
    BY <1>8, <1>10, <2>1, <2>2
  <2>3. CASE q[i + 1] \notin known
    <3>1. kept[i + 1] = Append(kept[i], q[i + 1]) /\ q[i + 1] \in S
      BY <1>1, <1>8, <2>1, <2>3
    <3>2. kept[i + 1] \in Seq(S) /\ ToSet(kept[i + 1]) = ToSet(kept[i]) \cup {q[i + 1]}
      BY <1>10, <3>1, AppendedSet
    <3> QED
      BY <1>10, <2>1, <3>2
  <2> QED
    BY <2>2, <2>3
<1>11. Good(n)
  <2> HIDE DEF Good
  <2>1. 0 \in T
    BY <1>9
  <2>2. ASSUME NEW i \in T PROVE i + 1 \in T
    <3>1. i \in Nat /\ (i + 1 <= n => i <= n)
      BY <1>1
    <3> QED
      BY <1>10, <3>1
  <2> HIDE DEF T
  <2>3. T \in SUBSET Nat
    BY DEF T
  <2>4. T = Nat
    BY <2>1, <2>2, <2>3, AllNumbers
  <2>5. n \in T /\ n <= n
    BY <1>1, <2>4
  <2> QED
    BY ONLY <2>5 DEF T
<1>12. ToSet(q) = {q[j] : j \in 1..n}
  BY DEF ToSet, n
<1> QED
  BY <1>7, <1>11, <1>12

(* Calls that start or are answered leave the calls typed. *)
LEMMA CallsRemain ==
  ASSUME CallsTyped, log' = log, NEW r
  PROVE  /\ IsABag(Without(r)) /\ BagToSet(Without(r)) \subseteq Pending
         /\ requests' = Without(r) => CallsTyped'
<1>1. IsABag(Without(r)) /\ BagToSet(Without(r)) \subseteq Pending
  BY CallAnswered DEF Without, Pending, CallsTyped
<1>2. \A s : CallTyped(s) => CallTyped(s)'
  BY DEF CallTyped
<1> QED
  BY <1>1, <1>2 DEF CallsTyped, Pending

LEMMA CallsJoin ==
  ASSUME CallsTyped, log' = log,
         NEW b, IsABag(b), BagToSet(b) \subseteq Pending,
         NEW S, \A s \in S : CallTyped(s),
         requests' = b (+) SetToBag(S)
  PROVE  CallsTyped' /\ Pending' = BagToSet(b) \cup S
<1>1. IsABag(requests') /\ BagToSet(requests') = BagToSet(b) \cup S
  BY CallsAdded
<1>2. \A s : CallTyped(s) => CallTyped(s)'
  BY DEF CallTyped
<1> QED
  BY <1>1, <1>2 DEF CallsTyped, Pending

LEMMA PageTypesInit == PageInit => PageTypes
<1> SUFFICES ASSUME PageInit PROVE PageTypes
  OBVIOUS
<1>1. IsABag(requests) /\ Pending = {}
  BY DEF PageInit, IsABag, EmptyBag, SetToBag, Pending, BagToSet
<1>2. log = <<>> /\ log \in Seq(Moment) /\ DOMAIN log = {} /\ <<>> \in Seq(DOMAIN log)
  BY DEF PageInit
<1>3. page \in PageRecord
  BY <1>2 DEF PageInit, PageRecord
<1> QED
  BY <1>1, <1>2, <1>3 DEF PageInit, PageTypes, CallsTyped, PageTyped, LinkTyped

(* What setting the notices does to types. *)
LEMMA NoticesTyped ==
  ASSUME PageTypes, log' = log, NEW left \in SUBSET (Nat \cup {None}),
         NEW b, IsABag(b), BagToSet(b) \subseteq Pending,
         NEW held \in PageRecord, held.open => cursor' # None,
         cursor' \in Nat \cup {None},
         SetNotices(left, b, held)
  PROVE  /\ CallsTyped' /\ PageTyped'
         /\ Pending' = BagToSet(b) \cup {RecoverCall(n) : n \in left}
<1>1. CallsTyped' /\ Pending' = BagToSet(b) \cup {RecoverCall(n) : n \in left}
  <2>1. \A s \in {RecoverCall(n) : n \in left} : CallTyped(s)
    BY RecoverCallTyped
  <2> QED
    BY <2>1, CallsJoin DEF SetNotices, PageTypes
<1>2. page' \in PageRecord' /\ page'.open = held.open
  <2>1. page' = held \/ page' = [held EXCEPT !.applied = None]
    BY DEF SetNotices
  <2>2. [held EXCEPT !.applied = None] \in PageRecord /\ [held EXCEPT !.applied = None].open = held.open
    BY DEF PageRecord
  <2>3. PageRecord' = PageRecord
    BY DEF PageRecord
  <2> QED
    BY <2>1, <2>2, <2>3
<1> QED
  BY <1>1, <1>2 DEF SetNotices, PageTyped, PageTypes

LEMMA EndRecoverTyped ==
  ASSUME PageTypes, log' = log, NEW r \in Pending, UNCHANGED losses,
         NEW held \in PageRecord, held.open => cursor' # None,
         cursor' \in Nat \cup {None},
         EndRecover(r, held)
  PROVE  PageTypes'
<1>1. SetNotices(notices \ {r.after}, Without(r), held)
  BY DEF EndRecover
<1>2. notices \ {r.after} \in SUBSET (Nat \cup {None})
  BY DEF PageTypes, PageTyped
<1>3. IsABag(Without(r)) /\ BagToSet(Without(r)) \subseteq Pending
  BY CallsRemain DEF PageTypes
<1>4. CallsTyped' /\ PageTyped'
  BY <1>1, <1>2, <1>3, NoticesTyped
<1>5. LinkTyped'
  BY DEF EndRecover, LinkTyped, PageTypes
<1> QED
  BY <1>4, <1>5 DEF PageTypes

(* An event that is committed leaves what there is. *)
LEMMA CommitTyped ==
  ASSUME PageTypes, NEW at \in Moment, Commit(at)
  PROVE  PageTypes'
<1>1. /\ log' = Append(log, at) /\ log' \in Seq(Moment) /\ Len(log') = Len(log) + 1
      /\ Len(log) \in Nat /\ DOMAIN log \subseteq DOMAIN log'
  BY DEF Commit, PageTypes
<1>2. \A s \in Seq(DOMAIN log) : s \in Seq(DOMAIN log')
  BY <1>1
<1>3. ASSUME NEW r, CallTyped(r) PROVE CallTyped(r)'
  BY <1>1, <1>2, <1>3 DEF CallTyped
<1>4. CallsTyped'
  BY <1>3 DEF Commit, CallsTyped, Pending, PageTypes
<1>5. page \in PageRecord'
  BY <1>2 DEF PageTypes, PageTyped, PageRecord
<1> QED
  BY <1>1, <1>4, <1>5 DEF Commit, PageTypes, PageTyped, LinkTyped

LEMMA PageTypesNext == PageTypes /\ [PageNext]_pageVars => PageTypes'
<1> SUFFICES ASSUME PageTypes, [PageNext]_pageVars PROVE PageTypes'
  OBVIOUS
<1> USE DashboardAssumption
<1>0. /\ log \in Seq(Moment) /\ CallsTyped /\ PageTyped /\ LinkTyped
      /\ Len(log) \in Nat
      /\ page \in PageRecord
      /\ \A r \in Pending : CallTyped(r)
  BY DEF PageTypes, PageTyped, CallsTyped
<1>1. ASSUME NEW at \in Moment, Commit(at) PROVE PageTypes'
  BY <1>1, CommitTyped
<1>2. ASSUME OpenRun PROVE PageTypes'
  <2>1. CallTyped(Request("open", 0))
    BY RequestTyped DEF Kinds
  <2>2. CallsTyped'
    BY <1>0, <1>2, <2>1, CallsJoin DEF OpenRun, CallsTyped, Pending
  <2>3. <<>> \in Seq(DOMAIN log)
    OBVIOUS
  <2>4. page' \in PageRecord /\ page'.open = FALSE
    BY <1>0, <1>2, <2>3 DEF OpenRun, PageRecord
  <2> QED
    BY <1>0, <1>2, <2>2, <2>4 DEF OpenRun, PageTypes, PageTyped, PageRecord, LinkTyped
<1>3. ASSUME LoadMore PROVE PageTypes'
  <2> DEFINE after == IF page.applied = None THEN 0 ELSE page.applied
  <2>1. after \in Nat
    BY <1>0 DEF PageRecord
  <2> HIDE DEF after
  <2>2. CallTyped(Request("more", after))
    BY <2>1, RequestTyped DEF Kinds
  <2>3. /\ requests' = requests (+) SetToBag({Request("more", after)})
        /\ readFrom' = readFrom \cup {after}
        /\ log' = log
    BY <1>3 DEF LoadMore, after
  <2>4. CallsTyped'
    BY <1>0, <2>2, <2>3, CallsJoin DEF CallsTyped, Pending
  <2>5. page' \in PageRecord /\ page'.open = page.open
    BY <1>0, <1>3 DEF LoadMore, PageRecord
  <2> QED
    BY <1>0, <1>3, <2>1, <2>3, <2>4, <2>5 DEF LoadMore, PageTypes, PageTyped, PageRecord, LinkTyped
<1>4. ASSUME NEW r \in Pending, ReadHead(r) PROVE PageTypes'
  <2> DEFINE s == [r EXCEPT !.head = RunHead]
  <2>1. CallTyped(r)
    BY <1>0
  <2>2. /\ s = [kind |-> r.kind, after |-> r.after, head |-> Len(log) + 1, rows |-> r.rows]
    BY <2>1 DEF CallTyped, RunHead
  <2> HIDE DEF s
  <2>3. CallTyped(s)
    BY <1>0, <1>4, <2>1, <2>2 DEF CallTyped, ReadHead
  <2>4. requests' = Without(r) (+) SetToBag({s}) /\ log' = log
    BY <1>4 DEF ReadHead, Replaced, s
  <2>5. IsABag(Without(r)) /\ BagToSet(Without(r)) \subseteq Pending
    BY <1>0, <2>4, CallsRemain
  <2>6. CallsTyped'
    BY <1>0, <2>3, <2>4, <2>5, CallsJoin
  <2> QED
    BY <1>0, <1>4, <2>6 DEF ReadHead, PageTypes, PageTyped, PageRecord, LinkTyped
<1>5. ASSUME NEW r \in Pending, ReadRows(r) PROVE PageTypes'
  <2> DEFINE s == [r EXCEPT !.rows = Rows(r.after)]
  <2>1. CallTyped(r) /\ r.head # None
    BY <1>0, <1>5 DEF ReadRows
  <2>2. s = [kind |-> r.kind, after |-> r.after, head |-> r.head, rows |-> Rows(r.after)]
    BY <2>1 DEF CallTyped
  <2> HIDE DEF s
  <2>8. r.kind # "index"
    BY <2>1 DEF CallTyped
  <2>9. Rows(r.after) \in Seq(DOMAIN log)
    BY <1>0, <2>1, <2>8, RowsType DEF CallTyped
  <2>3. CallTyped(s)
    BY <1>0, <2>1, <2>2, <2>9 DEF CallTyped
  <2>4. requests' = Without(r) (+) SetToBag({s}) /\ log' = log
    BY <1>5 DEF ReadRows, Replaced, s
  <2>5. IsABag(Without(r)) /\ BagToSet(Without(r)) \subseteq Pending
    BY <1>0, <2>4, CallsRemain
  <2>6. CallsTyped'
    BY <1>0, <2>3, <2>4, <2>5, CallsJoin
  <2> QED
    BY <1>0, <1>5, <2>6 DEF ReadRows, PageTypes, PageTyped, PageRecord, LinkTyped
<1>6. ASSUME NEW r \in Pending, Opened(r) PROVE PageTypes'
  <2>1. /\ Shown(r.rows) \in Seq(DOMAIN log) /\ NextSequence(r) \in Nat
        /\ HasMore(r.rows) \in BOOLEAN /\ (NextSequence(r) < r.head) \in BOOLEAN
    BY <1>0, <1>6, AnswerTyped DEF Opened
  <2>2. CallsTyped'
    BY <1>0, <1>6, CallsRemain DEF Opened
  <2>3. page' \in PageRecord
    BY <1>0, <1>6, <2>1 DEF Opened, PageRecord
  <2> QED
    BY <1>0, <1>6, <2>1, <2>2, <2>3 DEF Opened, PageTypes, PageTyped, PageRecord, LinkTyped
<1>7. ASSUME NEW r \in Pending, OpenFailed(r) PROVE PageTypes'
  <2>1. CallsTyped'
    BY <1>0, <1>7, CallsRemain DEF OpenFailed
  <2>2. page' \in PageRecord /\ page'.open = FALSE
    BY <1>0, <1>7 DEF OpenFailed, PageRecord
  <2> QED
    BY <1>0, <1>7, <2>1, <2>2 DEF OpenFailed, PageTypes, PageTyped, PageRecord, LinkTyped
<1>8. ASSUME NEW r \in Pending, MoreLoaded(r) PROVE PageTypes'
  <2>1. /\ Shown(r.rows) \in Seq(DOMAIN log) /\ NextSequence(r) \in Nat
        /\ HasMore(r.rows) \in BOOLEAN /\ (NextSequence(r) < r.head) \in BOOLEAN
    BY <1>0, <1>8, AnswerTyped DEF MoreLoaded
  <2>2. CallsTyped'
    BY <1>0, <1>8, CallsRemain DEF MoreLoaded
  <2>3. page.events \o Shown(r.rows) \in Seq(DOMAIN log)
    BY <1>0, <2>1, ConcatProperties DEF PageRecord
  <2>4. page' \in PageRecord /\ page'.open = page.open
    BY <1>0, <1>8, <2>1, <2>3 DEF MoreLoaded, PageRecord
  <2> QED
    BY <1>0, <1>8, <2>1, <2>2, <2>4 DEF MoreLoaded, PageTypes, PageTyped, PageRecord, LinkTyped
<1>9. ASSUME NEW r \in Pending, MoreFailed(r) PROVE PageTypes'
  <2>1. CallsTyped'
    BY <1>0, <1>9, CallsRemain DEF MoreFailed
  <2>2. page' \in PageRecord /\ page'.open = page.open
    BY <1>0, <1>9 DEF MoreFailed, PageRecord
  <2> QED
    BY <1>0, <1>9, <2>1, <2>2 DEF MoreFailed, PageTypes, PageTyped, PageRecord, LinkTyped
<1>10. ASSUME NEW r \in Pending, Recovered(r) PROVE PageTypes'
  <2> DEFINE fresh == Unknown(Shown(r.rows), ToSet(page.events))
             held == [page EXCEPT !.events = @ \o fresh, !.applied = NextSequence(r),
                                  !.incomplete = NextSequence(r) < r.head]
  <2>1. /\ Shown(r.rows) \in Seq(DOMAIN log) /\ NextSequence(r) \in Nat
        /\ (NextSequence(r) < r.head) \in BOOLEAN
    BY <1>0, <1>10, AnswerTyped DEF Recovered
  <2>2. fresh \in Seq(DOMAIN log)
    BY <2>1, UnknownIs
  <2> HIDE DEF fresh
  <2>3. page.events \o fresh \in Seq(DOMAIN log)
    BY <1>0, <2>2, ConcatProperties DEF PageRecord
  <2>4. held \in PageRecord
    BY <1>0, <2>1, <2>3 DEF PageRecord
  <2>5. /\ EndRecover(r, held) /\ log' = log /\ UNCHANGED losses
        /\ cursor' = NextSequence(r) /\ cursor' # None
    BY <1>10, <2>1 DEF Recovered, fresh
  <2> HIDE DEF held
  <2> QED
    BY <1>10, <2>1, <2>4, <2>5, EndRecoverTyped
<1>11. ASSUME NEW r \in Pending, RecoverFailed(r) \/ IndexReloaded(r) PROVE PageTypes'
  <2>1. EndRecover(r, page) /\ log' = log /\ UNCHANGED losses /\ cursor' = cursor
    BY <1>11 DEF RecoverFailed, IndexReloaded
  <2> QED
    BY <1>0, <1>11, <2>1, EndRecoverTyped DEF PageTyped
<1>12. ASSUME ConnectionOpens PROVE PageTypes'
  <2>1. CASE link.everOpened
    <3> DEFINE left == notices \cup {None} \cup {cursor}
    <3>1. SetNotices(left, requests, page) /\ log' = log /\ cursor' = cursor
      BY <1>12, <2>1 DEF ConnectionOpens
    <3>2. left \in SUBSET (Nat \cup {None})
      BY <1>0 DEF PageTyped
    <3>3. IsABag(requests) /\ BagToSet(requests) \subseteq Pending
      BY <1>0 DEF CallsTyped, Pending
    <3> HIDE DEF left
    <3>4. CallsTyped' /\ PageTyped'
      BY <1>0, <3>1, <3>2, <3>3, NoticesTyped DEF PageTyped
    <3>5. LinkTyped'
      BY <1>0, <1>12, <2>1 DEF ConnectionOpens, LinkTyped
    <3> QED
      BY <1>0, <3>1, <3>4, <3>5 DEF PageTypes
  <2>2. CASE ~link.everOpened
    <3>1. UNCHANGED <<log, requests, page, cursor, notices, readFrom>>
      BY <1>12, <2>2 DEF ConnectionOpens
    <3>2. LinkTyped'
      BY <1>0, <1>12, <2>2 DEF ConnectionOpens, LinkTyped
    <3> QED
      BY <1>0, <3>1, <3>2 DEF PageTypes, PageTyped, PageRecord, CallsTyped, CallTyped, Pending
  <2> QED
    BY <2>1, <2>2
<1>13. ASSUME ConnectionCloses \/ TimerFires PROVE PageTypes'
  <2>1. UNCHANGED <<log, requests, page, cursor, notices, readFrom>>
    BY <1>13 DEF ConnectionCloses, TimerFires
  <2>2. LinkTyped'
    <3>1. CASE ConnectionCloses
      <4>1. link' = [socket |-> "none", timer |-> TRUE, state |-> "connecting",
                     everOpened |-> link.everOpened]
        BY <1>0, <3>1 DEF ConnectionCloses, LinkTyped
      <4>2. losses' \in Nat /\ link.everOpened \in BOOLEAN
        BY <1>0, <3>1 DEF ConnectionCloses, LinkTyped
      <4> QED
        BY ONLY <4>1, <4>2 DEF LinkTyped
    <3>2. CASE TimerFires
      BY <1>0, <3>2 DEF TimerFires, LinkTyped
    <3> QED
      BY <1>13, <3>1, <3>2
  <2> QED
    BY <1>0, <2>1, <2>2 DEF PageTypes, PageTyped, PageRecord, CallsTyped, CallTyped, Pending
<1>14. ASSUME UNCHANGED pageVars PROVE PageTypes'
  BY <1>14 DEF pageVars, PageTypes, PageTyped, PageRecord, LinkTyped, CallsTyped, CallTyped, Pending
<1> QED
  BY <1>1, <1>2, <1>3, <1>4, <1>5, <1>6, <1>7, <1>8, <1>9, <1>10, <1>11, <1>12, <1>13, <1>14
     DEF PageNext, Serve, Answer, Fail
-----------------------------------------------------------------------------
(* A page that claims to be whole.  What the page may not have of the      *)
(* sequences before x are the ones it read on from.                        *)

Covers(events, from, x) == \A k \in Nat \ {0} : k < x => k \in ToSet(events) \cup from

(* The rows of an answer are all there are between its two cursors.        *)
Follows(r) ==
  r.rows # None =>
    \A k \in Nat : r.after < k /\ k < NextSequence(r) => k \in ToSet(Shown(r.rows))

RowsFollow == Ordered => \A r \in Pending : Follows(r)

(* A gap notice of the run has a refetch under way. *)
NoticesAreAnswered ==
  \A n \in notices \ {None} : \E r \in Pending : r.kind = "recover" /\ r.after = n

(* Whatever the page applies next, it has everything before it: this holds *)
(* of its cursor, of the notices and of the calls whose rows it will add,  *)
(* and the page reads on from the latter.                                  *)
Whole ==
  /\ Covers(page.events, readFrom, cursor)
  /\ page.applied # None => Covers(page.events, readFrom, page.applied)
  /\ \A n \in notices \ {None} : n \in readFrom /\ Covers(page.events, readFrom, n)
  /\ \A r \in Pending : r.kind \in {"more", "recover"} =>
       r.after \in readFrom /\ Covers(page.events, readFrom, r.after)

Held == Ordered /\ page.open /\ ~page.mixed => Whole

PageInv == PageTypes /\ RowsFollow /\ NoticesAreAnswered /\ Held

LEMMA CoversMore ==
  ASSUME NEW e, NEW f, NEW from, NEW g, NEW x,
         ToSet(e) \subseteq ToSet(f), from \subseteq g, Covers(e, from, x)
  PROVE  Covers(f, g, x)
BY DEF Covers

(* An answer that follows what is covered covers what it reaches. *)
LEMMA AnswerCovers ==
  ASSUME NEW r, r.rows # None, Follows(r), r.after \in Nat, NextSequence(r) \in Nat,
         NEW f, NEW from, Covers(f, from, r.after),
         r.after = 0 \/ r.after \in from,
         ToSet(Shown(r.rows)) \subseteq ToSet(f) \cup from
  PROVE  Covers(f, from, NextSequence(r))
<1> SUFFICES ASSUME NEW k \in Nat \ {0}, k < NextSequence(r)
             PROVE  k \in ToSet(f) \cup from
  BY DEF Covers
<1>1. CASE k < r.after
  BY <1>1 DEF Covers
<1>2. CASE k = r.after
  BY <1>2
<1>3. CASE r.after < k
  BY <1>3 DEF Follows
<1> QED
  BY <1>1, <1>2, <1>3

(* Rows that were just read follow. *)
LEMMA ReadFollows ==
  ASSUME log \in Seq(Moment), Ordered, NEW r,
         r.after \in Nat, r.head \in Nat, r.head <= Len(log) + 1, r.rows = Rows(r.after)
  PROVE  Follows(r)
<1> USE DashboardAssumption
<1> DEFINE a == r.after
<1>1. PICK n \in 0..(PageSize + 1) :
        /\ r.rows = [k \in 1..n |-> a + k]
        /\ a + n <= Len(log) \/ n = 0
        /\ n <= PageSize => Len(log) <= a + n
  BY RowsOfOrdered
<1>2. PageSize \in Nat /\ n \in Nat /\ a \in Nat /\ Len(log) \in Nat /\ n <= PageSize + 1
  BY <1>1
<1>3. r.rows \in Seq(Nat) /\ Len(r.rows) = n /\ \A k \in 1..n : r.rows[k] = a + k
  <2>1. \A k \in 1..n : a + k \in Nat
    BY <1>2
  <2> QED
    BY <1>1, <1>2, <2>1
<1> SUFFICES ASSUME NEW k \in Nat, a < k, k < NextSequence(r)
             PROVE  k \in ToSet(Shown(r.rows))
  BY DEF Follows
<1>4. CASE n <= PageSize
  <2>1. ~HasMore(r.rows)
    BY <1>2, <1>3, <1>4 DEF HasMore
  <2>2. NextSequence(r) = r.head /\ Shown(r.rows) = r.rows
    BY <2>1 DEF NextSequence, Shown
  <2>3. k - a \in 1..n /\ a + (k - a) = k
    <3>1. k < r.head /\ r.head <= Len(log) + 1 /\ Len(log) <= a + n /\ r.head \in Nat
      BY <1>1, <1>4, <2>2
    <3> HIDE DEF a
    <3> QED
      BY ONLY <1>2, <3>1, a < k, k \in Nat
  <2>4. r.rows[k - a] = k /\ k - a \in DOMAIN r.rows
    BY <1>1, <1>3, <2>3
  <2> QED
    BY <2>2, <2>4 DEF ToSet
<1>5. CASE ~(n <= PageSize)
  <2>1. HasMore(r.rows) /\ n = PageSize + 1
    BY <1>2, <1>3, <1>5 DEF HasMore
  <2>2. /\ NextSequence(r) = Max(ToSet(Shown(r.rows)) \cup {a})
        /\ Shown(r.rows) = SubSeq(r.rows, 1, PageSize)
    BY <2>1 DEF NextSequence, Shown
  <2>3. /\ DOMAIN Shown(r.rows) = 1..PageSize
        /\ \A i \in 1..PageSize : Shown(r.rows)[i] = a + i
    <3>1. /\ 1..PageSize \subseteq 1..n
          /\ DOMAIN SubSeq(r.rows, 1, PageSize) = 1..PageSize
          /\ \A i \in 1..PageSize : SubSeq(r.rows, 1, PageSize)[i] = r.rows[i]
      BY <1>2, <1>3, <2>1
    <3>2. \A i \in 1..PageSize : r.rows[i] = a + i
      BY <1>3, <3>1
    <3> HIDE DEF a
    <3> QED
      BY ONLY <2>2, <3>1, <3>2
  <2> DEFINE S == ToSet(Shown(r.rows)) \cup {a}
  <2>4. \A x \in S : x \in Nat /\ x <= a + PageSize
    <3>1. \A i \in 1..PageSize : a + i \in Nat /\ a + i <= a + PageSize
      BY <1>2
    <3>2. a \in Nat /\ a <= a + PageSize
      BY <1>2
    <3> QED
      BY <2>3, <3>1, <3>2 DEF ToSet
  <2>5. Max(S) \in S
    <3>1. S \in SUBSET Nat /\ S # {} /\ a + PageSize \in Nat
      BY <1>2, <2>4
    <3> HIDE DEF S, a
    <3> QED
      BY <2>4, <3>1, MaxOf
  <2>6. k < a + PageSize
    <3>1. NextSequence(r) \in Nat /\ NextSequence(r) <= a + PageSize
      BY <2>2, <2>4, <2>5
    <3> HIDE DEF a, S
    <3> QED
      BY <1>2, <3>1
  <2>7. k - a \in 1..PageSize /\ a + (k - a) = k
    <3> HIDE DEF a
    <3> QED
      BY ONLY <1>2, <2>6, a < k, k \in Nat
  <2> QED
    BY <2>3, <2>7 DEF ToSet
<1> QED
  BY <1>4, <1>5

(* The calls after a step that starts some, or answers one.                *)
LEMMA PendingAdded ==
  ASSUME PageTypes, NEW S, requests' = requests (+) SetToBag(S)
  PROVE  Pending' = Pending \cup S
BY CallsAdded DEF PageTypes, CallsTyped, Pending

LEMMA PendingAnswered ==
  ASSUME PageTypes, NEW r, requests' = Without(r)
  PROVE  Pending' \subseteq Pending /\ Pending \ {r} \subseteq Pending'
BY CallAnswered DEF PageTypes, CallsTyped, Pending, Without

LEMMA PendingReplaced ==
  ASSUME PageTypes, NEW r, NEW S, requests' = Without(r) (+) SetToBag(S)
  PROVE  /\ Pending' \subseteq Pending \cup S
         /\ Pending \ {r} \subseteq Pending' /\ S \subseteq Pending'
<1>1. /\ IsABag(Without(r)) /\ BagToSet(Without(r)) \subseteq Pending
      /\ Pending \ {r} \subseteq BagToSet(Without(r))
  BY CallAnswered DEF PageTypes, CallsTyped, Pending, Without
<1>2. BagToSet(requests') = BagToSet(Without(r)) \cup S
  BY <1>1, CallsAdded
<1> QED
  BY <1>1, <1>2 DEF Pending

(* What ending a refetch leaves of the calls. *)
LEMMA PendingEnded ==
  ASSUME PageTypes, NEW r, NEW held, EndRecover(r, held)
  PROVE  /\ notices' = notices \ {r.after}
         /\ Pending' \subseteq Pending \cup {RecoverCall(n) : n \in notices'}
         /\ Pending \ {r} \subseteq Pending'
         /\ {RecoverCall(n) : n \in notices'} \subseteq Pending'
<1>1. notices' = notices \ {r.after}
  BY DEF EndRecover, SetNotices
<1>2. requests' = Without(r) (+) SetToBag({RecoverCall(n) : n \in notices'})
  BY <1>1 DEF EndRecover, SetNotices
<1> QED
  BY <1>1, <1>2, PendingReplaced

(* The refetch of a notice of the run. *)
LEMMA RecoverCallIs ==
  ASSUME NEW n
  PROVE  /\ RecoverCall(n).rows = None
         /\ RecoverCall(n).after = n
         /\ n # None => RecoverCall(n).kind = "recover"
         /\ n = None => RecoverCall(n).kind = "index"
BY DEF RecoverCall, Request

(* Only reading rows gives a call its rows.                                *)
LEMMA RowsFollowNext == PageTypes /\ RowsFollow /\ [PageNext]_pageVars => RowsFollow'
<1> SUFFICES ASSUME PageTypes, RowsFollow, [PageNext]_pageVars PROVE RowsFollow'
  OBVIOUS
<1> DEFINE Old == Ordered' => Ordered
           From(S) == \A s \in S : s.rows = None
<1>0. \A r \in Pending : CallTyped(r)
  BY DEF PageTypes, CallsTyped
<1>a. ASSUME Old, NEW S, From(S), Pending' \subseteq Pending \cup S PROVE RowsFollow'
  <2>1. ASSUME NEW s, s.rows = None PROVE Follows(s)
    BY <2>1 DEF Follows
  <2>2. \A s : Follows(s)' <=> Follows(s)
    BY DEF Follows, NextSequence, Shown, HasMore
  <2> QED
    BY <1>a, <2>1, <2>2 DEF RowsFollow
<1>b. ASSUME log' = log PROVE Old
  BY <1>b DEF Ordered
<1>c. From({})
  OBVIOUS
<1>1. ASSUME NEW at \in Moment, Commit(at) PROVE RowsFollow'
  <2>1. /\ Len(log) \in Nat /\ DOMAIN log = 1..Len(log) /\ DOMAIN log' = 1..(Len(log) + 1)
        /\ \A i \in DOMAIN log : log'[i] = log[i] /\ i \in DOMAIN log'
    BY <1>1 DEF Commit, PageTypes
  <2>2. Old
    BY <2>1 DEF Ordered
  <2>3. Pending' \subseteq Pending \cup {}
    BY <1>1 DEF Commit, Pending
  <2> HIDE DEF Old, From
  <2> QED
    BY <1>a, <1>c, <2>2, <2>3
<1>2. ASSUME OpenRun PROVE RowsFollow'
  <2> DEFINE S == {Request("open", 0)}
  <2>1. Pending' = Pending \cup S /\ From(S) /\ log' = log
    <3>1. requests' = requests (+) SetToBag(S) /\ log' = log
      BY <1>2 DEF OpenRun
    <3>2. From(S)
      BY DEF Request
    <3> HIDE DEF S
    <3> QED
      BY <3>1, <3>2, PendingAdded
  <2> HIDE DEF Old, From, S
  <2> QED
    BY <1>a, <1>b, <2>1
<1>3. ASSUME LoadMore PROVE RowsFollow'
  <2> DEFINE after == IF page.applied = None THEN 0 ELSE page.applied
             S == {Request("more", after)}
  <2>1. Pending' = Pending \cup S /\ From(S) /\ log' = log
    <3>1. requests' = requests (+) SetToBag(S) /\ log' = log
      BY <1>3 DEF LoadMore
    <3>2. From(S)
      BY DEF Request
    <3> HIDE DEF S
    <3> QED
      BY <3>1, <3>2, PendingAdded
  <2> HIDE DEF Old, From, S
  <2> QED
    BY <1>a, <1>b, <2>1
<1>4. ASSUME NEW r \in Pending, ReadHead(r) PROVE RowsFollow'
  <2> DEFINE s == [r EXCEPT !.head = RunHead]
  <2>1. s.rows = None
    BY <1>0, <1>4 DEF CallTyped, ReadHead
  <2>2. requests' = Without(r) (+) SetToBag({s}) /\ log' = log
    BY <1>4 DEF ReadHead, Replaced
  <2> HIDE DEF s
  <2>3. Pending' \subseteq Pending \cup {s} /\ From({s})
    BY <2>1, <2>2, PendingReplaced
  <2> HIDE DEF Old, From
  <2> QED
    BY <1>a, <1>b, <2>2, <2>3
<1>5. ASSUME NEW r \in Pending, ReadRows(r) PROVE RowsFollow'
  <2> DEFINE s == [r EXCEPT !.rows = Rows(r.after)]
  <2>1. CallTyped(r) /\ r.head # None
    BY <1>0, <1>5 DEF ReadRows
  <2>2. s = [kind |-> r.kind, after |-> r.after, head |-> r.head, rows |-> Rows(r.after)]
    BY <2>1 DEF CallTyped
  <2>3. requests' = Without(r) (+) SetToBag({s}) /\ log' = log
    BY <1>5 DEF ReadRows, Replaced
  <2> HIDE DEF s
  <2>4. Pending' \subseteq Pending \cup {s}
    BY <2>3, PendingReplaced
  <2>5. Ordered => Follows(s)
    <3>1. /\ r.after \in Nat /\ r.head \in Nat /\ r.head <= Len(log) + 1 /\ log \in Seq(Moment)
      BY <2>1 DEF CallTyped, PageTypes
    <3> QED
      BY <2>2, <3>1, ReadFollows
  <2>6. Ordered' => Ordered
    BY <1>b, <2>3
  <2>7. \A q : Follows(q)' <=> Follows(q)
    BY DEF Follows, NextSequence, Shown, HasMore
  <2> QED
    BY <2>4, <2>5, <2>6, <2>7 DEF RowsFollow
<1>6. ASSUME NEW r \in Pending, Opened(r) \/ OpenFailed(r) \/ MoreLoaded(r) \/ MoreFailed(r)
      PROVE  RowsFollow'
  <2>1. requests' = Without(r) /\ log' = log
    BY <1>6 DEF Opened, OpenFailed, MoreLoaded, MoreFailed
  <2>2. Pending' \subseteq Pending \cup {}
    BY <2>1, PendingAnswered
  <2> HIDE DEF Old, From
  <2> QED
    BY <1>a, <1>b, <1>c, <2>1, <2>2
<1>7. ASSUME NEW r \in Pending, NEW held, EndRecover(r, held), log' = log PROVE RowsFollow'
  <2> DEFINE S == {RecoverCall(n) : n \in notices'}
  <2>1. Pending' \subseteq Pending \cup S
    BY <1>7, PendingEnded
  <2>2. From(S)
    BY RecoverCallIs
  <2> HIDE DEF Old, From, S
  <2> QED
    BY <1>a, <1>b, <1>7, <2>1, <2>2
<1>8. ASSUME NEW r \in Pending, Recovered(r) \/ RecoverFailed(r) \/ IndexReloaded(r)
      PROVE  RowsFollow'
  <2>1. \E held : EndRecover(r, held)
    BY <1>8 DEF Recovered, RecoverFailed, IndexReloaded
  <2>2. log' = log
    BY <1>8 DEF Recovered, RecoverFailed, IndexReloaded
  <2> QED
    BY <1>7, <2>1, <2>2
<1>9. ASSUME ConnectionOpens PROVE RowsFollow'
  <2> DEFINE S == {RecoverCall(n) : n \in notices'}
  <2>1. log' = log /\ (requests' = requests (+) SetToBag(S) \/ requests' = requests)
    BY <1>9 DEF ConnectionOpens, SetNotices
  <2>2. From(S)
    BY RecoverCallIs
  <2> HIDE DEF S
  <2>3. Pending' \subseteq Pending \cup S
    BY <2>1, PendingAdded DEF Pending
  <2> HIDE DEF Old, From
  <2> QED
    BY <1>a, <1>b, <2>1, <2>2, <2>3
<1>10. ASSUME ConnectionCloses \/ TimerFires \/ UNCHANGED pageVars PROVE RowsFollow'
  <2>1. log' = log /\ Pending' \subseteq Pending \cup {}
    BY <1>10 DEF ConnectionCloses, TimerFires, pageVars, Pending
  <2> HIDE DEF Old, From
  <2> QED
    BY <1>a, <1>b, <1>c, <2>1
<1> QED
  BY <1>1, <1>2, <1>3, <1>4, <1>5, <1>6, <1>8, <1>9, <1>10 DEF PageNext, Serve, Answer, Fail

(* A notice has its refetch until the refetch clears it.                   *)
LEMMA NoticesNext ==
  PageTypes /\ NoticesAreAnswered /\ [PageNext]_pageVars => NoticesAreAnswered'
<1> SUFFICES ASSUME PageTypes, NoticesAreAnswered, [PageNext]_pageVars
             PROVE  NoticesAreAnswered'
  OBVIOUS
<1>0. \A r \in Pending : CallTyped(r)
  BY DEF PageTypes, CallsTyped
<1>a. ASSUME notices' = notices, \A s \in Pending : s.kind = "recover" =>
                                   \E t \in Pending' : t.kind = "recover" /\ t.after = s.after
      PROVE  NoticesAreAnswered'
  BY <1>a DEF NoticesAreAnswered
<1>b. ASSUME {RecoverCall(n) : n \in notices'} \subseteq Pending' PROVE NoticesAreAnswered'
  <2> SUFFICES ASSUME NEW n \in notices', n # None
               PROVE  \E r \in Pending' : r.kind = "recover" /\ r.after = n
    BY DEF NoticesAreAnswered
  <2> QED
    BY <1>b, RecoverCallIs
<1>1. ASSUME UNCHANGED <<requests, notices>> PROVE NoticesAreAnswered'
  BY <1>1 DEF NoticesAreAnswered, Pending
<1>2. ASSUME OpenRun \/ LoadMore PROVE NoticesAreAnswered'
  <2>1. notices' = notices /\ \E S : requests' = requests (+) SetToBag(S)
    BY <1>2 DEF OpenRun, LoadMore
  <2>2. Pending \subseteq Pending'
    BY <2>1, PendingAdded
  <2> QED
    BY <1>a, <2>1, <2>2
<1>3. ASSUME NEW r \in Pending, ReadHead(r) \/ ReadRows(r) PROVE NoticesAreAnswered'
  <2>1. PICK s : /\ requests' = Without(r) (+) SetToBag({s}) /\ notices' = notices
                 /\ s.kind = r.kind /\ s.after = r.after
    <3> DEFINE h == [r EXCEPT !.head = RunHead]
               t == [r EXCEPT !.rows = Rows(r.after)]
    <3>1. h.kind = r.kind /\ h.after = r.after /\ t.kind = r.kind /\ t.after = r.after
      BY <1>0 DEF CallTyped
    <3>2. /\ requests' = Without(r) (+) SetToBag({h}) \/ requests' = Without(r) (+) SetToBag({t})
          /\ notices' = notices
      BY <1>3 DEF ReadHead, ReadRows, Replaced
    <3> HIDE DEF h, t
    <3> QED
      BY <3>1, <3>2
  <2>2. Pending \ {r} \subseteq Pending' /\ s \in Pending'
    BY <2>1, PendingReplaced
  <2> QED
    BY <1>a, <2>1, <2>2
<1>4. ASSUME NEW r \in Pending, Opened(r) \/ OpenFailed(r) \/ MoreLoaded(r) \/ MoreFailed(r)
      PROVE  NoticesAreAnswered'
  <2>1. requests' = Without(r) /\ notices' = notices /\ r.kind # "recover"
    BY <1>4 DEF Opened, OpenFailed, MoreLoaded, MoreFailed
  <2>2. Pending \ {r} \subseteq Pending'
    BY <2>1, PendingAnswered
  <2> QED
    BY <1>a, <2>1, <2>2
<1>5. ASSUME NEW r \in Pending, Recovered(r) \/ RecoverFailed(r) \/ IndexReloaded(r)
      PROVE  NoticesAreAnswered'
  <2>1. \E held : EndRecover(r, held)
    BY <1>5 DEF Recovered, RecoverFailed, IndexReloaded
  <2> QED
    BY <1>b, <2>1, PendingEnded
<1>6. ASSUME ConnectionOpens, link.everOpened PROVE NoticesAreAnswered'
  <2>1. requests' = requests (+) SetToBag({RecoverCall(n) : n \in notices'})
    BY <1>6 DEF ConnectionOpens, SetNotices
  <2> QED
    BY <1>b, <2>1, PendingAdded
<1>7. ASSUME ConnectionOpens, ~link.everOpened PROVE NoticesAreAnswered'
  BY <1>1, <1>7 DEF ConnectionOpens
<1>8. ASSUME \/ \E at \in Moment : Commit(at)
             \/ ConnectionCloses \/ TimerFires \/ UNCHANGED pageVars
      PROVE  NoticesAreAnswered'
  BY <1>1, <1>8 DEF Commit, ConnectionCloses, TimerFires, pageVars
<1> QED
  BY <1>2, <1>3, <1>4, <1>5, <1>6, <1>7, <1>8 DEF PageNext, Serve, Answer, Fail

(* A page is whole after a step that loses nothing of it, and covers what  *)
(* is new among its cursors, its notices and its calls.                    *)
LEMMA WholeAfter ==
  ASSUME Whole,
         ToSet(page.events) \subseteq ToSet(page'.events),
         readFrom \subseteq readFrom',
         cursor' = cursor \/ Covers(page'.events, readFrom', cursor'),
         \/ page'.applied = None \/ page'.applied = page.applied
         \/ Covers(page'.events, readFrom', page'.applied),
         \A n \in notices' \ {None} : n \in notices \/ (n \in readFrom' /\ Covers(page'.events, readFrom', n)),
         \A s \in Pending' : s.kind \in {"more", "recover"} =>
           \/ s \in Pending
           \/ \E t \in Pending : t.kind = s.kind /\ t.after = s.after
           \/ s.after \in readFrom' /\ Covers(page'.events, readFrom', s.after)
  PROVE  Whole'
<1>1. \A x : Covers(page.events, readFrom, x) => Covers(page'.events, readFrom', x)
  BY CoversMore
<1>2. Covers(page'.events, readFrom', cursor')
  BY <1>1 DEF Whole
<1>3. page'.applied # None => Covers(page'.events, readFrom', page'.applied)
  BY <1>1 DEF Whole
<1>4. \A n \in notices' \ {None} : n \in readFrom' /\ Covers(page'.events, readFrom', n)
  BY <1>1 DEF Whole
<1>5. \A s \in Pending' : s.kind \in {"more", "recover"} =>
        s.after \in readFrom' /\ Covers(page'.events, readFrom', s.after)
  BY <1>1 DEF Whole
<1> QED
  BY <1>2, <1>3, <1>4, <1>5 DEF Whole

(* Setting notices that are covered leaves a page whole. *)
LEMMA WholeNotices ==
  ASSUME PageTypes, Whole, NEW left, NEW b, NEW held \in PageRecord, SetNotices(left, b, held),
         ToSet(page.events) \subseteq ToSet(held.events),
         cursor' = cursor \/ Covers(held.events, readFrom, cursor'),
         \/ held.applied = None \/ held.applied = page.applied
         \/ Covers(held.events, readFrom, held.applied),
         \A n \in left \ {None} : n \in notices \/ Covers(page.events, readFrom, n),
         Pending' \subseteq Pending \cup {RecoverCall(n) : n \in left}
  PROVE  Whole'
<1>1. page' = held \/ page' = [held EXCEPT !.applied = None]
  BY DEF SetNotices
<1>2. /\ page'.events = held.events
      /\ page'.applied = held.applied \/ page'.applied = None
  BY <1>1 DEF PageRecord
<1>3. notices' = left /\ readFrom' = readFrom \cup (left \ {None})
  BY DEF SetNotices
<1>4. \A x : Covers(held.events, readFrom, x) => Covers(page'.events, readFrom', x)
  BY <1>2, <1>3, CoversMore
<1>5. \A x : Covers(page.events, readFrom, x) => Covers(page'.events, readFrom', x)
  BY <1>2, <1>3, CoversMore
<1>6. \A n \in left \ {None} : n \in readFrom' /\ Covers(page'.events, readFrom', n)
  <2> SUFFICES ASSUME NEW n \in left \ {None}
               PROVE  n \in readFrom' /\ Covers(page'.events, readFrom', n)
    OBVIOUS
  <2>1. Covers(page.events, readFrom, n)
    BY DEF Whole
  <2> QED
    BY <1>3, <1>5, <2>1
<1>7. \A s \in Pending' : s.kind \in {"more", "recover"} =>
        \/ s \in Pending
        \/ s.after \in readFrom' /\ Covers(page'.events, readFrom', s.after)
  <2> SUFFICES ASSUME NEW n \in left, RecoverCall(n).kind \in {"more", "recover"}
               PROVE  /\ RecoverCall(n).after \in readFrom'
                      /\ Covers(page'.events, readFrom', RecoverCall(n).after)
    OBVIOUS
  <2> QED
    BY <1>6, RecoverCallIs
<1> QED
  BY <1>2, <1>3, <1>4, <1>6, <1>7, WholeAfter

LEMMA HeldNext == PageInv /\ [PageNext]_pageVars => Held'
<1> SUFFICES ASSUME PageInv, [PageNext]_pageVars, Ordered', page'.open, ~page'.mixed
             PROVE  Whole'
  BY DEF Held
<1> USE DashboardAssumption
<1>0. /\ PageTypes /\ page \in PageRecord /\ log \in Seq(Moment)
      /\ notices \in SUBSET (Nat \cup {None}) /\ readFrom \subseteq Nat
      /\ cursor \in Nat \cup {None} /\ (page.open => cursor # None)
      /\ \A r \in Pending : CallTyped(r)
  BY DEF PageInv, PageTypes, PageTyped, CallsTyped
<1>a. page.open /\ ~page.mixed /\ Ordered => Whole
  BY DEF PageInv, Held
<1>b. log' = log => Ordered /\ \A r \in Pending : Follows(r)
  BY DEF PageInv, RowsFollow, Ordered
<1>1. ASSUME NEW at \in Moment, Commit(at) PROVE Whole'
  <2>1. /\ Len(log) \in Nat /\ DOMAIN log = 1..Len(log) /\ DOMAIN log' = 1..(Len(log) + 1)
        /\ \A i \in DOMAIN log : log'[i] = log[i] /\ i \in DOMAIN log'
    BY <1>0, <1>1 DEF Commit
  <2>2. Ordered
    BY <2>1 DEF Ordered
  <2>3. UNCHANGED <<requests, page, cursor, notices, readFrom>>
    BY <1>1 DEF Commit
  <2>4. Whole
    BY <1>a, <2>2, <2>3
  <2> QED
    BY <2>3, <2>4 DEF Whole, Pending
<1>2. ASSUME OpenRun PROVE Whole'
  <2>1. page'.open = FALSE
    BY <1>0, <1>2 DEF OpenRun, PageRecord
  <2> QED
    BY <2>1
<1>3. ASSUME LoadMore PROVE Whole'
  <2> DEFINE after == IF page.applied = None THEN 0 ELSE page.applied
             S == {Request("more", after)}
  <2>1. /\ page'.events = page.events /\ page'.applied = page.applied
        /\ page'.mixed = page.mixed /\ page'.open = page.open
    BY <1>0, <1>3 DEF LoadMore, PageRecord
  <2>2. /\ requests' = requests (+) SetToBag(S) /\ log' = log /\ notices' = notices
        /\ cursor' = cursor /\ readFrom' = readFrom \cup {after}
    BY <1>3 DEF LoadMore
  <2>3. Whole
    BY <1>a, <1>b, <2>1, <2>2
  <2>4. Covers(page.events, readFrom, 0)
    BY DEF Covers
  <2>5. Covers(page.events, readFrom, after)
    BY <2>3, <2>4 DEF Whole
  <2>6. Request("more", after).after = after
    BY DEF Request
  <2> HIDE DEF after
  <2>7. Pending' = Pending \cup S
    BY <1>0, <2>2, PendingAdded
  <2>8. Covers(page'.events, readFrom', after)
    BY <2>1, <2>2, <2>5, CoversMore
  <2>9. \A s \in Pending' :
        s \in Pending \/ (s.after \in readFrom' /\ Covers(page'.events, readFrom', s.after))
    BY <2>2, <2>6, <2>7, <2>8
  <2> QED
    BY <2>1, <2>2, <2>3, <2>9, WholeAfter
<1>4. ASSUME NEW r \in Pending, ReadHead(r) \/ ReadRows(r) PROVE Whole'
  <2>1. PICK s : /\ requests' = Without(r) (+) SetToBag({s})
                 /\ s.kind = r.kind /\ s.after = r.after
    <3> DEFINE h == [r EXCEPT !.head = RunHead]
               t == [r EXCEPT !.rows = Rows(r.after)]
    <3>1. h.kind = r.kind /\ h.after = r.after /\ t.kind = r.kind /\ t.after = r.after
      BY <1>0 DEF CallTyped
    <3>2. requests' = Without(r) (+) SetToBag({h}) \/ requests' = Without(r) (+) SetToBag({t})
      BY <1>4 DEF ReadHead, ReadRows, Replaced
    <3> HIDE DEF h, t
    <3> QED
      BY <3>1, <3>2
  <2>2. Pending' \subseteq Pending \cup {s}
    BY <1>0, <2>1, PendingReplaced
  <2>3. UNCHANGED <<log, page, cursor, notices, readFrom>>
    BY <1>4 DEF ReadHead, ReadRows
  <2>4. Whole
    BY <1>a, <1>b, <2>3
  <2>5. \A q \in Pending' : \E t \in Pending : t.kind = q.kind /\ t.after = q.after
    BY <2>1, <2>2
  <2> QED
    BY <2>3, <2>4, <2>5, WholeAfter
<1>5. ASSUME NEW r \in Pending, Opened(r) PROVE Whole'
  <2>1. /\ page'.events = Shown(r.rows) /\ page'.applied = NextSequence(r)
        /\ page'.mixed = \E s \in Pending : s.kind \in {"more", "recover"}
        /\ cursor' = NextSequence(r) /\ requests' = Without(r)
        /\ UNCHANGED <<log, notices, readFrom>> /\ r.kind = "open" /\ r.rows # None
    BY <1>0, <1>5 DEF Opened, PageRecord
  <2>2. \A s \in Pending : s.kind \notin {"more", "recover"}
    BY <2>1
  <2>3. Pending' \subseteq Pending
    BY <1>0, <2>1, PendingAnswered
  <2>4. notices' \subseteq {None}
    BY <2>1, <2>2 DEF PageInv, NoticesAreAnswered
  <2>5. Covers(Shown(r.rows), readFrom, NextSequence(r))
    <3>1. CallTyped(r) /\ Follows(r)
      BY <1>0, <1>b, <2>1
    <3>2. r.after \in Nat /\ NextSequence(r) \in Nat
      BY <1>0, <2>1, <3>1, AnswerTyped DEF CallTyped
    <3>3. r.after = 0
      BY <2>1, <3>1 DEF CallTyped
    <3>4. Covers(Shown(r.rows), readFrom, r.after)
      BY <3>3 DEF Covers
    <3> QED
      BY <2>1, <3>1, <3>2, <3>3, <3>4, AnswerCovers
  <2> QED
    BY <2>1, <2>2, <2>3, <2>4, <2>5 DEF Whole
<1>6. ASSUME NEW r \in Pending, OpenFailed(r) PROVE Whole'
  <2>1. page'.open = FALSE
    BY <1>0, <1>6 DEF OpenFailed, PageRecord
  <2> QED
    BY <2>1
<1>7. ASSUME NEW r \in Pending, MoreLoaded(r) PROVE Whole'
  <2>1. /\ page'.events = page.events \o Shown(r.rows) /\ page'.applied = NextSequence(r)
        /\ page'.mixed = page.mixed /\ page'.open = page.open
        /\ requests' = Without(r) /\ r.kind = "more" /\ r.rows # None
        /\ UNCHANGED <<log, notices, cursor, readFrom>>
    BY <1>0, <1>7 DEF MoreLoaded, PageRecord
  <2>2. Whole
    BY <1>a, <1>b, <2>1
  <2>3. Pending' \subseteq Pending
    BY <1>0, <2>1, PendingAnswered
  <2>4. /\ CallTyped(r) /\ Follows(r) /\ r.after \in Nat
        /\ NextSequence(r) \in Nat /\ Shown(r.rows) \in Seq(DOMAIN log)
    BY <1>0, <1>b, <2>1, AnswerTyped DEF CallTyped
  <2>5. ToSet(page'.events) = ToSet(page.events) \cup ToSet(Shown(r.rows))
    BY <1>0, <2>1, <2>4, JoinedSet DEF PageRecord
  <2>6. Covers(page.events, readFrom, r.after) /\ r.after \in readFrom
    BY <2>1, <2>2 DEF Whole
  <2>7. Covers(page'.events, readFrom, r.after)
    BY <2>5, <2>6, CoversMore
  <2>8. Covers(page'.events, readFrom, NextSequence(r))
    BY <2>1, <2>4, <2>5, <2>6, <2>7, AnswerCovers
  <2> QED
    BY <2>1, <2>2, <2>3, <2>5, <2>8, WholeAfter
<1>8. ASSUME NEW r \in Pending, MoreFailed(r) PROVE Whole'
  <2>1. /\ page'.events = page.events /\ page'.applied = page.applied
        /\ page'.mixed = page.mixed /\ page'.open = page.open
        /\ requests' = Without(r) /\ UNCHANGED <<log, notices, cursor, readFrom>>
    BY <1>0, <1>8 DEF MoreFailed, PageRecord
  <2>2. Whole
    BY <1>a, <1>b, <2>1
  <2>3. Pending' \subseteq Pending
    BY <1>0, <2>1, PendingAnswered
  <2> QED
    BY <2>1, <2>2, <2>3, WholeAfter
<1>9. ASSUME NEW r \in Pending, Recovered(r) PROVE Whole'
  <2> DEFINE fresh == Unknown(Shown(r.rows), ToSet(page.events))
             held == [page EXCEPT !.events = @ \o fresh, !.applied = NextSequence(r),
                                  !.incomplete = NextSequence(r) < r.head]
  <2>1. /\ EndRecover(r, held) /\ log' = log /\ cursor' = NextSequence(r)
        /\ r.kind = "recover" /\ r.rows # None
    BY <1>9 DEF Recovered
  <2>4. /\ CallTyped(r) /\ Follows(r) /\ r.after \in Nat
        /\ NextSequence(r) \in Nat /\ Shown(r.rows) \in Seq(DOMAIN log)
        /\ (NextSequence(r) < r.head) \in BOOLEAN
    BY <1>0, <1>b, <2>1, AnswerTyped DEF CallTyped
  <2>5. fresh \in Seq(DOMAIN log) /\ ToSet(Shown(r.rows)) \subseteq ToSet(fresh) \cup ToSet(page.events)
    BY <2>4, UnknownIs
  <2> HIDE DEF fresh
  <2>6. /\ page.events \o fresh \in Seq(DOMAIN log)
        /\ ToSet(page.events \o fresh) = ToSet(page.events) \cup ToSet(fresh)
    BY <1>0, <2>5, JoinedSet DEF PageRecord
  <2>7. /\ held \in PageRecord /\ held.events = page.events \o fresh
        /\ held.applied = NextSequence(r) /\ held.open = page.open /\ held.mixed = page.mixed
    BY <1>0, <2>4, <2>6 DEF PageRecord
  <2> HIDE DEF held
  <2>8. page' = held \/ page' = [held EXCEPT !.applied = None]
    BY <2>1 DEF EndRecover, SetNotices
  <2>9. page'.open = held.open /\ page'.mixed = held.mixed
    BY <2>7, <2>8 DEF PageRecord
  <2>10. Whole
    BY <1>a, <1>b, <2>1, <2>7, <2>9
  <2>11. Covers(page.events, readFrom, r.after) /\ r.after \in readFrom
    BY <2>1, <2>10 DEF Whole
  <2>12. Covers(held.events, readFrom, r.after)
    BY <2>6, <2>7, <2>11, CoversMore
  <2>13. ToSet(Shown(r.rows)) \subseteq ToSet(held.events) \cup readFrom
    BY <2>5, <2>6, <2>7
  <2>14. Covers(held.events, readFrom, NextSequence(r))
    BY <2>1, <2>4, <2>11, <2>12, <2>13, AnswerCovers
  <2>15. SetNotices(notices \ {r.after}, Without(r), held)
    BY <2>1 DEF EndRecover
  <2>16. Pending' \subseteq Pending \cup {RecoverCall(n) : n \in notices \ {r.after}}
    BY <1>0, <2>1, PendingEnded
  <2>17. ToSet(page.events) \subseteq ToSet(held.events)
    BY <2>6, <2>7
  <2> QED
    BY <1>0, <2>1, <2>7, <2>10, <2>14, <2>15, <2>16, <2>17, WholeNotices
<1>10. ASSUME NEW r \in Pending, RecoverFailed(r) \/ IndexReloaded(r) PROVE Whole'
  <2>1. EndRecover(r, page) /\ log' = log /\ cursor' = cursor
    BY <1>10 DEF RecoverFailed, IndexReloaded
  <2>2. page' = page \/ page' = [page EXCEPT !.applied = None]
    BY <2>1 DEF EndRecover, SetNotices
  <2>3. page'.open = page.open /\ page'.mixed = page.mixed
    BY <1>0, <2>2 DEF PageRecord
  <2>4. Whole
    BY <1>a, <1>b, <2>1, <2>3
  <2>5. SetNotices(notices \ {r.after}, Without(r), page)
    BY <2>1 DEF EndRecover
  <2>6. Pending' \subseteq Pending \cup {RecoverCall(n) : n \in notices \ {r.after}}
    BY <1>0, <2>1, PendingEnded
  <2> QED
    BY <1>0, <2>1, <2>4, <2>5, <2>6, WholeNotices
<1>11. ASSUME ConnectionOpens, link.everOpened PROVE Whole'
  <2> DEFINE left == notices \cup {None} \cup {cursor}
  <2>1. SetNotices(left, requests, page) /\ log' = log /\ cursor' = cursor
    BY <1>11 DEF ConnectionOpens
  <2>2. page' = page \/ page' = [page EXCEPT !.applied = None]
    BY <2>1 DEF SetNotices
  <2>3. page'.open = page.open /\ page'.mixed = page.mixed
    BY <1>0, <2>2 DEF PageRecord
  <2>4. Whole
    BY <1>a, <1>b, <2>1, <2>3
  <2>5. Pending' = Pending \cup {RecoverCall(n) : n \in left}
    BY <1>0, <2>1, PendingAdded DEF SetNotices
  <2>6. \A n \in left \ {None} : n \in notices \/ Covers(page.events, readFrom, n)
    BY <2>4 DEF Whole
  <2> HIDE DEF left
  <2> QED
    BY <1>0, <2>1, <2>4, <2>5, <2>6, WholeNotices
<1>12. ASSUME \/ ConnectionOpens /\ ~link.everOpened
              \/ ConnectionCloses \/ TimerFires \/ UNCHANGED pageVars
       PROVE  Whole'
  <2>1. UNCHANGED <<log, requests, page, cursor, notices, readFrom>>
    BY <1>12 DEF ConnectionOpens, ConnectionCloses, TimerFires, pageVars
  <2>2. Whole
    BY <1>a, <1>b, <2>1
  <2> QED
    BY <2>1, <2>2 DEF Whole, Pending
<1> QED
  BY <1>1, <1>2, <1>3, <1>4, <1>5, <1>6, <1>7, <1>8, <1>9, <1>10, <1>11, <1>12
     DEF PageNext, Serve, Answer, Fail

LEMMA PageInvInit == PageInit => PageInv
<1> SUFFICES ASSUME PageInit PROVE PageInv
  OBVIOUS
<1>1. PageTypes /\ Pending = {}
  BY PageTypesInit DEF PageInit, Pending, BagToSet, EmptyBag, SetToBag
<1> QED
  BY <1>1 DEF PageInit, PageInv, RowsFollow, NoticesAreAnswered, Held

LEMMA PageInvNext == PageInv /\ [PageNext]_pageVars => PageInv'
BY PageTypesNext, RowsFollowNext, NoticesNext, HeldNext DEF PageInv

THEOREM PageInvHolds == PageSpec => []PageInv
<1> QED
  BY PageInvInit, PageInvNext, PTL DEF PageSpec

(* The page, its calls and its connection have their types. *)
THEOREM PageTypesHold == PageSpec => []PageTypeOK
<1>1. PageInv => PageTypeOK
  <2> SUFFICES ASSUME PageInv PROVE PageTypeOK
    OBVIOUS
  <2>1. \A r \in Pending : /\ r.kind \in Kinds /\ r.after \in Nat \cup {None}
                           /\ r.head \in Nat \cup {None}
                           /\ r.rows = None \/ r.rows \in Seq(DOMAIN log)
    BY DEF PageInv, PageTypes, CallsTyped, CallTyped
  <2> QED
    BY <2>1 DEF PageInv, PageTypes, PageTyped, PageRecord, LinkTyped, PageTypeOK
<1> QED
  BY <1>1, PageInvHolds, PTL

(* A page that claims to be the whole run has every event before its       *)
(* cursor but those it read on from, for a run of any length whose events  *)
(* arrived in order, pages of any size and any number of calls, failures   *)
(* and lost connections.                                                   *)
THEOREM WholePagesAreWhole == PageSpec => []WholePageIsWhole
<1>1. PageInv => WholePageIsWhole
  <2> SUFFICES ASSUME PageInv, ClaimsWhole, Ordered, ~page.mixed,
                      NEW k \in Missing
               PROVE  k \in readFrom
    BY DEF WholePageIsWhole
  <2>1. Covers(page.events, readFrom, page.applied) /\ page.applied \in Nat
    BY DEF PageInv, Held, Whole, ClaimsWhole, PageTypes, PageTyped, PageRecord
  <2>2. k \in Nat \ {0} /\ k < page.applied /\ k \notin ToSet(page.events)
    BY <2>1 DEF Missing
  <2> QED
    BY <2>1, <2>2 DEF Covers
<1> QED
  BY <1>1, PageInvHolds, PTL
=============================================================================
