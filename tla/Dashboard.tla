------------------------------ MODULE Dashboard ------------------------------
(***************************************************************************)
(* The dashboard's view of one run, fed by the range reads of              *)
(* internal/store/timeline.go and by the live socket of                    *)
(* web/src/lib/realtime.ts and live.svelte.ts, as RunsPage.svelte puts the *)
(* two together.  A range read takes the head of the run and then its rows *)
(* with events committed in between; answers come in any order or fail;    *)
(* the socket comes and goes, and each time it is back the page refetches  *)
(* the range after the cursor it acknowledged last.                        *)
(*                                                                         *)
(* No code publishes event.appended, so a frame never changes the page and *)
(* frames are left out.  Equal gap notices are cleared together and are    *)
(* one notice here.                                                        *)
(***************************************************************************)
EXTENDS Timeline, Sequences, SequencesExt, FiniteSets, FiniteSetsExt, Bags

CONSTANTS Times,       \* when an event may have happened
          SourceSequences, \* numbers that sources give their events
          PageSize,    \* events of one page (500 in the page's code)
          MaxEvents,   \* bound on the events of the run (checking only)
          MaxRequests, \* bound on the calls under way when the user acts (checking only)
          MaxLosses    \* bound on lost connections (checking only)

ASSUME DashboardAssumption ==
  /\ Times \subseteq Nat /\ SourceSequences \subseteq Nat
  /\ PageSize \in Nat \ {0}
  /\ MaxEvents \in Nat /\ MaxRequests \in Nat /\ MaxLosses \in Nat
  /\ None \notin Nat

VARIABLES log,      \* the run's events, by ingest sequence
          requests, \* calls of the page that are not answered: a bag
          page,     \* what the page holds of the run; "mixed" is history
          cursor,   \* SequenceTracker's cursor for the run; None is unwatched
          notices,  \* live.notices: a sequence to refetch from, None the index
          link,     \* the connection
          losses,   \* connections lost so far
          readFrom  \* history: the sequences the page read on from

pageVars == <<log, requests, page, cursor, notices, link, losses, readFrom>>
-----------------------------------------------------------------------------
(* Range reads of the store.                                               *)

(* What of an event decides its place: occurred_at and source_sequence.    *)
Moment == [at: Times, source: SourceSequences \cup {None}]

(* runs.next_sequence: one more than the sequence allocated last. *)
RunHead == Len(log) + 1

Before(i, j) == Precedes(log[i], i, log[j], j)

(* The rows behind "after" in this order, at most limit + 1 of them. *)
Rows(after) ==
  LET later == {i \in DOMAIN log : i > after}
      Rank(i) == Cardinality({j \in later : Before(j, i)})
      n == Cardinality(later)
  IN [k \in 1..(IF n > PageSize THEN PageSize + 1 ELSE n) |->
        CHOOSE i \in later : Rank(i) = k - 1]

HasMore(rows) == Len(rows) > PageSize

Shown(rows) == IF HasMore(rows) THEN SubSeq(rows, 1, PageSize) ELSE rows

(* Defect: the cursor is the head even when the page was cut.              *)
NextSequence_Head(r) == r.head

(* The cursor of the answer: the highest sequence of a page that was cut,  *)
(* the head of the run, read before the rows, otherwise.                   *)
NextSequence(r) ==
  IF HasMore(r.rows) THEN Max(ToSet(Shown(r.rows)) \cup {r.after}) ELSE r.head

-----------------------------------------------------------------------------
Request(kind, after) ==
  [kind |-> kind, after |-> after, head |-> None, rows |-> None]

Pending == BagToSet(requests)

Without(r) == requests (-) SetToBag({r})

Replaced(r, s) == Without(r) (+) SetToBag({s})

PageInit ==
  /\ log = <<>>
  /\ requests = EmptyBag
  /\ page = [open |-> FALSE, events |-> <<>>, applied |-> 0, incomplete |-> FALSE,
             more |-> FALSE, loadingMore |-> FALSE, mixed |-> FALSE]
  /\ cursor = None
  /\ notices = {}
  /\ link = [socket |-> "opening", timer |-> FALSE, state |-> "connecting",
             everOpened |-> FALSE]
  /\ losses = 0
  /\ readFrom = {}

(* The collector commits an event of the run. *)
Commit(moment) ==
  /\ Len(log) < MaxEvents
  /\ log' = Append(log, moment)
  /\ UNCHANGED <<requests, page, cursor, notices, link, losses, readFrom>>

(* ListEvents, statement by statement, for a call that is under way. *)
ReadHead(r) ==
  /\ r.kind # "index" /\ r.head = None
  /\ log # <<>>
  /\ requests' = Replaced(r, [r EXCEPT !.head = RunHead])
  /\ UNCHANGED <<log, page, cursor, notices, link, losses, readFrom>>

ReadRows(r) ==
  /\ r.head # None /\ r.rows = None
  /\ requests' = Replaced(r, [r EXCEPT !.rows = Rows(r.after)])
  /\ UNCHANGED <<log, page, cursor, notices, link, losses, readFrom>>

-----------------------------------------------------------------------------
(* Gap notices.  The page's effect runs as soon as the notices are set and *)
(* calls recover for every one of them.                                    *)

RecoverCall(n) == Request(IF n = None THEN "index" ELSE "recover", n)

(* What setting the notices leads to: with these requests and this page    *)
(* before it, the notices become "left".                                   *)
SetNotices(left, bag, held) ==
  /\ notices' = left
  /\ requests' = bag (+) SetToBag({RecoverCall(n) : n \in left})
  /\ page' = IF left \subseteq {None} THEN held ELSE [held EXCEPT !.applied = None]
  /\ readFrom' = readFrom \cup (left \ {None})

(* Both ends of recover: clearNotice, and recovered() without conditions.  *)
EndRecover(r, held) ==
  /\ SetNotices(notices \ {r.after}, Without(r), held)
  /\ link' = [link EXCEPT !.state = "live"]

-----------------------------------------------------------------------------
(* The page.                                                               *)

(* openRun(runId), up to its await. *)
OpenRun ==
  /\ BagCardinality(requests) < MaxRequests
  /\ page' = [page EXCEPT !.open = FALSE, !.events = <<>>, !.applied = 0]
  /\ requests' = requests (+) SetToBag({Request("open", 0)})
  /\ UNCHANGED <<log, cursor, notices, link, losses, readFrom>>

Opened(r) ==
  /\ r.kind = "open" /\ r.rows # None
  /\ page' = [page EXCEPT !.open = TRUE, !.events = Shown(r.rows),
                          !.applied = NextSequence(r), !.more = HasMore(r.rows),
                          !.incomplete = NextSequence(r) < r.head,
                          !.mixed = \E s \in Pending : s.kind \in {"more", "recover"}]
  /\ cursor' = NextSequence(r)
  /\ requests' = Without(r)
  /\ UNCHANGED <<log, notices, link, losses, readFrom>>

OpenFailed(r) ==
  /\ r.kind = "open"
  /\ page' = [page EXCEPT !.open = FALSE]
  /\ requests' = Without(r)
  /\ UNCHANGED <<log, cursor, notices, link, losses, readFrom>>

(* loadMoreEvents: the button is there while the run is open and has more. *)
LoadMore ==
  /\ page.open /\ page.more /\ ~page.loadingMore
  /\ BagCardinality(requests) < MaxRequests
  /\ page' = [page EXCEPT !.loadingMore = TRUE]
  /\ LET after == IF page.applied = None THEN 0 ELSE page.applied
     IN /\ requests' = requests (+) SetToBag({Request("more", after)})
        /\ readFrom' = readFrom \cup {after}
  /\ UNCHANGED <<log, cursor, notices, link, losses>>

MoreLoaded(r) ==
  /\ r.kind = "more" /\ r.rows # None
  /\ page' = [page EXCEPT !.events = @ \o Shown(r.rows), !.applied = NextSequence(r),
                          !.more = HasMore(r.rows), !.incomplete = NextSequence(r) < r.head,
                          !.loadingMore = FALSE]
  /\ requests' = Without(r)
  /\ UNCHANGED <<log, cursor, notices, link, losses, readFrom>>

MoreFailed(r) ==
  /\ r.kind = "more"
  /\ page' = [page EXCEPT !.loadingMore = FALSE]
  /\ requests' = Without(r)
  /\ UNCHANGED <<log, cursor, notices, link, losses, readFrom>>

(* The filter of recover: the rows the page does not know. *)
Unknown(rows, known) ==
  LET Kept[i \in 0..Len(rows)] ==
        IF i = 0 THEN <<>>
        ELSE IF rows[i] \in known THEN Kept[i - 1] ELSE Append(Kept[i - 1], rows[i])
  IN Kept[Len(rows)]

(* recover(runId, afterSequence) after its await: events the page has not  *)
(* are appended, and the cursor is acknowledged.                           *)
Recovered(r) ==
  /\ r.kind = "recover" /\ r.rows # None
  /\ LET fresh == Unknown(Shown(r.rows), ToSet(page.events))
     IN EndRecover(r, [page EXCEPT !.events = @ \o fresh, !.applied = NextSequence(r),
                                   !.incomplete = NextSequence(r) < r.head])
  /\ cursor' = NextSequence(r)
  /\ UNCHANGED <<log, losses>>

(* The error is shown, and the notice goes all the same.                   *)
RecoverFailed(r) ==
  /\ r.kind = "recover"
  /\ EndRecover(r, page)
  /\ UNCHANGED <<log, cursor, losses>>

(* recover(null): the index and the filter options are read again; neither *)
(* failure is passed on.                                                   *)
IndexReloaded(r) ==
  /\ r.kind = "index"
  /\ EndRecover(r, page)
  /\ UNCHANGED <<log, cursor, losses>>

-----------------------------------------------------------------------------
(* The link.                                                         *)

(* onopen.  The first opening is no gap; a later one is a notice for the   *)
(* index and one for every watched run.                                    *)
ConnectionOpens ==
  /\ link.socket = "opening"
  /\ IF link.everOpened
       THEN /\ link' = [link EXCEPT !.socket = "open", !.state = "recovering"]
            /\ SetNotices(notices \cup {None} \cup {cursor}, requests, page)
       ELSE /\ link' = [link EXCEPT !.socket = "open", !.state = "live",
                                    !.everOpened = TRUE]
            /\ UNCHANGED <<notices, requests, page, readFrom>>
  /\ UNCHANGED <<log, cursor, losses>>

(* Defect: a connection that was never open is not tried again.            *)
ConnectionCloses_OnlyOnce ==
  /\ link.socket # "none" /\ losses < MaxLosses
  /\ link' = [link EXCEPT !.socket = "none", !.state = "connecting",
                          !.timer = link.everOpened]
  /\ losses' = losses + 1
  /\ UNCHANGED <<log, requests, page, cursor, notices, readFrom>>

(* onclose, of a socket that was open or that could not be opened. *)
ConnectionCloses ==
  /\ link.socket # "none" /\ losses < MaxLosses
  /\ link' = [link EXCEPT !.socket = "none", !.state = "connecting", !.timer = TRUE]
  /\ losses' = losses + 1
  /\ UNCHANGED <<log, requests, page, cursor, notices, readFrom>>

(* The timer of scheduleReconnect calls open. *)
TimerFires ==
  /\ link.timer
  /\ link' = [link EXCEPT !.socket = "opening", !.state = "connecting", !.timer = FALSE]
  /\ UNCHANGED <<log, requests, page, cursor, notices, losses, readFrom>>

-----------------------------------------------------------------------------
Kinds == {"open", "more", "recover", "index"}

Serve == \E r \in Pending : ReadHead(r) \/ ReadRows(r)

Answer(r) == Opened(r) \/ MoreLoaded(r) \/ Recovered(r) \/ IndexReloaded(r)

Fail(r) == OpenFailed(r) \/ MoreFailed(r) \/ RecoverFailed(r)

PageNext ==
  \/ \E moment \in Moment : Commit(moment)
  \/ OpenRun \/ LoadMore
  \/ Serve
  \/ \E r \in Pending : Answer(r) \/ Fail(r)
  \/ ConnectionOpens \/ ConnectionCloses \/ TimerFires

PageSpec == PageInit /\ [][PageNext]_pageVars

(* The timer fires, and what it opens is opened or closed again.           *)
PageFairSpec ==
  PageSpec /\ WF_pageVars(TimerFires) /\ WF_pageVars(ConnectionOpens)

-----------------------------------------------------------------------------
(* The variables hold what the code can put there: one connection attempt  *)
(* at a time, and a run has a cursor once it was opened.                   *)
PageTypeOK ==
  /\ log \in Seq(Moment)
  /\ \A r \in Pending :
       /\ r.kind \in Kinds
       /\ r.after \in Nat \cup {None}
       /\ r.head \in Nat \cup {None}
       /\ r.rows = None \/ r.rows \in Seq(DOMAIN log)
  /\ page \in [open: BOOLEAN, events: Seq(DOMAIN log), applied: Nat \cup {None},
               incomplete: BOOLEAN, more: BOOLEAN, loadingMore: BOOLEAN, mixed: BOOLEAN]
  /\ cursor \in Nat \cup {None}
  /\ page.open => cursor # None
  /\ notices \subseteq Nat \cup {None}
  /\ link \in [socket: {"none", "opening", "open"}, timer: BOOLEAN,
               state: {"connecting", "live", "recovering"}, everOpened: BOOLEAN]
  /\ link.timer <=> link.socket = "none"
  /\ losses \in Nat
  /\ readFrom \subseteq Nat

(* The hole between two loaded events that the timeline names. *)
NamesHole ==
  \E i, j \in ToSet(page.events) :
    /\ i + 1 < j
    /\ \A k \in (i + 1)..(j - 1) : k \notin ToSet(page.events)

(* What the page presents as the whole run, up to the cursor it applied:   *)
(* nothing is said to be missing and there is nothing to load.             *)
ClaimsWhole ==
  /\ page.open /\ page.applied # None
  /\ ~page.incomplete /\ ~page.more /\ ~NamesHole

Missing == (1..(page.applied - 1)) \ ToSet(page.events)

(* Events that arrive in the order the timeline has them in.               *)
Ordered == \A i, j \in DOMAIN log : i < j => ~Sooner(log[j], log[i])

(* A page that claims to be the whole run has every event before its       *)
(* cursor, for a run whose events arrived in order, whichever calls        *)
(* overlapped: rows may be newer than the head they are compared with,     *)
(* "load more" and a refetch may answer in any order, and calls may fail.  *)
(* Two things are excepted: the one event at a cursor the page read on     *)
(* from (a cursor may be the head, which the next event takes, and reads   *)
(* are of sequences above it), and a run that was opened again while       *)
(* another read of it was under way, whose answer then joins the new page. *)
WholePageIsWhole == ClaimsWhole /\ Ordered /\ ~page.mixed => Missing \subseteq readFrom

(* The same without the exceptions, as the code's comments have it.        *)
CursorSkipsNothing == ClaimsWhole => Missing = {}

(* The gap of a run keeps being reported until its range was refetched, as *)
(* the comments on clearNotice and SequenceTracker have it.                *)
GapsStayReported ==
  [][\A n \in notices \ (notices' \cup {None}) :
        \E r \in Pending : r.after = n /\ Recovered(r)]_pageVars

(* A page that lost its connection, or did not get one, is connected again *)
(* once the collector can be reached.                                      *)
ConnectionComesBack == (link.socket = "none") ~> (link.socket = "open")
=============================================================================
