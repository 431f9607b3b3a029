--------------------------- MODULE RunEventStream ---------------------------
(***************************************************************************)
(* The AG-UI stream of the events of one run (src/src/http/ag-ui.ts).      *)
(*                                                                         *)
(* A client sees the durable events of the run as they are appended, from  *)
(* the cursor it names, and now and then a snapshot of the run with what   *)
(* the events so far add up to; it resumes with the id it received last.   *)
(* The events and the status of the run are read apart, one transaction    *)
(* each, and between two reads, or while the client takes its time, the    *)
(* run goes on.                                                            *)
(***************************************************************************)
EXTENDS Naturals, FiniteSets

CONSTANTS Clients,
          Numbers,     \* bound: sequence numbers, of this run's events or not
          PageSize,    \* AG_UI_EVENT_PAGE_SIZE
          MaxPages,    \* pages of a reconstruction, 100 in the code
          MaxReads,    \* stabilization reads, 100 in the code
          MaxStreams,  \* AG_UI_MAX_ACTIVE_STREAMS
          MaxBreaks    \* bound: connections that break

ASSUME StreamAssumption ==
  /\ Numbers \subseteq Nat \ {0} /\ IsFiniteSet(Numbers)
  /\ PageSize \in Nat \ {0} /\ MaxPages \in Nat \ {0}
  /\ MaxReads \in Nat /\ MaxStreams \in Nat /\ MaxBreaks \in Nat

VARIABLES
  events,   \* run_events of the run: the numbers of its events
  last,     \* the event that ended the run, or 0
  stream,   \* of each client: the generator that serves it
  client,   \* of each client: what it received
  breaks

run  == <<events, last>>
vars == <<run, stream, client, breaks>>

Cursors == Numbers \cup {0}
Tallies == [Numbers -> Nat]   \* how often each event was taken into account
Zero    == [n \in Numbers |-> 0]

Streams == [at      : {"closed", "started", "poll", "replay", "status",
                       "settle", "snapshot", "finish", "wait"},
            cursor  : Cursors,
            page    : SUBSET Numbers,  \* read, and not yet sent
            tally   : Tallies,         \* progress and proof of the snapshots
            over    : BOOLEAN,         \* the run as it was read last
            reads   : 0..(MaxReads + 1),
            first   : BOOLEAN,         \* no snapshot was sent yet
            fresh   : BOOLEAN]         \* an event was sent since
Closed == [at |-> "closed", cursor |-> 0, page |-> {}, tally |-> Zero,
           over |-> FALSE, reads |-> 0, first |-> TRUE, fresh |-> FALSE]

Snapshots == [cursor : Cursors, over : BOOLEAN, tally : Tallies]
NoSnapshot == [cursor |-> 0, over |-> FALSE, tally |-> Zero]
Receipts  == [joined : BOOLEAN, from : Cursors, cursor : Cursors,
              seen : Tallies, shown : Snapshots, finished : BOOLEAN]
NotJoined == [joined |-> FALSE, from |-> 0, cursor |-> 0, seen |-> Zero,
              shown |-> NoSnapshot, finished |-> FALSE]

TypeOK == /\ events \subseteq Numbers /\ last \in events \cup {0}
          /\ stream \in [Clients -> Streams]
          /\ client \in [Clients -> Receipts]
          /\ breaks \in 0..MaxBreaks

(* createRun appends the first event.                                      *)
Init == /\ \E n \in Numbers : events = {n}
        /\ last = 0
        /\ stream = [c \in Clients |-> Closed]
        /\ client = [c \in Clients |-> NotJoined]
        /\ breaks = 0
-----------------------------------------------------------------------------
(* The run: every transaction that changes it appends an event, and none   *)
(* does once it is over.  Other runs take numbers in between.              *)

GoesOn(n) == /\ last = 0 /\ \A e \in events : n > e
             /\ events' = events \cup {n}
             /\ last' \in {0, n}
             /\ UNCHANGED <<stream, client, breaks>>
-----------------------------------------------------------------------------
(* The request.  A cursor ahead of the history, and a stream too many, are *)
(* refused.                                                                *)

Joins(c, from) ==
  /\ stream[c].at = "closed"
  /\ Cardinality({d \in Clients : stream[d].at # "closed"}) < MaxStreams
  /\ stream' = [stream EXCEPT ![c] = [Closed EXCEPT !.at = "started",
                                                    !.cursor = from]]

Join(c, from) == /\ ~client[c].joined
                 /\ \E e \in events : from <= e
                 /\ Joins(c, from)
                 /\ client' = [client EXCEPT ![c] =
                      [@ EXCEPT !.joined = TRUE, !.from = from, !.cursor = from]]
                 /\ UNCHANGED <<run, breaks>>

(* The same client comes again, with the id it received last.              *)
Resume(c) == /\ client[c].joined /\ ~client[c].finished
             /\ Joins(c, client[c].cursor)
             /\ UNCHANGED <<run, client, breaks>>

Disconnect(c) == /\ stream[c].at # "closed" /\ breaks < MaxBreaks
                 /\ stream' = [stream EXCEPT ![c] = Closed]
                 /\ breaks' = breaks + 1
                 /\ UNCHANGED <<run, client>>
-----------------------------------------------------------------------------
(* The generator.                                                          *)

At(c, l)     == stream[c].at = l
Serves(c, s) == stream' = [stream EXCEPT ![c] = s] /\ UNCHANGED <<run, breaks>>
Receives(c, k) == client' = [client EXCEPT ![c] = k]

(* RUN_ERROR: the stream ends, and says nothing of the run.                *)
Fails(c) == Serves(c, Closed) /\ UNCHANGED client

\* Faulty variant: the event at the cursor is read again.
IsPage_FromCursor(page, cursor) ==
  LET later == {e \in events : e >= cursor}
  IN /\ page \subseteq later /\ Cardinality(page) <= PageSize
     /\ \A e \in later \ page : /\ Cardinality(page) = PageSize
                               /\ \A p \in page : p < e

(* listEvents and readNewEvents: the first events after the cursor.        *)
IsPage(page, cursor) ==
  LET later == {e \in events : e > cursor}
  IN /\ page \subseteq later /\ Cardinality(page) <= PageSize
     /\ \A e \in later \ page : /\ Cardinality(page) = PageSize
                               /\ \A p \in page : p < e

(* The history up to the cursor is read page by page, up to the page that  *)
(* reaches it or goes beyond it.                                           *)
TooLong(cursor) ==
  LET k == Cardinality({e \in events : e <= cursor})
  IN \/ k > MaxPages * PageSize
     \/ /\ k = MaxPages * PageSize /\ cursor \notin events
        /\ \E e \in events : e > cursor

Reconstruct(c) ==
  /\ At(c, "started")
  /\ \/ TooLong(stream[c].cursor) /\ Fails(c)
     \/ /\ ~TooLong(stream[c].cursor)
        /\ Serves(c, [stream[c] EXCEPT
             !.at = "poll",
             !.tally = [n \in Numbers |->
               IF n \in events /\ n <= stream[c].cursor THEN 1 ELSE 0]])
        /\ UNCHANGED client

Poll(c) ==
  /\ At(c, "poll")
  /\ \E page \in SUBSET events :
       /\ IsPage(page, stream[c].cursor)
       /\ Serves(c, [stream[c] EXCEPT
                       !.at = IF page = {} THEN "status" ELSE "replay",
                       !.page = page])
  /\ UNCHANGED client

(* The events of a page are sent in order; after the last one, the run is  *)
(* read, unless it has not stabilized for too long.                        *)
Send(c) ==
  /\ At(c, "replay")
  /\ \E e \in stream[c].page :
       LET rest == stream[c].page \ {e} IN
       /\ \A d \in rest : e < d
       /\ Serves(c, [stream[c] EXCEPT
                       !.at = IF rest = {} THEN "status" ELSE "replay",
                       !.page = rest, !.cursor = e, !.fresh = TRUE,
                       !.tally[e] = @ + 1])
       /\ Receives(c, [client[c] EXCEPT !.cursor = e, !.seen[e] = @ + 1])

Status(c) ==
  /\ At(c, "status")
  /\ \/ stream[c].reads > MaxReads /\ Fails(c)
     \/ /\ stream[c].reads <= MaxReads
        /\ Serves(c, [stream[c] EXCEPT !.at = "settle", !.over = last # 0])
        /\ UNCHANGED client

\* Faulty variant: the run is read once, after the events.
Settle_TrustsStatus(c) ==
  /\ At(c, "settle")
  /\ Serves(c, [stream[c] EXCEPT
       !.at = IF stream[c].first \/ stream[c].fresh \/ stream[c].over
              THEN "snapshot" ELSE "wait"])
  /\ UNCHANGED client

(* What was read of the run is used only if no event came before it.       *)
Settle(c) ==
  /\ At(c, "settle")
  /\ \E page \in SUBSET events :
       /\ IsPage(page, stream[c].cursor)
       /\ \/ /\ page # {}
             /\ Serves(c, [stream[c] EXCEPT !.at = "replay", !.page = page,
                                            !.reads = @ + 1])
          \/ /\ page = {}
             /\ Serves(c, [stream[c] EXCEPT
                  !.at = IF stream[c].first \/ stream[c].fresh \/ stream[c].over
                         THEN "snapshot" ELSE "wait"])
  /\ UNCHANGED client

\* Faulty variant: a stream ends with the news of the end, not with the end.
Snapshot_EndsOnNews(c) ==
  LET s == stream[c] IN
  /\ At(c, "snapshot")
  /\ Serves(c, [s EXCEPT !.at = IF s.over /\ s.fresh THEN "finish" ELSE "wait",
                         !.first = FALSE])
  /\ Receives(c, [client[c] EXCEPT !.shown =
                    [cursor |-> s.cursor, over |-> s.over, tally |-> s.tally]])

Snapshot(c) ==
  LET s == stream[c] IN
  /\ At(c, "snapshot")
  /\ Serves(c, [s EXCEPT !.at = IF s.over THEN "finish" ELSE "wait",
                         !.first = FALSE])
  /\ Receives(c, [client[c] EXCEPT !.shown =
                    [cursor |-> s.cursor, over |-> s.over, tally |-> s.tally]])

Finish(c) == /\ At(c, "finish")
             /\ Serves(c, Closed)
             /\ Receives(c, [client[c] EXCEPT !.finished = TRUE])

(* waitForPoll; a keepalive in between has the id the client has already.  *)
Wait(c) == /\ At(c, "wait")
           /\ Serves(c, [stream[c] EXCEPT !.at = "poll", !.reads = 0,
                                          !.fresh = FALSE])
           /\ UNCHANGED client

Serve(c) == \/ Reconstruct(c) \/ Poll(c) \/ Send(c) \/ Status(c) \/ Settle(c)
            \/ Snapshot(c) \/ Finish(c) \/ Wait(c)

Next == \/ \E n \in Numbers : GoesOn(n)
        \/ \E c \in Clients :
             \/ \E from \in Cursors : Join(c, from)
             \/ Resume(c) \/ Disconnect(c) \/ Serve(c)

Spec == Init /\ [][Next]_vars

(* A client that stays connected takes what it is sent.                    *)
FairSpec == Spec /\ \A c \in Clients : WF_vars(Serve(c))
-----------------------------------------------------------------------------
(* What a client has been sent, over all its connections, is every event   *)
(* after the cursor it began with up to the one it has, each of them once. *)
EachEventOnce ==
  \A c \in Clients, n \in Numbers :
    client[c].seen[n] =
      IF n \in events /\ client[c].from < n /\ n <= client[c].cursor
      THEN 1 ELSE 0

(* "performs a final durable read before finishing a concurrently terminal *)
(* run": a snapshot is the run as of its cursor, whichever events came and *)
(* went while it was put together: it counts the events up to the cursor,  *)
(* and says that the run is over if and only if the event that ended it is *)
(* among them.  A stream finishes with such a snapshot, so with the last   *)
(* event of the run.  (No snapshot yet is the snapshot before any event.)  *)
SnapshotsAreWhole ==
  \A c \in Clients :
    LET s == client[c].shown
    IN /\ \A n \in Numbers :
            s.tally[n] = IF n \in events /\ n <= s.cursor THEN 1 ELSE 0
       /\ s.over <=> (last # 0 /\ last <= s.cursor)
       /\ client[c].finished => s.over /\ s.cursor = client[c].cursor

(* A stream of a run that is over comes to its end by itself, whatever     *)
(* cursor it was opened with.                                              *)
StreamsEnd ==
  \A c \in Clients : (last # 0 /\ stream[c].at # "closed")
                        ~> stream[c].at = "closed"
=============================================================================
