------------------------ MODULE RunEventStreamProofs ------------------------
(***************************************************************************)
(* Theorems about RunEventStream, for any number of clients, events and    *)
(* streams and any page size: a client is sent every event once, and each  *)
(* of its snapshots is the run as of one cursor.                           *)
(*                                                                         *)
(* The run and the clients meet only in the events, so the invariant is    *)
(* one of the run and, for each client, one of its stream and of what it   *)
(* has received.  An event that is appended comes after every cursor; a    *)
(* step of the generator leaves the run and the other clients alone.       *)
(***************************************************************************)
EXTENDS RunEventStream, FiniteSetTheorems, TLAPS

(* An empty page: there is no event after the cursor.                      *)
LEMMA EmptyPage ==
  ASSUME NEW cursor, IsPage({}, cursor)
  PROVE  \A e \in events : ~(e > cursor)
  BY FS_EmptySet, StreamAssumption DEF IsPage

(* A page is what comes first after the cursor.                            *)
NextEvents(E, page, cursor) ==
  /\ page \subseteq E /\ \A p \in page : p > cursor
  /\ \A p \in page, e \in E : e > cursor /\ e <= p => e \in page

(* A page holds the events that follow a cursor without a gap.             *)
LEMMA PagesAreNext ==
  ASSUME events \subseteq Numbers, NEW page, NEW cursor \in Cursors,
         IsPage(page, cursor)
  PROVE  NextEvents(events, page, cursor)
  BY StreamAssumption DEF IsPage, NextEvents, Cursors
-----------------------------------------------------------------------------
(* A tally of the events up to a cursor.                                   *)
Counts(E, tally, cursor) ==
  \A n \in Numbers : tally[n] = IF n \in E /\ n <= cursor THEN 1 ELSE 0

(* What is known of the end of the run at a cursor.                        *)
Tells(L, over, cursor) == over <=> (L # 0 /\ L <= cursor)

(* What a client has received, k.                                          *)
Received(E, L, k) ==
  /\ \E e \in E : k.cursor <= e
  /\ \E e \in E : k.shown.cursor <= e
  /\ k.from <= k.cursor
  /\ ~k.joined => k.from = k.cursor /\ ~k.finished
  /\ \A n \in Numbers :
       k.seen[n] = IF n \in E /\ k.from < n /\ n <= k.cursor THEN 1 ELSE 0
  /\ Counts(E, k.shown.tally, k.shown.cursor)
  /\ Tells(L, k.shown.over, k.shown.cursor)
  /\ k.finished => k.shown.over /\ k.shown.cursor = k.cursor

(* The stream s that serves a client with k received.                      *)
Serving(E, L, s, k) ==
  /\ s.at # "closed" => k.joined /\ ~k.finished /\ s.cursor = k.cursor
  /\ s.at \notin {"closed", "started"} => Counts(E, s.tally, s.cursor)
  /\ s.at = "replay" => NextEvents(E, s.page, s.cursor)
  /\ s.at = "settle" => /\ s.reads <= MaxReads
                        /\ s.over => L # 0
                        /\ L # 0 /\ L <= s.cursor => s.over
  /\ s.at \in {"snapshot", "finish"} => Tells(L, s.over, s.cursor)
  /\ s.at = "finish" => /\ s.over /\ k.shown.over
                        /\ k.shown.cursor = s.cursor

Inv(c) == /\ Received(events, last, client[c])
          /\ Serving(events, last, stream[c], client[c])

IInv == TypeOK /\ \A c \in Clients : Inv(c)
-----------------------------------------------------------------------------
(* No client is there at first.                                            *)
LEMMA InitInv == Init => IInv
<1> SUFFICES ASSUME Init PROVE IInv
  OBVIOUS
<1> USE StreamAssumption
<1>1. Zero \in Tallies
  BY DEF Zero, Tallies
<1>2. Closed \in Streams
  BY <1>1 DEF Closed, Streams, Cursors
<1>3. NotJoined \in Receipts
  BY <1>1 DEF NotJoined, NoSnapshot, Receipts, Snapshots, Cursors
<1>4. TypeOK
  BY <1>2, <1>3 DEF Init, TypeOK
<1>5. Received(events, last, NotJoined)
  BY DEF Init, Received, NotJoined, NoSnapshot, Zero, Counts, Tells
<1>6. Serving(events, last, Closed, NotJoined)
  BY DEF Serving, Closed
<1> QED
  BY <1>4, <1>5, <1>6 DEF Init, IInv, Inv

(* An event that is appended comes after every cursor, so nothing that was *)
(* said of the events up to a cursor changes.                              *)
LEMMA GoesOnInv ==
  ASSUME IInv, NEW n \in Numbers, GoesOn(n)
  PROVE  IInv'
<1> USE StreamAssumption
<1>1. /\ events \subseteq Numbers /\ events' = events \cup {n} /\ n \notin events
      /\ last = 0 /\ last' \in {0, n} /\ n \in Nat \ {0}
      /\ \A e \in events : n > e /\ e \in Nat
      /\ UNCHANGED <<stream, client, breaks>>
  BY DEF GoesOn, IInv, TypeOK
<1>2. TypeOK'
  BY <1>1 DEF IInv, TypeOK
<1>9. ASSUME NEW cursor \in Cursors, \E e \in events : cursor <= e
      PROVE  cursor \in Nat /\ cursor < n
  BY <1>1, <1>9 DEF Cursors
<1>3. ASSUME NEW tally \in Tallies, NEW cursor \in Cursors,
             \E e \in events : cursor <= e, Counts(events, tally, cursor)
      PROVE  Counts(events', tally, cursor)
  BY <1>1, <1>3 DEF Counts, Cursors
<1>4. ASSUME NEW over \in BOOLEAN, NEW cursor \in Cursors,
             \E e \in events : cursor <= e, Tells(last, over, cursor)
      PROVE  Tells(last', over, cursor)
  BY <1>1, <1>4 DEF Tells, Cursors
<1> SUFFICES ASSUME NEW c \in Clients PROVE Inv(c)'
  BY <1>2 DEF IInv
<1> DEFINE s == stream[c]
           k == client[c]
<1>5. /\ s \in Streams /\ k \in Receipts
      /\ Received(events, last, k) /\ Serving(events, last, s, k)
  BY DEF IInv, TypeOK, Inv
<1>6. /\ s.cursor \in Cursors /\ s.tally \in Tallies /\ s.over \in BOOLEAN
      /\ k.cursor \in Cursors /\ k.from \in Cursors /\ k.seen \in Tallies
      /\ k.shown.cursor \in Cursors /\ k.shown.over \in BOOLEAN
      /\ k.shown.tally \in Tallies
  BY <1>5 DEF Streams, Receipts, Snapshots
<1> HIDE DEF s, k
<1>10. k.cursor \in Nat /\ k.from \in Nat /\ s.cursor \in Nat
  <2>1. Cursors \subseteq Nat
    BY DEF Cursors
  <2> QED
    BY <1>6, <2>1
<1>11. k.cursor < n
  <2>1. \E e \in events : k.cursor <= e
    BY <1>5 DEF Received
  <2> QED
    BY <1>6, <1>9, <2>1
<1>7. Received(events', last', k)
  <2>1. \A m \in Numbers :
          k.seen[m] = IF m \in events' /\ k.from < m /\ m <= k.cursor THEN 1 ELSE 0
    <3>2. ASSUME NEW m \in Numbers
          PROVE  k.seen[m] = IF m \in events /\ k.from < m /\ m <= k.cursor
                             THEN 1 ELSE 0
      BY <1>5 DEF Received
    <3> QED
      BY <1>1, <1>10, <1>11, <3>2
  <2>2. Counts(events', k.shown.tally, k.shown.cursor)
    BY <1>3, <1>5, <1>6 DEF Received
  <2>3. Tells(last', k.shown.over, k.shown.cursor)
    BY <1>4, <1>5, <1>6 DEF Received
  <2> QED
    BY <1>1, <1>5, <2>1, <2>2, <2>3 DEF Received
<1>8. Serving(events', last', s, k)
  <2>1. s.at # "closed" => \E e \in events : s.cursor <= e
    BY <1>5 DEF Serving, Received
  <2>2. s.at \notin {"closed", "started"} => Counts(events', s.tally, s.cursor)
    BY <1>3, <1>5, <1>6, <2>1 DEF Serving
  <2>3. s.at = "replay" => NextEvents(events', s.page, s.cursor)
    <3> SUFFICES ASSUME s.at = "replay"
                 PROVE  NextEvents(events', s.page, s.cursor)
      OBVIOUS
    <3>1. NextEvents(events, s.page, s.cursor)
      BY <1>5 DEF Serving
    <3>2. ASSUME NEW p \in s.page PROVE p < n /\ p \in Nat
      BY <1>1, <3>1 DEF NextEvents
    <3> QED
      BY <1>1, <3>1, <3>2 DEF NextEvents
  <2>4. s.at \in {"snapshot", "finish"} => Tells(last', s.over, s.cursor)
    BY <1>4, <1>5, <1>6, <2>1 DEF Serving
  <2>5. s.at = "settle" => /\ s.over => last' # 0
                           /\ last' # 0 /\ last' <= s.cursor => s.over
    <3>1. s.at = "settle" => s.cursor < n
      BY <1>6, <1>9, <2>1
    <3> QED
      BY <1>1, <1>5, <1>10, <3>1 DEF Serving
  <2> QED
    BY <1>5, <2>2, <2>3, <2>4, <2>5 DEF Serving
<1> QED
  BY <1>1, <1>7, <1>8 DEF Inv, s, k
-----------------------------------------------------------------------------
(* A step for one client leaves the run and the others as they are.        *)
LEMMA StepOf ==
  ASSUME IInv, NEW c \in Clients, UNCHANGED run, breaks' \in 0..MaxBreaks,
         NEW s \in Streams, stream' = [stream EXCEPT ![c] = s],
         NEW k \in Receipts, client' = [client EXCEPT ![c] = k],
         Received(events, last, k), Serving(events, last, s, k)
  PROVE  IInv'
<1>1. TypeOK'
  BY DEF IInv, TypeOK, run
<1>2. stream'[c] = s /\ client'[c] = k
  BY DEF IInv, TypeOK
<1>3. ASSUME NEW d \in Clients, d # c
      PROVE  stream'[d] = stream[d] /\ client'[d] = client[d]
  BY <1>3 DEF IInv, TypeOK
<1>4. events' = events /\ last' = last
  BY DEF run
<1>5. ASSUME NEW d \in Clients PROVE Inv(d)'
  <2>1. CASE d = c
    BY <1>2, <1>4, <2>1 DEF Inv
  <2>2. CASE d # c
    BY <1>3, <1>4, <2>2 DEF Inv, IInv
  <2> QED
    BY <2>1, <2>2
<1> QED
  BY <1>1, <1>5 DEF IInv

(* What the invariant says of a client and its stream.                     *)
LEMMA OfClient ==
  ASSUME IInv, NEW c \in Clients
  PROVE  /\ stream[c] \in Streams /\ client[c] \in Receipts
         /\ Received(events, last, client[c])
         /\ Serving(events, last, stream[c], client[c])
         /\ client = [client EXCEPT ![c] = client[c]]
         /\ events \subseteq Numbers /\ last \in events \cup {0}
         /\ breaks \in 0..MaxBreaks
  BY DEF IInv, TypeOK, Inv

(* A closed stream owes nothing.                                           *)
LEMMA ClosedIsFine ==
  ASSUME NEW k PROVE Closed \in Streams /\ Serving(events, last, Closed, k)
  BY StreamAssumption DEF Closed, Streams, Serving, Zero, Tallies, Cursors
-----------------------------------------------------------------------------
(* The steps of a connection.                                              *)

(* A client connects, with or without a cursor.                            *)
LEMMA JoinInv ==
  ASSUME IInv, NEW c \in Clients, NEW from \in Cursors, Join(c, from)
  PROVE  IInv'
<1> DEFINE s == [Closed EXCEPT !.at = "started", !.cursor = from]
           k == [client[c] EXCEPT !.joined = TRUE, !.from = from,
                                  !.cursor = from]
<1>1. s \in Streams /\ k \in Receipts
  BY OfClient, ClosedIsFine DEF Streams, Receipts
<1>2. Serving(events, last, s, k)
  BY OfClient, ClosedIsFine DEF Serving, Join, Received, Streams, Receipts
<1>3. Received(events, last, k)
  BY OfClient, StreamAssumption DEF Received, Receipts, Join, Cursors
<1>4. stream' = [stream EXCEPT ![c] = s] /\ client' = [client EXCEPT ![c] = k]
  BY DEF Join, Joins
<1> HIDE DEF s, k
<1> QED
  BY <1>1, <1>2, <1>3, <1>4, StepOf, OfClient DEF Join

(* A client reconnects with the last id it received.                       *)
LEMMA ResumeInv ==
  ASSUME IInv, NEW c \in Clients, Resume(c)
  PROVE  IInv'
<1> DEFINE s == [Closed EXCEPT !.at = "started", !.cursor = client[c].cursor]
<1>1. s \in Streams
  BY OfClient, ClosedIsFine DEF Streams, Receipts
<1>2. Serving(events, last, s, client[c])
  BY ClosedIsFine DEF Serving, Resume, Streams
<1>3. stream' = [stream EXCEPT ![c] = s] /\ client' = client
  BY DEF Resume, Joins
<1> HIDE DEF s
<1> QED
  BY <1>1, <1>2, <1>3, StepOf, OfClient DEF Resume

(* A client hangs up.                                                      *)
LEMMA DisconnectInv ==
  ASSUME IInv, NEW c \in Clients, Disconnect(c)
  PROVE  IInv'
<1>1. breaks' \in 0..MaxBreaks
  BY OfClient, StreamAssumption DEF Disconnect
<1> QED
  BY <1>1, ClosedIsFine, StepOf, OfClient DEF Disconnect

-----------------------------------------------------------------------------
(* The steps of the generator.  One that sends nothing moves the stream.   *)
LEMMA Moves ==
  ASSUME IInv, NEW c \in Clients, NEW s \in Streams, Serves(c, s),
         UNCHANGED client, Serving(events, last, s, client[c])
  PROVE  IInv'
  BY StepOf, OfClient DEF Serves

(* What the server writes to a client keeps the invariant when the client  *)
(* and its stream agree afterwards.                                        *)
LEMMA SendsTo ==
  ASSUME IInv, NEW c \in Clients, NEW s \in Streams, Serves(c, s),
         NEW k \in Receipts, Receives(c, k),
         Received(events, last, k), Serving(events, last, s, k)
  PROVE  IInv'
  BY StepOf, OfClient DEF Serves, Receives

(* The snapshot for a client is put together from earlier events.          *)
LEMMA ReconstructInv ==
  ASSUME IInv, NEW c \in Clients, Reconstruct(c)
  PROVE  IInv'
<1>1. CASE Fails(c)
  BY <1>1, Moves, ClosedIsFine DEF Fails
<1>2. CASE ~Fails(c)
  <2> DEFINE tally == [n \in Numbers |->
               IF n \in events /\ n <= stream[c].cursor THEN 1 ELSE 0]
             s == [stream[c] EXCEPT !.at = "poll", !.tally = tally]
  <2>1. Serves(c, s) /\ UNCHANGED client /\ stream[c].at = "started"
    BY <1>2 DEF Reconstruct, At
  <2>2. tally \in Tallies /\ Counts(events, tally, stream[c].cursor)
    BY DEF Tallies, Counts
  <2> HIDE DEF tally
  <2>3. s \in Streams
    BY <2>2, OfClient DEF Streams
  <2>4. Serving(events, last, s, client[c])
    BY <2>1, <2>2, OfClient DEF Serving, Streams
  <2> HIDE DEF s
  <2> QED
    BY <2>1, <2>3, <2>4, Moves
<1> QED
  BY <1>1, <1>2

(* A page of events is sent.                                               *)
LEMMA PollInv ==
  ASSUME IInv, NEW c \in Clients, Poll(c)
  PROVE  IInv'
<1>1. PICK page \in SUBSET events :
        /\ IsPage(page, stream[c].cursor)
        /\ Serves(c, [stream[c] EXCEPT
                        !.at = IF page = {} THEN "status" ELSE "replay",
                        !.page = page])
  BY DEF Poll
<1> DEFINE s == [stream[c] EXCEPT
                   !.at = IF page = {} THEN "status" ELSE "replay",
                   !.page = page]
<1>2. stream[c].at = "poll" /\ UNCHANGED client
  BY DEF Poll, At
<1>3. NextEvents(events, page, stream[c].cursor)
  BY <1>1, PagesAreNext, OfClient DEF Streams
<1>4. s \in Streams
  BY OfClient DEF Streams
<1>5. Serving(events, last, s, client[c])
  BY <1>2, <1>3, OfClient DEF Serving, Streams
<1> HIDE DEF s
<1> QED
  BY <1>1, <1>2, <1>4, <1>5, Moves DEF s

(* The status of the run is read.                                          *)
LEMMA StatusInv ==
  ASSUME IInv, NEW c \in Clients, Status(c)
  PROVE  IInv'
<1>1. CASE Fails(c)
  BY <1>1, Moves, ClosedIsFine DEF Fails
<1>2. CASE ~Fails(c)
  <2> DEFINE s == [stream[c] EXCEPT !.at = "settle", !.over = last # 0]
  <2>1. /\ Serves(c, s) /\ UNCHANGED client /\ stream[c].at = "status"
        /\ stream[c].reads <= MaxReads
    BY <1>2 DEF Status, At
  <2>2. s \in Streams
    BY OfClient DEF Streams
  <2>3. Serving(events, last, s, client[c])
    BY <2>1, OfClient DEF Serving, Streams
  <2> HIDE DEF s
  <2> QED
    BY <2>1, <2>2, <2>3, Moves
<1> QED
  BY <1>1, <1>2

(* The stream of a finished run is closed.                                 *)
LEMMA FinishInv ==
  ASSUME IInv, NEW c \in Clients, Finish(c)
  PROVE  IInv'
<1> DEFINE k == [client[c] EXCEPT !.finished = TRUE]
<1>1. Serves(c, Closed) /\ Receives(c, k) /\ stream[c].at = "finish"
  BY DEF Finish, At
<1>2. k \in Receipts
  BY OfClient DEF Receipts
<1>3. Received(events, last, k)
  BY <1>1, OfClient DEF Received, Serving, Receipts, Streams
<1> HIDE DEF k
<1> QED
  BY <1>1, <1>2, <1>3, ClosedIsFine, SendsTo

(* An empty page: the stream waits for the next poll.                      *)
LEMMA WaitInv ==
  ASSUME IInv, NEW c \in Clients, Wait(c)
  PROVE  IInv'
<1> DEFINE s == [stream[c] EXCEPT !.at = "poll", !.reads = 0, !.fresh = FALSE]
<1>1. Serves(c, s) /\ UNCHANGED client /\ stream[c].at = "wait"
  BY DEF Wait, At
<1>2. s \in Streams
  <2>1. 0 \in 0..(MaxReads + 1)
    BY StreamAssumption
  <2> QED
    BY <2>1, OfClient DEF Streams
<1>3. Serving(events, last, s, client[c])
  BY <1>1, OfClient DEF Serving, Streams
<1> HIDE DEF s
<1> QED
  BY <1>1, <1>2, <1>3, Moves

(* After an empty page there is no event after the cursor: what was read   *)
(* of the run before it is the run as of the cursor.                       *)
LEMMA SettleInv ==
  ASSUME IInv, NEW c \in Clients, Settle(c)
  PROVE  IInv'
<1> DEFINE cursor == stream[c].cursor
<1>1. /\ stream[c].at = "settle" /\ UNCHANGED client
      /\ cursor \in Cursors /\ stream[c].reads \in 0..MaxReads
  BY OfClient, StreamAssumption DEF Settle, At, Streams, Serving
<1>2. PICK page \in SUBSET events :
        /\ IsPage(page, cursor)
        /\ \/ /\ page # {}
              /\ Serves(c, [stream[c] EXCEPT !.at = "replay", !.page = page,
                                             !.reads = @ + 1])
           \/ /\ page = {}
              /\ Serves(c, [stream[c] EXCEPT
                   !.at = IF stream[c].first \/ stream[c].fresh \/ stream[c].over
                          THEN "snapshot" ELSE "wait"])
  BY DEF Settle
<1>3. CASE page # {}
  <2> DEFINE reads == stream[c].reads + 1
             s == [stream[c] EXCEPT !.at = "replay", !.page = page,
                                    !.reads = reads]
  <2>1. Serves(c, s)
    BY <1>2, <1>3
  <2>2. NextEvents(events, page, cursor)
    BY <1>1, <1>2, PagesAreNext, OfClient
  <2>3. reads \in 0..(MaxReads + 1)
    BY <1>1, StreamAssumption
  <2> HIDE DEF reads
  <2>4. s \in Streams
    BY <2>3, OfClient DEF Streams
  <2>5. Serving(events, last, s, client[c])
    BY <1>1, <2>2, OfClient DEF Serving, Streams
  <2> HIDE DEF s
  <2> QED
    BY <1>1, <2>1, <2>4, <2>5, Moves
<1>4. CASE page = {}
  <2> DEFINE s == [stream[c] EXCEPT
                    !.at = IF stream[c].first \/ stream[c].fresh \/ stream[c].over
                           THEN "snapshot" ELSE "wait"]
  <2>1. Serves(c, s)
    BY <1>2, <1>4
  <2>2. last # 0 => last <= cursor
    <3>1. \A e \in events : ~(e > cursor)
      BY <1>2, <1>4, EmptyPage
    <3>2. Cursors \subseteq Nat /\ last \in Cursors
      BY StreamAssumption, OfClient DEF Cursors
    <3> QED
      BY <1>1, <3>1, <3>2, OfClient
  <2>3. Tells(last, stream[c].over, cursor)
    BY <1>1, <2>2, OfClient DEF Serving, Tells
  <2>4. s \in Streams
    BY OfClient DEF Streams
  <2>5. Serving(events, last, s, client[c])
    BY <1>1, <2>3, OfClient DEF Serving, Streams
  <2> HIDE DEF s
  <2> QED
    BY <1>1, <2>1, <2>4, <2>5, Moves
<1> QED
  BY <1>3, <1>4

(* A tally of the events between two cursors, and the next event.          *)
LEMMA OneMore ==
  ASSUME NEW from \in Cursors, NEW cursor \in Cursors, NEW e \in Numbers,
         NEW tally \in Tallies, e \in events,
         from <= cursor, cursor < e,
         \A d \in events : d <= e <=> d <= cursor \/ d = e,
         \A n \in Numbers :
           tally[n] = IF n \in events /\ from < n /\ n <= cursor THEN 1 ELSE 0
  PROVE  LET more == [tally EXCEPT ![e] = @ + 1]
         IN /\ more \in Tallies
            /\ \A n \in Numbers :
                 more[n] = IF n \in events /\ from < n /\ n <= e THEN 1 ELSE 0
<1> DEFINE more == [tally EXCEPT ![e] = @ + 1]
<1>1. Numbers \subseteq Nat /\ from \in Nat /\ cursor \in Nat /\ e \in Nat
  BY StreamAssumption DEF Cursors
<1>2. more \in Tallies
  BY DEF Tallies
<1>3. tally[e] = 0
  BY <1>1
<1>4. ASSUME NEW n \in Numbers
      PROVE  more[n] = IF n \in events /\ from < n /\ n <= e THEN 1 ELSE 0
  <2>1. CASE n = e
    <3>1. more[n] = 1
      BY <1>3, <2>1 DEF Tallies
    <3>2. from < n /\ n <= e
      BY <1>1, <2>1
    <3> QED
      BY <2>1, <3>1, <3>2
  <2>2. CASE n # e
    <3>1. more[n] = tally[n]
      BY <2>2 DEF Tallies
    <3>2. n \in events => (n <= e <=> n <= cursor)
      BY <2>2
    <3> HIDE DEF more
    <3> QED
      BY <3>1, <3>2
  <2> QED
    BY <2>1, <2>2
<1> QED
  BY <1>2, <1>4

(* The first event of the page is the only one from the cursor up to it.   *)
LEMMA SendInv ==
  ASSUME IInv, NEW c \in Clients, Send(c)
  PROVE  IInv'
<1>1. stream[c].at = "replay"
  BY DEF Send, At
<1>2. PICK e \in stream[c].page :
        LET rest == stream[c].page \ {e}
        IN /\ \A d \in rest : e < d
           /\ Serves(c, [stream[c] EXCEPT
                !.at = IF rest = {} THEN "status" ELSE "replay",
                !.page = rest, !.cursor = e, !.fresh = TRUE,
                !.tally[e] = @ + 1])
           /\ Receives(c, [client[c] EXCEPT !.cursor = e, !.seen[e] = @ + 1])
  BY DEF Send
<1> DEFINE rest == stream[c].page \ {e}
           tally == [stream[c].tally EXCEPT ![e] = @ + 1]
           seen == [client[c].seen EXCEPT ![e] = @ + 1]
           s == [stream[c] EXCEPT
                  !.at = IF rest = {} THEN "status" ELSE "replay",
                  !.page = rest, !.cursor = e, !.fresh = TRUE,
                  !.tally = tally]
           k == [client[c] EXCEPT !.cursor = e, !.seen = seen]
           cursor == stream[c].cursor
<1>3. Serves(c, s) /\ Receives(c, k)
  BY <1>2
<1>4. /\ stream[c] \in Streams /\ client[c] \in Receipts
      /\ cursor \in Cursors /\ client[c].from \in Cursors
      /\ stream[c].tally \in Tallies /\ client[c].seen \in Tallies
  BY OfClient DEF Streams, Receipts
<1>5. /\ client[c].joined /\ ~client[c].finished /\ client[c].cursor = cursor
      /\ NextEvents(events, stream[c].page, cursor)
      /\ Counts(events, stream[c].tally, cursor)
  BY <1>1, OfClient DEF Serving
<1>6. /\ events \subseteq Numbers /\ Numbers \subseteq Nat
      /\ Cursors \subseteq Nat /\ 0 \in Cursors
  BY OfClient, StreamAssumption DEF Cursors
<1>7. /\ e \in events /\ e > cursor
      /\ \A d \in events : d <= e <=> d <= cursor \/ d = e
  <2>1. e \in events /\ e > cursor
    BY <1>5 DEF NextEvents
  <2>2. ASSUME NEW d \in events, d <= e, d > cursor PROVE d = e
    <3>1. d \in stream[c].page
      BY <1>5, <2>2 DEF NextEvents
    <3>2. d \in rest => e < d
      BY <1>2
    <3> QED
      BY <1>6, <2>1, <2>2, <3>1, <3>2
  <2> QED
    BY <1>4, <1>6, <2>1, <2>2
<1>8. tally \in Tallies /\ Counts(events, tally, e)
  <2>1. \A n \in Numbers : 0 < n
    BY StreamAssumption
  <2>2. 0 \in Cursors /\ 0 <= cursor
    <3> HIDE DEF cursor
    <3>1. cursor \in Nat
      BY <1>4, <1>6
    <3> QED
      BY <1>6, <3>1
  <2>3. \A n \in Numbers : stream[c].tally[n] =
          IF n \in events /\ 0 < n /\ n <= cursor THEN 1 ELSE 0
    BY <1>5, <2>1 DEF Counts
  <2>4. cursor < e /\ e \in Numbers
    BY <1>4, <1>6, <1>7
  <2> HIDE DEF cursor
  <2>5. /\ tally \in Tallies
        /\ \A n \in Numbers :
             tally[n] = IF n \in events /\ 0 < n /\ n <= e THEN 1 ELSE 0
    BY <1>4, <1>7, <2>2, <2>3, <2>4, OneMore
  <2> QED
    BY <2>1, <2>5 DEF Counts
<1>9. /\ client[c].from <= cursor /\ client[c].from <= e
      /\ cursor < e /\ e \in Numbers
  <2>1. client[c].from <= cursor
    BY <1>5, OfClient DEF Received
  <2>2. e \in Nat /\ cursor \in Nat /\ client[c].from \in Nat
    BY <1>4, <1>6, <1>7
  <2> QED
    BY <1>6, <1>7, <2>1, <2>2
<1>10. /\ seen \in Tallies
       /\ \A n \in Numbers :
            seen[n] = IF n \in events /\ client[c].from < n /\ n <= e
                      THEN 1 ELSE 0
  <2>1. \A n \in Numbers :
          client[c].seen[n] =
            IF n \in events /\ client[c].from < n /\ n <= cursor THEN 1 ELSE 0
    BY <1>5, OfClient DEF Received
  <2> HIDE DEF cursor
  <2> QED
    BY <1>4, <1>7, <1>9, <2>1, OneMore
<1>11. NextEvents(events, rest, e)
  BY <1>2, <1>4, <1>5, <1>6, <1>7 DEF NextEvents
<1> HIDE DEF rest, tally, seen
<1>12. s \in Streams /\ k \in Receipts
  <2>1. rest \in SUBSET Numbers /\ e \in Cursors
    BY <1>6, <1>7, <1>11 DEF NextEvents, Cursors
  <2> QED
    BY <1>4, <1>8, <1>10, <2>1 DEF Streams, Receipts
<1>13. Serving(events, last, s, k)
  BY <1>4, <1>5, <1>8, <1>11 DEF Serving, Streams, Receipts
<1>14. Received(events, last, k)
  <2>1. client[c].from <= e /\ e <= e
    BY <1>6, <1>7, <1>9
  <2>2. /\ k.cursor = e /\ k.seen = seen /\ k.from = client[c].from
        /\ k.joined /\ ~k.finished /\ k.shown = client[c].shown
    BY <1>4, <1>5 DEF Receipts
  <2> HIDE DEF k
  <2> QED
    BY <1>7, <1>10, <2>1, <2>2, OfClient DEF Received
<1> HIDE DEF s, k
<1> QED
  BY <1>3, <1>12, <1>13, <1>14, SendsTo

(* The snapshot is sent.                                                   *)
LEMMA SnapshotInv ==
  ASSUME IInv, NEW c \in Clients, Snapshot(c)
  PROVE  IInv'
<1> DEFINE s == [stream[c] EXCEPT
                  !.at = IF stream[c].over THEN "finish" ELSE "wait",
                  !.first = FALSE]
           shown == [cursor |-> stream[c].cursor, over |-> stream[c].over,
                     tally |-> stream[c].tally]
           k == [client[c] EXCEPT !.shown = shown]
<1>1. Serves(c, s) /\ Receives(c, k) /\ stream[c].at = "snapshot"
  BY DEF Snapshot, At
<1>2. /\ stream[c] \in Streams /\ client[c] \in Receipts
      /\ Tells(last, stream[c].over, stream[c].cursor)
      /\ Counts(events, stream[c].tally, stream[c].cursor)
      /\ client[c].joined /\ ~client[c].finished
      /\ client[c].cursor = stream[c].cursor
  BY <1>1, OfClient DEF Serving
<1>3. s \in Streams /\ k \in Receipts
  <2>1. shown \in Snapshots
    BY <1>2 DEF Streams, Snapshots
  <2> HIDE DEF shown
  <2> QED
    BY <1>2, <2>1 DEF Streams, Receipts
<1>4. /\ k.cursor = client[c].cursor /\ k.seen = client[c].seen
      /\ k.from = client[c].from /\ k.joined /\ ~k.finished
      /\ k.shown = shown
  BY <1>2 DEF Receipts
<1>5. Serving(events, last, s, k)
  BY <1>2, <1>4 DEF Serving, Streams
<1>6. Received(events, last, k)
  <2> HIDE DEF k
  <2> QED
    BY <1>2, <1>4, OfClient DEF Received
<1> HIDE DEF s, k
<1> QED
  BY <1>1, <1>3, <1>5, <1>6, SendsTo
-----------------------------------------------------------------------------
(* Every step keeps the invariant.                                         *)
LEMMA NextInv == IInv /\ [Next]_vars => IInv'
<1> SUFFICES ASSUME IInv, [Next]_vars PROVE IInv'
  OBVIOUS
<1>1. ASSUME NEW n \in Numbers, GoesOn(n) PROVE IInv'
  BY <1>1, GoesOnInv
<1>2. ASSUME NEW c \in Clients, NEW from \in Cursors, Join(c, from)
      PROVE  IInv'
  BY <1>2, JoinInv
<1>3. ASSUME NEW c \in Clients, Resume(c) \/ Disconnect(c) PROVE IInv'
  BY <1>3, ResumeInv, DisconnectInv
<1>4. ASSUME NEW c \in Clients, Serve(c) PROVE IInv'
  BY <1>4, ReconstructInv, PollInv, SendInv, StatusInv, SettleInv,
     SnapshotInv, FinishInv, WaitInv DEF Serve
<1>5. CASE UNCHANGED vars
  BY <1>5 DEF vars, run, IInv, TypeOK, Inv
<1> QED
  BY <1>1, <1>2, <1>3, <1>4, <1>5 DEF Next

(* The inductive invariant of the stream.                                  *)
LEMMA InvAlways == Spec => []IInv
  BY InitInv, NextInv, PTL DEF Spec

(* The events, the streams and what the clients received keep their types; *)
(* in particular no poll reads a run that does not stabilize more often    *)
(* than the code allows.                                                   *)
THEOREM StreamTypeCorrect == Spec => []TypeOK
<1>1. IInv => TypeOK
  BY DEF IInv
<1> QED
  BY <1>1, InvAlways, PTL

(* Over all its connections a client is sent every event after the cursor  *)
(* it began with once, whatever was appended meanwhile and whenever its    *)
(* connections broke.                                                      *)
THEOREM EventsComeOnce == Spec => []EachEventOnce
<1>1. IInv => EachEventOnce
  BY DEF IInv, Inv, Received, EachEventOnce
<1> QED
  BY <1>1, InvAlways, PTL

(* What a snapshot says of the run and of its events belongs to one        *)
(* cursor, although the run, its events and the answer are read at         *)
(* different times; a stream only finishes at the last event of the run.   *)
THEOREM SnapshotsAreOfOneCursor == Spec => []SnapshotsAreWhole
<1>1. IInv => SnapshotsAreWhole
  BY DEF IInv, Inv, Received, Counts, Tells, SnapshotsAreWhole
<1> QED
  BY <1>1, InvAlways, PTL
=============================================================================
