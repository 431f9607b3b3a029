--------------------------- MODULE SandboxProvider --------------------------
(***************************************************************************)
(* The sandboxes that the Daytona provider (src/src/adapters/daytona/      *)
(* daytona-sandbox.ts) makes for the build worker (create, createVerifier) *)
(* and for the customer (materializeFrozenPreview).  A request takes a     *)
(* permit of its role, creates a sandbox or finds the one of an earlier    *)
(* request, initializes it and hands it out; whatever it throws on the     *)
(* way, it gives the permit back and deletes what it made.  Requests about *)
(* one proven event take turns, but the timer that deletes a preview when  *)
(* it has expired takes no turn.                                           *)
(*                                                                         *)
(* One life of the process: a preview of an earlier one is there from the  *)
(* start, without a timer.                                                 *)
(***************************************************************************)
EXTENDS Naturals, Sequences, FiniteSets

CONSTANTS Builds,       \* calls of create or createVerifier
          Previews,     \* calls of materializeFrozenPreview
          Events,       \* proven events
          EventOf,      \* the event a preview is of
          Attempts,     \* MAX_DOCKER_SANDBOX_INITIALIZATION_ATTEMPTS
          limits,       \* the permits of a role
          None,
          Generations,  \* bound: sandboxes made for one event, in turn
          MaxFaults     \* bound: calls of the provider that fail

(* The three roles of builds are handled alike.                            *)
Requests == Builds \cup Previews
Roles    == {"builder", "frozen-preview"}
Tickets  == (Builds \X (1..Attempts)) \cup (Previews \X {1})

ASSUME ProviderAssumption ==
  /\ EventOf \in [Previews -> Events]
  /\ {Attempts, Generations, MaxFaults} \subseteq Nat /\ Attempts > 0
  /\ Builds \cap (Previews \cup Events) = {} /\ Previews \cap Events = {}
  /\ None \notin (Builds \cup Events) \X Nat
  /\ limits \in [Roles -> 1..100]

VARIABLES
  req,      \* the requests
  chain,    \* #frozenPreviewOperations: the unsettled previews of an event
  boxes,    \* the sandboxes, as Daytona has them
  timers,   \* #frozenPreviewCleanupTimers
  cleaning, \* the previews whose timer fired and that are being deleted
  handed,   \* the sandboxes handed out: previews until their URL expires
  alive,    \* the process runs
  faults,
  active, pending, lease, aborted   \* the acquisition queue

queue == <<active, pending, lease, aborted>>
vars  == <<req, chain, boxes, timers, cleaning, handed, alive, faults, queue>>

Queue    == INSTANCE AcquisitionQueue
              WITH RoleOf <- [t \in Tickets |-> IF t[1] \in Builds
                                                THEN "builder"
                                                ELSE "frozen-preview"]

Frozen == Events \X (1..Generations)
Boxes  == (Builds \X (1..Attempts)) \cup Frozen

Labels == {"idle", "chained", "start", "queued", "observe", "find", "create",
           "claim", "init", "probe", "cleanup", "undo", "again",
           "done", "failed"}
Ended  == {"done", "failed"}

TypeOK ==
  /\ req \in [Requests -> [at : Labels, n : 1..Attempts,
                           box : Boxes \cup {None}, mine : BOOLEAN]]
  /\ chain \in [Events -> Seq(Previews)]
  /\ boxes \in [Boxes -> {"absent", "up", "gone"}]
  /\ timers \subseteq Frozen /\ cleaning \subseteq Frozen
  /\ handed \subseteq Boxes
  /\ alive \in BOOLEAN /\ faults \in 0..MaxFaults
  /\ Queue!TypeOK

Init == /\ req = [r \in Requests |-> [at |-> "idle", n |-> 1, box |-> None,
                                      mine |-> FALSE]]
        /\ chain = [e \in Events |-> <<>>]
        /\ \E left \in SUBSET {<<e, 1>> : e \in Events} :
             boxes = [x \in Boxes |-> IF x \in left THEN "up" ELSE "absent"]
        /\ timers = {} /\ cleaning = {} /\ handed = {}
        /\ alive = TRUE /\ faults = 0
        /\ Queue!Init
-----------------------------------------------------------------------------
Ticket(r)  == <<r, req[r].n>>
Aborted(r) == \E t \in aborted : t[1] = r

At(r, l)   == alive /\ req[r].at = l
GoesTo(r, l) == req' = [req EXCEPT ![r].at = l]
Takes(r, x, mine, l) == req' = [req EXCEPT ![r].at = l, ![r].box = x,
                                           ![r].mine = mine]

(* A call fails: by itself, or because the signal of the request is used.  *)
Fault    == faults < MaxFaults /\ faults' = faults + 1
Fails(r) == Fault \/ (Aborted(r) /\ UNCHANGED faults)

Becomes(x, s) == boxes' = [boxes EXCEPT ![x] = s]

(* A preview that ends lets the next one about its event go on.            *)
Settles(r) == chain' = IF r \in Previews
                       THEN [chain EXCEPT ![EventOf[r]] = Tail(@)]
                       ELSE chain

(* The finally clauses; a request that had no permit gives none back.      *)
Throws(r) == GoesTo(r, "failed") /\ Settles(r) /\ UNCHANGED queue

\* Faulty variant: a preview that fails does not let the next one go on.
ThrowsWithPermit_HoldsTheTurn(r) ==
  GoesTo(r, "failed") /\ UNCHANGED chain /\ Queue!Release(Ticket(r))

ThrowsWithPermit(r) ==
  GoesTo(r, "failed") /\ Settles(r) /\ Queue!Release(Ticket(r))

previewVars == <<timers, cleaning, handed>>
unwatched   == <<previewVars, alive>>
-----------------------------------------------------------------------------
(* create, createVerifier, and materializeFrozenPreview, which waits for   *)
(* the earlier ones about its event.                                       *)
Begin(r) ==
  /\ At(r, "idle")
  /\ IF r \in Builds
       THEN GoesTo(r, "start") /\ UNCHANGED chain
       ELSE /\ GoesTo(r, "chained")
            /\ chain' = [chain EXCEPT ![EventOf[r]] = Append(@, r)]
  /\ UNCHANGED <<boxes, unwatched, faults, queue>>

\* Faulty variant: requests about one event do not take turns.
MayStart_NoTurns(r) == alive /\ req[r].at \in {"start", "chained"}

MayStart(r) == \/ r \in Builds /\ At(r, "start")
               \/ /\ r \in Previews /\ At(r, "chained")
                  /\ Head(chain[EventOf[r]]) = r

Start(r) ==
  /\ MayStart(r)
  /\ \/ Aborted(r) /\ Throws(r)
     \/ /\ ~Aborted(r) /\ Queue!Acquire(Ticket(r))
        /\ GoesTo(r, "queued") /\ UNCHANGED chain
  /\ UNCHANGED <<boxes, unwatched, faults>>

(* The promise of acquire is settled; its rejection is thrown outside the  *)
(* try block that gives the permit back.                                   *)
Proceed(r) ==
  /\ At(r, "queued")
  /\ \/ /\ lease[Ticket(r)] = "granted"
        /\ GoesTo(r, IF r \in Builds THEN "observe" ELSE "find")
        /\ UNCHANGED <<chain, queue>>
     \/ lease[Ticket(r)] = "rejected" /\ Throws(r)
  /\ UNCHANGED <<boxes, unwatched, faults>>

\* Faulty variant: the observation of the warm pool is outside the try block.
Observe_OutsideTry(b) ==
  /\ At(b, "observe")
  /\ \/ GoesTo(b, "create") /\ UNCHANGED <<chain, queue>>
     \/ Aborted(b) /\ Throws(b)
  /\ UNCHANGED <<boxes, unwatched, faults>>

(* #createSandbox: the warm pool is observed, which may fail or be left    *)
(* out, ...                                                                *)
Observe(b) ==
  /\ At(b, "observe")
  /\ \/ GoesTo(b, "create") /\ UNCHANGED <<chain, queue>>
     \/ Aborted(b) /\ ThrowsWithPermit(b)
  /\ UNCHANGED <<boxes, unwatched, faults>>

(* ... the sandbox is created, whatever the signal says, ...               *)
Create(b) ==
  LET x == Ticket(b) IN
  /\ At(b, "create")
  /\ \/ /\ Becomes(x, "up") /\ Takes(b, x, TRUE, "claim")
        /\ UNCHANGED <<chain, queue, faults>>
     \/ /\ Fault /\ ThrowsWithPermit(b)
        /\ \E s \in {"absent", "up"} : Becomes(x, s)
  /\ UNCHANGED unwatched

(* ... and its identity and environment are verified.                      *)
Claim(b) ==
  /\ At(b, "claim")
  /\ \/ /\ ~Aborted(b) /\ GoesTo(b, "init") /\ Queue!Release(Ticket(b))
        /\ UNCHANGED faults
     \/ Fails(b) /\ GoesTo(b, "cleanup") /\ UNCHANGED queue
  /\ UNCHANGED <<chain, boxes, unwatched>>

\* Faulty variant: a sandbox that could not be initialized is not undone.
Initialize_NoUndo(b) ==
  /\ At(b, "init")
  /\ \/ /\ GoesTo(b, "done")
        /\ handed' = handed \cup {req[b].box} /\ UNCHANGED faults
     \/ /\ Fails(b) /\ UNCHANGED handed
        /\ \E l \in {"failed", "again"} : GoesTo(b, l)
  /\ UNCHANGED <<chain, boxes, timers, cleaning, alive, queue>>

(* initializeDaytonaSandboxWithDockerRetry: Docker may be tried again in a *)
(* sandbox of its own.  A verifier looks last at its revision, whatever    *)
(* the signal says, and may be handed out after an abort.                  *)
Initialize(b) ==
  /\ At(b, "init")
  /\ \/ /\ GoesTo(b, "done")
        /\ handed' = handed \cup {req[b].box} /\ UNCHANGED faults
     \/ /\ Fails(b) /\ UNCHANGED handed
        /\ \E l \in {"undo", "again"} : GoesTo(b, l)
  /\ UNCHANGED <<chain, boxes, timers, cleaning, alive, queue>>

Undo(b) ==
  /\ req[b].at \in {"undo", "again"} /\ alive
  /\ \/ /\ Becomes(req[b].box, "gone") /\ UNCHANGED faults
        /\ IF req[b].at = "again" /\ req[b].n < Attempts /\ ~Aborted(b)
             THEN req' = [req EXCEPT ![b] = [at |-> "start", n |-> @.n + 1,
                                             box |-> None, mine |-> FALSE]]
             ELSE GoesTo(b, "failed")
     \/ Fault /\ GoesTo(b, "failed") /\ UNCHANGED boxes
  /\ UNCHANGED <<chain, unwatched, queue>>

(* cleanupFailedDaytonaSandbox, by a request that still has its permit;    *)
(* it gives up after three attempts.                                       *)
Cleanup(r) ==
  /\ At(r, "cleanup") /\ ThrowsWithPermit(r)
  /\ \/ Becomes(req[r].box, "gone") /\ UNCHANGED faults
     \/ Fault /\ UNCHANGED boxes
  /\ UNCHANGED unwatched
-----------------------------------------------------------------------------
(* #materializeFrozenPreview: the sandbox of the event is looked up, ...   *)
Up(e) == {x \in Frozen : x[1] = e /\ boxes[x] = "up"}

Find(p) ==
  LET found == Up(EventOf[p]) IN
  /\ At(p, "find")
  /\ \/ /\ found = {} /\ GoesTo(p, "create")
        /\ UNCHANGED <<chain, queue, faults>>
     \/ /\ \E x \in found : Takes(p, x, FALSE, "init")
        /\ UNCHANGED <<chain, queue, faults>>
     \/ Fails(p) /\ ThrowsWithPermit(p)
  /\ UNCHANGED <<boxes, unwatched>>

(* ... or created; one whose creation was not answered is found by name,   *)
(* and is not deleted by this request.  An abort does not wait for the     *)
(* answer.                                                                 *)
CreatePreview(p) ==
  LET e == EventOf[p] IN
  /\ At(p, "create")
  /\ \E g \in 1..Generations :
       LET x == <<e, g>> IN
       /\ boxes[x] = "absent"
       /\ \A h \in 1..(g - 1) : boxes[<<e, h>>] = "gone"
       /\ \/ /\ Becomes(x, "up") /\ Takes(p, x, TRUE, "init")
             /\ UNCHANGED <<chain, queue, faults>>
          \/ /\ Fault /\ ~Aborted(p)
             /\ Becomes(x, "up") /\ Takes(p, x, FALSE, "init")
             /\ UNCHANGED <<chain, queue>>
          \/ /\ Fails(p) /\ ThrowsWithPermit(p)
             /\ \E s \in {"absent", "up"} : Becomes(x, s)
  /\ UNCHANGED unwatched

(* What a failed preview does with its sandbox.                            *)
Abandons(p) ==
  IF req[p].mine
    THEN /\ GoesTo(p, "cleanup") /\ timers' = timers \ {req[p].box}
         /\ UNCHANGED <<chain, queue>>
    ELSE ThrowsWithPermit(p) /\ UNCHANGED timers

(* The sandbox is labelled, started, given its time to live, and the image *)
(* runs in it; then its URL is signed and probed.                          *)
Materialize(p) ==
  /\ At(p, "init")
  /\ \/ /\ ~Aborted(p) /\ boxes[req[p].box] = "up" /\ GoesTo(p, "probe")
        /\ UNCHANGED <<timers, chain, queue, faults>>
     \/ /\ Abandons(p)
        /\ Fails(p) \/ (boxes[req[p].box] = "gone" /\ UNCHANGED faults)
  /\ UNCHANGED <<boxes, cleaning, handed, alive>>

\* Faulty variant: only the request that made the sandbox schedules its end.
Probe_MakerSchedules(p) ==
  LET x == req[p].box IN
  /\ At(p, "probe")
  /\ \/ /\ ~Aborted(p) /\ boxes[x] = "up"
        /\ GoesTo(p, "done") /\ Settles(p) /\ Queue!Release(Ticket(p))
        /\ timers' = IF req[p].mine THEN timers \cup {x} ELSE timers
        /\ handed' = handed \cup {x} /\ UNCHANGED faults
     \/ /\ Abandons(p) /\ UNCHANGED handed
        /\ Fails(p) \/ (boxes[x] = "gone" /\ UNCHANGED faults)
  /\ UNCHANGED <<boxes, cleaning, alive>>

(* #scheduleFrozenPreviewCleanup replaces an earlier timer of the sandbox. *)
Probe(p) ==
  LET x == req[p].box IN
  /\ At(p, "probe")
  /\ \/ /\ ~Aborted(p) /\ boxes[x] = "up"
        /\ GoesTo(p, "done") /\ Settles(p) /\ Queue!Release(Ticket(p))
        /\ timers' = timers \cup {x} /\ handed' = handed \cup {x}
        /\ UNCHANGED faults
     \/ /\ Abandons(p) /\ UNCHANGED handed
        /\ Fails(p) \/ (boxes[x] = "gone" /\ UNCHANGED faults)
  /\ UNCHANGED <<boxes, cleaning, alive>>
-----------------------------------------------------------------------------
(* The time a preview was asked for is over.                               *)
UrlExpires(x) ==
  /\ x \in handed \cap Frozen /\ handed' = handed \ {x}
  /\ UNCHANGED <<req, chain, boxes, timers, cleaning, alive, faults, queue>>

(* The timer runs a little longer than the URL it was set for.             *)
TimerFires(x) ==
  /\ alive /\ x \in timers \ handed
  /\ timers' = timers \ {x} /\ cleaning' = cleaning \cup {x}
  /\ UNCHANGED <<req, chain, boxes, handed, alive, faults, queue>>

(* #cleanupFrozenPreview.  Nobody catches what it throws when the sandbox  *)
(* cannot be deleted, which ends the process; whether one that is gone can *)
(* be deleted again is up to Daytona.                                      *)
CleanPreview(x) ==
  /\ alive /\ x \in cleaning
  /\ \/ /\ Becomes(x, "gone") /\ cleaning' = cleaning \ {x}
        /\ UNCHANGED <<alive, faults>>
     \/ /\ Fault \/ (boxes[x] = "gone" /\ UNCHANGED faults)
        /\ alive' = FALSE /\ UNCHANGED <<boxes, cleaning>>
  /\ UNCHANGED <<req, chain, timers, handed, queue>>

(* The time to live that Daytona keeps itself; it is set, longer than the  *)
(* timer, while the sandbox is initialized.                                *)
Using(x) == {r \in Requests : req[r].box = x /\ req[r].at \notin Ended}
TimeToLive(x) ==
  /\ boxes[x] = "up" /\ x \notin handed \cup timers
  /\ ~alive \/ \A r \in Using(x) : r \in Previews /\ req[r].at = "init"
                                   /\ ~req[r].mine
  /\ Becomes(x, "gone")
  /\ UNCHANGED <<req, chain, unwatched, faults, queue>>

(* The signal of a request: its run is cancelled, its client hangs up.     *)
Abort(r) ==
  /\ alive /\ req[r].at \notin Ended /\ ~Aborted(r)
  /\ Queue!Abort(Ticket(r))
  /\ UNCHANGED <<req, chain, boxes, unwatched, faults>>

BuildStep(b)   == Observe(b) \/ Create(b) \/ Claim(b) \/ Initialize(b) \/ Undo(b)
PreviewStep(p) == Find(p) \/ CreatePreview(p) \/ Materialize(p) \/ Probe(p)
Step(r) == \/ Start(r) \/ Proceed(r) \/ Cleanup(r)
           \/ r \in Builds /\ BuildStep(r)
           \/ r \in Previews /\ PreviewStep(r)

Next == \/ \E r \in Requests : Begin(r) \/ Step(r) \/ Abort(r)
        \/ \E x \in Frozen : UrlExpires(x) \/ TimerFires(x) \/ CleanPreview(x)
        \/ \E x \in Boxes : TimeToLive(x)

Spec == Init /\ [][Next]_vars

(* Every call is answered or fails, and timers fire.                       *)
Fairness == /\ \A r \in Requests : WF_vars(Step(r))
            /\ \A x \in Frozen : WF_vars(UrlExpires(x)) /\ WF_vars(TimerFires(x))
                                 /\ WF_vars(CleanPreview(x))
FairSpec == Spec /\ Fairness
-----------------------------------------------------------------------------
(* The provider is a client of the queue of sandbox permits: it implements *)
(* its specification.                                                      *)
UsesQueue == Queue!Spec

(* However requests end and whenever they are aborted, a role has as many  *)
(* active permits as requests hold one, within its limit.                  *)
PermitsAreConserved == Queue!PermitsAreConserved

(* Nobody who waits for a permit is forgotten, or waits while one is free. *)
LineIsExact == Queue!LineIsExact

(* No permit outlives the request that took it, or the attempt: every      *)
(* early return and every exception between acquire and the hand-out gives *)
(* it back.                                                                *)
PermitsAreInUse ==
  \A t \in Tickets : lease[t] = "granted" =>
    LET r == t[1] IN
    /\ t = Ticket(r)
    /\ req[r].at \in {"queued", "observe", "find", "create", "claim", "cleanup"}
                       \cup (IF r \in Previews THEN {"init", "probe"} ELSE {})

(* A sandbox of a build is left to nobody only by the failure of the very  *)
(* call that was to create or to delete it: whatever else fails, of this   *)
(* request or of others, and whenever a request is aborted, it is deleted  *)
(* or handed out.                                                          *)
Lost(x) == boxes[x] = "up" /\ x \notin handed /\ Using(x) = {}
Excused(b, x) == /\ x[1] = b /\ faults' > faults
                 /\ req[b].at \in {"create", "cleanup", "undo", "again"}
NoOrphanedBuilds ==
  [][\A x \in Boxes \ Frozen :
       Lost(x)' => Lost(x) \/ \E b \in Builds : Excused(b, x)]_vars

(* A request deletes the preview it made only while nobody else was given  *)
(* it or works on it.                                                      *)
CleanupIsExclusive ==
  \A p, q \in Previews :
    (req[p].at = "cleanup" /\ q # p /\ req[q].box = req[p].box)
      => req[q].at \in Ended /\ req[p].box \notin handed

(* A preview that is handed out is not left without the timer that deletes *)
(* it.                                                                     *)
PreviewsAreTimed ==
  alive => \A x \in Frozen : x \in handed => x \in timers

(* A retried materialization is answered with the sandbox that is there,   *)
(* and it is not deleted while the answer is good.                         *)
HandedPreviewsStayUp == \A x \in handed \cap Frozen : boxes[x] = "up"

(* A request that got in line is answered, however many others fail.       *)
RequestsSettle ==
  \A r \in Requests :
    req[r].at # "idle" ~> (req[r].at \in Ended \/ ~alive)
=============================================================================
