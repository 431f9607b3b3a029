---------------------------- MODULE BuildWorker ----------------------------
(***************************************************************************)
(* The process that carries out build runs, composed with RunStore:        *)
(*   - BuildScheduler  (src/src/application/build-scheduler.ts)            *)
(*   - BuildRunExecutor (src/src/application/build-run-executor.ts)        *)
(*   - startup recovery (src/src/application/run-recovery.ts, index.ts)    *)
(*   - the sandbox provider, as its callers see it (external).             *)
(*                                                                         *)
(* The process is one event loop.  What runs between two awaits is atomic  *)
(* for every other handler, but neither for the clock nor for a crash: a   *)
(* step below makes at most one store transaction, and while a handler has *)
(* more of them to make, LoopIsFree keeps the other handlers out.          *)
(*                                                                         *)
(* An execution has two halves.  The body (trace.run) does the work; the   *)
(* outer half waits for it through withAbort.  When the run is aborted     *)
(* the outer half goes on at once, and the body is left to find out for    *)
(* itself that its lease is gone.                                          *)
(***************************************************************************)
EXTENDS Naturals, FiniteSets

CONSTANTS Runs,          \* numbered in the order they are submitted
          SlotIds, Revisions, None,
          ActiveLimit,   \* the literal 4 of wake()
          MaxRepair,     \* limits.maxRepairRounds of the assignments
          FailingKinds,  \* bound: receipt kinds that may come out FAIL
          MaxToken,      \* bound: leases granted per slot
          MaxStalls,     \* bound: leases that expire before a heartbeat
          MaxRestarts,   \* bound: crashes and shutdowns
          MaxFaults      \* bound: those of either kind together

ASSUME RunsAssumption  == Runs \subseteq Nat
ASSUME LimitAssumption ==
  /\ ActiveLimit \in Nat \ {0} /\ Cardinality(SlotIds) <= ActiveLimit
  /\ {MaxRepair, MaxStalls, MaxRestarts, MaxFaults} \subseteq Nat
ASSUME StoreAssumption ==
  /\ SlotIds \subseteq Nat /\ MaxToken \in Nat
  /\ None \notin Runs \cup SlotIds \cup Revisions \cup (Runs \X Nat)
  /\ None \notin [slot : SlotIds, run : Runs, token : 1..MaxToken]

(* Commands stand for all command receipts, evaluation for the raster and  *)
(* the contract evaluation: nothing reads the store between them.          *)
LatestKinds == {"commands", "preview", "evaluation"}

(* The provider never reuses an id: one builder per run, and a command and *)
(* a delivery verifier for every verification round.                       *)
Sandboxes == Runs \X (0 .. 2 * (MaxRepair + 1))
BuilderOf(r)          == <<r, 0>>
CommandVerifier(r, n)  == <<r, 2 * n + 1>>
DeliveryVerifier(r, n) == <<r, 2 * n + 2>>

VARIABLES status, errorCode, cancelRequested, cleaned, startedBy,
          builder, verifier, purpose, sandbox,
          revision, evidence, artifacts, latestArtifact,
          outbox, published, slotRun, fencingToken, expired

Store == INSTANCE RunStore

VARIABLES
  process,      \* "down", "recovering", "up" or "stopping"
  batch,        \* the runs wake() has listed and not yet looked at
  dispatching,  \* the lease just acquired, before startRun
  active,       \* BuildScheduler.#active
  outer, body,  \* where the two halves of an execution are
  lease,        \* the lease an execution was given
  aborted,      \* the runs whose signal is aborted
  round,        \* repairRound
  held,         \* builderSandbox, commandSandbox and deliverySandbox
  live,         \* the sandboxes that exist at the provider
  attached,     \* the sandboxes of sandbox.*_attached run events
  doomed, undeleted,  \* of recovery: ids to delete, ids it could not delete
  stalls, restarts

storeVars   == <<status, errorCode, cancelRequested, cleaned, startedBy,
                 builder, verifier, purpose, sandbox,
                 revision, evidence, artifacts, latestArtifact,
                 outbox, published, slotRun, fencingToken, expired>>
memory      == <<batch, dispatching, active, outer, body, lease, aborted,
                 round, held>>
sandboxes   == <<live, attached>>
recoveryVars == <<doomed, undeleted>>
bounds      == <<stalls, restarts>>
vars == <<storeVars, process, memory, sandboxes, recoveryVars, bounds>>

Handles   == {"builder", "command", "delivery"}
NoHandles == [h \in Handles |-> None]
Unwinding == {"unwindThrow", "unwindRepair", "unwindReject"}
Retaining == {"passed", "refused"}
Ended     == {"threw", "rejected"} \cup Retaining
Body == {"idle", "creating", "generating", "creatingCommand",
         "creatingDelivery", "commands", "delivery", "preview", "reviewing",
         "evaluating", "persisting", "promoting", "promoted"}
        \cup Unwinding \cup Ended
Outer == {"idle", "executing", "flushing", "catching", "disposing",
          "disposingRetained"}

TypeOK ==
  /\ Store!TypeOK
  /\ process \in {"down", "recovering", "up", "stopping"}
  /\ batch \subseteq Runs /\ active \subseteq Runs /\ aborted \subseteq Runs
  /\ dispatching \in Store!Leases \cup {None}
  /\ outer \in [Runs -> Outer] /\ body \in [Runs -> Body]
  /\ lease \in [Runs -> Store!Leases \cup {None}]
  /\ round \in [Runs -> 0..MaxRepair]
  /\ held \in [Runs -> [Handles -> Sandboxes \cup {None}]]
  /\ live \subseteq Sandboxes /\ attached \subseteq Sandboxes
  /\ doomed \subseteq Sandboxes /\ undeleted \subseteq Sandboxes
  /\ stalls \in 0..MaxStalls /\ restarts \in 0..MaxRestarts

Init == /\ Store!Init
        /\ process = "down"
        /\ batch = {} /\ dispatching = None /\ active = {} /\ aborted = {}
        /\ outer = [r \in Runs |-> "idle"] /\ body = [r \in Runs |-> "idle"]
        /\ lease = [r \in Runs |-> None]
        /\ round = [r \in Runs |-> 0]
        /\ held = [r \in Runs |-> NoHandles]
        /\ live = {} /\ attached = {}
        /\ doomed = {} /\ undeleted = {}
        /\ stalls = 0 /\ restarts = 0

LoopIsFree == /\ batch = {} /\ dispatching = None
              /\ \A r \in Runs : outer[r] # "catching"
Handling   == process \in {"up", "stopping"} /\ LoopIsFree
-----------------------------------------------------------------------------
(* The HTTP API: it only ever runs between two handlers.                   *)

(* Faulty variant: a run that failed is queued again by a resubmission.    *)
Submit_RetriesFailed(r) ==
  /\ Handling /\ status[r] \in {"absent", "failed"}
  /\ status' = [status EXCEPT ![r] = "queued"]
  /\ UNCHANGED <<errorCode, cancelRequested, cleaned, startedBy, builder,
                 verifier, purpose, sandbox, revision, evidence, artifacts,
                 latestArtifact, outbox, published, slotRun, fencingToken,
                 expired, process, memory, sandboxes, recoveryVars, bounds>>

(* POST build-runs: runs are numbered in the order of their created_at.    *)
Submit(r) ==
  /\ Handling /\ \A q \in Runs : q < r => status[q] # "absent"
  /\ Store!CreateRun(r)
  /\ UNCHANGED <<process, memory, sandboxes, recoveryVars, bounds>>

(* abort(): the rejection of withAbort reaches the catch clause before any *)
(* other handler; an execution that is already disposing only takes note.  *)
Abort(R) ==
  /\ aborted' = aborted \cup R
  /\ outer' = [r \in Runs |->
                 IF r \in R /\ outer[r] \in {"executing", "flushing"}
                   THEN "catching" ELSE outer[r]]

(* BuildScheduler.cancel                                                   *)
Cancel(r) ==
  /\ Handling
  /\ Store!RequestCancel(r)
  /\ Abort({r} \cap active)
  /\ UNCHANGED <<process, batch, dispatching, active, body, lease, round,
                 held, sandboxes, recoveryVars, bounds>>

AcknowledgeOutbox(r) ==
  /\ Handling
  /\ Store!MarkOutboxPublished(r)
  /\ UNCHANGED <<process, memory, sandboxes, recoveryVars, bounds>>
-----------------------------------------------------------------------------
(* BuildScheduler.wake: by its poll timer, after a submission and after an *)
(* execution.  A run that is listed is queued, hence not active.           *)
Listed == {r \in Runs : status[r] = "queued" /\ r \notin cancelRequested}
AtLeast1(n) == IF n < 1 THEN 1 ELSE n
Room == AtLeast1(IF Cardinality(active) > ActiveLimit
                   THEN 0 ELSE ActiveLimit - Cardinality(active))

Wake ==
  /\ process = "up" /\ LoopIsFree
  /\ Listed # {}
  /\ batch' = {r \in Listed : Cardinality({q \in Listed : q < r}) < Room}
  /\ UNCHANGED <<storeVars, process, dispatching, active, outer, body, lease,
                 aborted, round, held, sandboxes, recoveryVars, bounds>>

(* The next run of the batch gets a slot, or the loop of wake() ends.      *)
AcquireNext(r) ==
  /\ process = "up" /\ dispatching = None
  /\ r \in batch /\ \A q \in batch : r <= q
  /\ \E s \in SlotIds :
       /\ Store!AcquireSlot(r, s)
       /\ dispatching' = [slot |-> s, run |-> r, token |-> fencingToken'[s]]
  /\ batch' = batch \ {r}
  /\ UNCHANGED <<process, active, outer, body, lease, aborted, round, held,
                 sandboxes, recoveryVars, bounds>>

NoSlotLeft ==
  /\ batch # {} /\ dispatching = None
  /\ \A s \in SlotIds : ~Store!Available(s)
  /\ batch' = {}
  /\ UNCHANGED <<storeVars, process, dispatching, active, outer, body, lease,
                 aborted, round, held, sandboxes, recoveryVars, bounds>>

(* #dispatch: execute() runs up to its first await, the provider's create. *)
Dispatch ==
  /\ dispatching # None
  /\ Store!StartRun(dispatching)
  /\ LET r == dispatching.run IN
       /\ active' = active \cup {r}
       /\ outer' = [outer EXCEPT ![r] = "executing"]
       /\ body' = [body EXCEPT ![r] = "creating"]
       /\ lease' = [lease EXCEPT ![r] = dispatching]
  /\ dispatching' = None
  /\ UNCHANGED <<process, batch, aborted, round, held,
                 sandboxes, recoveryVars, bounds>>

(* startRun finds the lease expired: the run stays queued, its slot is     *)
(* released, and the execution is over before anything else can run.       *)
DispatchTooLate ==
  /\ dispatching # None
  /\ ~Store!LeaseValid(dispatching)
  /\ Store!ReleaseSlot(dispatching)
  /\ dispatching' = None
  /\ UNCHANGED <<process, batch, active, outer, body, lease, aborted, round,
                 held, sandboxes, recoveryVars, bounds>>

(* The heartbeat timer of an active run finds its lease gone and aborts;   *)
(* a heartbeat in time keeps the lease as it is (see LeaseRunsOut).        *)
HeartbeatFails(r) ==
  /\ Handling
  /\ r \in active \ aborted
  /\ ~Store!LeaseValid(lease[r])
  /\ Abort({r})
  /\ UNCHANGED <<storeVars, process, batch, dispatching, active, body, lease,
                 round, held, sandboxes, recoveryVars, bounds>>

(* The process or its host stalls until a lease has run out.               *)
LeaseRunsOut(s) ==
  /\ stalls < MaxStalls /\ stalls + restarts < MaxFaults
  /\ stalls' = stalls + 1
  /\ Store!LeaseExpires(s)
  /\ UNCHANGED <<process, memory, sandboxes, recoveryVars, restarts>>

(* AbortSignal.timeout(limits.wallClockSeconds)                            *)
WallClock(r) ==
  /\ Handling
  /\ outer[r] \in {"executing", "flushing"}
  /\ Abort({r})
  /\ UNCHANGED <<storeVars, process, batch, dispatching, active, body, lease,
                 round, held, sandboxes, recoveryVars, bounds>>
-----------------------------------------------------------------------------
(* The body of an execution.  Every step ends one await.  It goes on with  *)
(* its store transaction, or throws because the store refuses it.          *)

Refused(r) == ~Store!ActiveRun(lease[r]) /\ UNCHANGED storeVars

(* The body is over.  Unless the outer half gave up on it, that half goes  *)
(* on in the same turn: to trace.flush(), or to its catch clause.          *)
BodyEnds(r, how) ==
  /\ body' = [body EXCEPT ![r] = how]
  /\ outer' = IF outer[r] # "executing" THEN outer ELSE
                [outer EXCEPT ![r] = IF how \in {"threw", "refused"}
                                       THEN "catching" ELSE "flushing"]

Goes(r, to) == /\ body' = [body EXCEPT ![r] = to]
               /\ UNCHANGED outer

(* What a body step leaves alone, besides the store, sandboxes and held.   *)
Frame == UNCHANGED <<process, batch, dispatching, active, lease, aborted,
                     recoveryVars, bounds>>

At(r, pc) == Handling /\ body[r] = pc

(* The provider hands out a sandbox, and the handle is kept, before        *)
(* the store learns of it.  An aborted create cleans up after itself.      *)
Provided(r, h, b) ==
  /\ r \notin aborted
  /\ live' = live \cup {b}
  /\ held' = [held EXCEPT ![r][h] = b]

BuilderCreated(r) ==
  /\ At(r, "creating")
  /\ Provided(r, "builder", BuilderOf(r))
  /\ \/ /\ Store!AttachSandbox(lease[r], BuilderOf(r))
        /\ attached' = attached \cup {BuilderOf(r)}
        /\ Goes(r, "generating")
     \/ /\ Refused(r) /\ BodyEnds(r, "threw")
        /\ UNCHANGED attached
  /\ UNCHANGED round /\ Frame

(* The agent is done, the builder is frozen and exported.                  *)
Frozen(r, v) ==
  /\ At(r, "generating")
  /\ \/ Store!SetRevision(lease[r], v) /\ Goes(r, "creatingCommand")
     \/ Refused(r) /\ BodyEnds(r, "threw")
  /\ UNCHANGED <<round, held, sandboxes>> /\ Frame

(* A verifier may only be a sandbox no other phase of the run uses; the    *)
(* handle of one that is not is dropped, so that it is not disposed twice. *)
VerifierAttached(r, b, p, next) ==
  \/ /\ Store!AttachVerificationSandbox(lease[r], b, p)
     /\ attached' = attached \cup {b}
     /\ Goes(r, next)
  \/ /\ Refused(r) /\ Goes(r, "unwindThrow")
     /\ UNCHANGED attached

NotIsolated(r) ==
  /\ r \notin aborted
  /\ Goes(r, "unwindThrow")
  /\ UNCHANGED <<storeVars, held, sandboxes>>

CommandVerifierCreated(r, b) ==
  /\ At(r, "creatingCommand")
  /\ b \in {CommandVerifier(r, round[r]), held[r]["builder"]}
  /\ IF b = held[r]["builder"]
       THEN NotIsolated(r)
       ELSE /\ Provided(r, "command", b)
            /\ VerifierAttached(r, b, "commands", "creatingDelivery")
  /\ UNCHANGED round /\ Frame

(* Faulty variant: the delivery verifier may be the command verifier.      *)
DeliveryVerifierCreated_Shared(r, b) ==
  /\ At(r, "creatingDelivery")
  /\ b \in {DeliveryVerifier(r, round[r]), held[r]["command"]}
  /\ Provided(r, "delivery", b)
  /\ VerifierAttached(r, b, "delivery", "commands")
  /\ UNCHANGED round /\ Frame

DeliveryVerifierCreated(r, b) ==
  /\ At(r, "creatingDelivery")
  /\ b \in {DeliveryVerifier(r, round[r]), held[r]["builder"],
            held[r]["command"]}
  /\ IF b \in {held[r]["builder"], held[r]["command"]}
       THEN NotIsolated(r)
       ELSE /\ Provided(r, "delivery", b)
            /\ VerifierAttached(r, b, "delivery", "commands")
  /\ UNCHANGED round /\ Frame

(* disposeSandbox: the sandbox is deleted, then the handle forgotten.      *)
Disposed(r, h) ==
  /\ live' = live \ {held[r][h]}
  /\ held' = [held EXCEPT ![r][h] = None]
  /\ UNCHANGED attached

CommandsRun(r) ==
  /\ At(r, "commands")
  /\ Disposed(r, "command")
  /\ Goes(r, "delivery")
  /\ UNCHANGED <<storeVars, round>> /\ Frame

Verdict(k) == IF k \in FailingKinds THEN {"PASS", "FAIL"} ELSE {"PASS"}

Records(r, k, verdict, next) ==
  /\ \/ /\ Store!AddEvidence(lease[r], revision[r], k, verdict, TRUE)
        /\ Goes(r, next)
     \/ Refused(r) /\ Goes(r, "unwindThrow")
  /\ UNCHANGED <<round, held, sandboxes>> /\ Frame

(* The receipts of both verifiers; the preview needs all of them to pass.  *)
DeliveryCommandsRun(r, verdict) ==
  /\ At(r, "delivery") /\ verdict \in Verdict("commands")
  /\ Records(r, "commands", verdict,
             IF verdict = "PASS" THEN "preview" ELSE "reviewing")

PreviewInspected(r, verdict) ==
  /\ At(r, "preview") /\ verdict \in Verdict("preview")
  /\ Records(r, "preview", verdict, "reviewing")

(* A revision that was reviewed before keeps its review (the ledger).      *)
Reviewed(r, verdict) ==
  /\ At(r, "reviewing") /\ verdict \in Verdict("review")
  /\ IF evidence[r][revision[r]]["review"] = "missing"
       THEN Records(r, "review", verdict, "evaluating")
       ELSE /\ Goes(r, "evaluating")
            /\ UNCHANGED <<storeVars, round, held, sandboxes>> /\ Frame

(* decideProof, in the same turn as the last receipt.  The candidate is    *)
(* also turned down when its source digest changed, or for advisory        *)
(* findings while repair rounds are left.                                  *)
Evaluated(r, verdict, next) ==
  /\ At(r, "evaluating") /\ verdict \in Verdict("evaluation")
  /\ next \in {"persisting", "unwindRepair", "unwindReject"}
  /\ next = "unwindRepair" => round[r] < MaxRepair
  /\ Records(r, "evaluation", verdict, next)
  /\ body'[r] = "persisting" => Store!DecideProof(r, revision[r])'
  /\ body'[r] = "unwindReject" => \/ round[r] = MaxRepair
                                  \/ ~Store!DecideProof(r, revision[r])'

ArtifactPersisted(r) ==
  /\ At(r, "persisting")
  /\ \/ /\ Store!RecordArtifact(lease[r], revision[r], TRUE)
        /\ Goes(r, "promoting")
     \/ Refused(r) /\ Goes(r, "unwindThrow")
  /\ UNCHANGED <<round, held, sandboxes>> /\ Frame

Promoted(r) ==
  /\ At(r, "promoting")
  /\ \/ /\ Store!PromoteVerificationSandbox(lease[r], held[r]["delivery"])
        /\ Goes(r, "promoted")
     \/ Refused(r) /\ Goes(r, "unwindThrow")
  /\ UNCHANGED <<round, held, sandboxes>> /\ Frame

(* source.cleanup() is over: only now does execute() learn, through        *)
(* retainedVerificationSandbox, that it is to dispose the verifier; then   *)
(* the updateStage that announces "finalizing" is done or refused.         *)
HandedOver(r) ==
  /\ At(r, "promoted")
  /\ BodyEnds(r, IF Store!ActiveRun(lease[r]) THEN "passed" ELSE "refused")
  /\ UNCHANGED <<storeVars, round, held, sandboxes>> /\ Frame

(* Whatever a body waits for may fail; an aborted create always does.      *)
BodyThrows(r) ==
  /\ Handling
  /\ body[r] \notin {"idle", "promoted"} \cup Unwinding \cup Ended
  /\ IF body[r] \in {"creating", "generating"}
       THEN BodyEnds(r, "threw") ELSE Goes(r, "unwindThrow")
  /\ UNCHANGED <<storeVars, round, held, sandboxes>> /\ Frame

(* The finally clause of #verifyRevision: the command verifier first.      *)
VerifierDisposed(r, h) ==
  /\ Handling /\ body[r] \in Unwinding
  /\ held[r][h] # None
  /\ \/ h = "command"
     \/ h = "delivery" /\ held[r]["command"] = None
  /\ Disposed(r, h)
  /\ UNCHANGED <<storeVars, round, body, outer>> /\ Frame

(* Both verifiers are gone: on to the next round, or out of the body.  The *)
(* updateStage of the next round is refused like any other write.          *)
Unwound(r) ==
  /\ Handling /\ body[r] \in Unwinding
  /\ held[r]["command"] = None /\ held[r]["delivery"] = None
  /\ CASE body[r] = "unwindThrow"  -> /\ BodyEnds(r, "threw")
                                      /\ UNCHANGED round
       [] body[r] = "unwindReject" -> /\ BodyEnds(r, "rejected")
                                      /\ UNCHANGED round
       [] body[r] = "unwindRepair" ->
            IF Store!ActiveRun(lease[r])
              THEN /\ Goes(r, "generating")
                   /\ round' = [round EXCEPT ![r] = @ + 1]
              ELSE BodyEnds(r, "threw") /\ UNCHANGED round
  /\ UNCHANGED <<storeVars, held, sandboxes>> /\ Frame
-----------------------------------------------------------------------------
(* The outer half: decision, catch clause and finally clause of execute(). *)

OuterGoes(r, to) == outer' = [outer EXCEPT ![r] = to]
OuterFrame == UNCHANGED <<process, batch, dispatching, body, lease, aborted,
                          round, recoveryVars, bounds>>

(* trace.flush() is over: the decision of the body is written.             *)
FlushDone(r) ==
  /\ Handling /\ outer[r] = "flushing"
  /\ \/ /\ IF body[r] = "passed"
             THEN Store!MarkPassed(lease[r], revision[r])
             ELSE Store!MarkTerminal(lease[r], "rejected")
        /\ OuterGoes(r, "disposing")
     \/ /\ IF body[r] = "passed"
             THEN ~Store!CanPass(lease[r], revision[r])
             ELSE ~Store!ActiveRun(lease[r])
        /\ OuterGoes(r, "catching")
        /\ UNCHANGED storeVars
  /\ UNCHANGED <<active, held, sandboxes>> /\ OuterFrame

FlushFails(r) ==
  /\ Handling /\ outer[r] = "flushing"
  /\ OuterGoes(r, "catching")
  /\ UNCHANGED <<storeVars, active, held, sandboxes>> /\ OuterFrame

(* Faulty variant: only a cancellation is written down.                    *)
Catch_OnlyCancelled(r) ==
  /\ outer[r] = "catching"
  /\ IF r \in cancelRequested
       THEN Store!MarkTerminal(lease[r], "cancelled") \/ Refused(r)
       ELSE UNCHANGED storeVars
  /\ OuterGoes(r, "disposing")
  /\ UNCHANGED <<active, held, sandboxes>> /\ OuterFrame

(* The catch clause: a store that refuses the mark is ignored.             *)
Catch(r) ==
  /\ outer[r] = "catching"
  /\ \/ Store!MarkTerminal(lease[r], IF r \in cancelRequested
                                       THEN "cancelled" ELSE "failed")
     \/ Refused(r)
  /\ OuterGoes(r, "disposing")
  /\ UNCHANGED <<active, held, sandboxes>> /\ OuterFrame

(* Faulty variant: the slot of a run that is terminal is not released.     *)
Finish_KeepsSlot(r) ==
  /\ IF status[r] = "running" THEN Store!ReleaseSlot(lease[r])
                              ELSE UNCHANGED storeVars
  /\ active' = active \ {r}
  /\ OuterGoes(r, "idle")

(* The slot row may have been given to another run meanwhile.              *)
Finish(r) ==
  /\ \/ Store!ReleaseSlot(lease[r])
     \/ /\ \/ slotRun[lease[r].slot] # r
           \/ fencingToken[lease[r].slot] # lease[r].token
        /\ UNCHANGED storeVars
  /\ active' = active \ {r}
  /\ OuterGoes(r, "idle")

(* Faulty variant: the verifier of a body that passed is always kept.      *)
DisposeBuilder_KeepsRetained(r) ==
  /\ Handling /\ outer[r] = "disposing"
  /\ Disposed(r, "builder")
  /\ Finish(r)
  /\ OuterFrame

(* The finally clause.  The delivery verifier a body handed over is left   *)
(* to this half; it is kept only for a run that did pass.                  *)
DisposeBuilder(r) ==
  /\ Handling /\ outer[r] = "disposing"
  /\ Disposed(r, "builder")
  /\ IF body[r] \in Retaining /\ status[r] # "passed"
       THEN OuterGoes(r, "disposingRetained")
            /\ UNCHANGED <<storeVars, active>>
       ELSE Finish(r)
  /\ OuterFrame

DisposeRetained(r) ==
  /\ Handling /\ outer[r] = "disposingRetained"
  /\ Disposed(r, "delivery")
  /\ Finish(r)
  /\ OuterFrame
-----------------------------------------------------------------------------
(* The process.                                                            *)

(* The sandboxes whose creation the provider is working on.                *)
BeingCreated ==
  UNION {CASE body[r] = "creating"         -> {BuilderOf(r)}
           [] body[r] = "creatingCommand"  -> {CommandVerifier(r, round[r])}
           [] body[r] = "creatingDelivery" -> {DeliveryVerifier(r, round[r])}
           [] OTHER                        -> {} : r \in Runs}

MemoryIsLost ==
  /\ batch' = {} /\ dispatching' = None /\ active' = {} /\ aborted' = {}
  /\ outer' = [r \in Runs |-> "idle"] /\ body' = [r \in Runs |-> "idle"]
  /\ lease' = [r \in Runs |-> None]
  /\ round' = [r \in Runs |-> 0]
  /\ held' = [r \in Runs |-> NoHandles]

(* The process dies.  What the provider was asked for may still appear.    *)
Crash ==
  /\ process # "down"
  /\ restarts < MaxRestarts /\ stalls + restarts < MaxFaults
  /\ restarts' = restarts + 1
  /\ process' = "down"
  /\ MemoryIsLost
  /\ doomed' = {} /\ undeleted' = {}
  /\ \E created \in SUBSET BeingCreated : live' = live \cup created
  /\ UNCHANGED <<storeVars, attached, stalls>>

(* SIGTERM: scheduler.stop aborts all executions and waits for them.       *)
Shutdown ==
  /\ process = "up" /\ LoopIsFree
  /\ restarts < MaxRestarts /\ stalls + restarts < MaxFaults
  /\ restarts' = restarts + 1
  /\ process' = "stopping"
  /\ Abort(active)
  /\ UNCHANGED <<storeVars, batch, dispatching, active, body, lease, round,
                 held, sandboxes, recoveryVars, stalls>>

(* The executions are over.  Bodies their outer half gave up on are not    *)
(* waited for: the supervisor's SIGKILL may end them wherever they are.    *)
Exit ==
  /\ process = "stopping" /\ LoopIsFree
  /\ active = {}
  /\ process' = "down"
  /\ MemoryIsLost
  /\ \E created \in SUBSET BeingCreated : live' = live \cup created
  /\ UNCHANGED <<storeVars, attached, recoveryVars, bounds>>

(* recoverInterruptedRunSandboxes, before the API listens.                 *)
Recover ==
  /\ process = "down"
  /\ Store!RecoverInterruptedRuns
  /\ process' = "recovering"
  /\ doomed' = UNION {Store!RecordedSandboxes(r) : r \in Store!CleanupPending'}
  /\ undeleted' = {}
  /\ UNCHANGED <<memory, sandboxes, bounds>>

(* Promise.allSettled: a delete may fail, or run into the 120 s timeout.   *)
DeleteRecorded(b) ==
  /\ process = "recovering" /\ b \in doomed
  /\ doomed' = doomed \ {b}
  /\ \/ live' = live \ {b} /\ UNCHANGED undeleted
     \/ undeleted' = undeleted \cup {b} /\ UNCHANGED live
  /\ UNCHANGED <<storeVars, process, memory, attached, bounds>>

(* Faulty variant: a delete that failed is not remembered.                 *)
CleanupSucceeded_Always(r) == r \in Store!CleanupPending

CleanupSucceeded(r) == /\ r \in Store!CleanupPending
                       /\ Store!RecordedSandboxes(r) \cap undeleted = {}

FinishCleanup(r) ==
  /\ process = "recovering" /\ doomed = {}
  /\ CleanupSucceeded(r)
  /\ Store!MarkRecoveryCleanupComplete(r)
  /\ UNCHANGED <<process, memory, sandboxes, recoveryVars, bounds>>

(* server.listen and BuildScheduler.start                                  *)
Start ==
  /\ process = "recovering" /\ doomed = {}
  /\ \A r \in Runs : ~CleanupSucceeded(r)
  /\ Store!RecoverInterruptedRuns
  /\ process' = "up"
  /\ undeleted' = {}
  /\ UNCHANGED <<memory, sandboxes, doomed, bounds>>
-----------------------------------------------------------------------------
ServiceStep(r) == Submit(r) \/ Cancel(r) \/ AcknowledgeOutbox(r)

SchedulerStep ==
  \/ Wake \/ NoSlotLeft \/ Dispatch \/ DispatchTooLate
  \/ \E r \in Runs : AcquireNext(r) \/ HeartbeatFails(r) \/ WallClock(r)

BodyStep(r) ==
  \/ BuilderCreated(r)
  \/ \E v \in Revisions : Frozen(r, v)
  \/ \E b \in Sandboxes : \/ CommandVerifierCreated(r, b)
                          \/ DeliveryVerifierCreated(r, b)
  \/ CommandsRun(r)
  \/ \E verdict \in {"PASS", "FAIL"} :
       \/ DeliveryCommandsRun(r, verdict)
       \/ PreviewInspected(r, verdict)
       \/ Reviewed(r, verdict)
       \/ \E next \in Body : Evaluated(r, verdict, next)
  \/ ArtifactPersisted(r)
  \/ Promoted(r)
  \/ HandedOver(r)
  \/ BodyThrows(r)
  \/ \E h \in Handles : VerifierDisposed(r, h)
  \/ Unwound(r)

OuterStep(r) == \/ FlushDone(r) \/ FlushFails(r) \/ Catch(r)
                \/ DisposeBuilder(r) \/ DisposeRetained(r)

ProcessStep ==
  \/ Crash \/ Shutdown \/ Exit \/ Recover \/ Start
  \/ \E b \in Sandboxes : DeleteRecorded(b)
  \/ \E r \in Runs : FinishCleanup(r)

Next ==
  \/ \E r \in Runs : ServiceStep(r) \/ BodyStep(r) \/ OuterStep(r)
  \/ SchedulerStep
  \/ \E s \in SlotIds : LeaseRunsOut(s)
  \/ ProcessStep

Spec == Init /\ [][Next]_vars

(* What is sure to happen: the startup code runs to its end, and so does a *)
(* handler that has begun.  A timer that is due and a disposal that is     *)
(* over wait for the handlers before them only, and are reached however    *)
(* often those run (hence SF).  A body need not get anywhere: only its     *)
(* time limit is sure.                                                     *)
StartupStep == \/ Exit \/ Recover \/ Start
               \/ \E b \in Sandboxes : DeleteRecorded(b)
               \/ \E r \in Runs : FinishCleanup(r)
HandlerStep == \/ Wake \/ NoSlotLeft \/ Dispatch \/ DispatchTooLate
               \/ \E r \in Runs : AcquireNext(r) \/ Catch(r)
WindsUp(r) == WallClock(r) \/ DisposeBuilder(r) \/ DisposeRetained(r)
Fairness ==
  /\ WF_vars(StartupStep)
  /\ WF_vars(HandlerStep)
  /\ \A r \in Runs : SF_vars(WindsUp(r))

FairSpec == Spec /\ Fairness
-----------------------------------------------------------------------------
(* Every step of the worker is a legal step of the store, or leaves it as  *)
(* it is: what RunStoreProofs proves of the store holds for the worker.    *)
(* (This is Store!Spec, with the stutter in front, which TLC tries first.) *)
ImplementsRunStore ==
  Store!Init /\ [][UNCHANGED storeVars \/ Store!Next]_storeVars

(* A run is in one slot at a time, and a run that is executed is in the    *)
(* slot, with the token, it was started with: two executions of one run    *)
(* can never both hold a valid lease, across restarts included.            *)
OneLeasePerRun ==
  \A s, t \in SlotIds : slotRun[s] # None =>
    /\ slotRun[t] = slotRun[s] => t = s
    /\ status[slotRun[s]] = "running" =>
         startedBy[slotRun[s]] = [slot |-> s, token |-> fencingToken[s]]

(* Once an execution is on its way out (timeout, cancellation, lost lease, *)
(* shutdown), the half of it that is still at work changes nothing of the  *)
(* run any more: no receipt, revision, artifact or sandbox column.         *)
GivenUp(r) == /\ lease[r] # None
              /\ outer[r] \in {"disposing", "disposingRetained", "idle"}
Evidence(r) == <<builder[r], verifier[r], purpose[r], sandbox[r],
                 revision[r], evidence[r], artifacts[r]>>
AbandonedExecutionsDoNotWrite ==
  [][\A r \in Runs : GivenUp(r) => Evidence(r)' = Evidence(r)]_vars

(* The sandbox a proven run is delivered from is never deleted: neither by *)
(* its own execution, whose last handle on it is dropped, nor by recovery. *)
PassedSandboxSurvives ==
  \A r \in Runs : status[r] = "passed" => sandbox[r] \in live

(* Without a restart, an execution that is over has left no sandbox behind *)
(* but the one a passed run is delivered from, whichever await failed and  *)
(* whichever half of the execution was the last to dispose of something.   *)
(* Excepted is the promoted verifier of a body that handed it over too     *)
(* late (see UnprovenRunsKeepNoSandbox).                                   *)
Over(r) == outer[r] = "idle" /\ body[r] \in Ended
NoLeakedSandboxes ==
  restarts = 0 =>
    \A r \in Runs : Over(r) => \A b \in live : b[1] = r =>
      b = sandbox[r] /\ (status[r] = "passed" \/ body[r] = "refused")

(* A run whose cleanup is recorded as complete has none of its recorded    *)
(* sandboxes left, even if a delete failed or a restart came in between.   *)
CleanedRunsKeepNoRecordedSandbox ==
  \A r \in cleaned : Store!RecordedSandboxes(r) \cap live = {}

(* No more executions are active than there are slots ("processes a        *)
(* 20-candidate queue without exceeding four active slots").               *)
ActiveWithinSlots == Cardinality(active) <= Cardinality(SlotIds)

(* "Does not publish": a run that was not proven leaves no sandbox behind, *)
(* also if it was promoted first ("provider.verifiers.every((sandbox) =>   *)
(* sandbox.disposeCalls === 1)").                                          *)
UnprovenRunsKeepNoSandbox ==
  restarts = 0 =>
    \A r \in Runs : Over(r) /\ status[r] # "passed" =>
      \A b \in live : b[1] # r

(* Startup recovery deletes the sandboxes of interrupted runs: of a run    *)
(* whose cleanup is recorded as complete, none that the store was told of  *)
(* (a sandbox.builder_attached or sandbox.verifier_attached event) is left *)
CleanedRunsKeepNoAttachedSandbox ==
  \A r \in cleaned : \A b \in attached \cap live : b[1] # r

(* Failed cleanup is retried on later starts: once the process is up, an   *)
(* interrupted run is on the cleanup list as long as one of the sandboxes  *)
(* its row names exists, wherever the previous process was interrupted.    *)
InterruptedRunsStayListed ==
  process = "up" =>
    \A r \in Runs : /\ body[r] = "idle"
                    /\ status[r] \in {"rejected", "failed", "cancelled"}
                    /\ Store!RecordedSandboxes(r) \cap live # {}
                  => r \in Store!CleanupPending

(* Every run that is submitted comes to a terminal status.  Left out is    *)
(* the run whose execution outlived its lease and gave the slot back: it   *)
(* stays "running" until the next restart.                                 *)
Stranded(r) == /\ stalls > 0 /\ status[r] = "running" /\ outer[r] = "idle"
               /\ ~\E s \in SlotIds : slotRun[s] = r
RunsReachTerminal ==
  []<>\A r \in Runs : \/ status[r] \in Store!Terminal \cup {"absent"}
                      \/ Stranded(r)
=============================================================================
