------------------------- MODULE BuildWorkerProofs -------------------------
(***************************************************************************)
(* Theorems about BuildWorker: the process is a client of RunStore, and    *)
(* what it promises about leases, late writes and sandboxes holds for any  *)
(* number of runs and slots, repair rounds, lost leases and restarts.      *)
(***************************************************************************)
EXTENDS BuildWorker, TLAPS

StoreProofs == INSTANCE RunStoreProofs

-----------------------------------------------------------------------------
(* The constants of the store are as the store wants them.                 *)
LEMMA StoreFits ==
  /\ StoreProofs!SlotIdsAssumption /\ StoreProofs!MaxTokenAssumption
  /\ StoreProofs!NoneAssumption /\ StoreProofs!LatestKindsAssumption
<1>1. Sandboxes \subseteq Runs \X Nat
  BY LimitAssumption DEF Sandboxes
<1> QED
  BY <1>1, StoreAssumption
     DEF StoreProofs!SlotIdsAssumption, StoreProofs!MaxTokenAssumption,
         StoreProofs!NoneAssumption, StoreProofs!LatestKindsAssumption,
         LatestKinds

(* The theorems of RunStoreProofs are about the same store.                *)
LEMMA SameHolderStep ==
  \A l : Store!LeaseHolderStep(l) <=> StoreProofs!LeaseHolderStep(l)
<1> SUFFICES ASSUME NEW l
             PROVE  Store!LeaseHolderStep(l) <=> StoreProofs!LeaseHolderStep(l)
  OBVIOUS
<1> USE DEF Store!runVars, StoreProofs!runVars, Store!sandboxVars,
            StoreProofs!sandboxVars, Store!proofVars, StoreProofs!proofVars,
            Store!outboxVars, StoreProofs!outboxVars, Store!slotVars,
            StoreProofs!slotVars, Store!LeaseValid, StoreProofs!LeaseValid,
            Store!ActiveRun, StoreProofs!ActiveRun
<1>1. /\ Store!Heartbeat(l) <=> StoreProofs!Heartbeat(l)
      /\ Store!ReleaseSlot(l) <=> StoreProofs!ReleaseSlot(l)
      /\ Store!StartRun(l) <=> StoreProofs!StartRun(l)
  BY DEF Store!Heartbeat, StoreProofs!Heartbeat, Store!ReleaseSlot,
         StoreProofs!ReleaseSlot, Store!StartRun, StoreProofs!StartRun
<1>2. \A b, p :
        /\ Store!AttachSandbox(l, b) <=> StoreProofs!AttachSandbox(l, b)
        /\ Store!AttachVerificationSandbox(l, b, p)
             <=> StoreProofs!AttachVerificationSandbox(l, b, p)
        /\ Store!PromoteVerificationSandbox(l, b)
             <=> StoreProofs!PromoteVerificationSandbox(l, b)
  BY DEF Store!AttachSandbox, StoreProofs!AttachSandbox,
         Store!AttachVerificationSandbox,
         StoreProofs!AttachVerificationSandbox,
         Store!PromoteVerificationSandbox,
         StoreProofs!PromoteVerificationSandbox
<1>3. \A v, k, verdict, newest :
        /\ Store!SetRevision(l, v) <=> StoreProofs!SetRevision(l, v)
        /\ Store!AddEvidence(l, v, k, verdict, newest)
             <=> StoreProofs!AddEvidence(l, v, k, verdict, newest)
        /\ Store!RecordArtifact(l, v, newest)
             <=> StoreProofs!RecordArtifact(l, v, newest)
  BY DEF Store!SetRevision, StoreProofs!SetRevision, Store!AddEvidence,
         StoreProofs!AddEvidence, Store!Summary, StoreProofs!Summary,
         Store!RecordArtifact, StoreProofs!RecordArtifact
<1>4. \A v, outcome :
        /\ Store!MarkPassed(l, v) <=> StoreProofs!MarkPassed(l, v)
        /\ Store!MarkTerminal(l, outcome)
             <=> StoreProofs!MarkTerminal(l, outcome)
  BY DEF Store!MarkPassed, StoreProofs!MarkPassed, Store!MarkTerminal,
         StoreProofs!MarkTerminal, Store!CanPass, StoreProofs!CanPass,
         Store!DeliverySandboxPromoted, StoreProofs!DeliverySandboxPromoted,
         Store!DecideProof, StoreProofs!DecideProof, Store!Kinds,
         StoreProofs!Kinds
<1>5. Store!Kinds = StoreProofs!Kinds
  BY DEF Store!Kinds, StoreProofs!Kinds
<1> HIDE DEF Store!runVars, StoreProofs!runVars, Store!sandboxVars,
            StoreProofs!sandboxVars, Store!proofVars, StoreProofs!proofVars,
            Store!outboxVars, StoreProofs!outboxVars, Store!slotVars,
            StoreProofs!slotVars, Store!LeaseValid, StoreProofs!LeaseValid,
            Store!ActiveRun, StoreProofs!ActiveRun
<1> QED
  BY <1>1, <1>2, <1>3, <1>4, <1>5, Zenon
     DEF Store!LeaseHolderStep, StoreProofs!LeaseHolderStep

(* Both instances name the same steps of the store.                        *)
LEMMA SameStore == Store!Next <=> StoreProofs!Next
<1> USE DEF Store!runVars, StoreProofs!runVars, Store!sandboxVars,
            StoreProofs!sandboxVars, Store!proofVars, StoreProofs!proofVars,
            Store!outboxVars, StoreProofs!outboxVars, Store!slotVars,
            StoreProofs!slotVars
<1>1. \A r, s :
        /\ Store!CreateRun(r) <=> StoreProofs!CreateRun(r)
        /\ Store!AcquireSlot(r, s) <=> StoreProofs!AcquireSlot(r, s)
        /\ Store!MarkFailedUnleased(r) <=> StoreProofs!MarkFailedUnleased(r)
        /\ Store!RequestCancel(r) <=> StoreProofs!RequestCancel(r)
  BY DEF Store!CreateRun, StoreProofs!CreateRun, Store!AcquireSlot,
         StoreProofs!AcquireSlot, Store!Available, StoreProofs!Available,
         Store!FailExpiredRun, StoreProofs!FailExpiredRun, Store!Terminal,
         StoreProofs!Terminal, Store!MarkFailedUnleased,
         StoreProofs!MarkFailedUnleased, Store!RequestCancel,
         StoreProofs!RequestCancel
<1>2. \A r, s :
        /\ Store!MarkOutboxPublished(r) <=> StoreProofs!MarkOutboxPublished(r)
        /\ Store!MarkRecoveryCleanupComplete(r)
             <=> StoreProofs!MarkRecoveryCleanupComplete(r)
        /\ Store!LeaseExpires(s) <=> StoreProofs!LeaseExpires(s)
        /\ Store!RecoverInterruptedRuns <=> StoreProofs!RecoverInterruptedRuns
  BY DEF Store!MarkOutboxPublished, StoreProofs!MarkOutboxPublished,
         Store!EventVisible, StoreProofs!EventVisible,
         Store!DeliverySandboxPromoted, StoreProofs!DeliverySandboxPromoted,
         Store!MarkRecoveryCleanupComplete,
         StoreProofs!MarkRecoveryCleanupComplete, Store!CleanupPending,
         StoreProofs!CleanupPending, Store!LeaseExpires,
         StoreProofs!LeaseExpires, Store!RecoverInterruptedRuns,
         StoreProofs!RecoverInterruptedRuns
<1>3. Store!Leases = StoreProofs!Leases
  BY DEF Store!Leases, StoreProofs!Leases
<1> QED
  BY <1>1, <1>2, <1>3, SameHolderStep DEF Store!Next, StoreProofs!Next
-----------------------------------------------------------------------------
(* The inductive invariant, in parts.  What the halves of an execution rely *)
(* on: a run has a lease from its dispatch on, the lease was issued to it, *)
(* a body past the freeze has a revision, one that repairs may do so.      *)
Checking == {"commands", "delivery", "preview", "reviewing", "evaluating",
             "persisting", "promoting"}
ExecutionFits(r) ==
  /\ lease[r] = None <=> body[r] = "idle"
  /\ outer[r] # "idle" => body[r] # "idle"
  /\ lease[r] # None => /\ lease[r].run = r
                        /\ lease[r].token <= fencingToken[lease[r].slot]
                        /\ status[r] \in {"running"} \cup Store!Terminal
  /\ body[r] \notin {"idle", "creating", "generating", "threw"} =>
       revision[r] # None
  /\ body[r] = "unwindRepair" => round[r] < MaxRepair

(* The handles are on the sandboxes of this run and this round, while the  *)
(* body is where it may hold them.                                         *)
HandlesFit(r) ==
  /\ held[r]["builder"] \in {None, BuilderOf(r)}
  /\ held[r]["command"] \in {None, CommandVerifier(r, round[r])}
  /\ held[r]["delivery"] \in {None, DeliveryVerifier(r, round[r])}
  /\ held[r]["builder"] # None => body[r] \notin {"idle", "creating"}
  /\ held[r]["command"] # None =>
       body[r] \in {"creatingDelivery", "commands"} \cup Unwinding
  /\ held[r]["delivery"] # None =>
       body[r] \in Checking \cup {"promoted"} \cup Unwinding \cup Retaining
OwnColumns(r) == \A b \in Store!RecordedSandboxes(r) : b[1] = r

(* The delivery verifier of a body that may still pass exists, and is the  *)
(* run's sandbox from the promotion on; that of a run that passed remains. *)
Deliverable(r) == \/ body[r] \in Checking \cup {"promoted"}
                  \/ body[r] \in Retaining /\ outer[r] # "idle"
DeliveryKept(r) ==
  /\ Deliverable(r) =>
       /\ held[r]["delivery"] = DeliveryVerifier(r, round[r])
       /\ DeliveryVerifier(r, round[r]) \in live
  /\ body[r] \in {"promoted"} \cup Retaining =>
       sandbox[r] = DeliveryVerifier(r, round[r])
  /\ status[r] = "passed" => /\ body[r] \in {"idle", "passed"}
                             /\ sandbox[r] \in live

(* The outer half: it leaves the body before its end only when aborted, it *)
(* gives up a run that is terminal or whose lease is gone, and it has      *)
(* disposed of what is left to it when it is over.                         *)
WayOut(r) ==
  /\ outer[r] # "executing" /\ body[r] \notin Ended \cup {"idle"} =>
       r \in aborted
  /\ GivenUp(r) => \/ status[r] \in Store!Terminal
                   \/ ~Store!LeaseValid(lease[r])
  /\ outer[r] \in {"idle", "disposingRetained"} => held[r]["builder"] = None
  /\ outer[r] = "disposingRetained" => /\ status[r] # "passed"
                                       /\ body[r] \in Retaining
  /\ body[r] = "passed" /\ outer[r] = "idle" =>
       held[r]["delivery"] = None \/ status[r] = "passed"

RunInv(r) == /\ ExecutionFits(r) /\ HandlesFit(r) /\ OwnColumns(r)
             /\ DeliveryKept(r) /\ WayOut(r)

(* A slot that is held by a run which is still queued is the one wake() is *)
(* about to dispatch.                                                      *)
QueuedHolders ==
  process # "down" =>
    \A s \in SlotIds : slotRun[s] # None /\ status[slotRun[s]] = "queued" =>
      /\ dispatching # None
      /\ dispatching = [slot |-> s, run |-> slotRun[s],
                        token |-> fencingToken[s]]

(* Nothing is in memory before the process is up, and it stops only when   *)
(* it was told to.                                                         *)
MemoryFits ==
  /\ process \in {"down", "recovering"} =>
       /\ batch = {} /\ dispatching = None /\ active = {}
       /\ \A r \in Runs : /\ outer[r] = "idle" /\ body[r] = "idle"
                          /\ held[r] = NoHandles
  /\ process = "stopping" => restarts > 0

(* Recovery deletes sandboxes of failed runs only, and knows of each it    *)
(* still has to delete or could not.                                       *)
RecoveryFits ==
  /\ \A b \in doomed : status[b[1]] = "failed"
  /\ process = "recovering" =>
       \A r \in Store!CleanupPending :
         Store!RecordedSandboxes(r) \cap live \subseteq doomed \cup undeleted
  /\ \A r \in cleaned : /\ status[r] = "failed" /\ body[r] = "idle"
                        /\ Store!RecordedSandboxes(r) \cap live = {}

(* Without a restart, every sandbox is somebody's to dispose of.           *)
LiveIsHeld ==
  restarts = 0 => \A b \in live : \E h \in Handles : held[b[1]][h] = b

IInv == /\ TypeOK /\ StoreProofs!IInv
        /\ \A r \in Runs : RunInv(r)
        /\ OneLeasePerRun /\ QueuedHolders
        /\ MemoryFits /\ RecoveryFits /\ LiveIsHeld

(* A transaction of an execution (#assertActiveRun) touches the columns of *)
(* its own run only.                                                       *)
Columns(q) == <<builder[q], verifier[q], purpose[q], sandbox[q],
                revision[q], evidence[q], artifacts[q], latestArtifact[q]>>
Writes(r) ==
  /\ Store!ActiveRun(lease[r])
  /\ UNCHANGED <<status, errorCode, cancelRequested, cleaned, startedBy,
                 outbox, published, slotRun, fencingToken, expired>>
  /\ \A q \in Runs \ {r} : Columns(q)' = Columns(q)

(* The store operations of an executor that name its lease are those of    *)
(* the run it was leased.                                                  *)
LEMMA HolderWrites ==
  ASSUME TypeOK, NEW r \in Runs, lease[r] \in Store!Leases, lease[r].run = r,
         \/ \E b, p : \/ Store!AttachSandbox(lease[r], b)
                      \/ Store!AttachVerificationSandbox(lease[r], b, p)
                      \/ Store!PromoteVerificationSandbox(lease[r], b)
         \/ \E v, k, verdict, newest :
              \/ Store!SetRevision(lease[r], v)
              \/ Store!AddEvidence(lease[r], v, k, verdict, newest)
              \/ Store!RecordArtifact(lease[r], v, newest)
  PROVE  Writes(r)
<1> USE DEF TypeOK, Store!TypeOK, Writes, Columns, Store!runVars,
            Store!sandboxVars, Store!proofVars, Store!outboxVars,
            Store!slotVars
<1>1. ASSUME NEW b, Store!AttachSandbox(lease[r], b) PROVE Writes(r)
  BY <1>1 DEF Store!AttachSandbox
<1>2. ASSUME NEW b, NEW p, Store!AttachVerificationSandbox(lease[r], b, p)
      PROVE  Writes(r)
  BY <1>2 DEF Store!AttachVerificationSandbox
<1>3. ASSUME NEW b, Store!PromoteVerificationSandbox(lease[r], b)
      PROVE  Writes(r)
  BY <1>3 DEF Store!PromoteVerificationSandbox
<1>4. ASSUME NEW v, Store!SetRevision(lease[r], v) PROVE Writes(r)
  BY <1>4 DEF Store!SetRevision
<1>5. ASSUME NEW v, NEW k, NEW verdict, NEW newest,
             Store!AddEvidence(lease[r], v, k, verdict, newest)
      PROVE  Writes(r)
  BY <1>5 DEF Store!AddEvidence
<1>6. ASSUME NEW v, NEW newest, Store!RecordArtifact(lease[r], v, newest)
      PROVE  Writes(r)
  BY <1>6 DEF Store!RecordArtifact
<1> QED
  BY <1>1, <1>2, <1>3, <1>4, <1>5, <1>6

-----------------------------------------------------------------------------
(* The assignments that body steps share.                                  *)
LEMMA GoesMoves ==
  ASSUME TypeOK, NEW r \in Runs, NEW to \in Body, Goes(r, to)
  PROVE  /\ body' \in [Runs -> Body] /\ body'[r] = to
         /\ \A q \in Runs \ {r} : body'[q] = body[q]
         /\ outer' = outer
  BY DEF TypeOK, Goes

(* A body that ends takes the execution around it along unless that was    *)
(* aborted before.                                                         *)
LEMMA EndMoves ==
  ASSUME TypeOK, NEW r \in Runs, NEW how \in Ended, BodyEnds(r, how)
  PROVE  /\ body' \in [Runs -> Body] /\ body'[r] = how
         /\ outer' \in [Runs -> Outer]
         /\ IF outer[r] = "executing" THEN outer'[r] \in {"catching", "flushing"}
                                      ELSE outer'[r] = outer[r]
         /\ \A q \in Runs \ {r} : /\ body'[q] = body[q]
                                  /\ outer'[q] = outer[q]
  BY DEF TypeOK, BodyEnds, Ended, Body, Outer

(* sandbox.dispose: the handle is dropped and the sandbox deleted.         *)
LEMMA DisposedMoves ==
  ASSUME TypeOK, NEW r \in Runs, NEW h \in Handles, Disposed(r, h)
  PROVE  /\ held' \in [Runs -> [Handles -> Sandboxes \cup {None}]]
         /\ live' \subseteq Sandboxes
         /\ attached' = attached
         /\ live' = live \ {held[r][h]}
         /\ held'[r][h] = None
         /\ \A g \in Handles \ {h} : held'[r][g] = held[r][g]
         /\ \A q \in Runs \ {r} : held'[q] = held[q]
  BY DEF TypeOK, Disposed

(* provider.create and createVerifier: the sandbox exists and the handle   *)
(* refers to it.                                                           *)
LEMMA ProvidedMoves ==
  ASSUME TypeOK, NEW r \in Runs, NEW h \in Handles, NEW b \in Sandboxes,
         Provided(r, h, b)
  PROVE  /\ held' \in [Runs -> [Handles -> Sandboxes \cup {None}]]
         /\ live' \subseteq Sandboxes
         /\ r \notin aborted /\ live' = live \cup {b}
         /\ held'[r][h] = b
         /\ \A g \in Handles \ {h} : held'[r][g] = held[r][g]
         /\ \A q \in Runs \ {r} : held'[q] = held[q]
  BY DEF TypeOK, Provided
-----------------------------------------------------------------------------
(* Every step of the worker is a step of the store.                        *)
LEMMA LeaseOfBody ==
  ASSUME IInv, NEW r \in Runs, body[r] # "idle"
  PROVE  /\ lease[r] \in Store!Leases /\ lease[r].run = r
         /\ lease[r].slot \in SlotIds /\ lease[r].token \in 1..MaxToken
         /\ lease[r].token \in Nat
<1>1. lease[r] \in Store!Leases /\ lease[r].run = r
  BY DEF IInv, TypeOK, RunInv, ExecutionFits
<1>2. lease[r].slot \in SlotIds /\ lease[r].token \in 1..MaxToken
  BY <1>1 DEF Store!Leases
<1> QED
  BY <1>1, <1>2, StoreAssumption

(* Past the generation of a candidate the run's row names its revision.    *)
LEMMA RevisionOfBody ==
  ASSUME IInv, NEW r \in Runs,
         body[r] \notin {"idle", "creating", "generating", "threw"}
  PROVE  revision[r] \in Revisions
<1>1. revision \in [Runs -> Revisions \cup {None}]
  BY DEF IInv, TypeOK, Store!TypeOK
<1>2. revision[r] # None
  BY DEF IInv, RunInv, ExecutionFits
<1> QED
  BY <1>1, <1>2

StoreStep == Store!Next \/ UNCHANGED storeVars

(* A step of the body changes the store by an operation that names its own *)
(* lease, or not at all.                                                   *)
LEMMA BodyStepIsStoreStep ==
  ASSUME IInv, NEW r \in Runs, BodyStep(r)
  PROVE  UNCHANGED storeVars \/ (Writes(r) /\ Store!LeaseHolderStep(lease[r]))
<1> DEFINE Fine == \/ UNCHANGED storeVars
                   \/ Writes(r) /\ Store!LeaseHolderStep(lease[r])
<1>0. ASSUME body[r] # "idle"
      PROVE  /\ lease[r] \in Store!Leases /\ lease[r].run = r
             /\ TypeOK
             /\ {"commands", "preview", "review", "evaluation"}
                  \subseteq Store!Kinds
  BY <1>0, LeaseOfBody DEF IInv, Store!Kinds, LatestKinds
<1>r. body[r] \notin {"idle", "creating", "generating", "threw"} =>
        revision[r] \in Revisions
  BY RevisionOfBody
<1>1. CASE BuilderCreated(r)
  <2>1. BuilderOf(r) \in Sandboxes
    BY LimitAssumption DEF Sandboxes, BuilderOf
  <2>2. Fine \/ Store!AttachSandbox(lease[r], BuilderOf(r))
    BY <1>1 DEF BuilderCreated, Refused
  <2> QED
    BY <1>0, <1>1, <2>1, <2>2, HolderWrites
       DEF Store!LeaseHolderStep, BuilderCreated, At
<1>2. ASSUME NEW v \in Revisions, Frozen(r, v) PROVE Fine
  <2>1. Fine \/ Store!SetRevision(lease[r], v)
    BY <1>2 DEF Frozen, Refused
  <2> QED
    BY <1>0, <1>2, <2>1, HolderWrites DEF Store!LeaseHolderStep, Frozen, At
<1>3. ASSUME NEW b \in Sandboxes, CommandVerifierCreated(r, b) PROVE Fine
  <2>1. Fine \/ Store!AttachVerificationSandbox(lease[r], b, "commands")
    BY <1>3 DEF CommandVerifierCreated, NotIsolated, VerifierAttached, Refused
  <2> QED
    BY <1>0, <1>3, <2>1, HolderWrites
       DEF Store!LeaseHolderStep, CommandVerifierCreated, At
<1>4. ASSUME NEW b \in Sandboxes, DeliveryVerifierCreated(r, b) PROVE Fine
  <2>1. Fine \/ Store!AttachVerificationSandbox(lease[r], b, "delivery")
    BY <1>4 DEF DeliveryVerifierCreated, NotIsolated, VerifierAttached, Refused
  <2> QED
    BY <1>0, <1>4, <2>1, HolderWrites
       DEF Store!LeaseHolderStep, DeliveryVerifierCreated, At
<1>5. ASSUME NEW k \in {"commands", "preview", "review", "evaluation"},
             NEW verdict \in {"PASS", "FAIL"}, NEW next \in Body,
             Records(r, k, verdict, next),
             body[r] \in {"delivery", "preview", "reviewing", "evaluating"}
      PROVE  Fine
  <2>1. \/ Fine
        \/ Store!AddEvidence(lease[r], revision[r], k, verdict, TRUE)
    BY <1>5 DEF Records, Refused
  <2>2. k \in Store!Kinds /\ revision[r] \in Revisions
    BY <1>0, <1>r, <1>5
  <2> QED
    BY <1>0, <1>5, <2>1, <2>2, HolderWrites DEF Store!LeaseHolderStep
<1>6. ASSUME NEW verdict \in {"PASS", "FAIL"},
             \/ DeliveryCommandsRun(r, verdict)
             \/ PreviewInspected(r, verdict)
             \/ Reviewed(r, verdict)
             \/ \E next \in Body : Evaluated(r, verdict, next)
      PROVE  Fine
  BY <1>5, <1>6
     DEF DeliveryCommandsRun, PreviewInspected, Reviewed, Evaluated, At, Body
<1>7. CASE ArtifactPersisted(r)
  <2>1. Fine \/ Store!RecordArtifact(lease[r], revision[r], TRUE)
    BY <1>7 DEF ArtifactPersisted, Refused
  <2> QED
    BY <1>0, <1>r, <1>7, <2>1, HolderWrites
       DEF Store!LeaseHolderStep, ArtifactPersisted, At
<1>8. CASE Promoted(r)
  <2>1. \/ Fine
        \/ Store!PromoteVerificationSandbox(lease[r], held[r]["delivery"])
    BY <1>8 DEF Promoted, Refused
  <2>2. body[r] = "promoting"
    BY <1>8 DEF Promoted, At
  <2>3. held[r]["delivery"] = DeliveryVerifier(r, round[r])
    BY <2>2 DEF IInv, RunInv, DeliveryKept, Deliverable, Checking
  <2>4. DeliveryVerifier(r, round[r]) \in live
    BY <2>2 DEF IInv, RunInv, DeliveryKept, Deliverable, Checking
  <2>5. held[r]["delivery"] \in Sandboxes
    BY <2>3, <2>4 DEF IInv, TypeOK
  <2> QED
    BY <1>0, <2>1, <2>2, <2>5, HolderWrites DEF Store!LeaseHolderStep
<1>9. ASSUME \/ CommandsRun(r) \/ HandedOver(r) \/ BodyThrows(r)
             \/ \E h \in Handles : VerifierDisposed(r, h)
             \/ Unwound(r)
      PROVE  Fine
  BY <1>9 DEF CommandsRun, HandedOver, BodyThrows, VerifierDisposed, Unwound
<1> QED
  BY <1>1, <1>2, <1>3, <1>4, <1>6, <1>7, <1>8, <1>9 DEF BodyStep

(* What the outer half does to the store: it marks its run terminal, or    *)
(* releases its slot.                                                      *)
Marks(r) == /\ status[r] = "running" /\ Store!LeaseValid(lease[r])
            /\ status'[r] \in Store!Terminal
            /\ \A q \in Runs \ {r} : status'[q] = status[q]
            /\ UNCHANGED <<cancelRequested, cleaned, startedBy,
                           Store!sandboxVars, Store!proofVars, published,
                           Store!slotVars>>
Releases(l) == /\ Store!ReleaseSlot(l)
               /\ UNCHANGED <<Store!runVars, Store!sandboxVars,
                              Store!proofVars, Store!outboxVars, fencingToken>>

(* markPassed and markTerminal with the lease of an execution are the end  *)
(* of its run.                                                             *)
LEMMA HolderMarks ==
  ASSUME TypeOK, NEW r \in Runs, lease[r] \in Store!Leases, lease[r].run = r,
         \/ \E v : Store!MarkPassed(lease[r], v)
         \/ \E outcome \in {"rejected", "failed", "cancelled"} :
              Store!MarkTerminal(lease[r], outcome)
  PROVE  Marks(r)
<1>1. ASSUME NEW v, Store!MarkPassed(lease[r], v) PROVE Marks(r)
  BY <1>1 DEF TypeOK, Store!TypeOK, Marks, Store!MarkPassed, Store!CanPass,
              Store!ActiveRun, Store!Terminal
<1>2. ASSUME NEW outcome \in {"rejected", "failed", "cancelled"},
             Store!MarkTerminal(lease[r], outcome)
      PROVE  Marks(r)
  BY <1>2 DEF TypeOK, Store!TypeOK, Marks, Store!MarkTerminal,
              Store!ActiveRun, Store!Terminal, Store!outboxVars
<1> QED
  BY <1>1, <1>2

(* execute around the body marks its run or releases its lease, in steps   *)
(* of the store.                                                           *)
LEMMA OuterStepIsStoreStep ==
  ASSUME IInv, NEW r \in Runs, OuterStep(r)
  PROVE  \/ UNCHANGED storeVars
         \/ /\ Marks(r) \/ Releases(lease[r])
            /\ Store!LeaseHolderStep(lease[r])
<1> DEFINE Fine == \/ UNCHANGED storeVars
                   \/ /\ Marks(r) \/ Releases(lease[r])
                      /\ Store!LeaseHolderStep(lease[r])
<1>1. outer[r] # "idle"
  BY DEF OuterStep, FlushDone, FlushFails, Catch, DisposeBuilder,
         DisposeRetained
<1>2. lease[r] \in Store!Leases /\ lease[r].run = r /\ TypeOK
  BY <1>1, LeaseOfBody DEF IInv, RunInv, ExecutionFits
<1>3. ASSUME NEW outcome \in {"rejected", "failed", "cancelled"},
             Store!MarkTerminal(lease[r], outcome)
      PROVE  Fine
  BY <1>2, <1>3, HolderMarks DEF Store!LeaseHolderStep
<1>4. CASE FlushDone(r)
  <2>1. CASE body[r] = "passed" /\ Store!MarkPassed(lease[r], revision[r])
    <3>1. revision[r] \in Revisions
      BY <2>1, RevisionOfBody
    <3> QED
      BY <1>2, <2>1, <3>1, HolderMarks DEF Store!LeaseHolderStep
  <2> QED
    BY <1>3, <1>4, <2>1 DEF FlushDone
<1>5. CASE Catch(r)
  BY <1>3, <1>5 DEF Catch, Refused
<1>6. ASSUME Finish(r) PROVE Fine
  BY <1>6 DEF Finish, Releases, Store!ReleaseSlot, Store!LeaseHolderStep
<1>7. CASE DisposeBuilder(r)
  BY <1>6, <1>7 DEF DisposeBuilder
<1>8. CASE DisposeRetained(r)
  BY <1>6, <1>8 DEF DisposeRetained
<1>9. CASE FlushFails(r)
  BY <1>9 DEF FlushFails
<1> QED
  BY <1>4, <1>5, <1>7, <1>8, <1>9 DEF OuterStep

(* The scheduler's loop changes the store by acquiring and releasing slots *)
(* only.                                                                   *)
LEMMA SchedulerStepIsStoreStep ==
  ASSUME IInv, SchedulerStep
  PROVE  StoreStep
<1>1. ASSUME NEW r \in Runs, AcquireNext(r) PROVE Store!Next
  BY <1>1 DEF AcquireNext, Store!Next
<1>2. ASSUME dispatching # None,
             \/ Store!StartRun(dispatching) \/ Store!ReleaseSlot(dispatching)
      PROVE  Store!Next
  <2>1. dispatching \in Store!Leases
    BY <1>2 DEF IInv, TypeOK
  <2> QED
    BY <1>2, <2>1 DEF Store!Next, Store!LeaseHolderStep
<1>3. Dispatch \/ DispatchTooLate => Store!Next
  BY <1>2 DEF Dispatch, DispatchTooLate
<1>4. Wake \/ NoSlotLeft => UNCHANGED storeVars
  BY DEF Wake, NoSlotLeft
<1>5. \A r \in Runs : HeartbeatFails(r) \/ WallClock(r) => UNCHANGED storeVars
  BY DEF HeartbeatFails, WallClock
<1> QED
  BY <1>1, <1>3, <1>4, <1>5 DEF SchedulerStep, StoreStep

(* The start of the process recovers the store; its end leaves it alone.   *)
LEMMA ProcessStepIsStoreStep ==
  ASSUME ProcessStep
  PROVE  StoreStep
<1>1. Crash \/ Shutdown \/ Exit => UNCHANGED storeVars
  BY DEF Crash, Shutdown, Exit
<1>2. Recover \/ Start => Store!Next
  BY DEF Recover, Start, Store!Next
<1>3. \A b \in Sandboxes : DeleteRecorded(b) => UNCHANGED storeVars
  BY DEF DeleteRecorded
<1>4. \A r \in Runs : FinishCleanup(r) => Store!Next
  BY DEF FinishCleanup, Store!Next
<1> QED
  BY <1>1, <1>2, <1>3, <1>4 DEF ProcessStep, StoreStep

(* Every step of the worker is a step of the store or none: this is the    *)
(* refinement.                                                             *)
LEMMA StepIsStoreStep ==
  ASSUME IInv, [Next]_vars
  PROVE  StoreStep
<1>1. ASSUME NEW r \in Runs, ServiceStep(r) PROVE StoreStep
  BY <1>1 DEF ServiceStep, Submit, Cancel, AcknowledgeOutbox, StoreStep,
              Store!Next
<1>2. ASSUME NEW r \in Runs, Store!LeaseHolderStep(lease[r]), body[r] # "idle"
      PROVE  StoreStep
  BY <1>2, LeaseOfBody DEF Store!Next, StoreStep
<1>3. ASSUME NEW r \in Runs, BodyStep(r) PROVE StoreStep
  <2>1. body[r] # "idle"
    BY <1>3 DEF BodyStep, BuilderCreated, Frozen, CommandVerifierCreated,
                DeliveryVerifierCreated, CommandsRun, DeliveryCommandsRun,
                PreviewInspected, Reviewed, Evaluated, ArtifactPersisted,
                Promoted, HandedOver, BodyThrows, VerifierDisposed, Unwound,
                At, Unwinding
  <2> QED
    BY <1>2, <1>3, <2>1, BodyStepIsStoreStep DEF StoreStep
<1>4. ASSUME NEW r \in Runs, OuterStep(r) PROVE StoreStep
  <2>1. outer[r] # "idle"
    BY <1>4 DEF OuterStep, FlushDone, FlushFails, Catch, DisposeBuilder,
                DisposeRetained
  <2>2. body[r] # "idle"
    BY <2>1 DEF IInv, RunInv, ExecutionFits
  <2> QED
    BY <1>2, <1>4, <2>2, OuterStepIsStoreStep DEF StoreStep
<1>5. ASSUME NEW s \in SlotIds, LeaseRunsOut(s) PROVE StoreStep
  BY <1>5 DEF LeaseRunsOut, StoreStep, Store!Next
<1>6. CASE UNCHANGED vars
  BY <1>6 DEF vars, StoreStep
<1> QED
  BY <1>1, <1>3, <1>4, <1>5, <1>6, SchedulerStepIsStoreStep,
     ProcessStepIsStoreStep DEF Next

(* Hence the tables stay as RunStoreProofs has them, and a lease that is   *)
(* no longer current stays so.                                             *)
LEMMA StoreKeepsItsInvariant ==
  ASSUME IInv, [Next]_vars
  PROVE  /\ StoreProofs!IInv' /\ Store!TypeOK' /\ Store!TypeOK
         /\ [StoreProofs!Next]_(StoreProofs!vars) /\ StoreProofs!TypeOK
<1>1. [StoreProofs!Next]_(StoreProofs!vars)
  BY StepIsStoreStep, SameStore
     DEF StoreStep, storeVars, StoreProofs!vars, StoreProofs!runVars,
         StoreProofs!sandboxVars, StoreProofs!proofVars,
         StoreProofs!outboxVars, StoreProofs!slotVars
<1>2. StoreProofs!IInv'
  BY <1>1, StoreFits, StoreProofs!InvariantIsInductive DEF IInv
<1>3. Store!TypeOK /\ StoreProofs!TypeOK
  BY DEF IInv, TypeOK, StoreProofs!IInv
<1>4. StoreProofs!TypeOK'
  BY <1>2 DEF StoreProofs!IInv
<1>5. StoreProofs!TypeOK' => Store!TypeOK'
  BY DEF StoreProofs!TypeOK, Store!TypeOK, StoreProofs!Status, Store!Status,
         StoreProofs!ErrorCode, Store!ErrorCode, StoreProofs!Tickets,
         Store!Tickets, StoreProofs!Kinds, Store!Kinds, StoreProofs!Verdicts,
         Store!Verdicts
<1> QED
  BY <1>1, <1>2, <1>3, <1>4, <1>5

(* Fencing tokens only grow, and a lease that is not valid never becomes   *)
(* valid again.                                                            *)
LEMMA LeasesDecay ==
  ASSUME IInv, [Next]_vars, NEW r \in Runs, body[r] # "idle"
  PROVE  /\ fencingToken[lease[r].slot] <= fencingToken'[lease[r].slot]
         /\ fencingToken[lease[r].slot] \in Nat
         /\ fencingToken'[lease[r].slot] \in Nat
         /\ ~Store!LeaseValid(lease[r]) =>
              \/ slotRun'[lease[r].slot] # r
              \/ fencingToken'[lease[r].slot] # lease[r].token
              \/ expired'[lease[r].slot]
<1> DEFINE s == lease[r].slot
<1>1. s \in SlotIds /\ lease[r].run = r /\ lease[r].token \in Nat
  BY LeaseOfBody
<1>2. StoreProofs!SlotGranted(s) \/ StoreProofs!SlotDecays(s)
  BY <1>1, StoreFits, StoreKeepsItsInvariant, StoreProofs!SlotStep
<1>3. /\ fencingToken[s] \in Nat /\ fencingToken'[s] \in Nat
      /\ expired[s] \in BOOLEAN /\ expired'[s] \in BOOLEAN
      /\ slotRun'[s] \in Runs \cup {None}
  BY <1>1, StoreKeepsItsInvariant, StoreAssumption DEF Store!TypeOK
<1>4. lease[r].token <= fencingToken[s]
  BY <1>1 DEF IInv, RunInv, ExecutionFits, TypeOK
<1>5. r # None
  BY StoreAssumption
<1> HIDE DEF s
<1>6. CASE fencingToken'[s] = fencingToken[s] + 1
  BY <1>1, <1>3, <1>4, <1>6 DEF s
<1>7. CASE StoreProofs!SlotDecays(s)
  BY <1>1, <1>3, <1>5, <1>7 DEF StoreProofs!SlotDecays, Store!LeaseValid, s
<1> QED
  BY <1>2, <1>6, <1>7 DEF StoreProofs!SlotGranted
-----------------------------------------------------------------------------
(* A step of one run, of the API, the scheduler, the clock or recovery, as *)
(* the other runs see it: it may end their life in the store, or abort     *)
(* them, no more.                                                          *)
Ages(q) == \/ status'[q] = status[q]
           \/ /\ status[q] \notin Store!Terminal
              /\ \/ status'[q] \in Store!Terminal \ {"passed"}
                 \/ lease[q] = None /\ status'[q] # "passed"
SandboxKept(q) ==
  Deliverable(q) \/ status[q] = "passed" =>
    \A b \in live : b[1] = q => b \in live'
Bystander(q) ==
  /\ UNCHANGED <<body[q], lease[q], round[q], held[q]>>
  /\ \/ outer'[q] = outer[q]
     \/ /\ outer'[q] = "catching"
        /\ \/ outer[q] = "executing" /\ q \in aborted'
           \/ outer[q] = "flushing"
  /\ q \in aborted => q \in aborted'
  /\ Columns(q)' = Columns(q)
  /\ Ages(q)
  /\ SandboxKept(q)

(* What an execution was told about its lease stays true while it keeps    *)
(* that lease: tokens do not pass it by unnoticed, and a terminal run      *)
(* stays as it is.                                                         *)
LEMMA FencingStays ==
  ASSUME IInv, [Next]_vars, NEW q \in Runs, lease'[q] = lease[q], Ages(q)
  PROVE  /\ lease[q] # None =>
              /\ lease'[q].token <= fencingToken'[lease'[q].slot]
              /\ status'[q] \in {"running"} \cup Store!Terminal
         /\ status[q] \in Store!Terminal => status'[q] = status[q]
         /\ lease[q] # None /\ ~Store!LeaseValid(lease[q]) =>
              ~Store!LeaseValid(lease[q])'
<1>1. lease[q] = None <=> body[q] = "idle"
  BY DEF IInv, RunInv, ExecutionFits
<1>2. lease[q] # None => /\ lease[q].token <= fencingToken[lease[q].slot]
                         /\ status[q] \in {"running"} \cup Store!Terminal
                         /\ lease[q].run = q
  BY DEF IInv, RunInv, ExecutionFits
<1>3. ASSUME lease[q] # None
      PROVE  lease'[q].token <= fencingToken'[lease'[q].slot]
  BY <1>1, <1>2, <1>3, LeasesDecay, LeaseOfBody
<1>4. ASSUME lease[q] # None, ~Store!LeaseValid(lease[q])
      PROVE  ~Store!LeaseValid(lease[q])'
  BY <1>1, <1>2, <1>4, LeasesDecay DEF Store!LeaseValid
<1> QED
  BY <1>2, <1>3, <1>4 DEF Ages

(* The invariant of a run that a step only passes by: its execution is     *)
(* where it was and its row has at most aged.                              *)
LEMMA BystanderKeeps ==
  ASSUME IInv, [Next]_vars, NEW q \in Runs, Bystander(q)
  PROVE  RunInv(q)'
<1>1. /\ ExecutionFits(q) /\ HandlesFit(q) /\ OwnColumns(q)
      /\ DeliveryKept(q) /\ WayOut(q)
  BY DEF IInv, RunInv
<1> USE DEF Bystander, Columns
<1>2. /\ lease[q] # None =>
           /\ lease'[q].token <= fencingToken'[lease'[q].slot]
           /\ status'[q] \in {"running"} \cup Store!Terminal
      /\ status[q] \in Store!Terminal => status'[q] = status[q]
      /\ lease[q] # None /\ ~Store!LeaseValid(lease[q]) =>
           ~Store!LeaseValid(lease[q])'
  BY FencingStays
<1>3. ExecutionFits(q)'
  BY <1>1, <1>2 DEF ExecutionFits, Store!Terminal
<1>4. HandlesFit(q)'
  BY <1>1 DEF HandlesFit, BuilderOf, CommandVerifier, DeliveryVerifier
<1>5. OwnColumns(q)'
  BY <1>1 DEF OwnColumns, Store!RecordedSandboxes
<1>6. DeliveryKept(q)'
  <2>1. Deliverable(q)' <=> Deliverable(q)
    BY DEF Deliverable
  <2>2. DeliveryVerifier(q, round[q])' = DeliveryVerifier(q, round[q])
    BY DEF DeliveryVerifier
  <2>3. DeliveryVerifier(q, round[q])[1] = q
    BY DEF DeliveryVerifier
  <2>4. Deliverable(q) => DeliveryVerifier(q, round[q]) \in live'
    BY <1>1, <2>3 DEF DeliveryKept, SandboxKept
  <2>5. status'[q] = "passed" <=> status[q] = "passed"
    BY <1>2 DEF Ages, Store!Terminal
  <2>6. status[q] = "passed" => sandbox[q] \in live'
    <3>1. ASSUME status[q] = "passed" PROVE sandbox[q][1] = q
      <4>1. StoreProofs!ProvenRunsHaveProof
        BY DEF IInv, StoreProofs!IInv
      <4>2. sandbox[q] = verifier[q] /\ verifier[q] # None
        BY <3>1, <4>1 DEF StoreProofs!ProvenRunsHaveProof,
                          StoreProofs!DeliverySandboxPromoted
      <4> QED
        BY <1>1, <4>2 DEF OwnColumns, Store!RecordedSandboxes
    <3> QED
      BY <1>1, <3>1 DEF DeliveryKept, SandboxKept
  <2> QED
    BY <1>1, <2>1, <2>2, <2>4, <2>5, <2>6 DEF DeliveryKept
<1>7. WayOut(q)'
  <2>1. GivenUp(q)' => GivenUp(q)
    BY DEF GivenUp
  <2>2. GivenUp(q) => lease[q] # None
    BY DEF GivenUp
  <2>3. GivenUp(q)' => \/ status'[q] \in Store!Terminal
                       \/ ~Store!LeaseValid(lease[q])'
    BY <1>1, <1>2, <2>1, <2>2 DEF WayOut
  <2>4. outer[q] = "disposingRetained" => lease[q] # None
    BY <1>1 DEF ExecutionFits
  <2>5. status'[q] = "passed" <=> status[q] = "passed"
    BY <1>2 DEF Ages, Store!Terminal
  <2> QED
    BY <1>1, <2>3, <2>5 DEF WayOut, Store!Terminal
<1> QED
  BY <1>3, <1>4, <1>5, <1>6, <1>7 DEF RunInv

(* Operations on other runs, the clock and the recovery at most age a row. *)
LEMMA StoreOpsAge ==
  ASSUME IInv, NEW q \in Runs,
         \/ UNCHANGED storeVars
         \/ \E r \in Runs : \/ Store!CreateRun(r) \/ Store!RequestCancel(r)
                            \/ Store!MarkOutboxPublished(r)
                            \/ Store!MarkRecoveryCleanupComplete(r)
                            \/ \E s \in SlotIds : Store!AcquireSlot(r, s)
         \/ \E l \in Store!Leases : Store!ReleaseSlot(l)
         \/ \E s \in SlotIds : Store!LeaseExpires(s)
         \/ Store!RecoverInterruptedRuns
  PROVE  Columns(q)' = Columns(q) /\ Ages(q)
<1> USE DEF Columns, Ages, Store!Terminal, Store!runVars, Store!sandboxVars,
            Store!proofVars, Store!outboxVars, Store!slotVars
<1>1. status \in [Runs -> Store!Status] /\ slotRun \in [SlotIds -> Runs \cup {None}]
  BY DEF IInv, TypeOK, Store!TypeOK
<1>2. lease[q] # None => status[q] \in {"running"} \cup Store!Terminal
  BY DEF IInv, RunInv, ExecutionFits
<1>3. ASSUME NEW r \in Runs, Store!CreateRun(r)
      PROVE  Columns(q)' = Columns(q) /\ Ages(q)
  BY <1>1, <1>2, <1>3 DEF Store!CreateRun
<1>4. ASSUME NEW r \in Runs, Store!RequestCancel(r)
      PROVE  Columns(q)' = Columns(q) /\ Ages(q)
  BY <1>1, <1>2, <1>4 DEF Store!RequestCancel
<1>5. ASSUME NEW r \in Runs, \/ Store!MarkOutboxPublished(r)
                             \/ Store!MarkRecoveryCleanupComplete(r)
      PROVE  Columns(q)' = Columns(q) /\ Ages(q)
  BY <1>5 DEF Store!MarkOutboxPublished, Store!MarkRecoveryCleanupComplete
<1>6. ASSUME NEW r \in Runs, NEW s \in SlotIds, Store!AcquireSlot(r, s)
      PROVE  Columns(q)' = Columns(q) /\ Ages(q)
  BY <1>1, <1>6 DEF Store!AcquireSlot, Store!FailExpiredRun
<1>7. ASSUME NEW l \in Store!Leases, Store!ReleaseSlot(l)
      PROVE  Columns(q)' = Columns(q) /\ Ages(q)
  BY <1>7 DEF Store!ReleaseSlot
<1>8. ASSUME NEW s \in SlotIds, Store!LeaseExpires(s)
      PROVE  Columns(q)' = Columns(q) /\ Ages(q)
  BY <1>8 DEF Store!LeaseExpires
<1>9. ASSUME Store!RecoverInterruptedRuns
      PROVE  Columns(q)' = Columns(q) /\ Ages(q)
  BY <1>1, <1>9 DEF Store!RecoverInterruptedRuns
<1>10. ASSUME UNCHANGED storeVars
       PROVE  Columns(q)' = Columns(q) /\ Ages(q)
  BY <1>10 DEF storeVars
<1> QED
  BY <1>3, <1>4, <1>5, <1>6, <1>7, <1>8, <1>9, <1>10

(* An abort is seen by the executions it was sent to and by no others.     *)
LEMMA AbortBystander ==
  ASSUME TypeOK, NEW R \in SUBSET Runs, Abort(R), NEW q \in Runs
  PROVE  /\ \/ outer'[q] = outer[q]
            \/ /\ outer'[q] = "catching"
               /\ outer[q] \in {"executing", "flushing"} /\ q \in aborted'
         /\ q \in aborted => q \in aborted'
  BY DEF Abort, TypeOK

(* The API, the clock, and recovery: all runs are bystanders.              *)
LEMMA ServiceBystanders ==
  ASSUME IInv, NEW r \in Runs, ServiceStep(r), NEW q \in Runs
  PROVE  Bystander(q)
<1>1. CASE Submit(r)
  BY <1>1, StoreOpsAge DEF Submit, Bystander, memory, sandboxes, SandboxKept
<1>2. CASE Cancel(r)
  <2>1. TypeOK /\ {r} \cap active \in SUBSET Runs
    BY DEF IInv
  <2> QED
    BY <1>2, <2>1, AbortBystander, StoreOpsAge
       DEF Cancel, Bystander, sandboxes, SandboxKept
<1>3. CASE AcknowledgeOutbox(r)
  BY <1>3, StoreOpsAge
     DEF AcknowledgeOutbox, Bystander, memory, sandboxes, SandboxKept
<1> QED
  BY <1>1, <1>2, <1>3 DEF ServiceStep

(* Every run is a bystander when a lease runs out.                         *)
LEMMA ClockBystanders ==
  ASSUME IInv, NEW s \in SlotIds, LeaseRunsOut(s), NEW q \in Runs
  PROVE  Bystander(q)
  BY StoreOpsAge DEF LeaseRunsOut, Bystander, memory, sandboxes, SandboxKept

(* The scheduler touches the execution it dispatches and no other.         *)
LEMMA SchedulerBystanders ==
  ASSUME IInv, SchedulerStep, NEW q \in Runs
  PROVE  Bystander(q) \/ (Dispatch /\ q = dispatching.run)
<1> USE DEF Bystander, sandboxes, SandboxKept
<1>1. CASE Wake \/ NoSlotLeft
  BY <1>1, StoreOpsAge DEF Wake, NoSlotLeft
<1>2. CASE Dispatch
  <2>1. dispatching \in Store!Leases /\ dispatching.run \in Runs /\ TypeOK
    BY <1>2 DEF Dispatch, IInv, TypeOK, Store!Leases
  <2>2. CASE q # dispatching.run
    <3>1. /\ outer'[q] = outer[q] /\ body'[q] = body[q]
          /\ lease'[q] = lease[q] /\ round' = round /\ held' = held
          /\ live' = live /\ aborted' = aborted
      BY <1>2, <2>1, <2>2 DEF Dispatch, TypeOK
    <3>2. Columns(q)' = Columns(q) /\ Ages(q)
      BY <1>2, <2>1, <2>2
         DEF Dispatch, Store!StartRun, Columns, Ages, TypeOK, Store!TypeOK,
             Store!sandboxVars, Store!proofVars
    <3> QED
      BY <3>1, <3>2
  <2> QED
    BY <1>2, <2>2
<1>3. CASE DispatchTooLate
  <2>1. dispatching \in Store!Leases
    BY <1>3 DEF DispatchTooLate, IInv, TypeOK
  <2> QED
    BY <1>3, <2>1, StoreOpsAge DEF DispatchTooLate
<1>4. ASSUME NEW r \in Runs, AcquireNext(r) PROVE Bystander(q)
  BY <1>4, StoreOpsAge DEF AcquireNext
<1>5. ASSUME NEW r \in Runs, HeartbeatFails(r) \/ WallClock(r)
      PROVE  Bystander(q)
  <2>1. TypeOK /\ {r} \in SUBSET Runs
    BY DEF IInv
  <2> QED
    BY <1>5, <2>1, AbortBystander, StoreOpsAge DEF HeartbeatFails, WallClock
<1> QED
  BY <1>1, <1>2, <1>3, <1>4, <1>5 DEF SchedulerStep

(* Short of its end, the process touches no execution.                     *)
LEMMA ProcessBystanders ==
  ASSUME IInv, ProcessStep, NEW q \in Runs
  PROVE  Bystander(q) \/ Crash \/ Exit
<1> USE DEF Bystander, sandboxes, memory
<1>1. CASE Shutdown
  <2>1. TypeOK /\ active \in SUBSET Runs
    BY DEF IInv, TypeOK
  <2> QED
    BY <1>1, <2>1, AbortBystander, StoreOpsAge DEF Shutdown, SandboxKept
<1>2. CASE Recover
  BY <1>2, StoreOpsAge DEF Recover, SandboxKept
<1>3. CASE Start
  BY <1>3, StoreOpsAge DEF Start, SandboxKept
<1>4. ASSUME NEW b \in Sandboxes, DeleteRecorded(b) PROVE Bystander(q)
  <2>1. status[b[1]] = "failed"
    BY <1>4 DEF DeleteRecorded, IInv, RecoveryFits
  <2>2. body[q] = "idle"
    BY <1>4 DEF DeleteRecorded, IInv, MemoryFits
  <2>3. ~Deliverable(q)
    BY <2>2 DEF Deliverable, Checking, Retaining
  <2>4. live \ {b} \subseteq live'
    BY <1>4 DEF DeleteRecorded
  <2>5. SandboxKept(q)
    BY <2>1, <2>3, <2>4 DEF SandboxKept
  <2> QED
    BY <1>4, <2>5, StoreOpsAge DEF DeleteRecorded
<1>5. ASSUME NEW r \in Runs, FinishCleanup(r) PROVE Bystander(q)
  BY <1>5, StoreOpsAge DEF FinishCleanup, SandboxKept
<1> QED
  BY <1>1, <1>2, <1>3, <1>4, <1>5 DEF ProcessStep

(* A step of an execution: all other runs are bystanders.                  *)
LEMMA DisposedKeeps ==
  ASSUME IInv, NEW r \in Runs, NEW h \in Handles, Disposed(r, h),
         NEW q \in Runs \ {r}
  PROVE  held'[q] = held[q] /\ SandboxKept(q)
<1>1. held'[q] = held[q] /\ live' = live \ {held[r][h]}
  BY DisposedMoves DEF IInv
<1>2. held[r][h] = None \/ held[r][h][1] = r
  BY DEF IInv, RunInv, HandlesFit, Handles, BuilderOf, CommandVerifier,
         DeliveryVerifier
<1>3. None \notin live
  BY StoreFits DEF IInv, TypeOK, StoreProofs!NoneAssumption
<1> QED
  BY <1>1, <1>2, <1>3 DEF SandboxKept

(* A sandbox made for one run is none of another's.                        *)
LEMMA ProvidedKeeps ==
  ASSUME IInv, NEW r \in Runs, NEW h \in Handles, NEW b \in Sandboxes,
         Provided(r, h, b), NEW q \in Runs \ {r}
  PROVE  held'[q] = held[q] /\ SandboxKept(q)
  BY ProvidedMoves DEF IInv, SandboxKept

(* The label of one body says nothing of another's.                        *)
LEMMA BodyLeavesOthers ==
  ASSUME IInv, NEW r \in Runs, NEW q \in Runs \ {r},
         \/ \E to \in Body : Goes(r, to)
         \/ \E how \in Ended : BodyEnds(r, how)
  PROVE  body'[q] = body[q] /\ outer'[q] = outer[q]
  BY GoesMoves, EndMoves DEF IInv

(* A write to one run's columns is none to another's.                      *)
LEMMA WritesKeep ==
  ASSUME IInv, NEW r \in Runs, NEW q \in Runs \ {r},
         UNCHANGED storeVars \/ Writes(r)
  PROVE  Columns(q)' = Columns(q) /\ Ages(q)
  BY StoreOpsAge DEF Writes, Ages

BodyShape(r) ==
  /\ Frame
  /\ \/ \E to \in Body : Goes(r, to)
     \/ \E how \in Ended : BodyEnds(r, how)
     \/ UNCHANGED <<body, outer>>
  /\ \/ UNCHANGED round
     \/ round' = [round EXCEPT ![r] = @ + 1]
  /\ \/ UNCHANGED <<held, live>>
     \/ \E h \in Handles : \/ Disposed(r, h)
                           \/ \E b \in Sandboxes : Provided(r, h, b)

(* The sandboxes of a run are told apart by role and by repair.            *)
LEMMA SandboxIds ==
  ASSUME NEW r \in Runs, NEW n \in 0..MaxRepair
  PROVE  /\ BuilderOf(r) \in Sandboxes /\ CommandVerifier(r, n) \in Sandboxes
         /\ DeliveryVerifier(r, n) \in Sandboxes
         /\ BuilderOf(r) # CommandVerifier(r, n)
         /\ BuilderOf(r) # DeliveryVerifier(r, n)
         /\ CommandVerifier(r, n) # DeliveryVerifier(r, n)
<1>1. MaxRepair \in Nat /\ n \in Nat /\ n <= MaxRepair
  BY LimitAssumption
<1>2. {0, 2 * n + 1, 2 * n + 2} \subseteq 0 .. 2 * (MaxRepair + 1)
  BY <1>1
<1>3. 0 # 2 * n + 1 /\ 0 # 2 * n + 2 /\ 2 * n + 1 # 2 * n + 2
  BY <1>1
<1> QED
  BY <1>2, <1>3
     DEF BuilderOf, CommandVerifier, DeliveryVerifier, Sandboxes

(* The steps of a body, sorted by what they do to the sandboxes and to the *)
(* store.                                                                  *)
LEMMA BodyStepShape ==
  ASSUME IInv, NEW r \in Runs, BodyStep(r)
  PROVE  BodyShape(r)
<1> USE DEF BodyShape, sandboxes
<1>1. /\ Body = {"idle", "creating", "generating", "creatingCommand",
                 "creatingDelivery", "commands", "delivery", "preview",
                 "reviewing", "evaluating", "persisting", "promoting",
                 "promoted", "unwindThrow", "unwindRepair", "unwindReject",
                 "threw", "rejected", "passed", "refused"}
      /\ Ended = {"threw", "rejected", "passed", "refused"}
      /\ Handles = {"builder", "command", "delivery"}
  BY DEF Body, Unwinding, Ended, Retaining, Handles
<1>2. BuilderOf(r) \in Sandboxes
  BY SandboxIds, LimitAssumption
<1>3. CASE BuilderCreated(r)
  BY <1>1, <1>2, <1>3 DEF BuilderCreated
<1>4. ASSUME NEW v \in Revisions, Frozen(r, v) PROVE BodyShape(r)
  BY <1>1, <1>4 DEF Frozen
<1>5. ASSUME NEW b \in Sandboxes, CommandVerifierCreated(r, b)
      PROVE  BodyShape(r)
  BY <1>1, <1>5 DEF CommandVerifierCreated, NotIsolated, VerifierAttached
<1>6. ASSUME NEW b \in Sandboxes, DeliveryVerifierCreated(r, b)
      PROVE  BodyShape(r)
  BY <1>1, <1>6 DEF DeliveryVerifierCreated, NotIsolated, VerifierAttached
<1>7. CASE CommandsRun(r)
  BY <1>1, <1>7 DEF CommandsRun
<1>8. ASSUME NEW k, NEW verdict, NEW next \in Body,
             Records(r, k, verdict, next)
      PROVE  BodyShape(r)
  BY <1>1, <1>8 DEF Records
<1>9. ASSUME NEW verdict \in {"PASS", "FAIL"},
             \/ DeliveryCommandsRun(r, verdict)
             \/ PreviewInspected(r, verdict)
             \/ Reviewed(r, verdict)
             \/ \E next \in Body : Evaluated(r, verdict, next)
      PROVE  BodyShape(r)
  BY <1>1, <1>8, <1>9
     DEF DeliveryCommandsRun, PreviewInspected, Reviewed, Evaluated
<1>10. CASE ArtifactPersisted(r)
  BY <1>1, <1>10 DEF ArtifactPersisted
<1>11. CASE Promoted(r)
  BY <1>1, <1>11 DEF Promoted
<1>12. CASE HandedOver(r)
  BY <1>1, <1>12 DEF HandedOver
<1>13. CASE BodyThrows(r)
  BY <1>1, <1>13 DEF BodyThrows
<1>14. ASSUME NEW h \in Handles, VerifierDisposed(r, h) PROVE BodyShape(r)
  BY <1>14 DEF VerifierDisposed
<1>15. CASE Unwound(r)
  BY <1>1, <1>15 DEF Unwound, Unwinding
<1> QED
  BY <1>3, <1>4, <1>5, <1>6, <1>7, <1>9, <1>10, <1>11, <1>12, <1>13, <1>14,
     <1>15 DEF BodyStep

(* Every other run is a bystander to the step of a body.                   *)
LEMMA BodyBystanders ==
  ASSUME IInv, NEW r \in Runs, BodyStep(r), NEW q \in Runs \ {r}
  PROVE  Bystander(q)
<1>1. BodyShape(r) /\ (UNCHANGED storeVars \/ Writes(r))
  BY BodyStepShape, BodyStepIsStoreStep
<1>2. body'[q] = body[q] /\ outer'[q] = outer[q]
  BY <1>1, BodyLeavesOthers DEF BodyShape
<1>3. held'[q] = held[q] /\ SandboxKept(q)
  BY <1>1, DisposedKeeps, ProvidedKeeps DEF BodyShape, SandboxKept
<1>4. round'[q] = round[q]
  BY <1>1 DEF BodyShape, IInv, TypeOK
<1>5. lease' = lease /\ aborted' = aborted
  BY <1>1 DEF BodyShape, Frame
<1>6. Columns(q)' = Columns(q) /\ Ages(q)
  BY <1>1, WritesKeep
<1> QED
  BY <1>2, <1>3, <1>4, <1>5, <1>6 DEF Bystander

OuterShape(r) ==
  /\ OuterFrame
  /\ \E to \in Outer : OuterGoes(r, to)
  /\ \/ UNCHANGED <<held, live>>
     \/ \E h \in Handles : Disposed(r, h)

(* The steps of the execution around a body, sorted in the same way.       *)
LEMMA OuterStepShape ==
  ASSUME NEW r \in Runs, OuterStep(r)
  PROVE  OuterShape(r)
  BY DEF OuterStep, OuterShape, FlushDone, FlushFails, Catch, DisposeBuilder,
         DisposeRetained, Finish, Outer, Handles, sandboxes

(* Every other run is a bystander to them.                                 *)
LEMMA OuterBystanders ==
  ASSUME IInv, NEW r \in Runs, OuterStep(r), NEW q \in Runs \ {r}
  PROVE  Bystander(q)
<1>1. OuterShape(r)
  BY OuterStepShape
<1>2. /\ body' = body /\ lease' = lease /\ round' = round
      /\ aborted' = aborted /\ outer'[q] = outer[q]
  BY <1>1 DEF OuterShape, OuterFrame, OuterGoes, IInv, TypeOK
<1>3. held'[q] = held[q] /\ SandboxKept(q)
  BY <1>1, DisposedKeeps DEF OuterShape, SandboxKept
<1>4. Columns(q)' = Columns(q) /\ Ages(q)
  <2>1. CASE Marks(r)
    BY <2>1 DEF Marks, Columns, Ages, Store!sandboxVars, Store!proofVars
  <2>2. CASE Releases(lease[r])
    BY <2>2 DEF Releases, Columns, Ages, Store!sandboxVars, Store!proofVars,
                Store!runVars
  <2>3. CASE UNCHANGED storeVars
    BY <2>3, StoreOpsAge
  <2> QED
    BY <2>1, <2>2, <2>3, OuterStepIsStoreStep
<1> QED
  BY <1>2, <1>3, <1>4 DEF Bystander
-----------------------------------------------------------------------------
(* The run whose execution takes the step.  What every body step does to   *)
(* it, and what is left to show for each of them.                          *)
LEMMA BodyActor ==
  ASSUME IInv, [Next]_vars, NEW r \in Runs, BodyStep(r)
  PROVE  /\ TypeOK /\ RunInv(r)
         /\ lease'[r] = lease[r] /\ lease[r] # None /\ aborted' = aborted
         /\ body[r] \in Body \ {"idle", "threw", "rejected", "passed",
                                "refused"}
         /\ status'[r] = status[r] /\ status[r] # "passed"
         /\ lease'[r].token <= fencingToken'[lease'[r].slot]
         /\ lease[r].run = r
         /\ status'[r] \in {"running"} \cup Store!Terminal
         /\ GivenUp(r) => /\ \/ status'[r] \in Store!Terminal
                             \/ ~Store!LeaseValid(lease[r])'
                          /\ ~Store!ActiveRun(lease[r])
<1>1. TypeOK /\ RunInv(r)
  BY DEF IInv
<1>2. BodyShape(r) /\ (UNCHANGED storeVars \/ Writes(r))
  BY BodyStepShape, BodyStepIsStoreStep
<1>3. body[r] \in Body \ {"idle", "threw", "rejected", "passed", "refused"}
  <2>1. body[r] \in Body
    BY <1>1 DEF TypeOK
  <2>2. body[r] \notin {"idle", "threw", "rejected", "passed", "refused"}
    BY DEF BodyStep, BuilderCreated, Frozen, CommandVerifierCreated,
           DeliveryVerifierCreated, CommandsRun, DeliveryCommandsRun,
           PreviewInspected, Reviewed, Evaluated, ArtifactPersisted,
           Promoted, HandedOver, BodyThrows, VerifierDisposed, Unwound,
           At, Unwinding, Ended, Retaining
  <2> QED
    BY <2>1, <2>2
<1>4. lease'[r] = lease[r] /\ lease[r] # None /\ aborted' = aborted
  BY <1>1, <1>2, <1>3 DEF BodyShape, Frame, RunInv, ExecutionFits
<1>5. status'[r] = status[r] /\ status[r] # "passed"
  BY <1>1, <1>2, <1>3 DEF RunInv, DeliveryKept, Writes, storeVars
<1>6. /\ lease'[r].token <= fencingToken'[lease'[r].slot]
      /\ status'[r] \in {"running"} \cup Store!Terminal
      /\ ~Store!LeaseValid(lease[r]) => ~Store!LeaseValid(lease[r])'
  BY <1>4, <1>5, FencingStays DEF Ages
<1>7. lease[r].run = r
  BY <1>1, <1>4 DEF RunInv, ExecutionFits
<1>8. GivenUp(r) => \/ status[r] \in Store!Terminal
                    \/ ~Store!LeaseValid(lease[r])
  BY <1>1 DEF RunInv, WayOut
<1> QED
  BY <1>1, <1>3, <1>4, <1>5, <1>6, <1>7, <1>8
     DEF Store!ActiveRun, Store!Terminal

(* The parts of RunInv(r) that depend on what the body just did.           *)
OuterFollows(r) ==
  \/ outer'[r] = outer[r]
  \/ outer[r] = "executing" /\ outer'[r] \in {"catching", "flushing"}
     /\ body'[r] \in Ended
BodyFits(r) ==
  /\ body'[r] # "idle"
  /\ body'[r] \notin {"idle", "creating", "generating", "threw"} =>
       revision'[r] # None
  /\ body'[r] = "unwindRepair" => round'[r] < MaxRepair
  /\ HandlesFit(r)' /\ OwnColumns(r)'
  /\ Deliverable(r)' =>
       /\ held'[r]["delivery"] = DeliveryVerifier(r, round'[r])
       /\ DeliveryVerifier(r, round'[r]) \in live'
  /\ body'[r] \in {"promoted"} \cup Retaining =>
       sandbox'[r] = DeliveryVerifier(r, round'[r])
  /\ OuterFollows(r)
  /\ body'[r] = "passed" => outer[r] \notin {"idle", "disposingRetained"}
  /\ outer'[r] \in {"idle", "disposingRetained"} =>
       held'[r]["builder"] = None

(* After a step of its body a run keeps its invariant when its execution   *)
(* fits its row: the rest follows from the step's kind.                    *)
LEMMA BodyFitsSuffices ==
  ASSUME IInv, [Next]_vars, NEW r \in Runs, BodyStep(r), BodyFits(r)
  PROVE  RunInv(r)'
<1>1. /\ lease'[r] = lease[r] /\ lease[r] # None /\ aborted' = aborted
      /\ body[r] \in Body \ {"idle", "threw", "rejected", "passed",
                             "refused"}
      /\ status'[r] = status[r] /\ status[r] # "passed"
      /\ lease'[r].token <= fencingToken'[lease'[r].slot]
      /\ lease[r].run = r
      /\ status'[r] \in {"running"} \cup Store!Terminal
      /\ GivenUp(r) => \/ status'[r] \in Store!Terminal
                       \/ ~Store!LeaseValid(lease[r])'
      /\ WayOut(r)
  BY BodyActor DEF RunInv
<1>2. ExecutionFits(r)'
  BY <1>1 DEF ExecutionFits, BodyFits
<1>3. HandlesFit(r)' /\ OwnColumns(r)'
  BY DEF BodyFits
<1>4. DeliveryKept(r)'
  BY <1>1 DEF DeliveryKept, BodyFits, DeliveryVerifier
<1>5. WayOut(r)'
  <2>1. GivenUp(r)' => GivenUp(r)
    BY <1>1 DEF GivenUp, BodyFits, OuterFollows
  <2>2. GivenUp(r)' => \/ status'[r] \in Store!Terminal
                       \/ ~Store!LeaseValid(lease[r])'
    BY <1>1, <2>1
  <2>3. outer'[r] # "executing" /\ body'[r] \notin Ended \cup {"idle"} =>
          r \in aborted'
    BY <1>1 DEF WayOut, BodyFits, OuterFollows, Ended, Retaining
  <2>4. outer'[r] \in {"idle", "disposingRetained"} =>
          held'[r]["builder"] = None
    BY DEF BodyFits
  <2>5. status'[r] # "passed"
    BY <1>1
  <2>6. ~(body'[r] = "passed" /\ outer'[r] = "idle")
    BY DEF BodyFits, OuterFollows
  <2>7. outer'[r] # "disposingRetained"
    BY <1>1 DEF WayOut, BodyFits, OuterFollows, Retaining
  <2> QED
    BY <2>2, <2>3, <2>4, <2>5, <2>6, <2>7, Zenon DEF WayOut
<1> QED
  BY <1>2, <1>3, <1>4, <1>5 DEF RunInv

(* What a transaction of the body leaves in the columns of its run.        *)
LEMMA WrittenColumns ==
  ASSUME IInv, NEW r \in Runs, lease[r].run = r
  PROVE  /\ UNCHANGED storeVars =>
              /\ revision'[r] = revision[r] /\ sandbox'[r] = sandbox[r]
              /\ Store!RecordedSandboxes(r)' = Store!RecordedSandboxes(r)
         /\ \A b : Store!AttachSandbox(lease[r], b) =>
              /\ revision'[r] = revision[r]
              /\ Store!RecordedSandboxes(r)' \subseteq
                   Store!RecordedSandboxes(r) \cup {b}
         /\ \A b, p : Store!AttachVerificationSandbox(lease[r], b, p) =>
              /\ revision'[r] = revision[r] /\ sandbox'[r] = sandbox[r]
              /\ Store!RecordedSandboxes(r)' \subseteq
                   Store!RecordedSandboxes(r) \cup {b}
         /\ \A b : Store!PromoteVerificationSandbox(lease[r], b) =>
              /\ revision'[r] = revision[r] /\ sandbox'[r] = b
              /\ Store!RecordedSandboxes(r)' \subseteq
                   Store!RecordedSandboxes(r) \cup {b}
         /\ \A v : Store!SetRevision(lease[r], v) =>
              /\ revision'[r] = v /\ sandbox'[r] = sandbox[r]
              /\ Store!RecordedSandboxes(r)' = Store!RecordedSandboxes(r)
         /\ \A v, k, verdict, newest :
              (\/ Store!AddEvidence(lease[r], v, k, verdict, newest)
               \/ Store!RecordArtifact(lease[r], v, newest)) =>
              /\ revision'[r] = revision[r] /\ sandbox'[r] = sandbox[r]
              /\ Store!RecordedSandboxes(r)' = Store!RecordedSandboxes(r)
<1> USE DEF Store!RecordedSandboxes, Store!sandboxVars, Store!proofVars
<1>1. /\ revision \in [Runs -> Revisions \cup {None}]
      /\ sandbox \in [Runs -> Sandboxes \cup {None}]
      /\ builder \in [Runs -> Sandboxes \cup {None}]
      /\ verifier \in [Runs -> Sandboxes \cup {None}]
  BY DEF IInv, TypeOK, Store!TypeOK
<1>2. ASSUME UNCHANGED storeVars
      PROVE  /\ revision'[r] = revision[r] /\ sandbox'[r] = sandbox[r]
             /\ Store!RecordedSandboxes(r)' = Store!RecordedSandboxes(r)
  BY <1>2 DEF storeVars
<1>3. ASSUME NEW b, Store!AttachSandbox(lease[r], b)
      PROVE  /\ revision'[r] = revision[r]
             /\ Store!RecordedSandboxes(r)' \subseteq
                  Store!RecordedSandboxes(r) \cup {b}
  BY <1>1, <1>3 DEF Store!AttachSandbox
<1>4. ASSUME NEW b, NEW p, Store!AttachVerificationSandbox(lease[r], b, p)
      PROVE  /\ revision'[r] = revision[r] /\ sandbox'[r] = sandbox[r]
             /\ Store!RecordedSandboxes(r)' \subseteq
                  Store!RecordedSandboxes(r) \cup {b}
  BY <1>1, <1>4 DEF Store!AttachVerificationSandbox
<1>5. ASSUME NEW b, Store!PromoteVerificationSandbox(lease[r], b)
      PROVE  /\ revision'[r] = revision[r] /\ sandbox'[r] = b
             /\ Store!RecordedSandboxes(r)' \subseteq
                  Store!RecordedSandboxes(r) \cup {b}
  BY <1>1, <1>5 DEF Store!PromoteVerificationSandbox
<1>6. ASSUME NEW v, Store!SetRevision(lease[r], v)
      PROVE  /\ revision'[r] = v /\ sandbox'[r] = sandbox[r]
             /\ Store!RecordedSandboxes(r)' = Store!RecordedSandboxes(r)
  BY <1>1, <1>6 DEF Store!SetRevision
<1>7. ASSUME NEW v, NEW k, NEW verdict, NEW newest,
             \/ Store!AddEvidence(lease[r], v, k, verdict, newest)
             \/ Store!RecordArtifact(lease[r], v, newest)
      PROVE  /\ revision'[r] = revision[r] /\ sandbox'[r] = sandbox[r]
             /\ Store!RecordedSandboxes(r)' = Store!RecordedSandboxes(r)
  BY <1>1, <1>7 DEF Store!AddEvidence, Store!RecordArtifact
<1> HIDE DEF Store!RecordedSandboxes
<1> QED
  BY <1>2, <1>3, <1>4, <1>5, <1>6, <1>7

(* The steps of the body that neither create nor dispose of a sandbox.     *)
LEMMA QuietBodyFits ==
  ASSUME IInv, [Next]_vars, NEW r \in Runs, BodyStep(r),
         UNCHANGED <<held, live, round>>,
         revision'[r] = revision[r] \/ revision'[r] \in Revisions,
         Store!RecordedSandboxes(r)' = Store!RecordedSandboxes(r),
         \/ /\ body[r] = "generating" /\ revision'[r] \in Revisions
            /\ Goes(r, "creatingCommand")
         \/ body[r] = "generating" /\ BodyEnds(r, "threw")
         \/ body[r] = "creating" /\ BodyEnds(r, "threw")
         \/ /\ body[r] \in Checking \ {"commands"}
            /\ \E to \in Checking \cup Unwinding : Goes(r, to)
            /\ body'[r] = "unwindRepair" => round[r] < MaxRepair
         \/ body[r] \in {"creatingCommand", "creatingDelivery"} \cup Checking
            /\ Goes(r, "unwindThrow")
  PROVE  BodyFits(r)
<1>1. /\ TypeOK /\ HandlesFit(r) /\ OwnColumns(r) /\ DeliveryKept(r)
      /\ WayOut(r) /\ ExecutionFits(r) /\ lease[r] # None
      /\ body[r] \in Body \ {"idle", "threw", "rejected", "passed",
                             "refused"}
  BY BodyActor DEF RunInv
<1>2. /\ "threw" \in Ended
      /\ Checking \cup Unwinding \cup {"creatingCommand"} \subseteq Body
      /\ None \notin Revisions
  BY StoreAssumption DEF Ended, Body, Checking, Unwinding
<1>3. OwnColumns(r)'
  BY <1>1 DEF OwnColumns
<1>4. CASE BodyEnds(r, "threw") /\ body[r] \in {"creating", "generating"}
  BY <1>1, <1>2, <1>3, <1>4, EndMoves
     DEF BodyFits, HandlesFit, WayOut, Deliverable, Checking, Retaining,
         Unwinding, OuterFollows, CommandVerifier, DeliveryVerifier, Ended
<1>5. CASE \E to \in Checking \cup Unwinding \cup {"creatingCommand"} :
             Goes(r, to)
  <2>1. /\ outer' = outer
        /\ body'[r] \in Checking \cup Unwinding \cup {"creatingCommand"}
    BY <1>1, <1>2, <1>5, GoesMoves
  <2>2. \/ /\ body[r] = "generating" /\ revision'[r] \in Revisions
           /\ body'[r] = "creatingCommand"
        \/ /\ body[r] \in Checking \ {"commands"}
           /\ body'[r] \in Checking \cup Unwinding
           /\ body'[r] = "unwindRepair" => round[r] < MaxRepair
        \/ /\ body[r] \in {"creatingCommand", "creatingDelivery"} \cup Checking
           /\ body'[r] = "unwindThrow"
    BY <1>1, <1>2, <2>1, GoesMoves, EndMoves
       DEF Checking, Unwinding
  <2>3. HandlesFit(r)'
    BY <1>1, <2>1, <2>2
       DEF HandlesFit, Checking, Unwinding, Retaining, CommandVerifier,
           DeliveryVerifier
  <2>4. /\ body'[r] \notin {"idle", "promoted"} \cup Retaining
        /\ Deliverable(r)' => Deliverable(r)
    BY <2>1, <2>2 DEF Deliverable, Checking, Retaining, Unwinding
  <2>5. Deliverable(r)' =>
          /\ held'[r]["delivery"] = DeliveryVerifier(r, round'[r])
          /\ DeliveryVerifier(r, round'[r]) \in live'
    BY <1>1, <2>4 DEF DeliveryKept
  <2>6. revision'[r] # None
    BY <1>1, <1>2, <2>2 DEF ExecutionFits, Checking
  <2>7. body'[r] = "unwindRepair" => round'[r] < MaxRepair
    BY <2>2
  <2>8. outer'[r] \in {"idle", "disposingRetained"} =>
          held'[r]["builder"] = None
    BY <1>1, <2>1 DEF WayOut
  <2> QED
    BY <1>3, <2>1, <2>3, <2>4, <2>5, <2>6, <2>7, <2>8
       DEF BodyFits, OuterFollows, Retaining
<1> QED
  BY <1>4, <1>5 DEF Checking, Unwinding

(* The steps of a body that make or delete no sandbox.                     *)
LEMMA QuietStepsFit ==
  ASSUME IInv, [Next]_vars, NEW r \in Runs, BodyStep(r),
         \/ \E v \in Revisions : Frozen(r, v)
         \/ \E verdict \in {"PASS", "FAIL"} :
              \/ DeliveryCommandsRun(r, verdict)
              \/ PreviewInspected(r, verdict)
              \/ Reviewed(r, verdict)
              \/ \E next \in Body : Evaluated(r, verdict, next)
         \/ ArtifactPersisted(r)
         \/ BodyThrows(r)
  PROVE  BodyFits(r)
<1>1. lease[r].run = r /\ body[r] \in Body \ {"idle", "threw", "rejected",
                                              "passed", "refused"}
  BY BodyActor
<1> USE WrittenColumns, QuietBodyFits
<1>2. ASSUME NEW v \in Revisions, Frozen(r, v) PROVE BodyFits(r)
  BY <1>1, <1>2 DEF Frozen, At, sandboxes, Refused
<1>3. ASSUME NEW k, NEW verdict, NEW next \in Checking \cup Unwinding,
             Records(r, k, verdict, next),
             body[r] \in Checking \ {"commands"},
             body'[r] = "unwindRepair" => round[r] < MaxRepair
      PROVE  BodyFits(r)
  <2>1. /\ UNCHANGED <<held, live, round>> /\ revision'[r] = revision[r]
        /\ Store!RecordedSandboxes(r)' = Store!RecordedSandboxes(r)
    BY <1>1, <1>3 DEF Records, sandboxes, Refused
  <2>2. Goes(r, next) \/ Goes(r, "unwindThrow")
    BY <1>3 DEF Records
  <2> QED
    BY <1>3, <2>1, <2>2
<1>4. {"preview", "reviewing", "evaluating", "persisting", "promoting",
       "unwindRepair", "unwindReject"} \subseteq Checking \cup Unwinding
  BY DEF Checking, Unwinding
<1>5. ASSUME NEW verdict \in {"PASS", "FAIL"},
             DeliveryCommandsRun(r, verdict) \/ PreviewInspected(r, verdict)
      PROVE  BodyFits(r)
  <2>1. body[r] \in Checking \ {"commands"}
    BY <1>5 DEF DeliveryCommandsRun, PreviewInspected, At, Checking
  <2>2. \E k, next \in {"commands", "preview", "reviewing"} :
          Records(r, k, verdict, next) /\ next \in {"preview", "reviewing"}
    BY <1>5 DEF DeliveryCommandsRun, PreviewInspected
  <2>3. body'[r] \in {"preview", "reviewing", "unwindThrow"}
    BY <1>4, <2>2, GoesMoves
       DEF Records, IInv, Checking, Unwinding, Body
  <2> QED
    BY <1>3, <1>4, <2>1, <2>2, <2>3
<1>6. ASSUME NEW verdict \in {"PASS", "FAIL"}, Reviewed(r, verdict)
      PROVE  BodyFits(r)
  <2>1. body[r] \in Checking \ {"commands"}
    BY <1>6 DEF Reviewed, At, Checking
  <2>2. CASE Records(r, "review", verdict, "evaluating")
    <3>1. body'[r] \in {"evaluating", "unwindThrow"}
      BY <2>2, GoesMoves DEF Records, IInv, Unwinding, Body
    <3> QED
      BY <1>3, <1>4, <2>1, <2>2, <3>1
  <2>3. CASE Goes(r, "evaluating") /\ UNCHANGED <<storeVars, round, held,
                                                  sandboxes>>
    <3>1. body'[r] = "evaluating"
      BY <2>3, GoesMoves DEF IInv, Body
    <3>2. /\ UNCHANGED <<held, live, round>> /\ revision'[r] = revision[r]
          /\ Store!RecordedSandboxes(r)' = Store!RecordedSandboxes(r)
      BY <1>1, <2>3 DEF sandboxes
    <3> QED
      BY <1>4, <2>1, <2>3, <3>1, <3>2
  <2> QED
    BY <1>6, <2>2, <2>3 DEF Reviewed
<1>7. ASSUME NEW verdict \in {"PASS", "FAIL"}, NEW next \in Body,
             Evaluated(r, verdict, next)
      PROVE  BodyFits(r)
  <2>1. body[r] \in Checking \ {"commands"}
    BY <1>7 DEF Evaluated, At, Checking
  <2>2. /\ next \in {"persisting", "unwindRepair", "unwindReject"}
        /\ next = "unwindRepair" => round[r] < MaxRepair
        /\ Records(r, "evaluation", verdict, next)
    BY <1>7 DEF Evaluated
  <2>3. body'[r] \in {next, "unwindThrow"}
    BY <2>2, GoesMoves DEF Records, IInv, Unwinding, Body
  <2> QED
    BY <1>3, <1>4, <2>1, <2>2, <2>3
<1>8. CASE ArtifactPersisted(r)
  <2>1. body[r] \in Checking \ {"commands"}
    BY <1>8 DEF ArtifactPersisted, At, Checking
  <2>2. Goes(r, "promoting") \/ Goes(r, "unwindThrow")
    BY <1>8 DEF ArtifactPersisted
  <2>3. body'[r] \in {"promoting", "unwindThrow"}
    BY <2>2, GoesMoves DEF IInv, Unwinding, Body
  <2>4. /\ UNCHANGED <<held, live, round>> /\ revision'[r] = revision[r]
        /\ Store!RecordedSandboxes(r)' = Store!RecordedSandboxes(r)
    BY <1>1, <1>8 DEF ArtifactPersisted, sandboxes, Refused
  <2> QED
    BY <1>4, <2>1, <2>2, <2>3, <2>4
<1>9. CASE BodyThrows(r)
  <2>1. /\ UNCHANGED <<held, live, round>> /\ revision'[r] = revision[r]
        /\ Store!RecordedSandboxes(r)' = Store!RecordedSandboxes(r)
    BY <1>1, <1>9 DEF BodyThrows, sandboxes
  <2>2. body[r] \in {"creating", "generating", "creatingCommand",
                     "creatingDelivery"} \cup Checking
    BY <1>1, <1>9 DEF BodyThrows, Body, Checking, Unwinding, Ended, Retaining
  <2> QED
    BY <1>9, <2>1, <2>2 DEF BodyThrows
<1> QED
  BY <1>2, <1>5, <1>6, <1>7, <1>8, <1>9

(* The promotion, after which the run is delivered from the verifier, and  *)
(* the end of source.cleanup().                                            *)
LEMMA PromotionFits ==
  ASSUME IInv, [Next]_vars, NEW r \in Runs, BodyStep(r),
         Promoted(r) \/ HandedOver(r)
  PROVE  BodyFits(r)
<1>1. /\ TypeOK /\ HandlesFit(r) /\ OwnColumns(r) /\ DeliveryKept(r)
      /\ WayOut(r) /\ ExecutionFits(r) /\ lease[r] # None
      /\ lease[r].run = r /\ (GivenUp(r) => ~Store!ActiveRun(lease[r]))
  BY BodyActor DEF RunInv
<1>2. UNCHANGED <<held, live, round>>
  BY DEF Promoted, HandedOver, sandboxes
<1>3. CASE Promoted(r)
  <2>1. body[r] = "promoting" /\ Deliverable(r)
    BY <1>3 DEF Promoted, At, Deliverable, Checking
  <2>2. Goes(r, "promoted") \/ Goes(r, "unwindThrow")
    BY <1>3 DEF Promoted
  <2>3. body'[r] \in {"promoted", "unwindThrow"} /\ outer' = outer
    BY <1>1, <2>2, GoesMoves DEF Body, Unwinding
  <2>4. held[r]["delivery"] = DeliveryVerifier(r, round[r])
    BY <1>1, <2>1 DEF DeliveryKept
  <2>5. /\ revision'[r] = revision[r]
        /\ Store!RecordedSandboxes(r)' \subseteq
             Store!RecordedSandboxes(r) \cup {DeliveryVerifier(r, round[r])}
        /\ body'[r] = "promoted" => sandbox'[r] = DeliveryVerifier(r, round[r])
    <3>1. CASE Store!PromoteVerificationSandbox(lease[r], held[r]["delivery"])
      <4>1. /\ revision'[r] = revision[r] /\ sandbox'[r] = held[r]["delivery"]
            /\ Store!RecordedSandboxes(r)' \subseteq
                 Store!RecordedSandboxes(r) \cup {held[r]["delivery"]}
        BY <1>1, <3>1, WrittenColumns
      <4> QED
        BY <2>4, <4>1
    <3>2. CASE Refused(r) /\ Goes(r, "unwindThrow")
      <4>1. body'[r] = "unwindThrow"
        BY <1>1, <3>2, GoesMoves DEF Body, Unwinding
      <4> QED
        BY <1>1, <3>2, <4>1, WrittenColumns DEF Refused
    <3> QED
      BY <1>3, <3>1, <3>2 DEF Promoted
  <2>6. OwnColumns(r)'
    BY <1>1, <2>5 DEF OwnColumns, DeliveryVerifier
  <2>7. HandlesFit(r)'
    BY <1>1, <1>2, <2>1, <2>3
       DEF HandlesFit, Unwinding, CommandVerifier, DeliveryVerifier
  <2>8. revision'[r] # None
    BY <1>1, <2>1, <2>5 DEF ExecutionFits
  <2> QED
    BY <1>1, <1>2, <2>1, <2>3, <2>5, <2>6, <2>7, <2>8
       DEF BodyFits, DeliveryKept, WayOut, Retaining, OuterFollows
<1>4. CASE HandedOver(r)
  <2>1. body[r] = "promoted" /\ Deliverable(r)
    BY <1>4 DEF HandedOver, At, Deliverable
  <2>2. \/ BodyEnds(r, "passed") /\ Store!ActiveRun(lease[r])
        \/ BodyEnds(r, "refused")
    BY <1>4 DEF HandedOver
  <2>3. /\ body'[r] \in Retaining
        /\ body'[r] = "passed" => Store!ActiveRun(lease[r])
        /\ IF outer[r] = "executing" THEN outer'[r] \in {"catching", "flushing"}
                                     ELSE outer'[r] = outer[r]
    BY <1>1, <2>2, EndMoves DEF Retaining, Ended
  <2>4. /\ revision'[r] = revision[r] /\ sandbox'[r] = sandbox[r]
        /\ Store!RecordedSandboxes(r)' = Store!RecordedSandboxes(r)
    BY <1>1, <1>4, WrittenColumns DEF HandedOver
  <2>5. OwnColumns(r)'
    BY <1>1, <2>4 DEF OwnColumns
  <2>6. HandlesFit(r)'
    BY <1>1, <1>2, <2>1, <2>3
       DEF HandlesFit, Unwinding, Retaining, CommandVerifier, DeliveryVerifier
  <2>7. revision'[r] # None
    BY <1>1, <2>1, <2>4 DEF ExecutionFits
  <2>8. body'[r] = "passed" => outer[r] \notin {"idle", "disposingRetained"}
    BY <1>1, <2>3 DEF GivenUp
  <2> QED
    BY <1>1, <1>2, <2>1, <2>3, <2>4, <2>5, <2>6, <2>7, <2>8
       DEF BodyFits, DeliveryKept, WayOut, Retaining, OuterFollows, Ended
<1> QED
  BY <1>3, <1>4

(* The steps that dispose of a verifier, and the end of an unwinding.      *)
LEMMA DisposingFits ==
  ASSUME IInv, [Next]_vars, NEW r \in Runs, BodyStep(r),
         \/ CommandsRun(r) \/ Unwound(r)
         \/ \E h \in Handles : VerifierDisposed(r, h)
  PROVE  BodyFits(r)
<1>1. /\ TypeOK /\ HandlesFit(r) /\ OwnColumns(r) /\ DeliveryKept(r)
      /\ WayOut(r) /\ ExecutionFits(r) /\ lease[r] # None
      /\ lease[r].run = r
  BY BodyActor DEF RunInv
<1>2. /\ revision'[r] = revision[r] /\ sandbox'[r] = sandbox[r]
      /\ Store!RecordedSandboxes(r)' = Store!RecordedSandboxes(r)
  BY <1>1, WrittenColumns DEF CommandsRun, Unwound, VerifierDisposed
<1>3. OwnColumns(r)'
  BY <1>1, <1>2 DEF OwnColumns
<1>4. CASE CommandsRun(r)
  <2>1. body[r] = "commands" /\ Deliverable(r) /\ round' = round
        /\ Disposed(r, "command") /\ Goes(r, "delivery")
    BY <1>4 DEF CommandsRun, At, Deliverable, Checking
  <2>2. body'[r] = "delivery" /\ outer' = outer
    BY <1>1, <2>1, GoesMoves DEF Body
  <2>3. /\ live' = live \ {held[r]["command"]} /\ held'[r]["command"] = None
        /\ held'[r]["builder"] = held[r]["builder"]
        /\ held'[r]["delivery"] = held[r]["delivery"]
    BY <1>1, <2>1, DisposedMoves DEF Handles
  <2>4. DeliveryVerifier(r, round[r]) # held[r]["command"]
    <3>1. round[r] \in 0..MaxRepair
      BY <1>1 DEF TypeOK
    <3>2. DeliveryVerifier(r, round[r]) # None
      BY <3>1, SandboxIds, StoreFits DEF StoreProofs!NoneAssumption
    <3> QED
      BY <1>1, <3>1, <3>2, SandboxIds DEF HandlesFit
  <2>5. HandlesFit(r)'
    BY <1>1, <2>1, <2>2, <2>3
       DEF HandlesFit, Checking, CommandVerifier, DeliveryVerifier
  <2> QED
    BY <1>1, <1>2, <1>3, <2>1, <2>2, <2>3, <2>4, <2>5
       DEF BodyFits, DeliveryKept, WayOut, ExecutionFits, Retaining,
           OuterFollows
<1>5. ASSUME NEW h \in Handles, VerifierDisposed(r, h) PROVE BodyFits(r)
  <2>1. /\ body[r] \in Unwinding /\ round' = round /\ Disposed(r, h)
        /\ body' = body /\ outer' = outer
    BY <1>5 DEF VerifierDisposed
  <2>2. /\ held'[r][h] = None
        /\ \A g \in Handles \ {h} : held'[r][g] = held[r][g]
    BY <1>1, <2>1, DisposedMoves
  <2>3. HandlesFit(r)'
    BY <1>1, <2>1, <2>2
       DEF HandlesFit, Handles, CommandVerifier, DeliveryVerifier
  <2>4. ~Deliverable(r)' /\ body'[r] \notin {"promoted"} \cup Retaining
    BY <2>1 DEF Deliverable, Checking, Retaining, Unwinding
  <2>5. held'[r]["builder"] \in {None, held[r]["builder"]}
    BY <2>2 DEF Handles
  <2> QED
    BY <1>1, <1>2, <1>3, <2>1, <2>3, <2>4, <2>5
       DEF BodyFits, WayOut, ExecutionFits, OuterFollows, Unwinding, Retaining
<1>6. CASE Unwound(r)
  <2>1. /\ body[r] \in Unwinding /\ held[r]["command"] = None
        /\ held[r]["delivery"] = None /\ UNCHANGED <<held, live>>
    BY <1>6 DEF Unwound, sandboxes
  <2>2. \/ body[r] = "unwindRepair" /\ Goes(r, "generating")
        \/ BodyEnds(r, "threw")
        \/ body[r] = "unwindReject" /\ BodyEnds(r, "rejected")
    BY <1>6 DEF Unwound, Unwinding
  <2>3. CASE Goes(r, "generating")
    <3>1. body'[r] = "generating" /\ outer' = outer
      BY <1>1, <2>3, GoesMoves DEF Body
    <3>2. HandlesFit(r)'
      BY <1>1, <2>1, <3>1 DEF HandlesFit, BuilderOf
    <3> QED
      BY <1>1, <1>3, <2>1, <3>1, <3>2
         DEF BodyFits, WayOut, Deliverable, Checking, Retaining, OuterFollows
  <2>4. ASSUME NEW how \in {"threw", "rejected"}, BodyEnds(r, how),
               how = "rejected" => body[r] = "unwindReject"
        PROVE  BodyFits(r)
    <3>1. /\ body'[r] = how
          /\ IF outer[r] = "executing"
               THEN outer'[r] \in {"catching", "flushing"}
               ELSE outer'[r] = outer[r]
      BY <1>1, <2>4, EndMoves DEF Ended
    <3>2. HandlesFit(r)'
      BY <1>1, <2>1, <2>4, <3>1 DEF HandlesFit, BuilderOf
    <3>3. how = "rejected" => revision'[r] # None
      BY <1>1, <1>2, <2>4 DEF ExecutionFits
    <3> QED
      BY <1>1, <1>3, <2>1, <2>4, <3>1, <3>2, <3>3
         DEF BodyFits, WayOut, Deliverable, Checking, Retaining, OuterFollows,
             Ended
  <2> QED
    BY <2>2, <2>3, <2>4
<1> QED
  BY <1>4, <1>5, <1>6

(* The steps that create a sandbox: an execution that was given up creates *)
(* none, since its signal is aborted.                                      *)
LEMMA CreationFits ==
  ASSUME IInv, [Next]_vars, NEW r \in Runs, BodyStep(r),
         \/ BuilderCreated(r)
         \/ \E b \in Sandboxes : \/ CommandVerifierCreated(r, b)
                                 \/ DeliveryVerifierCreated(r, b)
  PROVE  BodyFits(r)
<1>1. /\ TypeOK /\ HandlesFit(r) /\ OwnColumns(r) /\ DeliveryKept(r)
      /\ WayOut(r) /\ ExecutionFits(r) /\ lease[r] # None
      /\ lease[r].run = r
      /\ round[r] \in 0..MaxRepair
  BY BodyActor DEF RunInv, TypeOK
<1>2. /\ BuilderOf(r) \in Sandboxes /\ BuilderOf(r)[1] = r
      /\ CommandVerifier(r, round[r])[1] = r
      /\ DeliveryVerifier(r, round[r])[1] = r
      /\ None \notin Sandboxes
  BY <1>1, SandboxIds, StoreFits
     DEF StoreProofs!NoneAssumption, BuilderOf, CommandVerifier,
         DeliveryVerifier
<1>3. /\ "threw" \in Ended
      /\ {"generating", "unwindThrow", "creatingDelivery", "commands"}
           \subseteq Body
  BY DEF Ended, Body, Unwinding
<1>4. round' = round
  BY DEF BuilderCreated, CommandVerifierCreated, DeliveryVerifierCreated
<1>5. CASE BuilderCreated(r)
  <2>1. body[r] = "creating" /\ Provided(r, "builder", BuilderOf(r))
    BY <1>5 DEF BuilderCreated, At
  <2>2. r \notin aborted /\ held'[r]["builder"] = BuilderOf(r)
        /\ held'[r]["command"] = held[r]["command"]
        /\ held'[r]["delivery"] = held[r]["delivery"]
    BY <1>1, <1>2, <2>1, ProvidedMoves DEF Handles
  <2>3. outer[r] = "executing"
    BY <1>1, <2>1, <2>2 DEF WayOut, Ended, Retaining
  <2>4. /\ body'[r] \in {"generating", "threw"}
        /\ body'[r] = "generating" => outer'[r] = outer[r]
        /\ body'[r] = "threw" => outer'[r] \in {"catching", "flushing"}
    BY <1>1, <1>3, <1>5, <2>3, GoesMoves, EndMoves DEF BuilderCreated
  <2>5. Store!RecordedSandboxes(r)' \subseteq
          Store!RecordedSandboxes(r) \cup {BuilderOf(r)}
    BY <1>1, <1>5, WrittenColumns DEF BuilderCreated, Refused
  <2>6. OwnColumns(r)'
    BY <1>1, <1>2, <2>5 DEF OwnColumns
  <2>7. HandlesFit(r)'
    BY <1>1, <2>1, <2>2, <2>4
       DEF HandlesFit, Checking, Unwinding, Retaining, BuilderOf
  <2> QED
    BY <2>3, <2>4, <2>6, <2>7
       DEF BodyFits, Deliverable, Checking, Retaining, OuterFollows, Ended
<1>6. ASSUME NotIsolated(r), body[r] \in {"creatingCommand", "creatingDelivery"}
      PROVE  BodyFits(r)
  <2>1. /\ UNCHANGED <<storeVars, held, live>> /\ Goes(r, "unwindThrow")
    BY <1>6 DEF NotIsolated, sandboxes
  <2>2. /\ revision'[r] = revision[r]
        /\ Store!RecordedSandboxes(r)' = Store!RecordedSandboxes(r)
    BY <1>1, <2>1, WrittenColumns
  <2> QED
    BY <1>4, <1>6, <2>1, <2>2, QuietBodyFits
<1>7. ASSUME NEW h \in {"command", "delivery"}, NEW b \in Sandboxes, NEW p,
             NEW next \in {"creatingDelivery", "commands"},
             Provided(r, h, b), VerifierAttached(r, b, p, next),
             \/ /\ body[r] = "creatingCommand" /\ h = "command"
                /\ next = "creatingDelivery"
                /\ b = CommandVerifier(r, round[r])
             \/ /\ body[r] = "creatingDelivery" /\ h = "delivery"
                /\ next = "commands"
                /\ b = DeliveryVerifier(r, round[r])
      PROVE  BodyFits(r)
  <2>1. /\ r \notin aborted /\ live' = live \cup {b} /\ held'[r][h] = b
        /\ \A g \in Handles \ {h} : held'[r][g] = held[r][g]
    BY <1>1, <1>7, ProvidedMoves DEF Handles
  <2>2. outer[r] = "executing"
    BY <1>1, <1>7, <2>1 DEF WayOut, Ended, Retaining
  <2>3. body'[r] \in {next, "unwindThrow"} /\ outer' = outer
    BY <1>1, <1>3, <1>7, GoesMoves DEF VerifierAttached
  <2>4. /\ revision'[r] = revision[r]
        /\ Store!RecordedSandboxes(r)' \subseteq
             Store!RecordedSandboxes(r) \cup {b}
    <3>1. CASE Store!AttachVerificationSandbox(lease[r], b, p)
      BY <1>1, <3>1, WrittenColumns
    <3>2. CASE UNCHANGED storeVars
      BY <1>1, <3>2, WrittenColumns
    <3> QED
      BY <1>7, <3>1, <3>2 DEF VerifierAttached, Refused
  <2>5. OwnColumns(r)'
    BY <1>1, <1>2, <1>7, <2>4 DEF OwnColumns
  <2>6. HandlesFit(r)'
    <3> DEFINE CV == CommandVerifier(r, round[r])
               DV == DeliveryVerifier(r, round[r])
    <3>1. /\ CommandVerifier(r, round[r])' = CV
          /\ DeliveryVerifier(r, round[r])' = DV
          /\ BuilderOf(r)' = BuilderOf(r)
      BY <1>4 DEF CommandVerifier, DeliveryVerifier, BuilderOf
    <3>2. /\ held[r]["builder"] \in {None, BuilderOf(r)}
          /\ held[r]["command"] \in {None, CV}
          /\ held[r]["delivery"] = None
          /\ body[r] = "creatingCommand" => held[r]["command"] = None
      BY <1>1, <1>7
         DEF HandlesFit, Checking, Unwinding, Retaining
    <3> HIDE DEF CV, DV
    <3>3. /\ held'[r]["builder"] = held[r]["builder"]
          /\ held'[r]["command"] \in {None, CV}
          /\ held'[r]["delivery"] \in {None, DV}
          /\ body'[r] = "creatingDelivery" => held'[r]["delivery"] = None
      BY <1>7, <2>1, <2>3, <3>2 DEF Handles, CV, DV
    <3>4. body'[r] \in {"creatingDelivery", "commands", "unwindThrow"}
      BY <1>7, <2>3
    <3> QED
      BY <3>1, <3>2, <3>3, <3>4 DEF HandlesFit, Checking, Unwinding
  <2>7. body'[r] = "commands" =>
          /\ held'[r]["delivery"] = DeliveryVerifier(r, round'[r])
          /\ DeliveryVerifier(r, round'[r]) \in live'
    BY <1>4, <1>7, <2>1, <2>3
  <2>8. body'[r] \in {"creatingDelivery", "commands", "unwindThrow"}
    BY <1>7, <2>3
  <2>9. revision'[r] # None
    BY <1>1, <1>7, <2>4 DEF ExecutionFits
  <2> QED
    BY <2>2, <2>3, <2>5, <2>6, <2>7, <2>8, <2>9
       DEF BodyFits, Deliverable, Checking, Retaining, OuterFollows
<1>8. ASSUME NEW b \in Sandboxes, CommandVerifierCreated(r, b)
      PROVE  BodyFits(r)
  <2>1. body[r] = "creatingCommand"
    BY <1>8 DEF CommandVerifierCreated, At
  <2>2. \/ NotIsolated(r)
        \/ /\ b = CommandVerifier(r, round[r])
           /\ Provided(r, "command", b)
           /\ VerifierAttached(r, b, "commands", "creatingDelivery")
    BY <1>8 DEF CommandVerifierCreated
  <2>3. CASE NotIsolated(r)
    BY <1>6, <2>1, <2>3
  <2> QED
    BY <1>7, <2>1, <2>2, <2>3
<1>9. ASSUME NEW b \in Sandboxes, DeliveryVerifierCreated(r, b)
      PROVE  BodyFits(r)
  <2>1. body[r] = "creatingDelivery"
    BY <1>9 DEF DeliveryVerifierCreated, At
  <2>2. \/ NotIsolated(r)
        \/ /\ b = DeliveryVerifier(r, round[r])
           /\ Provided(r, "delivery", b)
           /\ VerifierAttached(r, b, "delivery", "commands")
    BY <1>9 DEF DeliveryVerifierCreated
  <2>3. CASE NotIsolated(r)
    BY <1>6, <2>1, <2>3
  <2> QED
    BY <1>7, <2>1, <2>2, <2>3
<1> QED
  BY <1>5, <1>8, <1>9

(* Every step of a body keeps the invariant of its run.                    *)
LEMMA BodyStepKeeps ==
  ASSUME IInv, [Next]_vars, NEW r \in Runs, BodyStep(r)
  PROVE  RunInv(r)'
<1>1. BodyFits(r)
  BY QuietStepsFit, PromotionFits, DisposingFits, CreationFits DEF BodyStep
<1> QED
  BY <1>1, BodyFitsSuffices

(* startRun succeeds for a queued run, which has no execution yet.         *)
LEMMA DispatchKeeps ==
  ASSUME IInv, Dispatch, NEW r \in Runs, dispatching.run = r
  PROVE  RunInv(r)'
<1>1. /\ TypeOK /\ dispatching \in Store!Leases
      /\ dispatching.token \in 1..MaxToken
      /\ dispatching.slot \in SlotIds /\ dispatching # None
      /\ status[r] = "queued" /\ Store!LeaseValid(dispatching)
  BY DEF Dispatch, IInv, TypeOK, Store!Leases, Store!StartRun
<1>2. RunInv(r)
  BY <1>1 DEF IInv
<1>3. lease[r] = None /\ body[r] = "idle" /\ outer[r] = "idle"
  BY <1>1, <1>2 DEF RunInv, ExecutionFits, Store!Terminal
<1>4. \A h \in Handles : held[r][h] = None
  BY <1>2, <1>3
     DEF RunInv, HandlesFit, Handles, Checking, Unwinding, Retaining
<1>5. /\ outer'[r] = "executing" /\ body'[r] = "creating"
      /\ lease'[r] = dispatching /\ held' = held /\ aborted' = aborted
  BY <1>1 DEF Dispatch, TypeOK
<1>6. /\ status'[r] = "running" /\ fencingToken' = fencingToken
      /\ Store!RecordedSandboxes(r)' = Store!RecordedSandboxes(r)
  BY <1>1
     DEF Dispatch, Store!StartRun, TypeOK, Store!TypeOK,
         Store!RecordedSandboxes, Store!sandboxVars, Store!slotVars
<1>7. dispatching.token <= fencingToken[dispatching.slot]
  <2>1. dispatching.token \in Nat
    BY <1>1, StoreAssumption
  <2> QED
    BY <1>1, <2>1 DEF Store!LeaseValid
<1>8. ExecutionFits(r)'
  BY <1>1, <1>5, <1>6, <1>7 DEF ExecutionFits
<1>9. HandlesFit(r)'
  BY <1>4, <1>5 DEF HandlesFit, Handles
<1>10. OwnColumns(r)'
  BY <1>2, <1>6 DEF OwnColumns, RunInv
<1>11. DeliveryKept(r)'
  BY <1>5, <1>6 DEF DeliveryKept, Deliverable, Checking, Retaining
<1>12. WayOut(r)'
  BY <1>5 DEF WayOut, GivenUp
<1> QED
  BY <1>8, <1>9, <1>10, <1>11, <1>12 DEF RunInv

(* The outer half: the run it leaves is terminal, or its lease is gone.    *)
LEMMA OuterActor ==
  ASSUME IInv, [Next]_vars, NEW r \in Runs, OuterStep(r)
  PROVE  /\ TypeOK /\ RunInv(r)
         /\ UNCHANGED <<body, lease, round, aborted>>
         /\ outer[r] # "idle" /\ body[r] # "idle" /\ lease[r] # None
         /\ lease[r].run = r
         /\ \/ status'[r] = status[r]
            \/ status[r] = "running" /\ status'[r] \in Store!Terminal
         /\ status[r] \in {"running"} \cup Store!Terminal
         /\ revision'[r] = revision[r] /\ sandbox'[r] = sandbox[r]
         /\ Store!RecordedSandboxes(r)' = Store!RecordedSandboxes(r)
         /\ lease[r].token <= fencingToken'[lease[r].slot]
         /\ ~Store!LeaseValid(lease[r]) => ~Store!LeaseValid(lease[r])'
<1>1. /\ TypeOK /\ RunInv(r) /\ outer[r] # "idle"
  BY DEF IInv, OuterStep, FlushDone, FlushFails, Catch, DisposeBuilder,
         DisposeRetained
<1>2. /\ body[r] # "idle" /\ lease[r] # None /\ lease[r].run = r
      /\ status[r] \in {"running"} \cup Store!Terminal
  BY <1>1 DEF RunInv, ExecutionFits
<1>3. UNCHANGED <<body, lease, round, aborted>>
  BY OuterStepShape DEF OuterShape, OuterFrame
<1>4. /\ \/ status'[r] = status[r]
         \/ status[r] = "running" /\ status'[r] \in Store!Terminal
      /\ revision'[r] = revision[r] /\ sandbox'[r] = sandbox[r]
      /\ Store!RecordedSandboxes(r)' = Store!RecordedSandboxes(r)
  <2>1. CASE Marks(r)
    BY <2>1 DEF Marks, Store!RecordedSandboxes, Store!sandboxVars,
                Store!proofVars
  <2>2. CASE Releases(lease[r])
    BY <2>2 DEF Releases, Store!RecordedSandboxes, Store!sandboxVars,
                Store!proofVars, Store!runVars
  <2>3. CASE UNCHANGED storeVars
    BY <2>3 DEF storeVars, Store!RecordedSandboxes
  <2> QED
    BY <2>1, <2>2, <2>3, OuterStepIsStoreStep
<1>5. lease[r].token <= fencingToken[lease[r].slot]
  BY <1>1, <1>2 DEF RunInv, ExecutionFits
<1>6. lease[r].token <= fencingToken'[lease[r].slot]
  BY <1>2, <1>5, LeasesDecay, LeaseOfBody
<1>7. ~Store!LeaseValid(lease[r]) => ~Store!LeaseValid(lease[r])'
  BY <1>2, <1>3, LeasesDecay DEF Store!LeaseValid
<1> QED
  BY <1>1, <1>2, <1>3, <1>4, <1>6, <1>7

(* What is left to show of each step of the outer half.                    *)
OuterFits(r) ==
  /\ HandlesFit(r)'
  /\ Deliverable(r)' => Deliverable(r) /\ UNCHANGED held[r]["delivery"]
  /\ Deliverable(r)' \/ status'[r] = "passed" =>
       \A b \in live : b # BuilderOf(r) => b \in live'
  /\ status'[r] = "passed" /\ status[r] # "passed" =>
       body[r] = "passed" /\ outer[r] = "flushing"
  /\ outer'[r] # "executing" => outer[r] # "executing" \/ r \in aborted
  /\ GivenUp(r)' => \/ status'[r] \in Store!Terminal
                    \/ ~Store!LeaseValid(lease[r])'
  /\ outer'[r] \in {"idle", "disposingRetained"} => held'[r]["builder"] = None
  /\ outer'[r] = "disposingRetained" => /\ status'[r] # "passed"
                                        /\ body[r] \in Retaining
  /\ body[r] = "passed" /\ outer'[r] = "idle" =>
       held'[r]["delivery"] = None \/ status'[r] = "passed"

(* The same for a step of the execution around the body.                   *)
LEMMA OuterFitsSuffices ==
  ASSUME IInv, [Next]_vars, NEW r \in Runs, OuterStep(r), OuterFits(r)
  PROVE  RunInv(r)'
<1>1. /\ TypeOK /\ ExecutionFits(r) /\ HandlesFit(r) /\ OwnColumns(r)
      /\ DeliveryKept(r) /\ WayOut(r)
      /\ UNCHANGED <<body, lease, round, aborted>>
      /\ outer[r] # "idle" /\ body[r] # "idle" /\ lease[r] # None
      /\ lease[r].run = r
      /\ \/ status'[r] = status[r]
         \/ status[r] = "running" /\ status'[r] \in Store!Terminal
      /\ status[r] \in {"running"} \cup Store!Terminal
      /\ revision'[r] = revision[r] /\ sandbox'[r] = sandbox[r]
      /\ Store!RecordedSandboxes(r)' = Store!RecordedSandboxes(r)
      /\ lease[r].token <= fencingToken'[lease[r].slot]
  BY OuterActor DEF RunInv
<1>2. ExecutionFits(r)'
  BY <1>1 DEF ExecutionFits
<1>3. HandlesFit(r)' /\ OwnColumns(r)'
  BY <1>1 DEF OuterFits, OwnColumns
<1>4. DeliveryKept(r)'
  <2> DEFINE DV == DeliveryVerifier(r, round[r])
  <2>1. DV' = DV /\ DV # BuilderOf(r)
    <3>1. round[r] \in 0..MaxRepair
      BY <1>1 DEF TypeOK
    <3> QED
      BY <1>1, <3>1, SandboxIds DEF DeliveryVerifier
  <2> HIDE DEF DV
  <2>2. Deliverable(r)' => held'[r]["delivery"] = DV /\ DV \in live'
    BY <1>1, <2>1 DEF OuterFits, DeliveryKept, DV
  <2>3. body'[r] \in {"promoted"} \cup Retaining => sandbox'[r] = DV
    BY <1>1 DEF DeliveryKept, DV
  <2>4. ASSUME status'[r] = "passed"
        PROVE  body'[r] \in {"idle", "passed"} /\ sandbox'[r] \in live'
    <3>1. body[r] = "passed" /\ sandbox[r] = DV
      BY <1>1, <2>4 DEF OuterFits, DeliveryKept, Retaining, DV
    <3>2. sandbox[r] \in live
      <4>1. CASE status[r] = "passed"
        BY <1>1, <4>1 DEF DeliveryKept
      <4>2. CASE status[r] # "passed"
        <5>1. Deliverable(r)
          BY <2>4, <4>2 DEF OuterFits, Deliverable, Retaining
        <5> QED
          BY <1>1, <3>1, <5>1 DEF DeliveryKept, DV
      <4> QED
        BY <4>1, <4>2
    <3> QED
      BY <1>1, <2>1, <2>4, <3>1, <3>2 DEF OuterFits
  <2> QED
    BY <1>1, <2>1, <2>2, <2>3, <2>4 DEF DeliveryKept, DV
<1>5. WayOut(r)'
  BY <1>1 DEF WayOut, OuterFits
<1> QED
  BY <1>2, <1>3, <1>4, <1>5 DEF RunInv

(* Every step of execute around the body keeps the invariant of its run.   *)
LEMMA OuterStepKeeps ==
  ASSUME IInv, [Next]_vars, NEW r \in Runs, OuterStep(r)
  PROVE  RunInv(r)'
<1>1. /\ TypeOK /\ HandlesFit(r) /\ DeliveryKept(r) /\ WayOut(r)
      /\ UNCHANGED <<body, lease, round, aborted>>
      /\ lease[r].run = r /\ lease[r] # None
      /\ \/ status'[r] = status[r]
         \/ status[r] = "running" /\ status'[r] \in Store!Terminal
      /\ status[r] \in {"running"} \cup Store!Terminal
      /\ ~Store!LeaseValid(lease[r]) => ~Store!LeaseValid(lease[r])'
  BY OuterActor DEF RunInv
<1>2. "passed" \in Store!Terminal /\ "running" \notin Store!Terminal
  BY DEF Store!Terminal
<1>3. ASSUME NEW to \in Outer, OuterGoes(r, to) PROVE outer'[r] = to
  BY <1>1, <1>3 DEF OuterGoes, TypeOK
<1>4. ASSUME UNCHANGED held PROVE HandlesFit(r)'
  BY <1>1, <1>4 DEF HandlesFit, CommandVerifier, DeliveryVerifier, BuilderOf
<1>5. ASSUME UNCHANGED <<held, live>>, outer[r] # "idle",
             outer[r] \notin {"executing", "disposingRetained"},
             outer'[r] \in {"catching", "disposing"},
             outer'[r] = "disposing" => \/ status'[r] \in Store!Terminal
                                        \/ ~Store!LeaseValid(lease[r])',
             status'[r] = "passed" /\ status[r] # "passed" =>
               body[r] = "passed" /\ outer[r] = "flushing"
      PROVE  OuterFits(r)
  BY <1>1, <1>4, <1>5 DEF OuterFits, Deliverable, GivenUp
<1>6. ASSUME NEW outcome \in {"rejected", "failed", "cancelled"},
             Store!MarkTerminal(lease[r], outcome)
      PROVE  status'[r] = outcome /\ status'[r] \in Store!Terminal
  BY <1>1, <1>6 DEF Store!MarkTerminal, TypeOK, Store!TypeOK, Store!Terminal
<1>7. ASSUME FlushDone(r) PROVE OuterFits(r)
  <2>1. CASE OuterGoes(r, "catching") /\ UNCHANGED storeVars
    BY <1>3, <1>5, <1>7, <2>1 DEF FlushDone, Outer, sandboxes, storeVars
  <2>2. CASE Store!MarkTerminal(lease[r], "rejected") /\ OuterGoes(r, "disposing")
    BY <1>3, <1>5, <1>6, <1>7, <2>2 DEF FlushDone, Outer, sandboxes
  <2>3. CASE /\ Store!MarkPassed(lease[r], revision[r])
             /\ OuterGoes(r, "disposing") /\ body[r] = "passed"
    <3>1. status'[r] = "passed"
      BY <1>1, <2>3 DEF Store!MarkPassed, TypeOK, Store!TypeOK
    <3> QED
      BY <1>2, <1>3, <1>5, <1>7, <2>3, <3>1 DEF FlushDone, Outer, sandboxes
  <2> QED
    BY <1>7, <2>1, <2>2, <2>3 DEF FlushDone
<1>8. ASSUME FlushFails(r) PROVE OuterFits(r)
  BY <1>3, <1>5, <1>8 DEF FlushFails, Outer, sandboxes, storeVars
<1>9. ASSUME Catch(r) PROVE OuterFits(r)
  <2>1. outer'[r] = "disposing" /\ UNCHANGED <<held, live>>
    BY <1>3, <1>9 DEF Catch, Outer, sandboxes
  <2>2. CASE Refused(r)
    <3>1. status'[r] = status[r]
      BY <2>2 DEF Refused, storeVars
    <3>2. status'[r] \in Store!Terminal \/ ~Store!LeaseValid(lease[r])'
      BY <1>1, <2>2, <3>1 DEF Refused, Store!ActiveRun
    <3> QED
      BY <1>5, <1>9, <2>1, <3>1, <3>2 DEF Catch
  <2>3. CASE \E outcome \in {"failed", "cancelled"} :
               Store!MarkTerminal(lease[r], outcome)
    <3>1. status'[r] \in Store!Terminal /\ status'[r] # "passed"
      BY <1>6, <2>3
    <3> QED
      BY <1>5, <1>9, <2>1, <3>1 DEF Catch
  <2> QED
    BY <1>9, <2>2, <2>3 DEF Catch
<1>10. ASSUME Finish(r), outer[r] \in {"disposing", "disposingRetained"}
       PROVE  /\ outer'[r] = "idle" /\ status' = status
              /\ GivenUp(r) => \/ status'[r] \in Store!Terminal
                               \/ ~Store!LeaseValid(lease[r])'
  <2>1. outer'[r] = "idle"
    BY <1>3, <1>10 DEF Finish, Outer
  <2>2. status' = status
    BY <1>10 DEF Finish, Store!ReleaseSlot, Store!runVars, storeVars
  <2> QED
    BY <1>1, <2>1, <2>2 DEF WayOut
<1>11. ASSUME DisposeBuilder(r) PROVE OuterFits(r)
  <2>1. outer[r] = "disposing" /\ Disposed(r, "builder") /\ GivenUp(r)
    BY <1>1, <1>11 DEF DisposeBuilder, GivenUp
  <2>2. /\ live' = live \ {held[r]["builder"]} /\ held'[r]["builder"] = None
        /\ held'[r]["command"] = held[r]["command"]
        /\ held'[r]["delivery"] = held[r]["delivery"]
    BY <1>1, <2>1, DisposedMoves DEF Handles
  <2>3. \A b \in live : b # BuilderOf(r) => b \in live'
    <3>1. None \notin live
      BY <1>1, StoreFits DEF TypeOK, StoreProofs!NoneAssumption
    <3> QED
      BY <1>1, <2>2, <3>1 DEF HandlesFit
  <2>4. HandlesFit(r)'
    BY <1>1, <2>2
       DEF HandlesFit, CommandVerifier, DeliveryVerifier, BuilderOf
  <2>5. CASE /\ body[r] \in Retaining /\ status[r] # "passed"
             /\ OuterGoes(r, "disposingRetained") /\ UNCHANGED storeVars
    <3>1. outer'[r] = "disposingRetained" /\ status' = status
      BY <1>3, <2>5 DEF Outer, storeVars
    <3> QED
      BY <1>1, <2>1, <2>2, <2>3, <2>4, <2>5, <3>1
         DEF OuterFits, Deliverable, WayOut
  <2>6. CASE ~(body[r] \in Retaining /\ status[r] # "passed") /\ Finish(r)
    <3>1. /\ outer'[r] = "idle" /\ status' = status
          /\ GivenUp(r) => \/ status'[r] \in Store!Terminal
                           \/ ~Store!LeaseValid(lease[r])'
      BY <1>10, <2>1, <2>6
    <3> QED
      BY <1>1, <2>1, <2>2, <2>3, <2>4, <2>6, <3>1
         DEF OuterFits, Deliverable, WayOut, Retaining
  <2> QED
    BY <1>11, <2>5, <2>6 DEF DisposeBuilder
<1>12. ASSUME DisposeRetained(r) PROVE OuterFits(r)
  <2>1. outer[r] = "disposingRetained" /\ Disposed(r, "delivery") /\ GivenUp(r)
        /\ Finish(r)
    BY <1>1, <1>12 DEF DisposeRetained, GivenUp
  <2>2. /\ held'[r]["delivery"] = None
        /\ held'[r]["command"] = held[r]["command"]
        /\ held'[r]["builder"] = held[r]["builder"]
        /\ live' = live \ {held[r]["delivery"]}
    BY <1>1, <2>1, DisposedMoves DEF Handles
  <2>3. HandlesFit(r)'
    BY <1>1, <2>2
       DEF HandlesFit, CommandVerifier, DeliveryVerifier, BuilderOf
  <2>4. /\ outer'[r] = "idle" /\ status' = status
        /\ GivenUp(r) => \/ status'[r] \in Store!Terminal
                         \/ ~Store!LeaseValid(lease[r])'
    BY <1>10, <2>1
  <2>5. status'[r] # "passed" /\ held[r]["builder"] = None
    BY <1>1, <2>1, <2>4 DEF WayOut
  <2>6. ~Deliverable(r)'
    BY <1>1, <2>1, <2>4 DEF Deliverable, WayOut, Retaining, Checking
  <2> QED
    BY <1>1, <2>1, <2>2, <2>3, <2>4, <2>5, <2>6 DEF OuterFits
<1> QED
  BY <1>7, <1>8, <1>9, <1>11, <1>12, OuterFitsSuffices DEF OuterStep

(* A process that dies forgets its executions; the store and the sandboxes *)
(* that exist stay as they are.                                            *)
LEMMA LossKeeps ==
  ASSUME IInv, Crash \/ Exit, NEW q \in Runs
  PROVE  RunInv(q)'
<1>1. RunInv(q)
  BY DEF IInv
<1>2. /\ outer'[q] = "idle" /\ body'[q] = "idle" /\ lease'[q] = None
      /\ \A h \in Handles : held'[q][h] = None
      /\ live \subseteq live' /\ UNCHANGED storeVars
  BY DEF Crash, Exit, MemoryIsLost, NoHandles
<1>3. ExecutionFits(q)'
  BY <1>2 DEF ExecutionFits
<1>4. HandlesFit(q)'
  BY <1>2 DEF HandlesFit, Handles
<1>5. OwnColumns(q)'
  BY <1>1, <1>2 DEF RunInv, OwnColumns, storeVars, Store!RecordedSandboxes
<1>6. DeliveryKept(q)'
  BY <1>1, <1>2
     DEF RunInv, DeliveryKept, Deliverable, Checking, Retaining, storeVars
<1>7. WayOut(q)'
  BY <1>2 DEF WayOut, GivenUp, Handles
<1> QED
  BY <1>3, <1>4, <1>5, <1>6, <1>7 DEF RunInv

(* Whatever the step, every run is the one that took it, a bystander, or   *)
(* forgotten with the rest of the process.                                 *)
LEMMA RunInvKept ==
  ASSUME IInv, [Next]_vars, NEW q \in Runs
  PROVE  RunInv(q)'
<1>1. ASSUME NEW r \in Runs, BodyStep(r) PROVE RunInv(q)'
  BY <1>1, BodyStepKeeps, BodyBystanders, BystanderKeeps
<1>2. ASSUME NEW r \in Runs, OuterStep(r) PROVE RunInv(q)'
  BY <1>2, OuterStepKeeps, OuterBystanders, BystanderKeeps
<1>3. ASSUME NEW r \in Runs, ServiceStep(r) PROVE RunInv(q)'
  BY <1>3, ServiceBystanders, BystanderKeeps
<1>4. CASE SchedulerStep
  BY <1>4, SchedulerBystanders, DispatchKeeps, BystanderKeeps
<1>5. ASSUME NEW s \in SlotIds, LeaseRunsOut(s) PROVE RunInv(q)'
  BY <1>5, ClockBystanders, BystanderKeeps
<1>6. CASE ProcessStep
  BY <1>6, ProcessBystanders, LossKeeps, BystanderKeeps
<1>7. CASE UNCHANGED vars
  <2>1. Bystander(q)
    BY <1>7, StoreOpsAge
       DEF vars, memory, sandboxes, Bystander, SandboxKept
  <2> QED
    BY <2>1, BystanderKeeps
<1> QED
  BY <1>1, <1>2, <1>3, <1>4, <1>5, <1>6, <1>7 DEF Next
-----------------------------------------------------------------------------
(* Type correctness of the process's own variables.                        *)
OwnTypeOK ==
  /\ process \in {"down", "recovering", "up", "stopping"}
  /\ batch \subseteq Runs /\ active \subseteq Runs /\ aborted \subseteq Runs
  /\ dispatching \in Store!Leases \cup {None}
  /\ outer \in [Runs -> Outer] /\ body \in [Runs -> Body]
  /\ lease \in [Runs -> Store!Leases \cup {None}]
  /\ round \in [Runs -> 0..MaxRepair]
  /\ held \in [Runs -> [Handles -> Sandboxes \cup {None}]]
  /\ live \subseteq Sandboxes /\ attached \subseteq Sandboxes
  /\ doomed \subseteq Sandboxes /\ undeleted \subseteq Sandboxes
  /\ stalls \in 0..MaxStalls /\ restarts \in 0..MaxRestarts

(* The steps of an execution keep the worker's types.                      *)
LEMMA ExecutionTypes ==
  ASSUME IInv, NEW r \in Runs, BodyStep(r) \/ OuterStep(r)
  PROVE  OwnTypeOK'
<1>1. TypeOK /\ OwnTypeOK
  BY DEF IInv, TypeOK, OwnTypeOK
<1>2. CASE BodyStep(r)
  <2>1. BodyShape(r)
    BY <1>2, BodyStepShape
  <2>2. outer' \in [Runs -> Outer] /\ body' \in [Runs -> Body]
    BY <1>1, <2>1, GoesMoves, EndMoves DEF BodyShape, OwnTypeOK
  <2>3. /\ held' \in [Runs -> [Handles -> Sandboxes \cup {None}]]
        /\ live' \subseteq Sandboxes
    BY <1>1, <2>1, DisposedMoves, ProvidedMoves DEF BodyShape, OwnTypeOK
  <2>4. round' \in [Runs -> 0..MaxRepair]
    <3>1. \/ round' = round
          \/ /\ body[r] = "unwindRepair"
             /\ round' = [round EXCEPT ![r] = @ + 1]
      BY <1>2 DEF BodyStep, BuilderCreated, Frozen, CommandVerifierCreated,
             DeliveryVerifierCreated, CommandsRun, DeliveryCommandsRun,
             PreviewInspected, Reviewed, Evaluated, Records,
             ArtifactPersisted, Promoted, HandedOver, BodyThrows,
             VerifierDisposed, Unwound, Unwinding
    <3>2. body[r] = "unwindRepair" => round[r] < MaxRepair
      BY DEF IInv, RunInv, ExecutionFits
    <3>3. MaxRepair \in Nat
      BY LimitAssumption
    <3> QED
      BY <1>1, <3>1, <3>2, <3>3 DEF OwnTypeOK
  <2>5. attached' \subseteq Sandboxes
    <3>1. BuilderOf(r) \in Sandboxes
      BY SandboxIds, LimitAssumption
    <3> QED
      BY <1>1, <1>2, <3>1
         DEF BodyStep, BuilderCreated, Frozen, CommandVerifierCreated,
             DeliveryVerifierCreated, VerifierAttached, NotIsolated,
             CommandsRun, Disposed, DeliveryCommandsRun, PreviewInspected,
             Reviewed, Evaluated, Records, ArtifactPersisted, Promoted,
             HandedOver, BodyThrows, VerifierDisposed, Unwound, OwnTypeOK,
             sandboxes
  <2> QED
    BY <1>1, <2>1, <2>2, <2>3, <2>4, <2>5
       DEF BodyShape, Frame, recoveryVars, bounds, OwnTypeOK
<1>3. CASE OuterStep(r)
  <2>1. OuterShape(r)
    BY <1>3, OuterStepShape
  <2>2. outer' \in [Runs -> Outer]
    BY <1>1, <2>1 DEF OuterShape, OuterGoes, OwnTypeOK
  <2>3. /\ held' \in [Runs -> [Handles -> Sandboxes \cup {None}]]
        /\ live' \subseteq Sandboxes
    BY <1>1, <2>1, DisposedMoves DEF OuterShape, OwnTypeOK
  <2>4. active' \subseteq active /\ attached' = attached
    BY <1>3 DEF OuterStep, FlushDone, FlushFails, Catch, DisposeBuilder,
           DisposeRetained, Finish, Disposed, sandboxes
  <2> QED
    BY <1>1, <2>1, <2>2, <2>3, <2>4
       DEF OuterShape, OuterFrame, recoveryVars, bounds, OwnTypeOK
<1> QED
  BY <1>2, <1>3

(* An abort moves executions to labels they have.                          *)
LEMMA AbortTypes ==
  ASSUME OwnTypeOK, NEW R \in SUBSET Runs, Abort(R)
  PROVE  aborted' \subseteq Runs /\ outer' \in [Runs -> Outer]
  BY DEF OwnTypeOK, Abort, Outer

(* The scheduler, its services and the clock keep the worker's types.      *)
LEMMA SchedulerTypes ==
  ASSUME IInv, \/ SchedulerStep
               \/ \E r \in Runs : ServiceStep(r)
               \/ \E s \in SlotIds : LeaseRunsOut(s)
  PROVE  OwnTypeOK'
<1>1. /\ OwnTypeOK /\ Store!TypeOK
      /\ {MaxStalls, MaxToken} \subseteq Nat
  BY LimitAssumption, StoreAssumption DEF IInv, TypeOK, OwnTypeOK
<1>2. \A r \in Runs : {r} \in SUBSET Runs /\ {r} \cap active \in SUBSET Runs
  OBVIOUS
<1> USE DEF memory, sandboxes, recoveryVars, bounds
<1>3. ASSUME NEW r \in Runs, ServiceStep(r) PROVE OwnTypeOK'
  <2>1. CASE Submit(r) \/ AcknowledgeOutbox(r)
    BY <1>1, <2>1 DEF Submit, AcknowledgeOutbox, OwnTypeOK
  <2>2. CASE Cancel(r)
    <3>1. aborted' \subseteq Runs /\ outer' \in [Runs -> Outer]
      BY <1>1, <1>2, <2>2, AbortTypes DEF Cancel
    <3> QED
      BY <1>1, <2>2, <3>1 DEF Cancel, OwnTypeOK
  <2> QED
    BY <1>3, <2>1, <2>2 DEF ServiceStep
<1>4. ASSUME NEW s \in SlotIds, LeaseRunsOut(s) PROVE OwnTypeOK'
  BY <1>1, <1>4 DEF LeaseRunsOut, OwnTypeOK
<1>5. CASE Wake \/ NoSlotLeft \/ DispatchTooLate
  BY <1>1, <1>5 DEF Wake, NoSlotLeft, DispatchTooLate, Listed, OwnTypeOK
<1>6. CASE Dispatch
  <2>1. dispatching \in Store!Leases /\ dispatching.run \in Runs
    BY <1>1, <1>6 DEF Dispatch, OwnTypeOK, Store!Leases
  <2>2. "executing" \in Outer /\ "creating" \in Body
    BY DEF Outer, Body
  <2> QED
    BY <1>1, <1>6, <2>1, <2>2 DEF Dispatch, OwnTypeOK
<1>7. ASSUME NEW r \in Runs, AcquireNext(r) PROVE OwnTypeOK'
  <2>1. PICK s \in SlotIds :
          /\ Store!AcquireSlot(r, s)
          /\ dispatching' = [slot |-> s, run |-> r, token |-> fencingToken'[s]]
    BY <1>7 DEF AcquireNext
  <2>2. fencingToken'[s] \in 1..MaxToken
    BY <1>1, <2>1 DEF Store!AcquireSlot, Store!TypeOK
  <2>3. dispatching' \in Store!Leases
    BY <2>1, <2>2 DEF Store!Leases
  <2> QED
    BY <1>1, <1>7, <2>3 DEF AcquireNext, OwnTypeOK
<1>8. ASSUME NEW r \in Runs, HeartbeatFails(r) \/ WallClock(r)
      PROVE  OwnTypeOK'
  <2>1. aborted' \subseteq Runs /\ outer' \in [Runs -> Outer]
    BY <1>1, <1>2, <1>8, AbortTypes DEF HeartbeatFails, WallClock
  <2> QED
    BY <1>1, <1>8, <2>1 DEF HeartbeatFails, WallClock, OwnTypeOK
<1> QED
  BY <1>3, <1>4, <1>5, <1>6, <1>7, <1>8 DEF SchedulerStep

(* A sandbox that is being created when the process dies belongs to a run  *)
(* that was executing.                                                     *)
LEMMA BeingCreatedExist ==
  ASSUME OwnTypeOK
  PROVE  /\ BeingCreated \subseteq Sandboxes
         /\ \A b \in BeingCreated :
              b[1] \in Runs /\ body[b[1]] # "idle"
<1>1. ASSUME NEW b \in BeingCreated
      PROVE  /\ b \in Sandboxes /\ b[1] \in Runs /\ body[b[1]] # "idle"
  <2>1. PICK r \in Runs : b \in
          CASE body[r] = "creating"         -> {BuilderOf(r)}
            [] body[r] = "creatingCommand"  -> {CommandVerifier(r, round[r])}
            [] body[r] = "creatingDelivery" -> {DeliveryVerifier(r, round[r])}
            [] OTHER                        -> {}
    BY <1>1 DEF BeingCreated
  <2>2. round[r] \in 0..MaxRepair
    BY DEF OwnTypeOK
  <2>3. /\ body[r] \in {"creating", "creatingCommand", "creatingDelivery"}
        /\ b \in {BuilderOf(r), CommandVerifier(r, round[r]),
                  DeliveryVerifier(r, round[r])}
    BY <2>1
  <2>4. b[1] = r
    BY <2>3 DEF BuilderOf, CommandVerifier, DeliveryVerifier
  <2> QED
    BY <2>2, <2>3, <2>4, SandboxIds
<1> QED
  BY <1>1

(* The start and the end of the process keep the worker's types.           *)
LEMMA ProcessTypes ==
  ASSUME IInv, ProcessStep
  PROVE  OwnTypeOK'
<1>1. OwnTypeOK /\ Store!TypeOK /\ MaxRestarts \in Nat /\ MaxRepair \in Nat
  BY LimitAssumption DEF IInv, TypeOK, OwnTypeOK
<1> USE DEF memory, sandboxes, recoveryVars, bounds
<1>2. CASE Crash \/ Exit
  <2>1. live' \subseteq Sandboxes
    BY <1>1, <1>2, BeingCreatedExist DEF Crash, Exit, OwnTypeOK
  <2>2. /\ outer' \in [Runs -> Outer] /\ body' \in [Runs -> Body]
        /\ lease' \in [Runs -> Store!Leases \cup {None}]
        /\ round' \in [Runs -> 0..MaxRepair]
        /\ held' \in [Runs -> [Handles -> Sandboxes \cup {None}]]
    <3>1. MemoryIsLost
      BY <1>2 DEF Crash, Exit
    <3>2. "idle" \in Outer /\ "idle" \in Body /\ 0 \in 0..MaxRepair
      BY <1>1 DEF Outer, Body
    <3>3. NoHandles \in [Handles -> Sandboxes \cup {None}]
      BY DEF NoHandles
    <3> QED
      BY <3>1, <3>2, <3>3 DEF MemoryIsLost
  <2> QED
    BY <1>1, <1>2, <2>1, <2>2 DEF Crash, Exit, MemoryIsLost, OwnTypeOK
<1>3. CASE Shutdown
  <2>1. active \in SUBSET Runs
    BY <1>1 DEF OwnTypeOK
  <2>2. aborted' \subseteq Runs /\ outer' \in [Runs -> Outer]
    BY <1>1, <1>3, <2>1, AbortTypes DEF Shutdown
  <2> QED
    BY <1>1, <1>3, <2>2 DEF Shutdown, OwnTypeOK
<1>4. CASE Recover
  <2>1. \A r \in Runs : Store!RecordedSandboxes(r) \subseteq Sandboxes
    BY <1>1 DEF Store!RecordedSandboxes, Store!TypeOK
  <2>2. Store!CleanupPending' \subseteq Runs
    BY DEF Store!CleanupPending
  <2>3. doomed' \subseteq Sandboxes
    BY <1>4, <2>1, <2>2 DEF Recover
  <2> QED
    BY <1>1, <1>4, <2>3 DEF Recover, OwnTypeOK
<1>5. CASE Start
  BY <1>1, <1>5 DEF Start, OwnTypeOK
<1>6. ASSUME NEW b \in Sandboxes, DeleteRecorded(b) PROVE OwnTypeOK'
  BY <1>1, <1>6 DEF DeleteRecorded, OwnTypeOK
<1>7. ASSUME NEW r \in Runs, FinishCleanup(r) PROVE OwnTypeOK'
  BY <1>1, <1>7 DEF FinishCleanup, OwnTypeOK
<1> QED
  BY <1>2, <1>3, <1>4, <1>5, <1>6, <1>7 DEF ProcessStep

(* Every step keeps the types of the worker and of the store.              *)
LEMMA TypesKept ==
  ASSUME IInv, [Next]_vars
  PROVE  TypeOK'
<1>1. OwnTypeOK'
  <2>1. CASE UNCHANGED vars
    BY <2>1 DEF IInv, TypeOK, OwnTypeOK, vars, memory, sandboxes,
                recoveryVars, bounds
  <2> QED
    BY <2>1, ExecutionTypes, SchedulerTypes, ProcessTypes DEF Next
<1>2. Store!TypeOK'
  BY StoreKeepsItsInvariant
<1> QED
  BY <1>1, <1>2 DEF TypeOK, OwnTypeOK
-----------------------------------------------------------------------------
(* Which steps put a run in a slot, or make one queued or running: the API *)
(* and the two of the dispatch.  All others at most free slots.            *)
Calm ==
  /\ \A s \in SlotIds : slotRun'[s] \in {None, slotRun[s]}
  /\ UNCHANGED <<fencingToken, startedBy>>
  /\ \A q \in Runs : status'[q] \in {"queued", "running"} =>
       status'[q] = status[q]

(* All steps but submission, acquisition and dispatch hand out no slot and *)
(* neither queue nor start a run.                                          *)
LEMMA CalmSteps ==
  ASSUME IInv,
         \/ \E r \in Runs : \/ Cancel(r) \/ AcknowledgeOutbox(r)
                            \/ BodyStep(r) \/ OuterStep(r)
                            \/ HeartbeatFails(r) \/ WallClock(r)
         \/ Wake \/ NoSlotLeft \/ DispatchTooLate
         \/ \E s \in SlotIds : LeaseRunsOut(s)
         \/ ProcessStep
         \/ UNCHANGED vars
  PROVE  Calm
<1>1. /\ Store!TypeOK
      /\ slotRun \in [SlotIds -> Runs \cup {None}]
      /\ status \in [Runs -> Store!Status]
  BY DEF IInv, TypeOK, Store!TypeOK
<1> USE DEF Calm, Store!runVars, Store!sandboxVars, Store!proofVars,
            Store!outboxVars, Store!slotVars
<1>2. ASSUME UNCHANGED storeVars PROVE Calm
  BY <1>2 DEF storeVars
<1>3. ASSUME NEW l \in Store!Leases, Store!ReleaseSlot(l) PROVE Calm
  BY <1>1, <1>3 DEF Store!ReleaseSlot
<1>4. ASSUME NEW r \in Runs, BodyStep(r) PROVE Calm
  BY <1>2, <1>4, BodyStepIsStoreStep DEF Writes
<1>5. ASSUME NEW r \in Runs, OuterStep(r) PROVE Calm
  <2>1. CASE Marks(r)
    BY <1>1, <2>1 DEF Marks, Store!Terminal
  <2>2. CASE Releases(lease[r])
    BY <1>1, <2>2 DEF Releases, Store!ReleaseSlot
  <2> QED
    BY <1>2, <1>5, <2>1, <2>2, OuterStepIsStoreStep
<1>6. ASSUME NEW r \in Runs, Cancel(r) \/ AcknowledgeOutbox(r) PROVE Calm
  BY <1>1, <1>6 DEF Cancel, AcknowledgeOutbox, Store!RequestCancel,
                    Store!MarkOutboxPublished
<1>7. ASSUME NEW r \in Runs, HeartbeatFails(r) \/ WallClock(r) PROVE Calm
  BY <1>2, <1>7 DEF HeartbeatFails, WallClock
<1>8. CASE Wake \/ NoSlotLeft \/ Crash \/ Shutdown \/ Exit \/ UNCHANGED vars
  BY <1>2, <1>8 DEF Wake, NoSlotLeft, Crash, Shutdown, Exit, vars
<1>9. CASE DispatchTooLate
  <2>1. dispatching \in Store!Leases
    BY <1>9 DEF DispatchTooLate, IInv, TypeOK
  <2> QED
    BY <1>3, <1>9, <2>1 DEF DispatchTooLate
<1>10. ASSUME NEW s \in SlotIds, LeaseRunsOut(s) PROVE Calm
  BY <1>10 DEF LeaseRunsOut, Store!LeaseExpires
<1>11. CASE Recover \/ Start
  BY <1>1, <1>11 DEF Recover, Start, Store!RecoverInterruptedRuns
<1>12. ASSUME NEW b \in Sandboxes, DeleteRecorded(b) PROVE Calm
  BY <1>2, <1>12 DEF DeleteRecorded
<1>13. ASSUME NEW r \in Runs, FinishCleanup(r) PROVE Calm
  BY <1>13 DEF FinishCleanup, Store!MarkRecoveryCleanupComplete
<1> QED
  BY <1>4, <1>5, <1>6, <1>7, <1>8, <1>9, <1>10, <1>11, <1>12, <1>13
     DEF ProcessStep

(* The steps that can give a run a lease or an execution, and all the      *)
(* others.                                                                 *)
LEMMA StepKinds ==
  ASSUME IInv, [Next]_vars
  PROVE  \/ Calm
         \/ \E r \in Runs : Submit(r) \/ AcquireNext(r)
         \/ Dispatch
  BY CalmSteps DEF Next, ServiceStep, SchedulerStep

(* A slot whose holder is still queued is not given a second run, because  *)
(* the loop of wake() holds one lease at a time.                           *)
LEMMA NoQueuedHolder ==
  ASSUME IInv, dispatching = None, process # "down",
         NEW s \in SlotIds, slotRun[s] # None
  PROVE  status[slotRun[s]] # "queued"
  BY DEF IInv, QueuedHolders

(* All that is neither a dispatch nor a start or an end of the process     *)
(* leaves the lease alone that is being dispatched.                        *)
Others ==
  \/ \E r \in Runs : \/ Cancel(r) \/ AcknowledgeOutbox(r)
                     \/ BodyStep(r) \/ OuterStep(r)
                     \/ HeartbeatFails(r) \/ WallClock(r)
                     \/ FinishCleanup(r)
  \/ Wake \/ NoSlotLeft \/ Shutdown
  \/ \E s \in SlotIds : LeaseRunsOut(s)
  \/ \E b \in Sandboxes : DeleteRecorded(b)
  \/ UNCHANGED vars

(* Only the scheduler's own steps change what it is about to dispatch.     *)
LEMMA DispatchingStays ==
  ASSUME IInv, Others
  PROVE  dispatching' = dispatching /\ (process = "down" => process' = "down")
<1>1. ASSUME NEW r \in Runs, BodyStep(r)
      PROVE  UNCHANGED <<dispatching, process>>
  BY <1>1, BodyStepShape DEF BodyShape, Frame
<1>2. ASSUME NEW r \in Runs, OuterStep(r)
      PROVE  UNCHANGED <<dispatching, process>>
  BY <1>2, OuterStepShape DEF OuterShape, OuterFrame
<1>3. ASSUME NEW r \in Runs,
             \/ Cancel(r) \/ AcknowledgeOutbox(r)
             \/ HeartbeatFails(r) \/ WallClock(r) \/ FinishCleanup(r)
      PROVE  UNCHANGED <<dispatching, process>>
  BY <1>3 DEF Cancel, AcknowledgeOutbox, HeartbeatFails, WallClock,
              FinishCleanup, memory
<1>4. ASSUME NEW s \in SlotIds, LeaseRunsOut(s)
      PROVE  UNCHANGED <<dispatching, process>>
  BY <1>4 DEF LeaseRunsOut, memory
<1>5. ASSUME NEW b \in Sandboxes, DeleteRecorded(b)
      PROVE  UNCHANGED <<dispatching, process>>
  BY <1>5 DEF DeleteRecorded, memory
<1>6. CASE Wake \/ NoSlotLeft \/ Shutdown \/ UNCHANGED vars
  BY <1>6 DEF Wake, NoSlotLeft, Shutdown, vars, memory
<1> QED
  BY <1>1, <1>2, <1>3, <1>4, <1>5, <1>6 DEF Others

(* A run is leased only when it is queued, and a queued run has no lease:  *)
(* it never gets a second one.                                             *)
LEMMA OneLeaseKept ==
  ASSUME IInv, [Next]_vars
  PROVE  OneLeasePerRun'
<1>1. /\ Store!TypeOK /\ OneLeasePerRun /\ QueuedHolders
      /\ StoreProofs!SlotHoldersExist
      /\ None \notin Runs
  BY StoreAssumption DEF IInv, TypeOK, StoreProofs!IInv
<1>2. /\ slotRun \in [SlotIds -> Runs \cup {None}]
      /\ slotRun' \in [SlotIds -> Runs \cup {None}]
      /\ status \in [Runs -> Store!Status]
      /\ startedBy \in [Runs -> Store!Tickets \cup {None}]
      /\ fencingToken \in [SlotIds -> 0..MaxToken]
  BY <1>1, StoreKeepsItsInvariant DEF Store!TypeOK
<1> USE DEF Store!runVars, Store!sandboxVars, Store!proofVars,
            Store!outboxVars, Store!slotVars
<1>3. CASE Calm
  BY <1>1, <1>2, <1>3 DEF Calm, OneLeasePerRun
<1>4. ASSUME NEW r \in Runs, Submit(r) PROVE OneLeasePerRun'
  BY <1>1, <1>2, <1>4 DEF Submit, Store!CreateRun, OneLeasePerRun
<1>5. ASSUME NEW r \in Runs, AcquireNext(r) PROVE OneLeasePerRun'
  <2>1. PICK s \in SlotIds : Store!AcquireSlot(r, s)
    BY <1>5 DEF AcquireNext
  <2>2. \A t \in SlotIds : slotRun[t] # r
    BY <1>1, <1>2, <1>5, <2>1, NoQueuedHolder
       DEF AcquireNext, Store!AcquireSlot
  <2>3. /\ slotRun'[s] = r /\ status'[r] = "queued" /\ startedBy' = startedBy
        /\ \A t \in SlotIds \ {s} : /\ slotRun'[t] = slotRun[t]
                                    /\ fencingToken'[t] = fencingToken[t]
        /\ \A q \in Runs : status'[q] = "running" => status[q] = "running"
    BY <1>2, <2>1, <2>2 DEF Store!AcquireSlot, Store!FailExpiredRun
  <2> QED
    BY <1>1, <1>2, <2>2, <2>3 DEF OneLeasePerRun
<1>6. CASE Dispatch
  <2> DEFINE s == dispatching.slot
             r == dispatching.run
  <2>1. s \in SlotIds /\ r \in Runs
    BY <1>6 DEF Dispatch, IInv, TypeOK, Store!Leases
  <2>2. /\ slotRun[s] = r /\ fencingToken[s] = dispatching.token
        /\ slotRun' = slotRun /\ fencingToken' = fencingToken
        /\ startedBy'[r] = [slot |-> s, token |-> dispatching.token]
        /\ \A q \in Runs \ {r} : /\ status'[q] = status[q]
                                 /\ startedBy'[q] = startedBy[q]
    BY <1>2, <1>6, <2>1 DEF Dispatch, Store!StartRun, Store!LeaseValid
  <2> HIDE DEF s, r
  <2> QED
    BY <1>1, <1>2, <2>1, <2>2 DEF OneLeasePerRun
<1> QED
  BY <1>3, <1>4, <1>5, <1>6, StepKinds

(* The only queued run with a slot is the one the scheduler is about to    *)
(* dispatch.                                                               *)
LEMMA QueuedHoldersKept ==
  ASSUME IInv, [Next]_vars
  PROVE  QueuedHolders'
<1>1. /\ Store!TypeOK /\ OneLeasePerRun /\ QueuedHolders
      /\ StoreProofs!SlotHoldersExist
      /\ None \notin Runs
  BY StoreAssumption DEF IInv, TypeOK, StoreProofs!IInv
<1>2. /\ slotRun \in [SlotIds -> Runs \cup {None}]
      /\ slotRun' \in [SlotIds -> Runs \cup {None}]
      /\ status \in [Runs -> Store!Status]
      /\ fencingToken \in [SlotIds -> 0..MaxToken]
  BY <1>1, StoreKeepsItsInvariant DEF Store!TypeOK
<1> USE DEF Store!runVars, Store!sandboxVars, Store!proofVars,
            Store!outboxVars, Store!slotVars
<1>3. ASSUME Calm, dispatching' = dispatching, process # "down"
      PROVE  QueuedHolders'
  BY <1>1, <1>2, <1>3 DEF Calm, QueuedHolders
<1>4. ASSUME NEW r \in Runs, Submit(r) PROVE QueuedHolders'
  <2>1. \A s \in SlotIds : slotRun[s] # r
    BY <1>1, <1>2, <1>4
       DEF Submit, Store!CreateRun, StoreProofs!SlotHoldersExist
  <2>2. /\ \A q \in Runs \ {r} : status'[q] = status[q]
        /\ UNCHANGED <<slotRun, fencingToken, dispatching, process>>
    BY <1>2, <1>4 DEF Submit, Store!CreateRun, memory
  <2> QED
    BY <1>1, <1>2, <2>1, <2>2 DEF QueuedHolders
<1>5. ASSUME NEW r \in Runs, AcquireNext(r) PROVE QueuedHolders'
  <2>1. PICK s \in SlotIds :
          /\ Store!AcquireSlot(r, s)
          /\ dispatching' = [slot |-> s, run |-> r, token |-> fencingToken'[s]]
    BY <1>5 DEF AcquireNext
  <2>2. /\ slotRun'[s] = r /\ dispatching' # None
        /\ \A t \in SlotIds \ {s} : slotRun'[t] = slotRun[t]
        /\ \A q \in Runs : status'[q] = "queued" => status[q] = "queued"
    <3>1. slotRun'[s] = r
      BY <1>2, <2>1 DEF Store!AcquireSlot
    <3>2. fencingToken'[s] \in 1..MaxToken
      BY <1>2, <2>1, StoreAssumption DEF Store!AcquireSlot
    <3>3. dispatching' # None
      BY <2>1, <3>2, StoreAssumption
    <3> QED
      BY <1>2, <2>1, <3>1, <3>3 DEF Store!AcquireSlot, Store!FailExpiredRun
  <2>3. \A t \in SlotIds : slotRun[t] # None => status[slotRun[t]] # "queued"
    BY <1>5, NoQueuedHolder DEF AcquireNext
  <2> QED
    BY <1>1, <1>2, <2>1, <2>2, <2>3 DEF QueuedHolders
<1>6. CASE Dispatch
  <2> DEFINE r == dispatching.run
  <2>1. r \in Runs /\ process # "down"
    BY <1>6 DEF Dispatch, IInv, TypeOK, Store!Leases, MemoryFits
  <2>2. /\ status'[r] = "running" /\ slotRun' = slotRun
        /\ \A q \in Runs \ {r} : status'[q] = status[q]
    BY <1>2, <1>6, <2>1 DEF Dispatch, Store!StartRun
  <2>3. \A t \in SlotIds :
          slotRun[t] # None /\ status[slotRun[t]] = "queued" => slotRun[t] = r
    BY <1>1, <2>1 DEF QueuedHolders
  <2> HIDE DEF r
  <2> QED
    BY <1>1, <1>2, <2>1, <2>2, <2>3 DEF QueuedHolders
<1>7. CASE DispatchTooLate
  <2>1. process # "down" /\ Calm /\ dispatching.slot \in SlotIds
    BY <1>7, CalmSteps
       DEF DispatchTooLate, IInv, MemoryFits, TypeOK, Store!Leases
  <2>2. slotRun'[dispatching.slot] = None
    BY <1>2, <1>7, <2>1 DEF DispatchTooLate, Store!ReleaseSlot
  <2> QED
    BY <1>1, <1>2, <2>1, <2>2 DEF QueuedHolders, Calm
<1>8. CASE Recover \/ Start
  BY <1>8 DEF Recover, Start, Store!RecoverInterruptedRuns, QueuedHolders
<1>9. CASE Crash \/ Exit
  BY <1>9 DEF Crash, Exit, QueuedHolders
<1>10. CASE Others
  <2>1. Calm
    BY <1>10, CalmSteps DEF Others, ProcessStep
  <2> QED
    BY <1>3, <1>10, <2>1, DispatchingStays DEF QueuedHolders
<1>11. Next => \/ \E r \in Runs : Submit(r) \/ AcquireNext(r)
               \/ Dispatch \/ DispatchTooLate
               \/ Recover \/ Start \/ Crash \/ Exit
               \/ Others
  BY DEF Next, Others, ServiceStep, SchedulerStep, ProcessStep
<1>12. UNCHANGED vars => Others
  BY DEF Others
<1> QED
  BY <1>4, <1>5, <1>6, <1>7, <1>8, <1>9, <1>10, <1>11, <1>12
-----------------------------------------------------------------------------
(* What an execution does to the sandboxes: it forgets one it deletes, and *)
(* a new one gets a handle that was free.                                  *)
LEMMA HandlesFollow ==
  ASSUME IInv, NEW r \in Runs, BodyStep(r) \/ OuterStep(r)
  PROVE  /\ body[r] # "idle"
         /\ \/ UNCHANGED <<held, live>>
            \/ \E h \in Handles : Disposed(r, h)
            \/ \E h \in Handles, b \in Sandboxes :
                 Provided(r, h, b) /\ held[r][h] = None /\ b[1] = r
<1>1. TypeOK /\ HandlesFit(r) /\ ExecutionFits(r)
  BY DEF IInv, RunInv
<1>2. Handles = {"builder", "command", "delivery"} /\ round[r] \in 0..MaxRepair
  BY <1>1 DEF Handles, TypeOK
<1>3. CASE OuterStep(r)
  <2>1. OuterShape(r) /\ outer[r] # "idle"
    BY <1>3, OuterStepShape
       DEF OuterStep, FlushDone, FlushFails, Catch, DisposeBuilder,
           DisposeRetained
  <2> QED
    BY <1>1, <2>1 DEF OuterShape, ExecutionFits
<1>4. CASE BuilderCreated(r)
  <2>1. BuilderOf(r) \in Sandboxes /\ BuilderOf(r)[1] = r
    BY <1>2, SandboxIds DEF BuilderOf
  <2>2. held[r]["builder"] = None /\ body[r] = "creating"
    BY <1>1, <1>4 DEF BuilderCreated, At, HandlesFit
  <2> QED
    BY <1>2, <1>4, <2>1, <2>2 DEF BuilderCreated
<1>5. ASSUME NEW b \in Sandboxes, CommandVerifierCreated(r, b)
      PROVE  \/ UNCHANGED <<held, live>> /\ body[r] # "idle"
             \/ /\ Provided(r, "command", b) /\ held[r]["command"] = None
                /\ b[1] = r /\ body[r] # "idle"
  <2>1. body[r] = "creatingCommand" /\ held[r]["command"] = None
    BY <1>1, <1>5 DEF CommandVerifierCreated, At, HandlesFit, Unwinding
  <2>2. CommandVerifier(r, round[r])[1] = r
    BY DEF CommandVerifier
  <2> QED
    BY <1>5, <2>1, <2>2 DEF CommandVerifierCreated, NotIsolated, sandboxes
<1>6. ASSUME NEW b \in Sandboxes, DeliveryVerifierCreated(r, b)
      PROVE  \/ UNCHANGED <<held, live>> /\ body[r] # "idle"
             \/ /\ Provided(r, "delivery", b) /\ held[r]["delivery"] = None
                /\ b[1] = r /\ body[r] # "idle"
  <2>1. body[r] = "creatingDelivery" /\ held[r]["delivery"] = None
    BY <1>1, <1>6
       DEF DeliveryVerifierCreated, At, HandlesFit, Unwinding, Checking,
           Retaining
  <2>2. DeliveryVerifier(r, round[r])[1] = r
    BY DEF DeliveryVerifier
  <2> QED
    BY <1>6, <2>1, <2>2 DEF DeliveryVerifierCreated, NotIsolated, sandboxes
<1>7. ASSUME \/ CommandsRun(r)
             \/ \E h \in Handles : VerifierDisposed(r, h)
      PROVE  body[r] # "idle" /\ \E h \in Handles : Disposed(r, h)
  BY <1>2, <1>7 DEF CommandsRun, VerifierDisposed, At, Unwinding
<1>8. ASSUME NEW k, NEW verdict, NEW next, Records(r, k, verdict, next)
      PROVE  UNCHANGED <<held, live>>
  BY <1>8 DEF Records, sandboxes
<1>9. ASSUME \/ \E v \in Revisions : Frozen(r, v)
             \/ \E verdict \in {"PASS", "FAIL"} :
                  \/ DeliveryCommandsRun(r, verdict)
                  \/ PreviewInspected(r, verdict)
                  \/ Reviewed(r, verdict)
                  \/ \E next \in Body : Evaluated(r, verdict, next)
             \/ ArtifactPersisted(r) \/ Promoted(r) \/ HandedOver(r)
             \/ BodyThrows(r) \/ Unwound(r)
      PROVE  UNCHANGED <<held, live>> /\ body[r] # "idle"
  BY <1>8, <1>9
     DEF Frozen, DeliveryCommandsRun, PreviewInspected, Reviewed, Evaluated,
         ArtifactPersisted, Promoted, HandedOver, BodyThrows, Unwound, At,
         Unwinding, sandboxes
<1>10. CASE BodyStep(r)
  BY <1>2, <1>4, <1>5, <1>6, <1>7, <1>9, <1>10 DEF BodyStep
<1> QED
  BY <1>3, <1>10

(* A step the running process takes, as opposed to its start and its end.  *)
Works == \/ \E r \in Runs : ServiceStep(r) \/ BodyStep(r) \/ OuterStep(r)
         \/ SchedulerStep

(* Executions, the scheduler and its services take steps in a running      *)
(* process only, and leave it and its recovery alone.                      *)
LEMMA WorkingSteps ==
  ASSUME IInv, Works
  PROVE  /\ process \in {"up", "stopping"}
         /\ UNCHANGED <<process, restarts, doomed, undeleted>>
<1> USE DEF recoveryVars, bounds
<1>1. process \in {"down", "recovering", "up", "stopping"}
  BY DEF IInv, TypeOK
<1>2. ASSUME NEW r \in Runs, ServiceStep(r)
      PROVE  /\ process \in {"up", "stopping"}
             /\ UNCHANGED <<process, restarts, doomed, undeleted>>
  BY <1>2 DEF ServiceStep, Submit, Cancel, AcknowledgeOutbox, Handling
<1>3. ASSUME NEW r \in Runs, BodyStep(r) \/ OuterStep(r)
      PROVE  /\ process \in {"up", "stopping"}
             /\ UNCHANGED <<process, restarts, doomed, undeleted>>
  <2>1. process \notin {"down", "recovering"}
    BY <1>3, HandlesFollow DEF IInv, MemoryFits
  <2> QED
    BY <1>1, <1>3, <2>1, BodyStepShape, OuterStepShape
       DEF BodyShape, OuterShape, Frame, OuterFrame
<1>4. CASE SchedulerStep
  <2>1. CASE Wake \/ NoSlotLeft \/ Dispatch \/ DispatchTooLate
    <3>1. process \in {"up", "stopping"}
      BY <1>1, <2>1 DEF IInv, MemoryFits, Wake, NoSlotLeft, Dispatch,
                        DispatchTooLate
    <3> QED
      BY <2>1, <3>1 DEF Wake, NoSlotLeft, Dispatch, DispatchTooLate
  <2>2. ASSUME NEW r \in Runs,
               AcquireNext(r) \/ HeartbeatFails(r) \/ WallClock(r)
        PROVE  /\ process \in {"up", "stopping"}
               /\ UNCHANGED <<process, restarts, doomed, undeleted>>
    BY <2>2 DEF AcquireNext, HeartbeatFails, WallClock, Handling
  <2> QED
    BY <1>4, <2>1, <2>2 DEF SchedulerStep
<1> QED
  BY <1>2, <1>3, <1>4 DEF Works

(* What the process remembers of runs is forgotten when it ends and        *)
(* belongs to executions while it runs.                                    *)
LEMMA MemoryFitsKept ==
  ASSUME IInv, [Next]_vars
  PROVE  MemoryFits'
<1>1. MemoryFits /\ restarts \in Nat
  BY LimitAssumption DEF IInv, TypeOK
<1> USE DEF memory, bounds
<1>2. CASE Works
  BY <1>1, <1>2, WorkingSteps DEF MemoryFits
<1>3. CASE Crash \/ Exit
  BY <1>3 DEF Crash, Exit, MemoryIsLost, MemoryFits
<1>4. CASE Shutdown
  BY <1>1, <1>4 DEF Shutdown, MemoryFits
<1>5. CASE Recover \/ Start
  BY <1>1, <1>5 DEF Recover, Start, MemoryFits
<1>6. ASSUME NEW b \in Sandboxes, DeleteRecorded(b) PROVE MemoryFits'
  BY <1>1, <1>6 DEF DeleteRecorded, MemoryFits
<1>7. ASSUME NEW r \in Runs, FinishCleanup(r) PROVE MemoryFits'
  BY <1>1, <1>7 DEF FinishCleanup, MemoryFits
<1>8. ASSUME NEW s \in SlotIds, LeaseRunsOut(s) PROVE MemoryFits'
  BY <1>1, <1>8 DEF LeaseRunsOut, MemoryFits
<1>9. CASE UNCHANGED vars
  BY <1>1, <1>9 DEF vars, MemoryFits
<1> QED
  BY <1>2, <1>3, <1>4, <1>5, <1>6, <1>7, <1>8, <1>9
     DEF Next, ProcessStep, Works

(* A run without an execution gets no new sandbox.                         *)
LEMMA NewSandboxes ==
  ASSUME IInv, [Next]_vars, NEW b \in live' \ live
  PROVE  b[1] \in Runs /\ body[b[1]] # "idle"
<1> USE DEF sandboxes
<1>1. OwnTypeOK /\ TypeOK
  BY DEF IInv, TypeOK, OwnTypeOK
<1>2. ASSUME NEW r \in Runs, BodyStep(r) \/ OuterStep(r)
      PROVE  b[1] \in Runs /\ body[b[1]] # "idle"
  <2>1. /\ body[r] # "idle"
        /\ \A h \in Handles : ~Disposed(r, h)
    BY <1>1, <1>2, HandlesFollow, DisposedMoves
  <2>2. PICK h \in Handles, c \in Sandboxes : Provided(r, h, c) /\ c[1] = r
    BY <1>2, <2>1, HandlesFollow
  <2>3. b = c
    BY <1>1, <2>2, ProvidedMoves
  <2> QED
    BY <2>1, <2>2, <2>3
<1>3. CASE Crash \/ Exit
  <2>1. b \in BeingCreated
    BY <1>3 DEF Crash, Exit
  <2> QED
    BY <1>1, <2>1, BeingCreatedExist
<1>4. ~\E r \in Runs : ServiceStep(r)
  BY DEF ServiceStep, Submit, Cancel, AcknowledgeOutbox
<1>5. ~SchedulerStep
  BY DEF SchedulerStep, Wake, NoSlotLeft, Dispatch, DispatchTooLate,
         AcquireNext, HeartbeatFails, WallClock
<1>6. ~\E s \in SlotIds : LeaseRunsOut(s)
  BY DEF LeaseRunsOut
<1>7. CASE ProcessStep
  BY <1>3, <1>7 DEF ProcessStep, Shutdown, Recover, Start, DeleteRecorded,
                    FinishCleanup
<1>8. ~UNCHANGED vars
  BY DEF vars
<1> QED
  BY <1>2, <1>4, <1>5, <1>6, <1>7, <1>8 DEF Next

(* Nobody executes a run that failed.                                      *)
LEMMA IdleStays ==
  ASSUME IInv, [Next]_vars, NEW q \in Runs, body[q] = "idle",
         status[q] = "failed"
  PROVE  body'[q] = "idle"
<1>1. ASSUME NEW r \in Runs, BodyStep(r) \/ OuterStep(r)
      PROVE  Bystander(q)
  <2>1. r # q
    BY <1>1, HandlesFollow
  <2> QED
    BY <1>1, <2>1, BodyBystanders, OuterBystanders
<1>2. CASE SchedulerStep
  <2>1. ~(Dispatch /\ q = dispatching.run)
    BY DEF Dispatch, Store!StartRun
  <2> QED
    BY <1>2, <2>1, SchedulerBystanders DEF Bystander
<1>3. CASE ProcessStep
  BY <1>3, ProcessBystanders DEF Bystander, Crash, Exit, MemoryIsLost
<1>4. CASE UNCHANGED vars
  BY <1>4 DEF vars, memory
<1> QED
  BY <1>1, <1>2, <1>3, <1>4, ServiceBystanders, ClockBystanders
     DEF Next, Bystander

(* A run in a terminal status is what it was, in every table.              *)
LEMMA TerminalStays ==
  ASSUME IInv, [Next]_vars, NEW q \in Runs, status[q] \in Store!Terminal
  PROVE  /\ status'[q] = status[q] /\ errorCode'[q] = errorCode[q]
         /\ Store!RecordedSandboxes(q)' = Store!RecordedSandboxes(q)
<1>1. status[q] \in StoreProofs!Terminal /\ StoreProofs!IInv
  BY DEF Store!Terminal, StoreProofs!Terminal, IInv
<1>2. /\ status'[q] = status[q] /\ errorCode'[q] = errorCode[q]
      /\ StoreProofs!RecordedSandboxes(q)' = StoreProofs!RecordedSandboxes(q)
  BY <1>1, StoreFits, StoreKeepsItsInvariant, StoreProofs!TerminalRunIsKept
<1> QED
  BY <1>2 DEF Store!RecordedSandboxes, StoreProofs!RecordedSandboxes

(* Only the recovery's last step on a run marks it cleaned.                *)
LEMMA CleanedStays ==
  ASSUME IInv, [Next]_vars
  PROVE  \/ cleaned' = cleaned
         \/ \E r \in Runs : FinishCleanup(r) /\ cleaned' = cleaned \cup {r}
<1> USE DEF Store!runVars
<1>1. ASSUME UNCHANGED storeVars PROVE cleaned' = cleaned
  BY <1>1 DEF storeVars
<1>2. ASSUME NEW r \in Runs, BodyStep(r) PROVE cleaned' = cleaned
  BY <1>1, <1>2, BodyStepIsStoreStep DEF Writes
<1>3. ASSUME NEW r \in Runs, OuterStep(r) PROVE cleaned' = cleaned
  BY <1>1, <1>3, OuterStepIsStoreStep DEF Marks, Releases
<1>4. ASSUME NEW r \in Runs, ServiceStep(r) PROVE cleaned' = cleaned
  BY <1>4 DEF ServiceStep, Submit, Cancel, AcknowledgeOutbox,
              Store!CreateRun, Store!RequestCancel, Store!MarkOutboxPublished
<1>5. CASE SchedulerStep
  BY <1>1, <1>5
     DEF SchedulerStep, Wake, NoSlotLeft, Dispatch, DispatchTooLate,
         AcquireNext, HeartbeatFails, WallClock, Store!StartRun,
         Store!ReleaseSlot, Store!AcquireSlot
<1>6. ASSUME NEW s \in SlotIds, LeaseRunsOut(s) PROVE cleaned' = cleaned
  BY <1>6 DEF LeaseRunsOut, Store!LeaseExpires
<1>7. CASE Crash \/ Shutdown \/ Exit \/ UNCHANGED vars
  BY <1>1, <1>7 DEF Crash, Shutdown, Exit, vars
<1>8. CASE Recover \/ Start
  BY <1>8 DEF Recover, Start, Store!RecoverInterruptedRuns
<1>9. ASSUME NEW b \in Sandboxes, DeleteRecorded(b) PROVE cleaned' = cleaned
  BY <1>1, <1>9 DEF DeleteRecorded
<1>10. ASSUME NEW r \in Runs, FinishCleanup(r)
       PROVE  cleaned' = cleaned \cup {r}
  BY <1>10 DEF FinishCleanup, Store!MarkRecoveryCleanupComplete
<1> QED
  BY <1>2, <1>3, <1>4, <1>5, <1>6, <1>7, <1>8, <1>9, <1>10
     DEF Next, ProcessStep

(* What recovery has to delete belongs to runs that failed, and the sand-  *)
(* boxes of the runs it lists are deleted, to be deleted or remembered.    *)
LEMMA RecoveryFitsKept ==
  ASSUME IInv, [Next]_vars
  PROVE  RecoveryFits'
<1> USE DEF memory, sandboxes, recoveryVars
<1>1. /\ RecoveryFits /\ TypeOK /\ MemoryFits
      /\ \A r \in Runs : OwnColumns(r)
      /\ "failed" \in Store!Terminal
  BY DEF IInv, RunInv, Store!Terminal
<1>2. \A b \in Sandboxes : b[1] \in Runs
  BY DEF Sandboxes
<1>3. \A b \in doomed : b[1] \in Runs
  BY <1>1, <1>2 DEF TypeOK
<1>4. Store!CleanupPending \subseteq Runs /\ Store!CleanupPending' \subseteq Runs
  BY DEF Store!CleanupPending
<1>5. ASSUME doomed' \subseteq doomed
      PROVE  \A b \in doomed' : status'[b[1]] = "failed"
  BY <1>1, <1>3, <1>5, TerminalStays DEF RecoveryFits
<1>6. \A r \in cleaned' : /\ status'[r] = "failed" /\ body'[r] = "idle"
                          /\ Store!RecordedSandboxes(r)' \cap live' = {}
  <2> SUFFICES ASSUME NEW r \in cleaned'
               PROVE  /\ status'[r] = "failed" /\ body'[r] = "idle"
                      /\ Store!RecordedSandboxes(r)' \cap live' = {}
    OBVIOUS
  <2>1. ASSUME r \in Runs, status[r] = "failed", body[r] = "idle",
               Store!RecordedSandboxes(r) \cap live = {}
        PROVE  /\ status'[r] = "failed" /\ body'[r] = "idle"
               /\ Store!RecordedSandboxes(r)' \cap live' = {}
    <3>1. /\ status'[r] = "failed" /\ body'[r] = "idle"
          /\ Store!RecordedSandboxes(r)' = Store!RecordedSandboxes(r)
      BY <1>1, <2>1, IdleStays, TerminalStays
    <3>2. \A b \in live' \ live : b[1] # r
      BY <2>1, NewSandboxes
    <3>3. \A b \in Store!RecordedSandboxes(r) : b[1] = r
      BY <1>1, <2>1 DEF OwnColumns
    <3> QED
      BY <2>1, <3>1, <3>2, <3>3
  <2>2. CASE r \in cleaned
    <3>1. r \in Runs
      BY <1>1, <2>2 DEF TypeOK, Store!TypeOK
    <3> QED
      BY <1>1, <2>1, <2>2, <3>1 DEF RecoveryFits
  <2>3. CASE r \in Runs /\ FinishCleanup(r)
    <3>1. /\ r \in Store!CleanupPending /\ process = "recovering"
          /\ doomed = {} /\ Store!RecordedSandboxes(r) \cap undeleted = {}
      BY <2>3 DEF FinishCleanup, CleanupSucceeded
    <3>2. status[r] = "failed" /\ body[r] = "idle"
      BY <1>1, <2>3, <3>1 DEF Store!CleanupPending, MemoryFits
    <3>3. Store!RecordedSandboxes(r) \cap live = {}
      BY <1>1, <3>1 DEF RecoveryFits
    <3> QED
      BY <2>1, <2>3, <3>2, <3>3
  <2> QED
    BY <2>2, <2>3, CleanedStays
<1>7. CASE Recover
  <2>1. \A r \in Runs : Store!RecordedSandboxes(r)' = Store!RecordedSandboxes(r)
    BY <1>7 DEF Recover, Store!RecoverInterruptedRuns, Store!sandboxVars,
                Store!RecordedSandboxes
  <2>2. \A r \in Store!CleanupPending' : status'[r] = "failed"
    BY DEF Store!CleanupPending
  <2>3. doomed' = UNION {Store!RecordedSandboxes(r) : r \in Store!CleanupPending'}
    BY <1>7 DEF Recover
  <2>4. \A b \in doomed' : status'[b[1]] = "failed"
    BY <1>1, <1>4, <2>2, <2>3 DEF OwnColumns
  <2>5. \A r \in Store!CleanupPending' :
          Store!RecordedSandboxes(r)' \subseteq doomed'
    BY <1>4, <2>1, <2>3
  <2> QED
    BY <1>6, <2>4, <2>5 DEF RecoveryFits
<1>8. ASSUME UNCHANGED storeVars, process = process',
             doomed' \subseteq doomed,
             live' \subseteq live,
             live' \cap doomed \subseteq doomed' \cup undeleted',
             live' \cap undeleted \subseteq undeleted'
      PROVE  RecoveryFits'
  <2>1. /\ Store!CleanupPending' = Store!CleanupPending
        /\ \A r : Store!RecordedSandboxes(r)' = Store!RecordedSandboxes(r)
    BY <1>8 DEF storeVars, Store!CleanupPending, Store!RecordedSandboxes
  <2>2. process' = "recovering" =>
          \A r \in Store!CleanupPending' :
            Store!RecordedSandboxes(r)' \cap live' \subseteq doomed' \cup undeleted'
    BY <1>1, <1>8, <2>1 DEF RecoveryFits
  <2> QED
    BY <1>5, <1>6, <1>8, <2>2 DEF RecoveryFits
<1>9. ASSUME NEW b \in Sandboxes, DeleteRecorded(b) PROVE RecoveryFits'
  BY <1>8, <1>9 DEF DeleteRecorded
<1>10. CASE UNCHANGED vars
  BY <1>8, <1>10 DEF vars
<1>11. ASSUME UNCHANGED <<process, live, doomed, undeleted>>,
              \/ \E r \in Runs : Store!MarkRecoveryCleanupComplete(r)
              \/ \E s \in SlotIds : Store!LeaseExpires(s)
       PROVE  RecoveryFits'
  <2>1. /\ Store!CleanupPending' \subseteq Store!CleanupPending
        /\ \A r : Store!RecordedSandboxes(r)' = Store!RecordedSandboxes(r)
    BY <1>11
       DEF Store!MarkRecoveryCleanupComplete, Store!LeaseExpires,
           Store!CleanupPending, Store!RecordedSandboxes, Store!sandboxVars,
           Store!runVars
  <2>2. process' = "recovering" =>
          \A r \in Store!CleanupPending' :
            Store!RecordedSandboxes(r)' \cap live' \subseteq doomed' \cup undeleted'
    BY <1>1, <1>11, <2>1 DEF RecoveryFits
  <2> QED
    BY <1>5, <1>6, <1>11, <2>2 DEF RecoveryFits
<1>12. ASSUME NEW r \in Runs, FinishCleanup(r) PROVE RecoveryFits'
  BY <1>11, <1>12 DEF FinishCleanup
<1>13. ASSUME NEW s \in SlotIds, LeaseRunsOut(s) PROVE RecoveryFits'
  BY <1>11, <1>13 DEF LeaseRunsOut
<1>14. ASSUME process' # "recovering", doomed' \subseteq doomed
       PROVE  RecoveryFits'
  BY <1>5, <1>6, <1>14 DEF RecoveryFits
<1>15. CASE Works
  BY <1>14, <1>15, WorkingSteps
<1>16. CASE Crash \/ Shutdown \/ Exit \/ Start
  BY <1>14, <1>16 DEF Crash, Shutdown, Exit, Start
<1> QED
  BY <1>7, <1>9, <1>10, <1>12, <1>13, <1>15, <1>16
     DEF Next, ProcessStep, Works

(* Every sandbox has a handle on it, as long as the process lives.         *)
LEMMA LiveIsHeldKept ==
  ASSUME IInv, [Next]_vars
  PROVE  LiveIsHeld'
<1> USE DEF memory, sandboxes, bounds
<1>1. LiveIsHeld /\ TypeOK /\ MemoryFits /\ restarts \in Nat
  BY LimitAssumption DEF IInv, TypeOK
<1>2. ASSUME live' \subseteq live, UNCHANGED <<held, restarts>>
      PROVE  LiveIsHeld'
  BY <1>1, <1>2 DEF LiveIsHeld
<1>3. ASSUME NEW r \in Runs, BodyStep(r) \/ OuterStep(r) PROVE LiveIsHeld'
  <2>0. restarts' = restarts
    BY <1>3, WorkingSteps DEF Works
  <2>1. CASE UNCHANGED <<held, live>>
    BY <1>2, <2>0, <2>1
  <2>2. ASSUME NEW h \in Handles, Disposed(r, h) PROVE LiveIsHeld'
    <3>1. /\ live' = live \ {held[r][h]}
          /\ \A g \in Handles \ {h} : held'[r][g] = held[r][g]
          /\ \A q \in Runs \ {r} : held'[q] = held[q]
      BY <1>1, <2>2, DisposedMoves
    <3>2. \A b \in live : b[1] \in Runs
      BY <1>1 DEF TypeOK, Sandboxes
    <3>3. ASSUME restarts = 0, NEW b \in live'
          PROVE  \E g \in Handles : held'[b[1]][g] = b
      <4>1. PICK g \in Handles : held[b[1]][g] = b
        BY <1>1, <3>1, <3>3 DEF LiveIsHeld
      <4>2. CASE b[1] = r
        BY <3>1, <4>1, <4>2
      <4>3. CASE b[1] # r
        BY <3>1, <3>2, <4>1, <4>3
      <4> QED
        BY <4>2, <4>3
    <3> QED
      BY <2>0, <3>3 DEF LiveIsHeld
  <2>3. ASSUME NEW h \in Handles, NEW c \in Sandboxes, Provided(r, h, c),
               held[r][h] = None, c[1] = r
        PROVE  LiveIsHeld'
    <3>1. /\ live' = live \cup {c} /\ held'[r][h] = c
          /\ \A g \in Handles \ {h} : held'[r][g] = held[r][g]
          /\ \A q \in Runs \ {r} : held'[q] = held[q]
      BY <1>1, <2>3, ProvidedMoves
    <3>2. (\A b \in live : b[1] \in Runs) /\ None \notin live
      BY <1>1, StoreFits DEF TypeOK, Sandboxes, StoreProofs!NoneAssumption
    <3>3. ASSUME restarts = 0, NEW b \in live'
          PROVE  \E g \in Handles : held'[b[1]][g] = b
      <4>1. CASE b = c
        BY <2>3, <3>1, <4>1
      <4>2. CASE b # c
        <5>1. PICK g \in Handles : held[b[1]][g] = b
          BY <1>1, <3>1, <3>3, <4>2 DEF LiveIsHeld
        <5>2. b \in live
          BY <3>1, <3>3, <4>2
        <5>3. CASE b[1] = r
          BY <2>3, <3>1, <3>2, <5>1, <5>2, <5>3
        <5>4. CASE b[1] # r
          BY <3>1, <3>2, <5>1, <5>2, <5>4
        <5> QED
          BY <5>3, <5>4
      <4> QED
        BY <4>1, <4>2
    <3> QED
      BY <2>0, <3>3 DEF LiveIsHeld
  <2> QED
    BY <1>3, <2>1, <2>2, <2>3, HandlesFollow
<1>4. ASSUME NEW r \in Runs, ServiceStep(r) PROVE LiveIsHeld'
  BY <1>2, <1>4 DEF ServiceStep, Submit, Cancel, AcknowledgeOutbox
<1>5. CASE SchedulerStep
  BY <1>2, <1>5
     DEF SchedulerStep, Wake, NoSlotLeft, Dispatch, DispatchTooLate,
         AcquireNext, HeartbeatFails, WallClock
<1>6. ASSUME NEW s \in SlotIds, LeaseRunsOut(s) PROVE LiveIsHeld'
  BY <1>2, <1>6 DEF LeaseRunsOut
<1>7. CASE Crash \/ Shutdown
  BY <1>1, <1>7 DEF Crash, Shutdown, LiveIsHeld
<1>8. CASE Exit
  BY <1>1, <1>8 DEF Exit, MemoryFits, LiveIsHeld
<1>9. CASE Recover \/ Start \/ UNCHANGED vars
  BY <1>2, <1>9 DEF Recover, Start, vars
<1>10. ASSUME NEW b \in Sandboxes, DeleteRecorded(b) PROVE LiveIsHeld'
  BY <1>2, <1>10 DEF DeleteRecorded
<1>11. ASSUME NEW r \in Runs, FinishCleanup(r) PROVE LiveIsHeld'
  BY <1>2, <1>11 DEF FinishCleanup
<1> QED
  BY <1>3, <1>4, <1>5, <1>6, <1>7, <1>8, <1>9, <1>10, <1>11
     DEF Next, ProcessStep
-----------------------------------------------------------------------------
(* The invariant holds in an empty store before the process starts.        *)
LEMMA InvariantInit ==
  ASSUME Init
  PROVE  IInv
<1> USE DEF Init
<1>1. StoreProofs!Init
  BY DEF Store!Init, StoreProofs!Init, Store!Kinds, StoreProofs!Kinds
<1>2. StoreProofs!IInv
  BY <1>1, StoreFits, StoreProofs!InvariantIsInductive
<1>3. Store!TypeOK
  BY <1>2 DEF StoreProofs!IInv, StoreProofs!TypeOK, Store!TypeOK,
         StoreProofs!Status, Store!Status, StoreProofs!ErrorCode,
         Store!ErrorCode, StoreProofs!Tickets, Store!Tickets,
         StoreProofs!Kinds, Store!Kinds, StoreProofs!Verdicts,
         Store!Verdicts
<1>4. TypeOK
  <2>1. {MaxRepair, MaxStalls, MaxRestarts} \subseteq Nat
    BY LimitAssumption
  <2>2. "idle" \in Outer /\ "idle" \in Body
    BY DEF Outer, Body
  <2>3. NoHandles \in [Handles -> Sandboxes \cup {None}]
    BY DEF NoHandles
  <2> QED
    BY <1>3, <2>1, <2>2, <2>3 DEF TypeOK
<1>5. /\ \A r \in Runs : /\ status[r] = "absent" /\ sandbox[r] = None
                         /\ Store!RecordedSandboxes(r) = {}
                         /\ outer[r] = "idle" /\ body[r] = "idle"
                         /\ lease[r] = None
                         /\ \A h \in Handles : held[r][h] = None
      /\ cleaned = {} /\ \A s \in SlotIds : slotRun[s] = None
  BY DEF Store!Init, Store!RecordedSandboxes, NoHandles
<1>6. ASSUME NEW r \in Runs PROVE RunInv(r)
  <2>1. ExecutionFits(r) /\ HandlesFit(r) /\ OwnColumns(r)
    BY <1>5 DEF ExecutionFits, HandlesFit, OwnColumns, Handles
  <2>2. DeliveryKept(r) /\ WayOut(r)
    BY <1>5 DEF DeliveryKept, Deliverable, Checking, Retaining, WayOut,
                GivenUp, Handles
  <2> QED
    BY <2>1, <2>2 DEF RunInv
<1>7. OneLeasePerRun /\ QueuedHolders
  BY <1>5 DEF OneLeasePerRun, QueuedHolders
<1>8. MemoryFits
  BY DEF MemoryFits
<1>9. RecoveryFits /\ LiveIsHeld
  BY <1>5 DEF RecoveryFits, LiveIsHeld
<1> QED
  BY <1>2, <1>4, <1>6, <1>7, <1>8, <1>9 DEF IInv

(* The inductive invariant holds in every reachable state.                 *)
THEOREM Invariance == Spec => []IInv
<1>1. IInv /\ [Next]_vars => IInv'
  BY TypesKept, StoreKeepsItsInvariant, RunInvKept, OneLeaseKept,
     QueuedHoldersKept, MemoryFitsKept, RecoveryFitsKept, LiveIsHeldKept
     DEF IInv
<1> QED
  BY InvariantInit, <1>1, PTL DEF Spec

(* Every variable of the process, and of the store it works on, has its    *)
(* type.                                                                   *)
THEOREM TypeCorrect == Spec => []TypeOK
<1>1. IInv => TypeOK
  BY DEF IInv
<1> QED
  BY <1>1, Invariance, PTL

(* Every step of the scheduler, of an execution and of recovery is a legal *)
(* transaction of the store or leaves it as it is, so that whatever        *)
(* RunStoreProofs shows of any client holds of this one.                   *)
THEOREM Refinement == Spec => ImplementsRunStore
<1>1. Init => Store!Init
  BY DEF Init
<1>2. IInv /\ [Next]_vars => [UNCHANGED storeVars \/ Store!Next]_storeVars
  BY StepIsStoreStep DEF StoreStep
<1> QED
  BY <1>1, <1>2, Invariance, PTL DEF Spec, ImplementsRunStore

(* acquireSlot, startRun and recovery never let two slots, or a slot and   *)
(* an execution with another token, stand for one run.                     *)
THEOREM LeasesAreExclusive == Spec => []OneLeasePerRun
<1>1. IInv => OneLeasePerRun
  BY DEF IInv
<1> QED
  BY <1>1, Invariance, PTL

(* disposeSandbox and the deletions of recovery never reach the sandbox a  *)
(* passed run is delivered from.                                           *)
THEOREM DeliveryIsKept == Spec => []PassedSandboxSurvives
<1>1. IInv => PassedSandboxSurvives
  BY DEF IInv, RunInv, DeliveryKept, PassedSandboxSurvives
<1> QED
  BY <1>1, Invariance, PTL

(* recovery_cleanup_completed_at is only written for runs whose recorded   *)
(* sandboxes are gone.                                                     *)
THEOREM CleanupIsComplete == Spec => []CleanedRunsKeepNoRecordedSandbox
<1>1. IInv => CleanedRunsKeepNoRecordedSandbox
  BY DEF IInv, RecoveryFits, CleanedRunsKeepNoRecordedSandbox
<1> QED
  BY <1>1, Invariance, PTL

(* The finally clauses of both halves dispose of every sandbox but the one *)
(* a passed run is delivered from, and that of a late hand-over.           *)
THEOREM ExecutionsCleanUp == Spec => []NoLeakedSandboxes
<1>1. ASSUME IInv PROVE NoLeakedSandboxes
  <2> SUFFICES ASSUME restarts = 0, NEW r \in Runs, Over(r),
                      NEW b \in live, b[1] = r
               PROVE  b = sandbox[r] /\ (status[r] = "passed" \/ body[r] = "refused")
    BY DEF NoLeakedSandboxes
  <2>1. /\ HandlesFit(r) /\ DeliveryKept(r) /\ WayOut(r)
        /\ LiveIsHeld /\ None \notin live
    BY <1>1, StoreFits DEF IInv, RunInv, TypeOK, StoreProofs!NoneAssumption
  <2>2. outer[r] = "idle" /\ body[r] \in Ended
    BY DEF Over
  <2>3. PICK h \in Handles : held[r][h] = b
    BY <2>1 DEF LiveIsHeld
  <2>4. held[r]["builder"] = None /\ held[r]["command"] = None
    BY <2>1, <2>2 DEF WayOut, HandlesFit, Ended, Retaining, Unwinding
  <2>5. held[r]["delivery"] = b /\ b # None
    BY <2>1, <2>3, <2>4 DEF Handles
  <2>6. body[r] \in Retaining
    BY <2>1, <2>2, <2>5
       DEF HandlesFit, Ended, Retaining, Unwinding, Checking
  <2>7. b = sandbox[r]
    BY <2>1, <2>5, <2>6 DEF HandlesFit, DeliveryKept
  <2>8. status[r] = "passed" \/ body[r] = "refused"
    BY <2>1, <2>2, <2>5, <2>6 DEF WayOut, Retaining
  <2> QED
    BY <2>7, <2>8
<1> QED
  BY <1>1, Invariance, PTL

(* #assertActiveRun refuses every write of a body its outer half has given *)
(* up on: the run is terminal by then, or its lease is gone for good.      *)
THEOREM LateWritesAreRefused == Spec => AbandonedExecutionsDoNotWrite
<1>1. ASSUME IInv, [Next]_vars, NEW r \in Runs, GivenUp(r)
      PROVE  Evidence(r)' = Evidence(r)
  <2> USE DEF Evidence
  <2>1. ASSUME UNCHANGED storeVars PROVE Evidence(r)' = Evidence(r)
    BY <2>1 DEF storeVars
  <2>2. ASSUME Bystander(r) PROVE Evidence(r)' = Evidence(r)
    BY <2>2 DEF Bystander, Columns
  <2>3. CASE BodyStep(r)
    BY <1>1, <2>1, <2>3, BodyActor, BodyStepIsStoreStep DEF Writes
  <2>4. CASE OuterStep(r)
    BY <1>1, <2>1, <2>4, OuterStepIsStoreStep
       DEF Marks, Releases, Store!sandboxVars, Store!proofVars
  <2>5. ASSUME NEW q \in Runs, BodyStep(q) \/ OuterStep(q), q # r
        PROVE  Evidence(r)' = Evidence(r)
    BY <1>1, <2>2, <2>5, BodyBystanders, OuterBystanders
  <2>6. CASE SchedulerStep
    <3>1. Dispatch => Evidence(r)' = Evidence(r)
      BY DEF Dispatch, Store!StartRun, Store!sandboxVars, Store!proofVars
    <3> QED
      BY <1>1, <2>2, <2>6, <3>1, SchedulerBystanders
  <2>7. CASE ProcessStep
    BY <1>1, <2>1, <2>2, <2>7, ProcessBystanders DEF Crash, Exit
  <2>8. CASE UNCHANGED vars
    BY <2>1, <2>8 DEF vars
  <2> QED
    BY <1>1, <2>2, <2>3, <2>4, <2>5, <2>6, <2>7, <2>8, ServiceBystanders,
       ClockBystanders DEF Next
<1>2. IInv /\ [Next]_vars =>
        [\A r \in Runs : GivenUp(r) => Evidence(r)' = Evidence(r)]_vars
  BY <1>1
<1> QED
  BY <1>2, Invariance, PTL DEF Spec, AbandonedExecutionsDoNotWrite

(* With the whole process in front of it, the store keeps what it promises *)
(* to any client: a run that passed has its whole proof whatever became of *)
(* the executions beside it, stale leases stay stale, the cleanup list is  *)
(* kept, events can be fetched, and runs go through the cycle of           *)
(* RunLifecycle.                                                           *)
THEOREM RunsPassWithProof ==
  Spec => /\ []StoreProofs!ProvenRunsHaveProof
          /\ []StoreProofs!AnnouncementsStayVisible
          /\ StoreProofs!StaleLeaseStaysStale
          /\ StoreProofs!CleanupListIsKept
          /\ StoreProofs!ImplementsRunLifecycle
<1>1. Init => StoreProofs!Init
  BY DEF Init, Store!Init, StoreProofs!Init, Store!Kinds, StoreProofs!Kinds
<1>2. IInv /\ [Next]_vars => [StoreProofs!Next]_(StoreProofs!vars)
  BY StoreKeepsItsInvariant
<1>3. Spec => StoreProofs!Spec
  BY <1>1, <1>2, Invariance, PTL DEF Spec, StoreProofs!Spec
<1>4. StoreProofs!Spec => /\ []StoreProofs!ProvenRunsHaveProof
                          /\ []StoreProofs!AnnouncementsStayVisible
  BY StoreFits, StoreProofs!ProofIsComplete, StoreProofs!EventsStayVisible
<1>5. StoreProofs!Spec => StoreProofs!StaleLeaseStaysStale
  BY StoreFits, StoreProofs!Fencing
<1>6. StoreProofs!Spec => StoreProofs!CleanupListIsKept
  BY StoreFits, StoreProofs!CleanupKept
<1>7. StoreProofs!Spec => StoreProofs!ImplementsRunLifecycle
  BY StoreFits, StoreProofs!Refinement
<1> QED
  BY <1>3, <1>4, <1>5, <1>6, <1>7, PTL
=============================================================================
