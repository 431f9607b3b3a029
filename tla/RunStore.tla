------------------------------ MODULE RunStore ------------------------------
(***************************************************************************)
(* The durable store of build runs (src/src/adapters/sqlite/run-store.ts). *)
(*                                                                         *)
(* Every operation of the store is one SQLite transaction, hence one       *)
(* action.  Its clients are not modelled here: any client may call any     *)
(* operation with any arguments, so what holds of this module holds        *)
(* however the workers are scheduled, and whether or not they misbehave.   *)
(* A call the store refuses (it throws and rolls back, or returns early)   *)
(* changes nothing and is a stuttering step.                               *)
(*                                                                         *)
(* A row of build_runs is spread over one function per column.  The clock  *)
(* appears only as expired[s]: lease_expires_at of slot s has passed.      *)
(***************************************************************************)
EXTENDS Naturals, FiniteSets

CONSTANTS Runs,         \* build runs, one per assignment id
          SlotIds,      \* rows of slot_leases in use: 1 .. SLOT_COUNT
          Sandboxes,    \* sandbox ids the provider hands out
          Revisions,    \* source digests of frozen revisions
          LatestKinds,  \* receipt kinds of which the latest one counts
          None,         \* NULL
          MaxToken      \* bound: fencing tokens issued per slot

ASSUME SlotIdsAssumption  == SlotIds \subseteq Nat
ASSUME MaxTokenAssumption == MaxToken \in Nat
ASSUME NoneAssumption ==
  None \notin Runs \cup SlotIds \cup Sandboxes \cup Revisions
ASSUME LatestKindsAssumption == "review" \notin LatestKinds

VARIABLES
  status, errorCode,       \* [Runs -> ...]
  cancelRequested,         \* the runs with cancel_requested = 1
  cleaned,                 \* the runs with recovery_cleanup_completed_at set
  startedBy,               \* slot_id and fencing_token as startRun wrote them
  builder, verifier, purpose, sandbox,       \* the sandbox columns
  revision,                \* revision_hash (and preview_port with it)
  evidence,                \* evidence_receipts, as decideProof reads them
  artifacts, latestArtifact, \* proven_artifacts, and the newest of a run
  outbox, published,       \* revision of the candidate.proven row; published_at
  slotRun, fencingToken, expired             \* slot_leases

runVars     == <<status, errorCode, cancelRequested, cleaned, startedBy>>
sandboxVars == <<builder, verifier, purpose, sandbox>>
proofVars   == <<revision, evidence, artifacts, latestArtifact>>
outboxVars  == <<outbox, published>>
slotVars    == <<slotRun, fencingToken, expired>>
vars == <<runVars, sandboxVars, proofVars, outboxVars, slotVars>>

Status    == {"absent", "queued", "running",
              "passed", "rejected", "failed", "cancelled"}
Terminal  == {"passed", "rejected", "failed", "cancelled"}
ErrorCode == {"none", "worker_restarted", "lease_expired", "by_worker"}
Kinds     == LatestKinds \cup {"review"}
Verdicts  == {"missing", "PASS", "FAIL", "multiple"}
Leases    == [slot : SlotIds, run : Runs, token : 1..MaxToken]
Tickets   == [slot : SlotIds, token : 1..MaxToken]

TypeOK ==
  /\ status \in [Runs -> Status]
  /\ errorCode \in [Runs -> ErrorCode]
  /\ cancelRequested \subseteq Runs
  /\ cleaned \subseteq Runs
  /\ startedBy \in [Runs -> Tickets \cup {None}]
  /\ builder \in [Runs -> Sandboxes \cup {None}]
  /\ verifier \in [Runs -> Sandboxes \cup {None}]
  /\ purpose \in [Runs -> {"commands", "delivery", None}]
  /\ sandbox \in [Runs -> Sandboxes \cup {None}]
  /\ revision \in [Runs -> Revisions \cup {None}]
  /\ evidence \in [Runs -> [Revisions -> [Kinds -> Verdicts]]]
  /\ artifacts \in [Runs -> SUBSET Revisions]
  /\ latestArtifact \in [Runs -> Revisions \cup {None}]
  /\ outbox \in [Runs -> Revisions \cup {None}]
  /\ published \subseteq Runs
  /\ slotRun \in [SlotIds -> Runs \cup {None}]
  /\ fencingToken \in [SlotIds -> 0..MaxToken]
  /\ expired \in [SlotIds -> BOOLEAN]

Init ==
  /\ status = [r \in Runs |-> "absent"]
  /\ errorCode = [r \in Runs |-> "none"]
  /\ cancelRequested = {}
  /\ cleaned = {}
  /\ startedBy = [r \in Runs |-> None]
  /\ builder = [r \in Runs |-> None]
  /\ verifier = [r \in Runs |-> None]
  /\ purpose = [r \in Runs |-> None]
  /\ sandbox = [r \in Runs |-> None]
  /\ revision = [r \in Runs |-> None]
  /\ evidence = [r \in Runs |->
                   [v \in Revisions |-> [k \in Kinds |-> "missing"]]]
  /\ artifacts = [r \in Runs |-> {}]
  /\ latestArtifact = [r \in Runs |-> None]
  /\ outbox = [r \in Runs |-> None]
  /\ published = {}
  /\ slotRun = [s \in SlotIds |-> None]
  /\ fencingToken = [s \in SlotIds |-> 0]
  /\ expired = [s \in SlotIds |-> FALSE]
-----------------------------------------------------------------------------
(* Conditions the operations share.                                        *)

(* #assertLease: the slot row still records this lease, and it is current. *)
LeaseValid(l) == /\ slotRun[l.slot] = l.run
                 /\ fencingToken[l.slot] = l.token
                 /\ ~expired[l.slot]

(* #assertActiveRun                                                        *)
ActiveRun(l) == LeaseValid(l) /\ status[l.run] = "running"

(* The slots acquireSlot may take.                                         *)
Available(s) == slotRun[s] = None \/ expired[s]

(* decideProof: for every kind of receipt the latest one for the revision  *)
(* must pass; of authoritative reviews there must be exactly one, passing. *)
DecideProof(r, v) == \A k \in Kinds : evidence[r][v][k] = "PASS"

(* The sandbox clauses common to markPassed and to the outbox queries.     *)
DeliverySandboxPromoted(r) ==
  /\ builder[r] # None
  /\ verifier[r] # None
  /\ builder[r] # verifier[r]
  /\ purpose[r] = "delivery"
  /\ sandbox[r] = verifier[r]

(* The WHERE clause of listOutbox, getPendingOutbox, markOutboxPublished.  *)
EventVisible(r) == /\ outbox[r] # None
                   /\ outbox[r] = revision[r]
                   /\ status[r] = "passed"
                   /\ DeliverySandboxPromoted(r)
-----------------------------------------------------------------------------
(* createRun: a second submission of the assignment finds the first run.   *)
CreateRun(r) ==
  /\ status[r] = "absent"
  /\ status' = [status EXCEPT ![r] = "queued"]
  /\ UNCHANGED <<errorCode, cancelRequested, cleaned, startedBy,
                 sandboxVars, proofVars, outboxVars, slotVars>>

(* #failExpiredRun, for the run a slot was taken from (None when free).    *)
FailExpiredRun(r) ==
  IF r \in Runs /\ status[r] \notin Terminal
    THEN /\ status' = [status EXCEPT ![r] = "failed"]
         /\ errorCode' = [errorCode EXCEPT ![r] = "lease_expired"]
    ELSE UNCHANGED <<status, errorCode>>

(* acquireSlot: the lowest slot that is free or whose lease has expired.   *)
AcquireSlot(r, s) ==
  /\ status[r] = "queued" /\ r \notin cancelRequested
  /\ Available(s) /\ \A t \in SlotIds : Available(t) => s <= t
  /\ fencingToken[s] < MaxToken
  /\ FailExpiredRun(slotRun[s])
  /\ slotRun' = [slotRun EXCEPT ![s] = r]
  /\ fencingToken' = [fencingToken EXCEPT ![s] = @ + 1]
  /\ expired' = [expired EXCEPT ![s] = FALSE]
  /\ UNCHANGED <<cancelRequested, cleaned, startedBy,
                 sandboxVars, proofVars, outboxVars>>

(* Faulty variant: a heartbeat that revives an expired lease.              *)
Heartbeat_RevivesExpired(l) ==
  /\ slotRun[l.slot] = l.run /\ fencingToken[l.slot] = l.token
  /\ expired' = [expired EXCEPT ![l.slot] = FALSE]
  /\ UNCHANGED <<runVars, sandboxVars, proofVars, outboxVars,
                 slotRun, fencingToken>>

(* heartbeat: UPDATE ... SET lease_expires_at = now + lease WHERE the row  *)
(* still holds a current lease; the expiry moves into the future again.    *)
Heartbeat(l) ==
  /\ LeaseValid(l)
  /\ expired' = [expired EXCEPT ![l.slot] = FALSE]
  /\ UNCHANGED <<runVars, sandboxVars, proofVars, outboxVars,
                 slotRun, fencingToken>>

(* releaseSlot: guarded by the token only, an expired lease is released.   *)
ReleaseSlot(l) ==
  /\ slotRun[l.slot] = l.run /\ fencingToken[l.slot] = l.token
  /\ slotRun' = [slotRun EXCEPT ![l.slot] = None]
  /\ expired' = [expired EXCEPT ![l.slot] = FALSE]
  /\ UNCHANGED <<runVars, sandboxVars, proofVars, outboxVars, fencingToken>>

(* The clock reaches lease_expires_at.                                     *)
LeaseExpires(s) ==
  /\ slotRun[s] # None /\ ~expired[s]
  /\ expired' = [expired EXCEPT ![s] = TRUE]
  /\ UNCHANGED <<runVars, sandboxVars, proofVars, outboxVars,
                 slotRun, fencingToken>>
-----------------------------------------------------------------------------
(* What the holder of a lease does with its run.                           *)

StartRun(l) ==
  /\ LeaseValid(l) /\ status[l.run] = "queued"
  /\ status' = [status EXCEPT ![l.run] = "running"]
  /\ startedBy' = [startedBy EXCEPT
                     ![l.run] = [slot |-> l.slot, token |-> l.token]]
  /\ UNCHANGED <<errorCode, cancelRequested, cleaned,
                 sandboxVars, proofVars, outboxVars, slotVars>>

(* attachSandbox: the builder sandbox of a run never changes.              *)
AttachSandbox(l, b) ==
  /\ ActiveRun(l)
  /\ builder[l.run] \in {None, b}
  /\ builder' = [builder EXCEPT ![l.run] = b]
  /\ sandbox' = [sandbox EXCEPT ![l.run] = b]
  /\ UNCHANGED <<runVars, verifier, purpose, proofVars, outboxVars, slotVars>>

AttachVerificationSandbox(l, b, p) ==
  /\ ActiveRun(l)
  /\ builder[l.run] \notin {None, b}
  /\ verifier' = [verifier EXCEPT ![l.run] = b]
  /\ purpose' = [purpose EXCEPT ![l.run] = p]
  /\ UNCHANGED <<runVars, builder, sandbox, proofVars, outboxVars, slotVars>>

PromoteVerificationSandbox(l, b) ==
  /\ ActiveRun(l)
  /\ verifier[l.run] = b /\ purpose[l.run] = "delivery"
  /\ sandbox' = [sandbox EXCEPT ![l.run] = b]
  /\ UNCHANGED <<runVars, builder, verifier, purpose,
                 proofVars, outboxVars, slotVars>>

(* Faulty variant: the status of the run is not checked.                   *)
SetRevision_AnyStatus(l, v) ==
  /\ LeaseValid(l)
  /\ revision' = [revision EXCEPT ![l.run] = v]
  /\ UNCHANGED <<runVars, sandboxVars, evidence, artifacts, latestArtifact,
                 outboxVars, slotVars>>

SetRevision(l, v) ==
  /\ ActiveRun(l)
  /\ revision' = [revision EXCEPT ![l.run] = v]
  /\ UNCHANGED <<runVars, sandboxVars, evidence, artifacts, latestArtifact,
                 outboxVars, slotVars>>

(* Faulty variant: a receipt is accepted after the terminal decision.      *)
AddEvidence_AnyStatus(l, v, k, verdict, newest) ==
  /\ LeaseValid(l)
  /\ revision[l.run] = v
  /\ evidence' = [evidence EXCEPT ![l.run][v][k] = verdict]
  /\ UNCHANGED <<runVars, sandboxVars, revision, artifacts, latestArtifact,
                 outboxVars, slotVars>>

(* What decideProof will read of a kind once one more receipt is recorded. *)
(* Receipts are ordered by their own completedAt, so one that is not the   *)
(* newest leaves the latest verdict as it was; reviews accumulate.         *)
Summary(old, k, verdict, newest) ==
  IF old = "missing"   THEN verdict
  ELSE IF k = "review" THEN "multiple"
  ELSE IF newest       THEN verdict ELSE old

(* addEvidence: the receipt must cover the current revision.               *)
AddEvidence(l, v, k, verdict, newest) ==
  /\ ActiveRun(l)
  /\ revision[l.run] = v
  /\ evidence' = [evidence EXCEPT
                    ![l.run][v][k] = Summary(@, k, verdict, newest)]
  /\ UNCHANGED <<runVars, sandboxVars, revision, artifacts, latestArtifact,
                 outboxVars, slotVars>>

(* recordArtifact: one artifact per run and revision (a UNIQUE constraint) *)
RecordArtifact(l, v, newest) ==
  /\ ActiveRun(l)
  /\ revision[l.run] = v /\ v \notin artifacts[l.run]
  /\ artifacts' = [artifacts EXCEPT ![l.run] = @ \cup {v}]
  /\ latestArtifact' = [latestArtifact EXCEPT
                          ![l.run] = IF newest \/ @ = None THEN v ELSE @]
  /\ UNCHANGED <<runVars, sandboxVars, revision, evidence,
                 outboxVars, slotVars>>

CanPass(l, v) == /\ ActiveRun(l)
                 /\ l.run \notin cancelRequested
                 /\ revision[l.run] = v
                 /\ DeliverySandboxPromoted(l.run)
                 /\ latestArtifact[l.run] = v
                 /\ DecideProof(l.run, v)

(* Faulty variant: a cancellation that raced the proof is overlooked.      *)
MarkPassed_AfterCancel(l, v) ==
  /\ ActiveRun(l)
  /\ revision[l.run] = v
  /\ DeliverySandboxPromoted(l.run)
  /\ latestArtifact[l.run] = v
  /\ DecideProof(l.run, v)
  /\ status' = [status EXCEPT ![l.run] = "passed"]
  /\ outbox' = [outbox EXCEPT ![l.run] = v]
  /\ UNCHANGED <<errorCode, cancelRequested, cleaned, startedBy,
                 sandboxVars, proofVars, published, slotVars>>

(* markPassed: the terminal status and the outbox row are one transaction. *)
MarkPassed(l, v) ==
  /\ CanPass(l, v)
  /\ status' = [status EXCEPT ![l.run] = "passed"]
  /\ outbox' = [outbox EXCEPT ![l.run] = v]
  /\ UNCHANGED <<errorCode, cancelRequested, cleaned, startedBy,
                 sandboxVars, proofVars, published, slotVars>>

(* markRejected, markFailed, markCancelled with a lease (#markTerminal).   *)
MarkTerminal(l, outcome) ==
  /\ ActiveRun(l)
  /\ status' = [status EXCEPT ![l.run] = outcome]
  /\ errorCode' = [errorCode EXCEPT ![l.run] = "by_worker"]
  /\ UNCHANGED <<cancelRequested, cleaned, startedBy,
                 sandboxVars, proofVars, outboxVars, slotVars>>

(* markFailed without a lease: refused for a running run.                  *)
MarkFailedUnleased(r) ==
  /\ status[r] = "queued"
  /\ status' = [status EXCEPT ![r] = "failed"]
  /\ errorCode' = [errorCode EXCEPT ![r] = "by_worker"]
  /\ UNCHANGED <<cancelRequested, cleaned, startedBy,
                 sandboxVars, proofVars, outboxVars, slotVars>>
-----------------------------------------------------------------------------
(* What the API, the outbox consumer and the startup code do.              *)

(* Faulty variant: only running runs are told apart.                       *)
RequestCancel_Terminal(r) ==
  /\ status[r] # "absent" /\ r \notin cancelRequested
  /\ cancelRequested' = cancelRequested \cup {r}
  /\ status' = IF status[r] = "running"
                 THEN status ELSE [status EXCEPT ![r] = "cancelled"]
  /\ UNCHANGED <<errorCode, cleaned, startedBy,
                 sandboxVars, proofVars, outboxVars, slotVars>>

(* requestCancel: no lease is needed, and a second request changes nothing *)
RequestCancel(r) ==
  /\ status[r] \in {"queued", "running"} /\ r \notin cancelRequested
  /\ cancelRequested' = cancelRequested \cup {r}
  /\ status' = IF status[r] = "queued"
                 THEN [status EXCEPT ![r] = "cancelled"] ELSE status
  /\ UNCHANGED <<errorCode, cleaned, startedBy,
                 sandboxVars, proofVars, outboxVars, slotVars>>

MarkOutboxPublished(r) ==
  /\ r \notin published /\ EventVisible(r)
  /\ published' = published \cup {r}
  /\ UNCHANGED <<runVars, sandboxVars, proofVars, outbox, slotVars>>

(* Faulty variant: the slot leases survive the restart.                    *)
RecoverInterruptedRuns_KeepsSlots ==
  /\ status' = [r \in Runs |->
                  IF status[r] = "running" THEN "failed" ELSE status[r]]
  /\ errorCode' = [r \in Runs |-> IF status[r] = "running"
                                    THEN "worker_restarted" ELSE errorCode[r]]
  /\ UNCHANGED <<cancelRequested, cleaned, startedBy, sandboxVars, proofVars,
                 outboxVars, slotVars>>

(* recoverInterruptedRuns: every running run fails, every slot is cleared. *)
RecoverInterruptedRuns ==
  LET interrupted == {r \in Runs : status[r] = "running"} IN
  /\ status' = [r \in Runs |->
                  IF r \in interrupted THEN "failed" ELSE status[r]]
  /\ errorCode' = [r \in Runs |->
                  IF r \in interrupted THEN "worker_restarted" ELSE errorCode[r]]
  /\ slotRun' = [s \in SlotIds |-> None]
  /\ expired' = [s \in SlotIds |-> FALSE]
  /\ UNCHANGED <<cancelRequested, cleaned, startedBy, fencingToken,
                 sandboxVars, proofVars, outboxVars>>

(* The runs recoverInterruptedRuns returns, and the ids it returns of each *)
CleanupPending == {r \in Runs : /\ status[r] = "failed"
                                /\ errorCode[r] = "worker_restarted"
                                /\ r \notin cleaned}
RecordedSandboxes(r) == {sandbox[r], builder[r], verifier[r]} \ {None}

MarkRecoveryCleanupComplete(r) ==
  /\ r \in CleanupPending
  /\ cleaned' = cleaned \cup {r}
  /\ UNCHANGED <<status, errorCode, cancelRequested, startedBy,
                 sandboxVars, proofVars, outboxVars, slotVars>>
-----------------------------------------------------------------------------
LeaseHolderStep(l) ==
  \/ Heartbeat(l)
  \/ ReleaseSlot(l)
  \/ StartRun(l)
  \/ \E b \in Sandboxes :
       \/ AttachSandbox(l, b)
       \/ \E p \in {"commands", "delivery"} :
            AttachVerificationSandbox(l, b, p)
       \/ PromoteVerificationSandbox(l, b)
  \/ \E v \in Revisions :
       \/ SetRevision(l, v)
       \/ \E k \in Kinds, verdict \in {"PASS", "FAIL"}, newest \in BOOLEAN :
            AddEvidence(l, v, k, verdict, newest)
       \/ \E newest \in BOOLEAN : RecordArtifact(l, v, newest)
       \/ MarkPassed(l, v)
  \/ \E outcome \in {"rejected", "failed", "cancelled"} :
       MarkTerminal(l, outcome)

Next ==
  \/ \E r \in Runs : \/ CreateRun(r)
                     \/ \E s \in SlotIds : AcquireSlot(r, s)
                     \/ MarkFailedUnleased(r)
                     \/ RequestCancel(r)
                     \/ MarkOutboxPublished(r)
                     \/ MarkRecoveryCleanupComplete(r)
  \/ \E l \in Leases : LeaseHolderStep(l)
  \/ \E s \in SlotIds : LeaseExpires(s)
  \/ RecoverInterruptedRuns

Spec == Init /\ [][Next]_vars
-----------------------------------------------------------------------------
(* A passed run has everything the proof gate asks for, all of it for the  *)
(* revision that was announced, and it stays so: markPassed reads rows     *)
(* that several earlier transactions wrote, and a late write of any of     *)
(* them (a receipt, a refrozen revision, another verifier) would leave a   *)
(* run announced as proven without its proof.                              *)
ProvenRunsHaveProof ==
  \A r \in Runs : status[r] = "passed" =>
    /\ r \notin cancelRequested
    /\ revision[r] # None
    /\ outbox[r] = revision[r]
    /\ latestArtifact[r] = revision[r] /\ revision[r] \in artifacts[r]
    /\ DecideProof(r, revision[r])
    /\ DeliverySandboxPromoted(r)

(* An event written to the outbox satisfies the filter of the queries that *)
(* hand it out for ever after: it can always be fetched and acknowledged,  *)
(* and markOutboxPublished never throws "Pending outbox event not found".  *)
AnnouncementsStayVisible ==
  \A r \in Runs : outbox[r] # None => EventVisible(r)

(* The inductive strengthening the proofs rest on: what the tables relate  *)
(* to each other between two transactions.                                 *)
SlotHoldersExist ==
  \A s \in SlotIds : slotRun[s] # None => status[slotRun[s]] # "absent"
WaitingRunsAreNotCancelled ==
  \A r \in Runs : status[r] \in {"absent", "queued"} => r \notin cancelRequested
LatestArtifactIsRecorded ==
  \A r \in Runs : latestArtifact[r] # None => latestArtifact[r] \in artifacts[r]
IInv == /\ TypeOK
        /\ SlotHoldersExist
        /\ WaitingRunsAreNotCancelled
        /\ LatestArtifactIsRecorded
        /\ ProvenRunsHaveProof
        /\ AnnouncementsStayVisible

(* Fencing: a lease that was issued and is no longer current (it expired,  *)
(* was released, taken over or swept by a restart) never becomes current   *)
(* again, so that a worker that lost its slot can never write again.       *)
Issued(l) == l.token <= fencingToken[l.slot]
StaleLeaseStaysStale ==
  [][\A l \in Leases : Issued(l) /\ ~LeaseValid(l) => ~LeaseValid(l)']_vars

(* A run on the cleanup list after a restart stays on it, with the sandbox *)
(* ids it was interrupted with, until its cleanup is recorded as complete. *)
CleanupListIsKept ==
  [][\A r \in CleanupPending :
       /\ RecordedSandboxes(r)' = RecordedSandboxes(r)
       /\ r \in CleanupPending' \cup cleaned']_vars

(* The store implements the life cycle its callers rely on.                *)
Lifecycle == INSTANCE RunLifecycle WITH
               cancelled <- cancelRequested, announced <- published
ImplementsRunLifecycle == Lifecycle!Spec
=============================================================================
