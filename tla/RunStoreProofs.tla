--------------------------- MODULE RunStoreProofs ---------------------------
(***************************************************************************)
(* Theorems about RunStore: what holds of the store for every number of    *)
(* runs, slots, sandboxes, revisions and receipt kinds.                    *)
(***************************************************************************)
EXTENDS RunStore, TLAPS

USE DEF runVars, sandboxVars, proofVars, outboxVars, slotVars

(* The empty database is well typed.                                       *)
THEOREM TypeInit == Init => TypeOK
  BY MaxTokenAssumption DEF Init, TypeOK, Status, ErrorCode, Verdicts, Kinds

(* The fields of a lease are of their types; a started run records the slot*)
(* and token of its lease (startRun).                                      *)
LEMMA LeaseFields ==
  ASSUME NEW l \in Leases
  PROVE  /\ l.slot \in SlotIds /\ l.run \in Runs /\ l.token \in 1..MaxToken
         /\ l.token \in Nat
         /\ [slot |-> l.slot, token |-> l.token] \in Tickets
<1>1. l.slot \in SlotIds /\ l.run \in Runs /\ l.token \in 1..MaxToken
  BY DEF Leases
<1>2. l.token \in Nat
  BY <1>1, MaxTokenAssumption
<1> QED
  BY <1>1, <1>2 DEF Tickets

(* No operation that takes a lease (heartbeat, releaseSlot, startRun, the  *)
(* writes of an execution, markTerminal) puts a value of another type in a *)
(* column.                                                                 *)
LEMMA TypeLeaseHolder ==
  ASSUME TypeOK, NEW l \in Leases, LeaseHolderStep(l)
  PROVE  TypeOK'
<1> USE DEF TypeOK, Status, ErrorCode, Verdicts, Kinds
<1> USE LeaseFields
<1>1. CASE Heartbeat(l) BY <1>1 DEF Heartbeat
<1>2. CASE ReleaseSlot(l) BY <1>2 DEF ReleaseSlot
<1>3. CASE StartRun(l) BY <1>3 DEF StartRun
<1>4. ASSUME NEW b \in Sandboxes, AttachSandbox(l, b) PROVE TypeOK'
  BY <1>4 DEF AttachSandbox
<1>5. ASSUME NEW b \in Sandboxes, NEW p \in {"commands", "delivery"},
             AttachVerificationSandbox(l, b, p)
      PROVE  TypeOK'
  BY <1>5 DEF AttachVerificationSandbox
<1>6. ASSUME NEW b \in Sandboxes, PromoteVerificationSandbox(l, b)
      PROVE  TypeOK'
  BY <1>6 DEF PromoteVerificationSandbox
<1>7. ASSUME NEW v \in Revisions, SetRevision(l, v) PROVE TypeOK'
  BY <1>7 DEF SetRevision
<1>8. ASSUME NEW v \in Revisions, NEW k \in Kinds,
             NEW verdict \in {"PASS", "FAIL"}, NEW newest \in BOOLEAN,
             AddEvidence(l, v, k, verdict, newest)
      PROVE  TypeOK'
  <2>1. evidence[l.run] \in [Revisions -> [Kinds -> Verdicts]]
    OBVIOUS
  <2>2. evidence[l.run][v] \in [Kinds -> Verdicts]
    BY <2>1
  <2>3. Summary(evidence[l.run][v][k], k, verdict, newest) \in Verdicts
    BY <2>2 DEF Summary
  <2> DEFINE new == [evidence[l.run][v] EXCEPT
               ![k] = Summary(evidence[l.run][v][k], k, verdict, newest)]
  <2>4. new \in [Kinds -> Verdicts]
    BY <2>2, <2>3
  <2>5. evidence' = [evidence EXCEPT
                       ![l.run] = [evidence[l.run] EXCEPT ![v] = new]]
    BY <1>8 DEF AddEvidence
  <2> HIDE DEF new
  <2>6. evidence' \in [Runs -> [Revisions -> [Kinds -> Verdicts]]]
    BY <2>1, <2>4, <2>5
  <2> QED
    BY <1>8, <2>6 DEF AddEvidence
<1>9. ASSUME NEW v \in Revisions, NEW newest \in BOOLEAN,
             RecordArtifact(l, v, newest)
      PROVE  TypeOK'
  BY <1>9 DEF RecordArtifact
<1>10. ASSUME NEW v \in Revisions, MarkPassed(l, v) PROVE TypeOK'
  BY <1>10 DEF MarkPassed, CanPass
<1>11. ASSUME NEW outcome \in {"rejected", "failed", "cancelled"},
              MarkTerminal(l, outcome)
       PROVE  TypeOK'
  BY <1>11 DEF MarkTerminal
<1> HIDE DEF TypeOK, Status, ErrorCode, Verdicts, Kinds
<1> QED
  BY <1>1, <1>2, <1>3, <1>4, <1>5, <1>6, <1>7, <1>8, <1>9, <1>10, <1>11
     DEF LeaseHolderStep

(* Nor does any other operation, the clock or a restart.                   *)
LEMMA TypeNext ==
  ASSUME TypeOK, [Next]_vars
  PROVE  TypeOK'
<1> USE DEF TypeOK, Status, ErrorCode
<1>1. ASSUME NEW r \in Runs, CreateRun(r) PROVE TypeOK'
  BY <1>1 DEF CreateRun
<1>2. ASSUME NEW r \in Runs, NEW s \in SlotIds, AcquireSlot(r, s) PROVE TypeOK'
  <2>1. /\ status' \in [Runs -> Status]
        /\ errorCode' \in [Runs -> ErrorCode]
    BY <1>2 DEF AcquireSlot, FailExpiredRun
  <2>2. fencingToken' \in [SlotIds -> 0..MaxToken]
    BY <1>2, MaxTokenAssumption DEF AcquireSlot
  <2> QED
    BY <1>2, <2>1, <2>2 DEF AcquireSlot
<1>3. ASSUME NEW r \in Runs, MarkFailedUnleased(r) PROVE TypeOK'
  BY <1>3 DEF MarkFailedUnleased
<1>4. ASSUME NEW r \in Runs, RequestCancel(r) PROVE TypeOK'
  BY <1>4 DEF RequestCancel
<1>5. ASSUME NEW r \in Runs, MarkOutboxPublished(r) PROVE TypeOK'
  BY <1>5 DEF MarkOutboxPublished
<1>6. ASSUME NEW r \in Runs, MarkRecoveryCleanupComplete(r) PROVE TypeOK'
  BY <1>6 DEF MarkRecoveryCleanupComplete
<1>7. ASSUME NEW s \in SlotIds, LeaseExpires(s) PROVE TypeOK'
  BY <1>7 DEF LeaseExpires
<1>8. CASE RecoverInterruptedRuns
  BY <1>8 DEF RecoverInterruptedRuns
<1>9. CASE UNCHANGED vars
  BY <1>9 DEF vars
<1> HIDE DEF TypeOK, Status, ErrorCode
<1>10. ASSUME NEW l \in Leases, LeaseHolderStep(l) PROVE TypeOK'
  BY <1>10, TypeLeaseHolder
<1> QED
  BY <1>1, <1>2, <1>3, <1>4, <1>5, <1>6, <1>7, <1>8, <1>9, <1>10 DEF Next

(* Type correctness of the store's tables.                                 *)
THEOREM TypeCorrect == Spec => []TypeOK
<1> QED
  BY TypeInit, TypeNext, PTL DEF Spec
-----------------------------------------------------------------------------
(* The conjuncts of IInv that relate tables to each other.                 *)
Relations == /\ SlotHoldersExist
             /\ WaitingRunsAreNotCancelled
             /\ LatestArtifactIsRecorded
             /\ ProvenRunsHaveProof
             /\ AnnouncementsStayVisible

(* The relations between the tables hold of the empty database.            *)
LEMMA RelationsInit == Init => Relations
  BY DEF Init, Relations, SlotHoldersExist, WaitingRunsAreNotCancelled,
         LatestArtifactIsRecorded, ProvenRunsHaveProof,
         AnnouncementsStayVisible

(* The operations that take a lease keep the relations: each of them only  *)
(* touches a run that is still running (#assertActiveRun), hence neither one*)
(* that passed nor one with an outbox row.                                 *)
LEMMA RelationsLeaseHolder ==
  ASSUME IInv, NEW l \in Leases, LeaseHolderStep(l)
  PROVE  Relations'
<1> USE LeaseFields
<1> USE DEF Relations, IInv, TypeOK, ActiveRun, LeaseValid,
            SlotHoldersExist, WaitingRunsAreNotCancelled,
            LatestArtifactIsRecorded, ProvenRunsHaveProof,
            AnnouncementsStayVisible, EventVisible, DeliverySandboxPromoted,
            DecideProof
<1>1. CASE Heartbeat(l) BY <1>1 DEF Heartbeat
<1>2. CASE ReleaseSlot(l) BY <1>2, NoneAssumption DEF ReleaseSlot
<1>3. CASE StartRun(l) BY <1>3 DEF StartRun
<1>4. ASSUME NEW b \in Sandboxes, AttachSandbox(l, b) PROVE Relations'
  BY <1>4 DEF AttachSandbox
<1>5. ASSUME NEW b \in Sandboxes, NEW p \in {"commands", "delivery"},
             AttachVerificationSandbox(l, b, p)
      PROVE  Relations'
  BY <1>5 DEF AttachVerificationSandbox
<1>6. ASSUME NEW b \in Sandboxes, PromoteVerificationSandbox(l, b)
      PROVE  Relations'
  BY <1>6 DEF PromoteVerificationSandbox
<1>7. ASSUME NEW v \in Revisions, SetRevision(l, v) PROVE Relations'
  BY <1>7 DEF SetRevision
<1>8. ASSUME NEW v \in Revisions, NEW k \in Kinds,
             NEW verdict \in {"PASS", "FAIL"}, NEW newest \in BOOLEAN,
             AddEvidence(l, v, k, verdict, newest)
      PROVE  Relations'
  BY <1>8 DEF AddEvidence
<1>9. ASSUME NEW v \in Revisions, NEW newest \in BOOLEAN,
             RecordArtifact(l, v, newest)
      PROVE  Relations'
  BY <1>9 DEF RecordArtifact
<1>10. ASSUME NEW v \in Revisions, MarkPassed(l, v) PROVE Relations'
  BY <1>10, NoneAssumption DEF MarkPassed, CanPass
<1>11. ASSUME NEW outcome \in {"rejected", "failed", "cancelled"},
              MarkTerminal(l, outcome)
       PROVE  Relations'
  BY <1>11 DEF MarkTerminal
<1> HIDE DEF Relations
<1> QED
  BY <1>1, <1>2, <1>3, <1>4, <1>5, <1>6, <1>7, <1>8, <1>9, <1>10, <1>11
     DEF LeaseHolderStep

(* So do the operations that take none: acquireSlot fails only a run that is*)
(* not terminal, requestCancel and recoverInterruptedRuns likewise, and    *)
(* markOutboxPublished writes no column the relations read.                *)
LEMMA RelationsNext ==
  ASSUME IInv, [Next]_vars
  PROVE  Relations'
<1> USE DEF Relations, IInv, TypeOK,
            SlotHoldersExist, WaitingRunsAreNotCancelled,
            LatestArtifactIsRecorded, ProvenRunsHaveProof,
            AnnouncementsStayVisible, EventVisible, DeliverySandboxPromoted,
            DecideProof
<1>1. ASSUME NEW r \in Runs, CreateRun(r) PROVE Relations'
  BY <1>1 DEF CreateRun
<1>2. ASSUME NEW r \in Runs, NEW s \in SlotIds, AcquireSlot(r, s)
      PROVE  Relations'
  <2>1. \A q \in Runs : status'[q] = status[q] \/
                        (status'[q] = "failed" /\ status[q] \notin Terminal)
    BY <1>2 DEF AcquireSlot, FailExpiredRun
  <2>2. SlotHoldersExist'
    <3>1. \A t \in SlotIds : slotRun'[t] \in {r, slotRun[t]}
      BY <1>2 DEF AcquireSlot
    <3>2. \A q \in Runs : status[q] # "absent" => status'[q] # "absent"
      BY <2>1
    <3>3. r # None /\ status'[r] # "absent"
      BY <1>2, <3>2, NoneAssumption DEF AcquireSlot
    <3>4. ASSUME NEW t \in SlotIds, slotRun[t] # None
          PROVE  slotRun[t] \in Runs /\ status[slotRun[t]] # "absent"
      BY <3>4
    <3>5. ASSUME NEW t \in SlotIds, slotRun'[t] # None
          PROVE  status'[slotRun'[t]] # "absent"
      BY <3>1, <3>2, <3>3, <3>4, <3>5
    <3> QED
      BY <3>5
  <2>3. UNCHANGED <<cancelRequested, sandboxVars, proofVars, outboxVars>>
    BY <1>2 DEF AcquireSlot
  <2>4. \A q \in Runs : status[q] = "passed" <=> status'[q] = "passed"
    BY <2>1 DEF Terminal
  <2>5. WaitingRunsAreNotCancelled'
    BY <2>1, <2>3
  <2>6. (LatestArtifactIsRecorded /\ ProvenRunsHaveProof)'
    BY <2>3, <2>4
  <2>7. AnnouncementsStayVisible'
    BY <2>3, <2>4
  <2> QED
    BY <2>2, <2>5, <2>6, <2>7
<1>3. ASSUME NEW r \in Runs, MarkFailedUnleased(r) PROVE Relations'
  BY <1>3 DEF MarkFailedUnleased
<1>4. ASSUME NEW r \in Runs, RequestCancel(r) PROVE Relations'
  BY <1>4 DEF RequestCancel
<1>5. ASSUME NEW r \in Runs, MarkOutboxPublished(r) PROVE Relations'
  BY <1>5 DEF MarkOutboxPublished
<1>6. ASSUME NEW r \in Runs, MarkRecoveryCleanupComplete(r) PROVE Relations'
  BY <1>6 DEF MarkRecoveryCleanupComplete
<1>7. ASSUME NEW s \in SlotIds, LeaseExpires(s) PROVE Relations'
  BY <1>7 DEF LeaseExpires
<1>8. CASE RecoverInterruptedRuns
  BY <1>8 DEF RecoverInterruptedRuns
<1>9. CASE UNCHANGED vars
  BY <1>9 DEF vars
<1> HIDE DEF Relations, IInv
<1>10. ASSUME NEW l \in Leases, LeaseHolderStep(l) PROVE Relations'
  BY <1>10, RelationsLeaseHolder
<1> QED
  BY <1>1, <1>2, <1>3, <1>4, <1>5, <1>6, <1>7, <1>8, <1>9, <1>10 DEF Next

(* IInv is inductive: it holds at first, and every transaction keeps it.   *)
LEMMA InvariantIsInductive ==
  /\ Init => IInv
  /\ IInv /\ [Next]_vars => IInv'
<1>1. Init => IInv
  BY TypeInit, RelationsInit DEF IInv, Relations
<1>2. ASSUME IInv, [Next]_vars PROVE IInv'
  <2>1. TypeOK'
    BY <1>2, TypeNext DEF IInv
  <2>2. Relations'
    BY <1>2, RelationsNext
  <2> QED
    BY <2>1, <2>2 DEF IInv, Relations
<1> QED
  BY <1>1, <1>2

(* The inductive invariant of the store's tables (types and relations).    *)
THEOREM Invariance == Spec => []IInv
<1> QED
  BY InvariantIsInductive, PTL DEF Spec

(* A passed run keeps the complete proof it passed with (markPassed).      *)
THEOREM ProofIsComplete == Spec => []ProvenRunsHaveProof
<1>1. IInv => ProvenRunsHaveProof
  BY DEF IInv
<1> QED
  BY <1>1, Invariance, PTL

(* An outbox row always passes the filter of the queries that read it.     *)
THEOREM EventsStayVisible == Spec => []AnnouncementsStayVisible
<1>1. IInv => AnnouncementsStayVisible
  BY DEF IInv
<1> QED
  BY <1>1, Invariance, PTL
-----------------------------------------------------------------------------
(* Fencing: what a step does to a slot row.  Either the row is granted     *)
(* anew under the next token, or it can only lose its holder or expire.    *)
SlotGranted(s) == fencingToken'[s] = fencingToken[s] + 1
SlotDecays(s)  == /\ fencingToken'[s] = fencingToken[s]
                  /\ slotRun'[s] \in {slotRun[s], None}
                  /\ slotRun'[s] # None => (expired[s] => expired'[s])

(* Every step of the store does one or the other to every slot row.        *)
LEMMA SlotStep ==
  ASSUME TypeOK, [Next]_vars, NEW s \in SlotIds
  PROVE  SlotGranted(s) \/ SlotDecays(s)
<1> USE DEF TypeOK, SlotGranted, SlotDecays
<1>1. ASSUME NEW l \in Leases, LeaseHolderStep(l) PROVE SlotDecays(s)
  <2>1. CASE Heartbeat(l)
    BY <2>1 DEF Heartbeat, LeaseValid
  <2>2. CASE ReleaseSlot(l)
    BY <2>2, LeaseFields DEF ReleaseSlot
  <2>3. CASE UNCHANGED slotVars
    BY <2>3
  <2> QED
    BY <1>1, <2>1, <2>2, <2>3
       DEF LeaseHolderStep, StartRun, AttachSandbox,
           AttachVerificationSandbox, PromoteVerificationSandbox, SetRevision,
           AddEvidence, RecordArtifact, MarkPassed, CanPass, MarkTerminal
<1>2. ASSUME NEW r \in Runs, NEW t \in SlotIds, AcquireSlot(r, t)
      PROVE  SlotGranted(s) \/ SlotDecays(s)
  BY <1>2 DEF AcquireSlot
<1>3. ASSUME NEW t \in SlotIds, LeaseExpires(t) PROVE SlotDecays(s)
  BY <1>3 DEF LeaseExpires
<1>4. CASE RecoverInterruptedRuns
  BY <1>4 DEF RecoverInterruptedRuns
<1>5. CASE UNCHANGED slotVars
  BY <1>5
<1> QED
  BY <1>1, <1>2, <1>3, <1>4, <1>5
     DEF Next, vars, CreateRun, MarkFailedUnleased, RequestCancel,
         MarkOutboxPublished, MarkRecoveryCleanupComplete

(* A worker whose lease is no longer current never writes again.           *)
THEOREM Fencing == Spec => StaleLeaseStaysStale
<1>1. ASSUME TypeOK, [Next]_vars,
             NEW l \in Leases, Issued(l), ~LeaseValid(l)
      PROVE  ~LeaseValid(l)'
  <2>1. l.slot \in SlotIds /\ l.run \in Runs /\ l.token \in Nat
    BY LeaseFields
  <2>2. l.run # None
    BY <2>1, NoneAssumption
  <2>3. fencingToken[l.slot] \in Nat
    <3>1. fencingToken[l.slot] \in 0..MaxToken
      BY <1>1, <2>1 DEF TypeOK
    <3> QED
      BY <3>1, MaxTokenAssumption
  <2>4. CASE SlotGranted(l.slot)
    BY <1>1, <2>1, <2>3, <2>4 DEF SlotGranted, Issued, LeaseValid
  <2>5. CASE SlotDecays(l.slot)
    BY <1>1, <2>2, <2>5 DEF SlotDecays, LeaseValid
  <2> QED
    BY <1>1, <2>1, <2>4, <2>5, SlotStep
<1>2. TypeOK /\ [Next]_vars =>
        [\A l \in Leases : Issued(l) /\ ~LeaseValid(l) => ~LeaseValid(l)']_vars
  BY <1>1
<1> QED
  BY <1>2, TypeCorrect, PTL DEF Spec, StaleLeaseStaysStale
-----------------------------------------------------------------------------
(* A step that leaves the three abstract variables alone is a stutter of   *)
(* the life cycle.                                                         *)
LifecycleVars == <<status, cancelRequested, published>>

(* Every operation that takes a lease is a step of the abstract life cycle,*)
(* or changes nothing it speaks of.                                        *)
LEMMA LeaseHolderRefines ==
  ASSUME IInv, NEW l \in Leases, LeaseHolderStep(l)
  PROVE  Lifecycle!Next \/ UNCHANGED LifecycleVars
<1> USE LeaseFields
<1>1. CASE StartRun(l)
  <2>1. Lifecycle!Start(l.run)
    BY <1>1 DEF StartRun, Lifecycle!Start, Lifecycle!Become, IInv,
                WaitingRunsAreNotCancelled
  <2> QED
    BY <2>1 DEF Lifecycle!Next
<1>2. ASSUME NEW v \in Revisions, MarkPassed(l, v) PROVE Lifecycle!Next
  <2>1. Lifecycle!Pass(l.run)
    BY <1>2 DEF MarkPassed, CanPass, ActiveRun, Lifecycle!Pass, Lifecycle!Become
  <2> QED
    BY <2>1 DEF Lifecycle!Next
<1>3. ASSUME NEW outcome \in {"rejected", "failed", "cancelled"},
             MarkTerminal(l, outcome)
      PROVE  Lifecycle!Next
  <2>1. status' = [q \in Runs |-> IF q \in {l.run} THEN outcome ELSE status[q]]
    BY <1>3 DEF MarkTerminal, IInv, TypeOK
  <2>2. Lifecycle!GiveUp({l.run}, outcome)
    BY <1>3, <2>1 DEF MarkTerminal, ActiveRun, Lifecycle!GiveUp
  <2>3. outcome \in Lifecycle!Terminal \ {"passed"}
    BY DEF Lifecycle!Terminal
  <2>4. {l.run} \in SUBSET Runs
    OBVIOUS
  <2> QED
    BY <2>2, <2>3, <2>4 DEF Lifecycle!Next
<1>4. CASE UNCHANGED LifecycleVars
  BY <1>4
<1> QED
  BY <1>1, <1>2, <1>3, <1>4
     DEF LeaseHolderStep, LifecycleVars, Heartbeat, ReleaseSlot, AttachSandbox,
         AttachVerificationSandbox, PromoteVerificationSandbox, SetRevision,
         AddEvidence, RecordArtifact

(* Every step of the store is a step of the abstract life cycle or a stutter.*)
LEMMA StepRefines ==
  ASSUME IInv, [Next]_vars
  PROVE  Lifecycle!Next \/ UNCHANGED LifecycleVars
<1>1. ASSUME NEW r \in Runs, CreateRun(r) PROVE Lifecycle!Next
  BY <1>1 DEF CreateRun, Lifecycle!Next, Lifecycle!Submit, Lifecycle!Become
<1>2. ASSUME NEW r \in Runs, NEW s \in SlotIds, AcquireSlot(r, s)
      PROVE  Lifecycle!Next \/ UNCHANGED LifecycleVars
  <2> DEFINE old == slotRun[s]
  <2>1. UNCHANGED <<cancelRequested, published>>
    BY <1>2 DEF AcquireSlot
  <2>2. CASE old \in Runs /\ status[old] \notin Terminal
    <3>1. old # None
      BY <2>2, NoneAssumption
    <3>2. status[old] \in {"queued", "running"}
      BY <2>2, <3>1
         DEF IInv, TypeOK, Status, Terminal, SlotHoldersExist
    <3>3. status' = [q \in Runs |-> IF q \in {old} THEN "failed" ELSE status[q]]
      BY <1>2, <2>2 DEF AcquireSlot, FailExpiredRun, IInv, TypeOK
    <3>4. Lifecycle!GiveUp({old}, "failed")
      BY <2>1, <3>2, <3>3 DEF Lifecycle!GiveUp
    <3>5. {old} \in SUBSET Runs /\ "failed" \in Lifecycle!Terminal \ {"passed"}
      BY <2>2 DEF Lifecycle!Terminal
    <3> HIDE DEF old
    <3> QED
      BY <3>4, <3>5 DEF Lifecycle!Next
  <2>3. CASE ~(old \in Runs /\ status[old] \notin Terminal)
    BY <1>2, <2>1, <2>3 DEF AcquireSlot, FailExpiredRun, LifecycleVars
  <2> QED
    BY <2>2, <2>3
<1>3. ASSUME NEW r \in Runs, MarkFailedUnleased(r) PROVE Lifecycle!Next
  <2>1. status' = [q \in Runs |-> IF q \in {r} THEN "failed" ELSE status[q]]
    BY <1>3 DEF MarkFailedUnleased, IInv, TypeOK
  <2>2. Lifecycle!GiveUp({r}, "failed")
    BY <1>3, <2>1 DEF MarkFailedUnleased, Lifecycle!GiveUp
  <2>3. {r} \in SUBSET Runs /\ "failed" \in Lifecycle!Terminal \ {"passed"}
    BY DEF Lifecycle!Terminal
  <2> QED
    BY <2>2, <2>3 DEF Lifecycle!Next
<1>4. ASSUME NEW r \in Runs, RequestCancel(r) PROVE Lifecycle!Next
  BY <1>4 DEF RequestCancel, Lifecycle!Next, Lifecycle!Cancel
<1>5. ASSUME NEW r \in Runs, MarkOutboxPublished(r) PROVE Lifecycle!Next
  BY <1>5 DEF MarkOutboxPublished, EventVisible, Lifecycle!Next,
              Lifecycle!Announce
<1>6. CASE RecoverInterruptedRuns
  <2> DEFINE interrupted == {r \in Runs : status[r] = "running"}
  <2>1. CASE interrupted = {}
    <3>1. status' = status
      BY <1>6, <2>1 DEF RecoverInterruptedRuns, IInv, TypeOK
    <3> QED
      BY <1>6, <3>1 DEF RecoverInterruptedRuns, LifecycleVars
  <2>2. CASE interrupted # {}
    <3>1. Lifecycle!GiveUp(interrupted, "failed")
      BY <1>6, <2>2 DEF RecoverInterruptedRuns, Lifecycle!GiveUp
    <3>2. /\ interrupted \in SUBSET Runs
          /\ "failed" \in Lifecycle!Terminal \ {"passed"}
      BY DEF Lifecycle!Terminal
    <3> HIDE DEF interrupted
    <3> QED
      BY <3>1, <3>2 DEF Lifecycle!Next
  <2> QED
    BY <2>1, <2>2
<1>7. ASSUME NEW l \in Leases, LeaseHolderStep(l)
      PROVE  Lifecycle!Next \/ UNCHANGED LifecycleVars
  BY <1>7, LeaseHolderRefines
<1>8. CASE UNCHANGED LifecycleVars
  BY <1>8
<1> QED
  BY <1>1, <1>2, <1>3, <1>4, <1>5, <1>6, <1>7, <1>8
     DEF Next, vars, LifecycleVars, MarkRecoveryCleanupComplete, LeaseExpires

(* The store implements the abstract life cycle: a run starts and ends at  *)
(* most once, never passes after a cancellation, and is only announced     *)
(* once it passed.                                                         *)
THEOREM Refinement == Spec => ImplementsRunLifecycle
<1>1. Init => Lifecycle!Init
  BY DEF Init, Lifecycle!Init
<1>2. IInv /\ [Next]_vars => [Lifecycle!Next]_(Lifecycle!vars)
  BY StepRefines DEF Lifecycle!vars, LifecycleVars
<1> QED
  BY <1>1, <1>2, Invariance, PTL
     DEF Spec, ImplementsRunLifecycle, Lifecycle!Spec
-----------------------------------------------------------------------------
(* The cleanup list: nothing touches a terminal run but the mark that its  *)
(* cleanup is complete.                                                    *)
LEMMA TerminalRunIsKept ==
  ASSUME IInv, [Next]_vars, NEW r \in Runs, status[r] \in Terminal
  PROVE  /\ status'[r] = status[r] /\ errorCode'[r] = errorCode[r]
         /\ RecordedSandboxes(r)' = RecordedSandboxes(r)
<1> USE LeaseFields
<1> USE DEF IInv, TypeOK, Terminal, RecordedSandboxes, ActiveRun
<1>1. ASSUME NEW l \in Leases, LeaseHolderStep(l)
      PROVE  UNCHANGED <<status[r], errorCode[r],
                         sandbox[r], builder[r], verifier[r]>>
  BY <1>1 DEF LeaseHolderStep, Heartbeat, ReleaseSlot, StartRun,
       AttachSandbox, AttachVerificationSandbox, PromoteVerificationSandbox,
       SetRevision, AddEvidence, RecordArtifact, MarkPassed, CanPass, MarkTerminal
<1>2. ASSUME NEW q \in Runs, NEW s \in SlotIds, AcquireSlot(q, s)
      PROVE  UNCHANGED <<status[r], errorCode[r],
                         sandbox[r], builder[r], verifier[r]>>
  BY <1>2 DEF AcquireSlot, FailExpiredRun
<1>3. CASE RecoverInterruptedRuns
  BY <1>3 DEF RecoverInterruptedRuns
<1>4. ASSUME NEW q \in Runs, RequestCancel(q) PROVE status'[r] = status[r]
  BY <1>4 DEF RequestCancel
<1> QED
  BY <1>1, <1>2, <1>3, <1>4
     DEF Next, vars, CreateRun, MarkFailedUnleased, RequestCancel,
         MarkOutboxPublished, MarkRecoveryCleanupComplete, LeaseExpires

(* A run on the cleanup list of recoverInterruptedRuns keeps its recorded  *)
(* sandboxes and leaves the list only when its cleanup was recorded.       *)
THEOREM CleanupKept == Spec => CleanupListIsKept
<1>1. ASSUME IInv, [Next]_vars, NEW r \in CleanupPending
      PROVE  /\ RecordedSandboxes(r)' = RecordedSandboxes(r)
             /\ r \in CleanupPending' \cup cleaned'
  <2>1. r \in Runs /\ status[r] = "failed" /\ errorCode[r] = "worker_restarted"
    BY <1>1 DEF CleanupPending
  <2> QED
    BY <1>1, <2>1, TerminalRunIsKept DEF CleanupPending, Terminal
<1>2. IInv /\ [Next]_vars =>
        [\A r \in CleanupPending :
           /\ RecordedSandboxes(r)' = RecordedSandboxes(r)
           /\ r \in CleanupPending' \cup cleaned']_vars
  BY <1>1
<1> QED
  BY <1>2, Invariance, PTL DEF Spec, CleanupListIsKept
=============================================================================
