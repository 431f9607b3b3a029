---------------------------- MODULE InboundMail ----------------------------
(***************************************************************************)
(* Customer mail on its way into a project of the orchestrator:            *)
(*   - the envelopes and the webhook inbox of the orchestration store      *)
(*     (src/src/orchestration/adapters/sqlite/orchestration-store.ts)      *)
(*   - InboundMailRecovery (.../http/inbound-mail-recovery.ts), run by the *)
(*     Resend webhook, by the reconcile route and by the reconciliation    *)
(*     worker (.../runtime/reconciliation-worker.ts)                       *)
(*   - receiveCustomerMessage and the ProjectSerialExecutor                *)
(*     (.../application/orchestration-agent.ts)                            *)
(* for one project: nothing here relates two projects.                     *)
(*                                                                         *)
(* An activation of #processReady claims a batch of envelopes and takes    *)
(* them one after the other.  It owns none of them: a claim is a lease     *)
(* that another activation may find expired while this one still waits for *)
(* the provider, for its turn, or for the model.  What runs between two    *)
(* awaits is atomic for the other activations (LoopIsFree).                *)
(***************************************************************************)
EXTENDS Naturals, Sequences, FiniteSets

CONSTANTS Mails,        \* signed notifications, numbered by received_at
          MessageOf,    \* the provider's message id of every mail
          Handlers,     \* activations of #processReady at one time
          Workers,      \* those of the worker: with a deadline and a signal
          MaxAttempts, BatchSize,
          None,
          MaxFaults,    \* bound: crashes, and deadlines of the worker
          MaxRetries    \* bound: retries the operator asks for

ASSUME MailsAssumption    == Mails \subseteq Nat /\ None \notin Mails
ASSUME HandlersAssumption == Workers \subseteq Handlers
ASSUME BoundsAssumption   ==
  {MaxAttempts, BatchSize} \subseteq Nat \ {0}
  /\ {MaxFaults, MaxRetries} \subseteq Nat

VARIABLES
  status,     \* orchestration_inbound_mail_envelopes.status, or "absent"
  attempts,   \* attempts, of which the code only asks if they reach the limit
  due,        \* the mails whose next_attempt_at is NULL or has passed
  lastError,  \* last_error_code
  inbox,      \* the mails recorded in orchestration_webhook_inbox
  messages,   \* the inbound messages of the project aggregate
  project,    \* what the status of the project means for a new message
  pc,         \* where an activation is
  current,    \* the envelope an activation is working on
  batch,      \* attempts of the envelopes it claimed, 0 of those it did not
  aborted,    \* the activations whose signal is aborted
  queue,      \* ProjectSerialExecutor: the activations that have or want the
              \* project's turn
  faults, retries

envelopes == <<status, attempts, due, lastError>>
aggregate == <<inbox, messages, project>>
tasks     == <<pc, current, batch, aborted, queue>>
bounds    == <<faults, retries>>
vars      == <<envelopes, aggregate, tasks, bounds>>

Messages == {MessageOf[m] : m \in Mails}
Status   == {"absent", "pending", "processed", "rejected", "failed"}
Errors   == {"none", "transient", "exhausted", "refused", "discarded"}

TypeOK == /\ status \in [Mails -> Status]
          /\ attempts \in [Mails -> 0..MaxAttempts]
          /\ due \subseteq Mails
          /\ lastError \in [Mails -> Errors]
          /\ inbox \subseteq Mails /\ messages \subseteq Messages
          /\ project \in {"open", "blocked", "closed"}
          /\ pc \in [Handlers -> {"idle", "staged", "retrieving", "queued",
                                  "processing"}]
          /\ current \in [Handlers -> Mails \cup {None}]
          /\ batch \in [Handlers -> [Mails -> 0..MaxAttempts]]
          /\ aborted \subseteq Handlers
          /\ queue \in Seq(Handlers)
          /\ faults \in 0..MaxFaults /\ retries \in 0..MaxRetries

NoBatch == [m \in Mails |-> 0]

Init == /\ status = [m \in Mails |-> "absent"]
        /\ attempts = [m \in Mails |-> 0]
        /\ due = {}
        /\ lastError = [m \in Mails |-> "none"]
        /\ inbox = {} /\ messages = {} /\ project = "open"
        /\ pc = [h \in Handlers |-> "idle"]
        /\ current = [h \in Handlers |-> None]
        /\ batch = [h \in Handlers |-> NoBatch]
        /\ aborted = {}
        /\ queue = <<>>
        /\ faults = 0 /\ retries = 0

LoopIsFree == \A h \in Handlers : pc[h] # "staged"
-----------------------------------------------------------------------------
(* A webhook of the provider, delivered any number of times.               *)
(* stageInboundMailEnvelope, then #processReady in the same turn.          *)
Deliver(h, m) ==
  /\ LoopIsFree /\ pc[h] = "idle" /\ h \notin Workers
  /\ pc' = [pc EXCEPT ![h] = "staged"]
  /\ IF status[m] = "absent"
       THEN /\ status' = [status EXCEPT ![m] = "pending"]
            /\ due' = due \cup {m}
       ELSE UNCHANGED <<status, due>>
  /\ UNCHANGED <<attempts, lastError, aggregate, current, batch, aborted,
                 queue, bounds>>

Ready == {m \in due : status[m] = "pending"}
Unresolved == {m \in Mails : status[m] \in {"pending", "failed"}}

(* The attempts of an envelope after one more of them.                     *)
OneMore(n) == IF n < MaxAttempts THEN n + 1 ELSE n

(* What an activation does next in its batch b, when the envelopes left to *)
(* do are those with b[m] > 0.                                             *)
GoesOnWith(h, b) ==
  LET left == {m \in Mails : b[m] > 0} IN
  /\ batch' = [batch EXCEPT ![h] = b]
  /\ IF left = {}
       THEN /\ pc' = [pc EXCEPT ![h] = "idle"]
            /\ current' = [current EXCEPT ![h] = None]
            /\ aborted' = aborted \ {h}
       ELSE /\ pc' = [pc EXCEPT ![h] = "retrieving"]
            /\ \E m \in left : /\ \A q \in left : m <= q
                               /\ current' = [current EXCEPT ![h] = m]
            /\ UNCHANGED aborted

(* claimPendingInboundMailEnvelopes: the oldest that are ready.            *)
Claim(h) ==
  LET claimed == {m \in Ready : Cardinality({q \in Ready : q < m}) < BatchSize}
  IN /\ attempts' = [m \in Mails |-> IF m \in claimed THEN OneMore(attempts[m])
                                                      ELSE attempts[m]]
     /\ due' = due \ claimed
     /\ GoesOnWith(h, [m \in Mails |->
                         IF m \in claimed THEN OneMore(attempts[m]) ELSE 0])
     /\ UNCHANGED <<status, lastError, aggregate, queue, bounds>>

ProcessReady(h) == pc[h] = "staged" /\ Claim(h)

(* recoverProject, by the worker or by the reconcile route, which lists a  *)
(* project for as long as it has unresolved envelopes.                     *)
Reconcile(h) == /\ LoopIsFree /\ pc[h] = "idle"
                /\ Ready # {}
                /\ Claim(h)

(* next_attempt_at passes: a claim lapses, or a backoff is over.           *)
Due(m) == /\ status[m] = "pending" /\ m \notin due
          /\ due' = due \cup {m}
          /\ UNCHANGED <<status, attempts, lastError, aggregate, tasks, bounds>>

(* The worker's deadline for the project: the activation lives on.         *)
Abort(h) == /\ LoopIsFree /\ h \in Workers \ aborted /\ pc[h] # "idle"
            /\ faults < MaxFaults /\ faults' = faults + 1
            /\ aborted' = aborted \cup {h}
            /\ UNCHANGED <<envelopes, aggregate, pc, current, batch, queue,
                           retries>>
-----------------------------------------------------------------------------
(* The loop of #processReady.                                              *)

(* completeInboundMailEnvelope, whatever became of the envelope meanwhile. *)
Complete(m) ==
  /\ status' = [status EXCEPT ![m] = "processed"]
  /\ lastError' = [lastError EXCEPT ![m] = "none"]
  /\ due' = due \cup {m}
  /\ UNCHANGED attempts

(* recordInboundMailEnvelopeFailure                                        *)
RecordFailure(m, how, retryable) ==
  IF status[m] = "processed" THEN UNCHANGED envelopes ELSE
  /\ status' = [status EXCEPT ![m] = IF retryable THEN "pending" ELSE
                                     IF how = "transient" THEN "failed" ELSE how]
  /\ lastError' = [lastError EXCEPT ![m] =
                     IF retryable THEN "transient" ELSE
                     IF how = "transient" THEN "exhausted" ELSE "refused"]
  /\ due' = IF retryable THEN due \ {m} ELSE due \cup {m}
  /\ UNCHANGED attempts

(* The rest of its batch is left to whoever claims it next.                *)
GivesUp(h) == GoesOnWith(h, NoBatch)
NextMail(h) == GoesOnWith(h, [batch[h] EXCEPT ![current[h]] = 0])

(* Faulty variant: a failure is recorded even if the message was saved.    *)
Caught_IgnoresInbox(h, how) ==
  LET m == current[h]
  IN /\ IF h \in aborted THEN UNCHANGED envelopes
          ELSE RecordFailure(m, how, how = "transient"
                                     /\ batch[h][m] < MaxAttempts)
     /\ GivesUp(h)

(* Faulty variant: the number of attempts is not looked at.                *)
Caught_RetriesForever(h, how) ==
  LET m == current[h]
  IN IF m \in inbox
       THEN Complete(m) /\ NextMail(h)
       ELSE /\ IF h \in aborted THEN UNCHANGED envelopes
                 ELSE RecordFailure(m, how, how = "transient")
            /\ GivesUp(h)

(* The catch clause: how is "transient", or the status a permanent failure *)
(* ends with.  A message that was saved is done, whatever failed later.    *)
Caught(h, how) ==
  LET m == current[h]
  IN \/ m \in inbox /\ Complete(m) /\ NextMail(h)
     \/ m \notin inbox /\ h \in aborted /\ UNCHANGED envelopes /\ GivesUp(h)
     \/ /\ m \notin inbox /\ h \notin aborted
        /\ RecordFailure(m, how, how = "transient"
                                 /\ batch[h][m] < MaxAttempts)
        /\ GivesUp(h)

Failures == {"transient", "failed", "rejected"}

(* retrieveInboundEmail fails, or what it returned is not acceptable, or   *)
(* throwIfAborted throws.                                                  *)
RetrieveFails(h, how) ==
  /\ LoopIsFree /\ pc[h] = "retrieving"
  /\ Caught(h, how)
  /\ UNCHANGED <<aggregate, queue, bounds>>

(* The mail is genuine: receiveCustomerMessage waits for its turn.         *)
Retrieved(h) ==
  /\ LoopIsFree /\ pc[h] = "retrieving" /\ h \notin aborted
  /\ pc' = [pc EXCEPT ![h] = "queued"]
  /\ queue' = Append(queue, h)
  /\ UNCHANGED <<envelopes, aggregate, current, batch, aborted, bounds>>

HasTurn(h, at) == LoopIsFree /\ pc[h] = at /\ queue # <<>> /\ Head(queue) = h

(* The project was closed, or the sender is not its customer.              *)
Refused(h) ==
  /\ HasTurn(h, "queued")
  /\ queue' = Tail(queue)
  /\ Caught(h, "rejected")
  /\ UNCHANGED <<aggregate, bounds>>

(* Faulty variant: a known message is not entered in the inbox.            *)
Save_KnownNotInboxed(m) ==
  /\ inbox' = IF MessageOf[m] \in messages THEN inbox ELSE inbox \cup {m}
  /\ messages' = messages \cup {MessageOf[m]}
  /\ UNCHANGED project

(* The message and the inbox row are one transaction; of a message that is *)
(* there already only the inbox row is new.                                *)
Save(m) == /\ inbox' = inbox \cup {m}
           /\ messages' = messages \cup {MessageOf[m]}
           /\ UNCHANGED project

(* The message is saved, and nothing is left to do: it was applied before, *)
(* or the project waits for an operator.                                   *)
Saved(h) ==
  /\ HasTurn(h, "queued") /\ project # "closed"
  /\ project = "blocked" \/ MessageOf[current[h]] \in messages
  /\ Save(current[h])
  /\ queue' = Tail(queue)
  /\ Complete(current[h]) /\ NextMail(h)
  /\ UNCHANGED bounds

(* The message is saved, and its processing keeps the turn.                *)
SavedAndProcessing(h) ==
  /\ HasTurn(h, "queued") /\ project = "open"
  /\ Save(current[h])
  /\ pc' = [pc EXCEPT ![h] = "processing"]
  /\ UNCHANGED <<envelopes, current, batch, aborted, queue, bounds>>

(* Processing ends or throws; either way the envelope is done.             *)
Processed(h) ==
  /\ HasTurn(h, "processing")
  /\ queue' = Tail(queue)
  /\ \/ Complete(current[h]) /\ NextMail(h)
     \/ \E how \in Failures : Caught(h, how)
  /\ UNCHANGED <<aggregate, bounds>>
-----------------------------------------------------------------------------
(* POST recovery/inbound-mail/:eventId                                     *)
Retry(m) ==
  /\ LoopIsFree /\ m \in Unresolved
  /\ retries < MaxRetries /\ retries' = retries + 1
  /\ status' = [status EXCEPT ![m] = "pending"]
  /\ lastError' = [lastError EXCEPT ![m] = "none"]
  /\ due' = due \cup {m}
  /\ UNCHANGED <<attempts, aggregate, tasks, faults>>

Discard(m) ==
  /\ LoopIsFree /\ m \in Unresolved
  /\ status' = [status EXCEPT ![m] = "rejected"]
  /\ lastError' = [lastError EXCEPT ![m] = "discarded"]
  /\ due' = due \cup {m}
  /\ UNCHANGED <<attempts, aggregate, tasks, bounds>>

(* The rest of the orchestrator moves the project, in turns of its own.    *)
ProjectMoves ==
  /\ LoopIsFree /\ \A h \in Handlers : pc[h] # "processing"
  /\ project' \in {"open", "blocked", "closed"} \ {project}
  /\ UNCHANGED <<envelopes, inbox, messages, tasks, bounds>>

(* The process dies; the clock goes on, and a new process reconciles.      *)
Crash ==
  /\ faults < MaxFaults /\ faults' = faults + 1
  /\ pc' = [h \in Handlers |-> "idle"]
  /\ current' = [h \in Handlers |-> None]
  /\ batch' = [h \in Handlers |-> NoBatch]
  /\ aborted' = {} /\ queue' = <<>>
  /\ UNCHANGED <<envelopes, aggregate, retries>>

Step(h) == \/ ProcessReady(h)
           \/ \E how \in Failures : RetrieveFails(h, how)
           \/ Retrieved(h) \/ Refused(h)
           \/ Saved(h) \/ SavedAndProcessing(h) \/ Processed(h)

Next == \/ \E h \in Handlers : \/ \E m \in Mails : Deliver(h, m)
                               \/ Reconcile(h) \/ Abort(h) \/ Step(h)
        \/ \E m \in Mails : Due(m) \/ Retry(m) \/ Discard(m)
        \/ ProjectMoves
        \/ Crash

Spec == Init /\ [][Next]_vars

(* The clock goes on, the worker polls, and every await ends: calls to the *)
(* provider and to the model have time limits.                             *)
Fairness == /\ \A m \in Mails : WF_vars(Due(m))
            /\ \A h \in Workers : WF_vars(Reconcile(h))
            /\ \A h \in Handlers : WF_vars(Step(h))
FairSpec == Spec /\ Fairness
-----------------------------------------------------------------------------
(* An envelope is only ever processed if its message is in the project:    *)
(* completeInboundMailEnvelope does not look, and three paths lead to it.  *)
ProcessedMailIsApplied ==
  \A m \in Mails : status[m] = "processed" =>
    m \in inbox /\ MessageOf[m] \in messages

(* What the three paths rest on: the inductive invariant of the proofs.    *)
Busy == {"retrieving", "queued", "processing"}
BusyActivationsHaveMail ==
  \A h \in Handlers : pc[h] \in Busy => current[h] \in Mails
ProcessingFollowsSave ==
  \A h \in Handlers : pc[h] = "processing" => current[h] \in inbox
InboxedMailIsApplied == \A m \in inbox : MessageOf[m] \in messages
IInv == /\ TypeOK
        /\ BusyActivationsHaveMail
        /\ ProcessingFollowsSave
        /\ InboxedMailIsApplied
        /\ ProcessedMailIsApplied

(* The service itself never turns away, or leaves to the operator, a mail  *)
(* whose message it has saved, whichever of two overlapping activations    *)
(* fails after the other one succeeded.                                    *)
AppliedMailIsNotTurnedAway ==
  [][\A m \in inbox : status[m] = "pending" =>
       \/ status'[m] \in {"pending", "processed"}
       \/ lastError'[m] = "discarded"]_vars

(* A mail the service was told of does not wait for ever: its message is   *)
(* applied, or it is turned away or left to the operator.                  *)
MailIsSettled ==
  \A m \in Mails : status[m] = "pending" ~> status[m] # "pending"

(* "... until it is enriched or explicitly resolved": an envelope that the *)
(* operator discarded does not fence the project again.                    *)
DiscardedMailStaysResolved ==
  [][\A m \in Mails : lastError[m] = "discarded" =>
       status'[m] \notin {"pending", "failed"}]_vars
=============================================================================
