------------------------- MODULE InboundMailProofs -------------------------
(***************************************************************************)
(* Theorems about InboundMail: what holds of the mail of a project for any *)
(* number of mails and of activations that overlap.                        *)
(***************************************************************************)
EXTENDS InboundMail, TLAPS

USE DEF envelopes, aggregate, tasks, bounds

(* The attempts of an envelope stay below the limit they are compared with *)
LEMMA OneMoreType ==
  ASSUME NEW n \in 0..MaxAttempts
  PROVE  OneMore(n) \in 0..MaxAttempts
  BY BoundsAssumption DEF OneMore

(* Wherever an activation goes in its batch, it ends up with an envelope to*)
(* work on or is over, and the other activations stay where they were.     *)
Moved(h) ==
  /\ pc' \in [Handlers -> {"idle", "staged", "retrieving", "queued",
                           "processing"}]
  /\ current' \in [Handlers -> Mails \cup {None}]
  /\ batch' \in [Handlers -> [Mails -> 0..MaxAttempts]]
  /\ aborted' \subseteq Handlers
  /\ pc'[h] \in {"idle", "retrieving"}
  /\ pc'[h] = "retrieving" => current'[h] \in Mails
  /\ \A g \in Handlers \ {h} : pc'[g] = pc[g] /\ current'[g] = current[g]

(* The loop of #processReady goes on with its next envelope, or ends.      *)
LEMMA GoesOnWithMoves ==
  ASSUME TypeOK, NEW h \in Handlers, NEW b \in [Mails -> 0..MaxAttempts],
         GoesOnWith(h, b)
  PROVE  Moved(h)
<1> DEFINE left == {m \in Mails : b[m] > 0}
<1>1. batch' \in [Handlers -> [Mails -> 0..MaxAttempts]]
  BY DEF GoesOnWith, TypeOK
<1>2. CASE left = {}
  BY <1>1, <1>2 DEF GoesOnWith, TypeOK, Moved
<1>3. CASE left # {}
  <2>1. PICK m \in left : current' = [current EXCEPT ![h] = m]
    BY <1>3 DEF GoesOnWith
  <2>2. /\ pc' = [pc EXCEPT ![h] = "retrieving"]
        /\ aborted' = aborted
    BY <1>3 DEF GoesOnWith
  <2> QED
    BY <1>1, <2>1, <2>2 DEF TypeOK, Moved
<1> QED
  BY <1>2, <1>3

(* What Complete and RecordFailure may do to the envelopes: they keep their*)
(* types, and only a mail that is in the inbox becomes processed.          *)
Settled ==
  /\ status' \in [Mails -> Status]
  /\ attempts' = attempts
  /\ due' \subseteq Mails
  /\ lastError' \in [Mails -> Errors]
  /\ \A m \in Mails : status'[m] = "processed" =>
       status[m] = "processed" \/ m \in inbox'

(* completeInboundMailEnvelope settles a mail that is in the inbox.        *)
LEMMA CompleteSettles ==
  ASSUME TypeOK, NEW m \in Mails, m \in inbox', Complete(m)
  PROVE  Settled
  BY DEF TypeOK, Settled, Complete, Status, Errors

(* recordInboundMailEnvelopeFailure makes no mail processed.               *)
LEMMA RecordFailureSettles ==
  ASSUME TypeOK, NEW m \in Mails, NEW how \in Failures,
         NEW retryable \in BOOLEAN, RecordFailure(m, how, retryable)
  PROVE  Settled
<1>1. CASE status[m] = "processed"
  BY <1>1 DEF TypeOK, Settled, RecordFailure
<1>2. CASE status[m] # "processed"
  <2>1. PICK s \in Status \ {"processed"}, e \in Errors :
          /\ status' = [status EXCEPT ![m] = s]
          /\ lastError' = [lastError EXCEPT ![m] = e]
    <3>1. CASE retryable
      BY <1>2, <3>1 DEF RecordFailure, Status, Errors
    <3>2. CASE ~retryable /\ how = "transient"
      BY <1>2, <3>2 DEF RecordFailure, Status, Errors
    <3>3. CASE ~retryable /\ how # "transient"
      BY <1>2, <3>3 DEF RecordFailure, Status, Errors, Failures
    <3> QED
      BY <3>1, <3>2, <3>3
  <2>2. /\ due' \subseteq due \cup {m}
        /\ attempts' = attempts
    BY <1>2 DEF RecordFailure
  <2> QED
    BY <2>1, <2>2 DEF TypeOK, Settled
<1> QED
  BY <1>1, <1>2

(* The catch clause settles its mail and moves its own activation only.    *)
LEMMA CaughtSettles ==
  ASSUME TypeOK, NEW h \in Handlers, current[h] \in Mails,
         NEW how \in Failures, Caught(h, how), inbox' = inbox
  PROVE  Settled /\ Moved(h)
<1> DEFINE m == current[h]
           retryable == how = "transient" /\ batch[h][m] < MaxAttempts
<1>1. /\ NoBatch \in [Mails -> 0..MaxAttempts]
      /\ [batch[h] EXCEPT ![m] = 0] \in [Mails -> 0..MaxAttempts]
  BY BoundsAssumption DEF NoBatch, TypeOK
<1>2. CASE m \in inbox /\ Complete(m) /\ NextMail(h)
  BY <1>1, <1>2, CompleteSettles, GoesOnWithMoves DEF NextMail
<1>3. CASE /\ m \notin inbox /\ h \in aborted
           /\ UNCHANGED envelopes /\ GivesUp(h)
  <2>1. Moved(h)
    BY <1>1, <1>3, GoesOnWithMoves DEF GivesUp
  <2> QED
    BY <2>1, <1>3 DEF Settled, TypeOK
<1>4. CASE /\ m \notin inbox /\ h \notin aborted
           /\ RecordFailure(m, how, retryable) /\ GivesUp(h)
  <2>1. Moved(h)
    BY <1>1, <1>4, GoesOnWithMoves DEF GivesUp
  <2>2. retryable \in BOOLEAN
    OBVIOUS
  <2>3. Settled
    BY <1>4, <2>2, RecordFailureSettles
  <2> QED
    BY <2>1, <2>3
<1> QED
  BY <1>2, <1>3, <1>4 DEF Caught
-----------------------------------------------------------------------------
(* With no mail, no message and no activation the invariant holds.         *)
LEMMA InitEstablishesIInv == Init => IInv
  BY BoundsAssumption
     DEF Init, IInv, TypeOK, NoBatch, Status, Errors, Busy, Messages,
         BusyActivationsHaveMail, ProcessingFollowsSave,
         InboxedMailIsApplied, ProcessedMailIsApplied

(* The steps of one activation that end its work on an envelope: what the  *)
(* other activations rely on, the inbox and the messages, only grows.      *)
LEMMA SettlingKeepsIInv ==
  ASSUME IInv, NEW h \in Handlers, Moved(h), Settled,
         inbox \subseteq inbox', inbox' \subseteq Mails,
         messages' \subseteq Messages, InboxedMailIsApplied',
         project' = project, queue' \in Seq(Handlers), UNCHANGED bounds
  PROVE  IInv'
<1>1. TypeOK'
  BY DEF IInv, TypeOK, Moved, Settled
<1>2. BusyActivationsHaveMail'
  <2> SUFFICES ASSUME NEW g \in Handlers, pc'[g] \in Busy
               PROVE  current'[g] \in Mails
    BY DEF BusyActivationsHaveMail
  <2> QED
    BY DEF IInv, BusyActivationsHaveMail, Moved, Busy
<1>3. ProcessingFollowsSave'
  BY DEF IInv, ProcessingFollowsSave, Moved
<1>4. ProcessedMailIsApplied'
  BY DEF IInv, ProcessedMailIsApplied, Settled, InboxedMailIsApplied
<1> QED
  BY <1>1, <1>2, <1>3, <1>4 DEF IInv

(* The turn passes to the next activation that waits for it.               *)
LEMMA TailType ==
  ASSUME TypeOK, queue # <<>>
  PROVE  Tail(queue) \in Seq(Handlers)
  BY DEF TypeOK

(* The message and the inbox row are one transaction.                      *)
LEMMA SaveApplies ==
  ASSUME IInv, NEW m \in Mails, Save(m)
  PROVE  /\ m \in inbox' /\ inbox \subseteq inbox' /\ inbox' \subseteq Mails
         /\ messages' \subseteq Messages /\ messages \subseteq messages'
         /\ InboxedMailIsApplied' /\ project' = project
  BY DEF IInv, TypeOK, Save, Messages, InboxedMailIsApplied

(* Claiming types the batch; the activation starts with its first mail.    *)
LEMMA ClaimKeepsIInv ==
  ASSUME IInv, NEW h \in Handlers, Claim(h)
  PROVE  IInv'
<1> DEFINE claimed ==
             {m \in Ready : Cardinality({q \in Ready : q < m}) < BatchSize}
           b == [m \in Mails |->
                   IF m \in claimed THEN OneMore(attempts[m]) ELSE 0]
<1>1. /\ attempts' = [m \in Mails |-> IF m \in claimed
                                      THEN OneMore(attempts[m])
                                      ELSE attempts[m]]
      /\ due' = due \ claimed
      /\ GoesOnWith(h, b)
      /\ UNCHANGED <<status, lastError, aggregate, queue, bounds>>
  BY DEF Claim
<1> HIDE DEF claimed
<1>2. b \in [Mails -> 0..MaxAttempts]
  BY OneMoreType, BoundsAssumption DEF IInv, TypeOK
<1>3. attempts' \in [Mails -> 0..MaxAttempts]
  BY <1>1, OneMoreType DEF IInv, TypeOK
<1> HIDE DEF b
<1>4. Moved(h)
  BY <1>1, <1>2, GoesOnWithMoves DEF IInv
<1>5. TypeOK'
  BY <1>1, <1>3, <1>4 DEF IInv, TypeOK, Moved
<1>6. /\ BusyActivationsHaveMail' /\ ProcessingFollowsSave'
  BY <1>1, <1>4 DEF IInv, BusyActivationsHaveMail, ProcessingFollowsSave,
                    Busy, Moved
<1>7. InboxedMailIsApplied' /\ ProcessedMailIsApplied'
  BY <1>1 DEF IInv, InboxedMailIsApplied, ProcessedMailIsApplied
<1> QED
  BY <1>5, <1>6, <1>7 DEF IInv

(* The loop of #processReady, one step per action.                         *)
LEMMA StepKeepsIInv ==
  ASSUME IInv, NEW h \in Handlers, Step(h)
  PROVE  IInv'
<1>1. pc[h] \in Busy => current[h] \in Mails
  BY DEF IInv, BusyActivationsHaveMail
<1>2. CASE ProcessReady(h)
  BY <1>2, ClaimKeepsIInv DEF ProcessReady
<1>3. ASSUME NEW how \in Failures, RetrieveFails(h, how) PROVE IInv'
  <2>1. Settled /\ Moved(h)
    BY <1>1, <1>3, CaughtSettles DEF RetrieveFails, IInv, Busy
  <2> QED
    BY <1>3, <2>1, SettlingKeepsIInv
       DEF RetrieveFails, IInv, TypeOK, InboxedMailIsApplied
<1>4. CASE Retrieved(h)
  <2>1. queue' \in Seq(Handlers)
    BY <1>4 DEF Retrieved, IInv, TypeOK
  <2>2. TypeOK'
    BY <1>4, <2>1 DEF Retrieved, IInv, TypeOK
  <2>3. BusyActivationsHaveMail' /\ ProcessingFollowsSave'
    BY <1>1, <1>4 DEF Retrieved, IInv, TypeOK, Busy,
                      BusyActivationsHaveMail, ProcessingFollowsSave
  <2> QED
    BY <1>4, <2>2, <2>3
       DEF Retrieved, IInv, InboxedMailIsApplied, ProcessedMailIsApplied
<1>5. CASE Refused(h)
  <2>1. Settled /\ Moved(h)
    BY <1>1, <1>5, CaughtSettles DEF Refused, HasTurn, IInv, Busy, Failures
  <2>2. queue' \in Seq(Handlers)
    BY <1>5, TailType DEF Refused, HasTurn, IInv
  <2> QED
    BY <1>5, <2>1, <2>2, SettlingKeepsIInv
       DEF Refused, IInv, TypeOK, InboxedMailIsApplied
<1>6. CASE Saved(h)
  <2>1. current[h] \in Mails /\ queue' \in Seq(Handlers)
    BY <1>1, <1>6, TailType DEF Saved, HasTurn, Busy, IInv
  <2>2. [batch[h] EXCEPT ![current[h]] = 0] \in [Mails -> 0..MaxAttempts]
    BY <2>1, BoundsAssumption DEF IInv, TypeOK
  <2>3. Moved(h)
    BY <1>6, <2>2, GoesOnWithMoves DEF Saved, NextMail, IInv
  <2>4. Settled
    BY <1>6, <2>1, SaveApplies, CompleteSettles DEF Saved, IInv
  <2> QED
    BY <1>6, <2>1, <2>3, <2>4, SaveApplies, SettlingKeepsIInv DEF Saved
<1>7. CASE SavedAndProcessing(h)
  <2>1. current[h] \in Mails
    BY <1>1, <1>7 DEF SavedAndProcessing, HasTurn, Busy
  <2>2. /\ current[h] \in inbox' /\ inbox \subseteq inbox'
        /\ inbox' \subseteq Mails /\ messages' \subseteq Messages
        /\ messages \subseteq messages'
        /\ InboxedMailIsApplied' /\ project' = project
    BY <1>7, <2>1, SaveApplies DEF SavedAndProcessing
  <2>3. TypeOK'
    BY <1>7, <2>2 DEF SavedAndProcessing, IInv, TypeOK
  <2>4. BusyActivationsHaveMail' /\ ProcessingFollowsSave'
    BY <1>7, <2>1, <2>2 DEF SavedAndProcessing, IInv, TypeOK, Busy,
                      BusyActivationsHaveMail, ProcessingFollowsSave
  <2>5. ProcessedMailIsApplied'
    BY <1>7, <2>2 DEF SavedAndProcessing, IInv, ProcessedMailIsApplied
  <2> QED
    BY <2>2, <2>3, <2>4, <2>5 DEF IInv
<1>8. CASE Processed(h)
  <2>1. /\ current[h] \in Mails /\ current[h] \in inbox
        /\ queue' \in Seq(Handlers)
    BY <1>1, <1>8, TailType
       DEF Processed, HasTurn, Busy, IInv, ProcessingFollowsSave
  <2>2. [batch[h] EXCEPT ![current[h]] = 0] \in [Mails -> 0..MaxAttempts]
    BY <2>1, BoundsAssumption DEF IInv, TypeOK
  <2>3. /\ UNCHANGED <<aggregate, bounds>>
        /\ \/ Complete(current[h]) /\ NextMail(h)
           \/ \E how \in Failures : Caught(h, how)
    BY <1>8 DEF Processed
  <2>4. Settled /\ Moved(h)
    <3>1. CASE Complete(current[h]) /\ NextMail(h)
      BY <2>1, <2>2, <2>3, <3>1, CompleteSettles, GoesOnWithMoves
         DEF NextMail, IInv
    <3>2. ASSUME NEW how \in Failures, Caught(h, how)
          PROVE  Settled /\ Moved(h)
      BY <2>1, <2>3, <3>2, CaughtSettles DEF IInv
    <3> QED
      BY <2>3, <3>1, <3>2
  <2> QED
    BY <2>1, <2>3, <2>4, SettlingKeepsIInv
       DEF IInv, TypeOK, InboxedMailIsApplied
<1> QED
  BY <1>2, <1>3, <1>4, <1>5, <1>6, <1>7, <1>8 DEF Step

(* Every step keeps the invariant: the loop of an activation, and what the *)
(* webhooks, the clock, the operator, the rest of the orchestrator and a   *)
(* crash do around it.                                                     *)
LEMMA NextKeepsIInv ==
  ASSUME IInv, [Next]_vars
  PROVE  IInv'
<1> USE DEF IInv, TypeOK, BusyActivationsHaveMail, ProcessingFollowsSave,
            InboxedMailIsApplied, ProcessedMailIsApplied
<1>1. ASSUME NEW h \in Handlers, NEW m \in Mails, Deliver(h, m) PROVE IInv'
  <2>1. TypeOK'
    BY <1>1 DEF Deliver, Status
  <2> QED
    BY <1>1, <2>1 DEF Deliver, Busy
<1>2. ASSUME NEW h \in Handlers, Reconcile(h) PROVE IInv'
  BY <1>2, ClaimKeepsIInv DEF Reconcile
<1>3. ASSUME NEW h \in Handlers, Abort(h) PROVE IInv'
  BY <1>3, BoundsAssumption DEF Abort
<1>4. ASSUME NEW h \in Handlers, Step(h) PROVE IInv'
  BY <1>4, StepKeepsIInv
<1>5. ASSUME NEW m \in Mails, Due(m) PROVE IInv'
  BY <1>5 DEF Due
<1>6. ASSUME NEW m \in Mails, Retry(m) PROVE IInv'
  BY <1>6, BoundsAssumption DEF Retry, Status, Errors
<1>7. ASSUME NEW m \in Mails, Discard(m) PROVE IInv'
  BY <1>7 DEF Discard, Status, Errors
<1>8. CASE ProjectMoves
  BY <1>8 DEF ProjectMoves
<1>9. CASE Crash
  <2>1. TypeOK'
    BY <1>9, BoundsAssumption DEF Crash, NoBatch
  <2> QED
    BY <1>9, <2>1 DEF Crash, Busy
<1>10. CASE UNCHANGED vars
  BY <1>10 DEF vars
<1> QED
  BY <1>1, <1>2, <1>3, <1>4, <1>5, <1>6, <1>7, <1>8, <1>9, <1>10 DEF Next

(* The inductive invariant holds in every state of every behaviour.        *)
THEOREM Invariance == Spec => []IInv
<1>1. IInv /\ [Next]_vars => IInv'
  BY NextKeepsIInv
<1> QED
  BY <1>1, InitEstablishesIInv, PTL DEF Spec

(* The envelopes, the inbox, the messages, the project's queue and the     *)
(* activations keep their types, for any number of mails and activations.  *)
THEOREM MailTypeCorrect == Spec => []TypeOK
<1>1. IInv => TypeOK
  BY DEF IInv
<1> QED
  BY <1>1, Invariance, PTL

(* Whichever of the three paths to completeInboundMailEnvelope an envelope *)
(* takes, and whoever overlaps, its message is in the project by then.     *)
THEOREM ProcessedApplied == Spec => []ProcessedMailIsApplied
<1>1. IInv => ProcessedMailIsApplied
  BY DEF IInv
<1> QED
  BY <1>1, Invariance, PTL
-----------------------------------------------------------------------------
(* What a step may do to a pending mail whose message is saved.            *)
NotTurnedAway(m) == \/ status'[m] \in {"pending", "processed"}
                    \/ lastError'[m] = "discarded"

(* The catch clause looks for the message before it records the failure.   *)
LEMMA CaughtTurnsNothingAway ==
  ASSUME IInv, NEW h \in Handlers, NEW how, Caught(h, how),
         current[h] \in Mails, NEW m \in inbox, status[m] = "pending"
  PROVE  NotTurnedAway(m)
<1>1. CASE current[h] = m
  BY <1>1 DEF Caught, Complete, NotTurnedAway, IInv, TypeOK
<1>2. CASE current[h] # m
  BY <1>2 DEF Caught, Complete, RecordFailure, NotTurnedAway, IInv, TypeOK
<1> QED
  BY <1>1, <1>2

(* No step of the loop of #processReady turns a mail of the inbox away.    *)
LEMMA StepTurnsNothingAway ==
  ASSUME IInv, NEW h \in Handlers, Step(h),
         NEW m \in inbox, status[m] = "pending"
  PROVE  NotTurnedAway(m)
<1>1. pc[h] \in Busy => current[h] \in Mails
  BY DEF IInv, BusyActivationsHaveMail
<1>2. ASSUME NEW how \in Failures, RetrieveFails(h, how)
      PROVE  NotTurnedAway(m)
  BY <1>1, <1>2, CaughtTurnsNothingAway DEF RetrieveFails, Busy
<1>3. CASE Refused(h)
  BY <1>1, <1>3, CaughtTurnsNothingAway DEF Refused, HasTurn, Busy
<1>4. CASE Saved(h)
  BY <1>4 DEF Saved, Complete, NotTurnedAway, IInv, TypeOK
<1>5. CASE Processed(h)
  <2>1. current[h] \in Mails
    BY <1>1, <1>5 DEF Processed, HasTurn, Busy
  <2>2. CASE Complete(current[h])
    BY <2>1, <2>2 DEF Complete, NotTurnedAway, IInv, TypeOK
  <2>3. ASSUME NEW how \in Failures, Caught(h, how) PROVE NotTurnedAway(m)
    BY <2>1, <2>3, CaughtTurnsNothingAway
  <2> QED
    BY <1>5, <2>2, <2>3 DEF Processed
<1>6. CASE ProcessReady(h) \/ Retrieved(h) \/ SavedAndProcessing(h)
  <2>1. status' = status
    BY <1>6 DEF ProcessReady, Claim, Retrieved, SavedAndProcessing
  <2> QED
    BY <2>1 DEF NotTurnedAway
<1> QED
  BY <1>2, <1>3, <1>4, <1>5, <1>6 DEF Step

(* A failure of one activation never undoes what an overlapping one has    *)
(* saved: only the operator turns such a mail away.                        *)
THEOREM AppliedKept == Spec => AppliedMailIsNotTurnedAway
<1>1. ASSUME IInv, [Next]_vars, NEW m \in inbox, status[m] = "pending"
      PROVE  NotTurnedAway(m)
  <2>1. m \in Mails
    BY <1>1 DEF IInv, TypeOK
  <2>2. ASSUME NEW h \in Handlers, Step(h) PROVE NotTurnedAway(m)
    BY <1>1, <2>2, StepTurnsNothingAway
  <2>3. ASSUME NEW q \in Mails, Retry(q) \/ Discard(q)
        PROVE  NotTurnedAway(m)
    BY <1>1, <2>1, <2>3 DEF Retry, Discard, NotTurnedAway, IInv, TypeOK
  <2>4. ASSUME NEW h \in Handlers, NEW q \in Mails, Deliver(h, q)
        PROVE  NotTurnedAway(m)
    BY <1>1, <2>1, <2>4 DEF Deliver, NotTurnedAway, IInv, TypeOK
  <2>5. CASE UNCHANGED status
    BY <1>1, <2>5 DEF NotTurnedAway
  <2> QED
    BY <1>1, <2>2, <2>3, <2>4, <2>5
       DEF Next, vars, Reconcile, Claim, Abort, Due, ProjectMoves, Crash
<1>2. IInv /\ [Next]_vars =>
        [\A m \in inbox : status[m] = "pending" =>
           \/ status'[m] \in {"pending", "processed"}
           \/ lastError'[m] = "discarded"]_vars
  BY <1>1 DEF NotTurnedAway
<1> QED
  BY <1>2, Invariance, PTL DEF Spec, AppliedMailIsNotTurnedAway
=============================================================================
