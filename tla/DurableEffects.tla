--------------------------- MODULE DurableEffects ---------------------------
(***************************************************************************)
(* The durable effects of a project of the orchestrator (DurableEffect in  *)
(* src/src/orchestration/domain/project.ts): the intent to call a provider *)
(* is saved before the call, its receipt after it, and a failed call is    *)
(* retried with backoff or dead-lettered.  An effect here is its status,   *)
(* its attempts, and what it waits for: a retry (nextAttemptAt), the next  *)
(* look at a provider whose answer was "pending" (nextCheckAt), or nothing.*)
(* The two times exclude each other: each place that sets one deletes the  *)
(* other.  Keys, receipts and digests only tell effects apart.             *)
(***************************************************************************)
EXTENDS Naturals

CONSTANT MaxAttempts   \* effectMaxAttempts of the orchestrator

ASSUME MaxAttemptsAssumption == MaxAttempts \in Nat \ {0}

Effects == [st   : {"absent", "pending", "completed", "failed"},
            n    : 0..MaxAttempts,
            wait : {"none", "retry", "check"}]

NoEffect == [st |-> "absent", n |-> 0, wait |-> "none"]

\* addPendingEffect: an effect that exists is left as it is, whatever its
\* status.
Queued(e) == IF e.st = "absent"
             THEN [st |-> "pending", n |-> 1, wait |-> "none"]
             ELSE e

Completed(e) == [e EXCEPT !.st = "completed", !.wait = "none"]

DeadLettered(e) == [e EXCEPT !.st = "failed", !.wait = "none"]

\* #recordPendingEffectFailure: the failure of a pending effect that has no
\* retry scheduled yet.
Chargeable(e) == e.st = "pending" /\ e.wait # "retry"

Charged(e, retryable) == IF ~retryable \/ e.n >= MaxAttempts
                         THEN DeadLettered(e)
                         ELSE [e EXCEPT !.wait = "retry"]

\* #prepareEffectRetry, once nextAttemptAt has passed.  Only effects with an
\* attempt left are scheduled, so its retry_exhausted branch is never taken.
Retrying(e) == e.st = "pending" /\ e.wait = "retry"

Retried(e) == [e EXCEPT !.n = @ + 1, !.wait = "none"]

\* #scheduleProviderRecheck and #beginProviderCheck.
Rescheduled(e) == IF e.st = "pending"
                  THEN [st |-> "pending", n |-> 1, wait |-> "check"]
                  ELSE e

Checking(e) == IF e.wait = "check" THEN [e EXCEPT !.wait = "none"] ELSE e
=============================================================================
