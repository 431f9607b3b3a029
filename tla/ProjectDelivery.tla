-------------------------- MODULE ProjectDelivery --------------------------
(***************************************************************************)
(* One paid project in the hands of the orchestration agent                *)
(* (src/src/orchestration/application/orchestration-agent.ts): from the    *)
(* verified payment of version 1 of its plan, through builds, previews and *)
(* customer revisions, to the release and the mail that hands it over.     *)
(*                                                                         *)
(* ProjectSerialExecutor gives the operations on a project one turn at a   *)
(* time, so there is one operation (op), whose local copy of the aggregate *)
(* is the stored one.  Its steps are the saves of the code; between two of *)
(* them it may wait for a provider (op.call), and meanwhile a mail of the  *)
(* customer is staged, a build ends, a deadline passes, or the process     *)
(* dies.  What is read before such a wait is used after it.                *)
(***************************************************************************)
EXTENDS DurableEffects, FiniteSets

CONSTANTS Versions,    \* of the plan: 1 is paid, the others revise it
          Candidates,  \* of a batch; a greater number is a better candidate
          Mails,       \* messages that come by mail, with an envelope
          Steers,      \* messages that come from the dashboard
          Questions,   \* what a customer may be asked
          Outcomes,    \* what the reasoner may make of open messages
          None,
          MaxFaults,   \* bound: crashes and failed calls
          MaxReplays   \* bound: webhooks of a payment that is recorded

ASSUME PlanAssumption ==
  /\ Versions \subseteq Nat \ {0} /\ 1 \in Versions
  /\ Candidates \subseteq Nat \ {0} /\ Questions \subseteq Nat \ {0}
  /\ None \notin Mails \cup Steers
  /\ Outcomes \subseteq {"question", "no change", "revision"}
  /\ {MaxFaults, MaxReplays} \subseteq Nat

VARIABLES
  project,  \* the stored aggregate
  op,       \* the operation that has the project's turn
  inbound,  \* the unresolved envelopes of the project
  backend,  \* the runs, as the build backend has them
  outbox,   \* its proven events: absent, unread or acknowledged
  outside,  \* the previews, releases and final mails the customer has seen
  clock,    \* the deadlines of the active batch that have passed
  faults, replays

providers == <<backend, outbox, outside>>
bounds    == <<faults, replays>>
world     == <<inbound, providers, clock, bounds>>
vars      == <<project, op, world>>

Messages == Mails \cup Steers
Keys == {<<"confirm", 1, 0>>}
   \cup {"question"} \X Questions \X {0}
   \cup {"steer", "dispatch", "access"} \X Versions \X {0}
   \cup {"cancel", "ack", "materialize", "deploy", "proof",
         "preview", "final", "check preview", "check final"}
        \X Versions \X Candidates
NoKey == <<"none", 0, 0>>

(* The mails whose delivery is followed, and the effect that follows it.   *)
Tracked == {"preview", "final"} \X Versions \X Candidates
Check(k) == <<IF k[1] = "preview" THEN "check preview" ELSE "check final",
              k[2], k[3]>>

Parked == {"needs_operator_attention", "deployment_verification_failed"}
Over   == Parked \cup {"completed"}
Status == Over \cup {"paid", "building", "verifying", "preview_ready",
                     "deploying", "delivering", "revision_pending",
                     "needs_clarification", "no_proven_candidate"}
BatchStatus == {"none", "pending", "dispatched", "building", "verifying",
                "completed", "failed", "cancelled"}
Terminal == {"passed", "rejected", "cancelled"}

Projects == [status : Status, active : Versions,
             batch : Versions \cup {0}, questions : Questions \cup {0},
             st : [Versions -> BatchStatus],
             grace : SUBSET Versions,
             runs : [Versions -> [Candidates -> Terminal \cup
                                                {"none", "running"}]],
             proven : SUBSET (Versions \X Candidates),
             preview : [Versions -> Candidates \cup {0}],
             release : [Versions -> Candidates \cup {0}],
             saved : SUBSET Messages, consumed : SUBSET Messages,
             mail : [Tracked -> {"none", "sent", "delivered", "bounced"}],
             eff : [Keys -> Effects]]

Labels == {"idle", "mail", "route", "process", "clarify", "confirm", "paid",
           "redispatch", "supersede", "steer", "dispatch", "assign", "access",
           "batch", "open", "watch", "refresh", "ingest", "decide", "retire",
           "finalize", "materialize", "show", "ack", "review", "deploy",
           "upload", "finish", "prove", "hand", "end"}
Ops == [at : Labels, then : Labels, v : Versions \cup {0}, c : Nat,
        mail : Messages \cup {None}, prior : Status \cup {"none"},
        key : Keys \cup {NoKey}, call : {"none", "query", "effect"},
        replay : BOOLEAN]  \* whether a repeated webhook of a payment began it
Idle == [at |-> "idle", then |-> "end", v |-> 0, c |-> 0, mail |-> None,
         prior |-> "none", key |-> NoKey, call |-> "none", replay |-> FALSE]

Deadlines == {"build", "grace", "review", "preview", "final"}

TypeOK == /\ project \in Projects /\ op \in Ops
          /\ inbound \subseteq Mails
          /\ backend \in [Versions -> [Candidates ->
                            Terminal \cup {"none", "running", "cancelling"}]]
          /\ outbox \in [Versions -> [Candidates ->
                            {"absent", "unread", "acknowledged"}]]
          /\ outside \subseteq {"preview", "deploy", "final"}
                               \X Versions \X Candidates
          /\ clock \subseteq Deadlines
          /\ faults \in 0..MaxFaults /\ replays \in 0..MaxReplays

ForAll(x) == [v \in Versions |-> [c \in Candidates |-> x]]

Init == /\ project = [status |-> "paid", active |-> 1, batch |-> 0,
                      questions |-> 0,
                      st |-> [v \in Versions |-> "none"], grace |-> {},
                      runs |-> ForAll("none"), proven |-> {},
                      preview |-> [v \in Versions |-> 0],
                      release |-> [v \in Versions |-> 0],
                      saved |-> {}, consumed |-> {},
                      mail |-> [k \in Tracked |-> "none"],
                      eff |-> [k \in Keys |-> NoEffect]]
        /\ op = Idle /\ inbound = {}
        /\ backend = ForAll("none") /\ outbox = ForAll("absent")
        /\ outside = {} /\ clock = {}
        /\ faults = 0 /\ replays = 0
-----------------------------------------------------------------------------
(* What the code reads off the aggregate.                                  *)

Unapplied(p) == p.saved \ p.consumed

(* boundedPendingMessageBatch: the reasoner is given the oldest of them, up*)
(* to 50 messages and 200000 characters, and the others stay open.  Order  *)
(* and size are left out: any of them may be the ones that fit.            *)
Batches(p) == SUBSET Unapplied(p) \ {{}}

(* #isLatestDeliverableBatch                                               *)
Latest(p, v) == p.active = v /\ p.questions = 0 /\ Unapplied(p) = {}

(* The active batch, unless it has ended in one of these ways.             *)
Active(p, ended) == {v \in Versions : v = p.batch /\ p.st[v] \notin ended}

Full(p, v) == \A c \in Candidates : p.runs[v][c] # "none"
Unfinished(p, v) == {c \in Candidates : p.runs[v][c] = "running"}
Proven(p, v) == {c \in Candidates : <<v, c>> \in p.proven}

(* buildProgressStatus, of a project all of whose versions are paid for.   *)
Progress(p, next) == IF p.batch # 0 /\ p.questions # 0
                     THEN "needs_clarification" ELSE next

(* stableProjectStatus                                                     *)
Stable(p) ==
  LET b == p.batch
      handed == p.mail[<<"final", b, p.release[b]>>]
  IN IF p.status # "revision_pending" THEN p.status
     ELSE IF b = 0 THEN "paid"
     ELSE IF p.release[b] # 0
       THEN CASE handed = "delivered" -> "completed"
              [] handed = "none" -> "deploying"
              [] OTHER -> "delivering"
     ELSE IF p.preview[b] # 0 THEN "preview_ready"
     ELSE CASE p.st[b] = "verifying" -> "verifying"
            [] p.st[b] \in {"pending", "dispatched", "building"} -> "building"
            [] OTHER -> "paid"

(* activeRequiredMailEffect, for the mails of the active batch.            *)
Required(p, k) == /\ p.eff[k].st = "completed" /\ k[2] = p.batch
                  /\ k[3] = IF k[1] = "preview" THEN p.preview[p.batch]
                                                ELSE p.release[p.batch]

(* Faulty variant: a schema without the rule for completed projects.       *)
Savable_Anything(p) == TRUE

(* What the schema of the aggregate refuses to save.                       *)
Savable(p) == p.status = "completed" =>
                /\ p.batch = p.active /\ p.release[p.active] # 0
                /\ LET k == <<"final", p.active, p.release[p.active]>>
                   IN p.eff[k].st = "completed" /\ p.mail[k] = "delivered"
-----------------------------------------------------------------------------
(* The steps of an operation: a save, and then the next wait or the end.   *)

At(l)       == op.at = l /\ op.call = "none"
Answered(l) == op.at = l /\ op.call # "none"
GoesTo(l)   == op' = [op EXCEPT !.at = l, !.call = "none"]

Saves(p, l)    == project' = p /\ GoesTo(l) /\ UNCHANGED world
Goes(l)        == Saves(project, l)
Enters(l, t)   == /\ op' = [op EXCEPT !.at = l, !.then = t]
                  /\ UNCHANGED <<project, world>>
Continues      == Goes(op.then)

(* #assertNoUnresolvedInboundMail throws PendingInboundMailError, which is *)
(* charged to no effect.                                                   *)
Fenced == inbound # {}

(* A provider is asked; markEffectAttempt, for what can be charged.        *)
Asks(p, l, k, call) ==
  /\ project' = p
  /\ op' = [op EXCEPT !.at = l, !.key = k, !.call = call]
  /\ UNCHANGED world
Calls(k) == Asks([project EXCEPT !.eff[k] = Queued(@)], op.at, k, "effect")

(* What a provider does for an effect.                                     *)
Acts(k) ==
  /\ backend' =
       CASE k[1] = "dispatch" ->
              [backend EXCEPT ![op.v][op.c] = IF @ = "none" THEN "running" ELSE @]
         [] k[1] = "cancel" ->
              [backend EXCEPT ![op.v][op.c] = IF @ = "running" THEN "cancelling"
                                                               ELSE @]
         [] OTHER -> backend
  /\ outbox' = IF k[1] = "ack" THEN [outbox EXCEPT ![k[2]][k[3]] = "acknowledged"]
                               ELSE outbox
  /\ outside' = IF k[1] \in {"preview", "deploy", "final"} THEN outside \cup {k}
                                                           ELSE outside

(* The answer arrives, and what it says is saved.                          *)
Returns(p, l) == /\ project' = p /\ GoesTo(l)
                 /\ IF op.call = "effect" THEN Acts(op.key)
                                          ELSE UNCHANGED providers
                 /\ UNCHANGED <<inbound, clock, bounds>>

Done(p) == [p EXCEPT !.eff[op.key] = Completed(@)]

(* #recordPendingEffectFailure and #failEffect.                            *)
Blamed(p, k, retryable) ==
  IF k = NoKey \/ ~Chargeable(p.eff[k]) THEN p ELSE
  LET e == Charged(p.eff[k], retryable)
  IN [p EXCEPT !.eff[k] = e,
               !.status = IF e.st # "failed" THEN @
                          ELSE IF k[1] = "deploy"
                            THEN "deployment_verification_failed"
                            ELSE "needs_operator_attention"]

(* #runWithEffectFailure: the error goes to the effect attempted last.     *)
Throws(retryable) == project' = Blamed(project, op.key, retryable)
                     /\ GoesTo("end")

(* While evidence of a build is collected after a deadline of the batch, a *)
(* transient failure counts as an answer.                                  *)
Tolerated(retryable) == /\ op.at \in {"refresh", "ingest"} /\ retryable
                        /\ {"build", "grace"} \cap clock # {}

CallFails(how) ==
  /\ op.call # "none" /\ faults < MaxFaults /\ faults' = faults + 1
  /\ how = "lost" => op.call = "effect"
  /\ IF how = "lost" THEN Acts(op.key) ELSE UNCHANGED providers
  /\ \/ ~Tolerated(how # "permanent") /\ Throws(how # "permanent")
     \/ /\ Tolerated(how # "permanent")
        /\ GoesTo(IF "build" \in clock
                     /\ Unfinished(project, op.v) # {} THEN "retire"
                                                       ELSE "finalize")
        /\ UNCHANGED project
  /\ UNCHANGED <<inbound, clock, replays>>

(* The process dies; a call under way may have reached the provider.       *)
Crash == /\ op # Idle /\ faults < MaxFaults /\ faults' = faults + 1
         /\ op' = Idle
         /\ \/ UNCHANGED providers
            \/ op.call = "effect" /\ Acts(op.key)
         /\ UNCHANGED <<project, inbound, clock, replays>>

(* The turn ends; the envelope of a mail whose message is saved is done.   *)
End == /\ At("end")
       /\ op' = Idle /\ inbound' = inbound \ {op.mail}
       /\ UNCHANGED <<project, providers, clock, bounds>>
-----------------------------------------------------------------------------
(* reconcileProject, by the worker.  A retry that is not due yet defers    *)
(* the whole project; any of those scheduled may come due first.           *)
Reconcile ==
  /\ op = Idle /\ ~Fenced /\ project.status \notin Over
  /\ LET scheduled == {k \in Keys : Retrying(project.eff[k])}
     IN project' \in IF scheduled = {} THEN {project}
                     ELSE {[project EXCEPT !.eff[k] = Retried(@)] :
                             k \in scheduled}
  /\ op' = [Idle EXCEPT !.at = "mail"]
  /\ UNCHANGED world

(* #recordMailDelivery                                                     *)
Delivery(p, k, result) ==
  [p EXCEPT
     !.mail[k] = IF @ = "sent" THEN result ELSE @,
     !.status = CASE result = "bounced" /\ Required(p, k)
                       /\ p.mail[k] # "delivered" -> "needs_operator_attention"
                  [] result = "delivered" /\ p.mail[k] # "bounced"
                       /\ Required(p, k) /\ k[1] = "final"
                       -> Progress(p, "completed")
                  [] OTHER -> @,
     !.eff[Check(k)] = IF @.st # "pending" THEN @
                       ELSE IF result = "delivered" THEN Completed(@)
                                                    ELSE DeadLettered(@)]

(* A webhook of the mail provider; one that cannot be saved is refused.    *)
(* One about any other mail only notes what nobody asks about again.       *)
Webhook(k, result) ==
  /\ op = Idle /\ Required(project, k)
  /\ project' = Delivery(project, k, result)
  /\ project' # project /\ Savable(project')
  /\ UNCHANGED <<op, world>>

(* #reconcileRequiredMailDelivery                                          *)
Awaited == {k \in Tracked : project.mail[k] = "sent" /\ Required(project, k)}

(* Faulty variant: the delivery deadline is not looked at.                 *)
LookForMail_NoDeadline ==
  /\ At("mail")
  /\ \/ Awaited = {} /\ Goes("route")
     \/ \E k \in Awaited :
          LET key == Check(k)
              p == [project EXCEPT !.eff[key] = Queued(@)]
          IN IF p.eff[key].wait = "check" THEN Saves(p, "route")
             ELSE Asks([p EXCEPT !.eff[key] = Checking(@)], "mail", key, "query")

LookForMail ==
  /\ At("mail")
  /\ \/ Awaited = {} /\ Goes("route")
     \/ \E k \in Awaited :
          LET key == Check(k)
              p == [project EXCEPT !.eff[key] = Queued(@)]
              late == k[1] \in clock
          IN \/ /\ late /\ p.eff[key].st = "pending"
                /\ Saves([p EXCEPT !.eff[key] = DeadLettered(@),
                                   !.status = "needs_operator_attention"], "end")
             \/ late /\ p.eff[key].st # "pending" /\ Saves(p, "route")
             \/ ~late /\ p.eff[key].wait = "check" /\ Saves(p, "route")
             \/ ~late /\ Asks([p EXCEPT !.eff[key] = Checking(@)],
                              "mail", key, "query")

MailChecked ==
  /\ Answered("mail")
  /\ \E k \in Awaited :
       \/ Returns([project EXCEPT !.eff[Check(k)] = Rescheduled(@)], "route")
       \/ \E result \in {"delivered", "bounced"} :
            LET p == Delivery(project, k, result)
            IN \/ Savable(p) /\ Returns(p, "route")
               \/ ~Savable(p) /\ Throws(TRUE) /\ UNCHANGED world

(* #reconcileProjectOnce                                                   *)
Route ==
  /\ At("route")
  /\ LET p == project IN
     \/ p.status \in Over /\ Goes("end")
     \/ /\ p.status = "needs_clarification" /\ p.questions # 0
        /\ op' = [op EXCEPT !.at = "clarify", !.then = "batch", !.c = p.questions]
        /\ UNCHANGED <<project, world>>
     \/ /\ p.status = "revision_pending" /\ Unapplied(p) # {}
        /\ op' = [op EXCEPT !.at = "process", !.then = "batch",
                            !.prior = Stable(p)]
        /\ UNCHANGED <<project, world>>
     \/ /\ p.status = "paid" /\ p.active # 1
        /\ Enters(IF p.batch \notin {0, p.active} THEN "supersede" ELSE "steer",
                  "end")
     \/ p.status = "paid" /\ p.active = 1 /\ Enters("confirm", "end")
     \/ /\ \/ p.status \notin Over \cup {"needs_clarification",
                                         "revision_pending", "paid"}
           \/ p.status = "needs_clarification" /\ p.questions = 0
           \/ p.status = "revision_pending" /\ Unapplied(p) = {}
        /\ Enters("batch", "end")
-----------------------------------------------------------------------------
(* Customer messages.                                                      *)

(* stageInboundMailEnvelope, at any time.                                  *)
MailArrives(m) == /\ m \notin inbound \cup project.saved
                  /\ inbound' = inbound \cup {m}
                  /\ UNCHANGED <<project, op, providers, clock, bounds>>

(* #receiveCustomerMessage                                                 *)
Received(p, m) ==
  IF p.status \in Parked THEN [p EXCEPT !.saved = @ \cup {m}]
  ELSE [p EXCEPT !.saved = @ \cup {m}, !.questions = 0,
                 !.status = "revision_pending"]

Receive(m) ==
  /\ op = Idle
  /\ m \in inbound \/ (m \in Steers /\ m \notin project.consumed)
  /\ project' = IF m \in project.consumed THEN project
                                          ELSE Received(project, m)
  /\ IF m \in project.consumed \/ project.status \in Parked
       THEN inbound' = inbound \ {m} /\ UNCHANGED op
       ELSE /\ op' = [Idle EXCEPT !.at = "process", !.mail = m,
                                  !.prior = Stable(project)]
            /\ UNCHANGED inbound
  /\ UNCHANGED <<providers, clock, bounds>>

(* #processSavedCustomerMessages: the reasoner is asked about a batch of   *)
(* what is open, which no effect stands for.  A new quote for a plan that  *)
(* is paid for is not modelled.                                            *)
Process == At("process") /\ Asks(project, "process", op.key, "query")

Understood ==
  /\ Answered("process")
  /\ \/ \E batch \in Batches(project) :
          LET p == [project EXCEPT !.consumed = @ \cup batch] IN
          \/ /\ "no change" \in Outcomes
             /\ LET q == [p EXCEPT !.status = op.prior]
                IN \/ Savable(q) /\ Returns(q, op.then)
                   \/ ~Savable(q) /\ Throws(TRUE) /\ UNCHANGED world
          \/ /\ "revision" \in Outcomes /\ project.active + 1 \in Versions
             /\ Returns([p EXCEPT !.active = @ + 1, !.status = "paid"],
                        "supersede")
     \/ /\ "question" \in Outcomes
        /\ \E q \in Questions : op' = [op EXCEPT !.at = "clarify", !.c = q,
                                                 !.call = "none"]
        /\ UNCHANGED <<project, world>>

(* #sendClarification                                                      *)
Clarify ==
  LET k == <<"question", op.c, 0>> IN
  /\ At("clarify")
  /\ \/ project.eff[k].st = "completed" /\ Continues
     \/ /\ project.eff[k].st # "completed"
        /\ Asks([project EXCEPT !.eff[k] = Queued(@), !.questions = op.c,
                                !.status = "needs_clarification"],
                "clarify", k, "effect")

Clarified == Answered("clarify") /\ Returns(Done(project), op.then)

(* confirmPayment for a payment that is recorded already, whatever the     *)
(* status of the project.                                                  *)
ReplayPayment == /\ op = Idle /\ ~Fenced /\ project.active = 1
                 /\ replays < MaxReplays /\ replays' = replays + 1
                 /\ op' = [Idle EXCEPT !.at = "confirm", !.replay = TRUE]
                 /\ UNCHANGED <<project, inbound, providers, clock, faults>>

(* #continueAfterPayment and #sendPaymentConfirmation                      *)
Confirm ==
  LET k == <<"confirm", 1, 0>> IN
  /\ At("confirm")
  /\ \/ Fenced /\ Goes("end")
     \/ ~Fenced /\ project.eff[k].st = "completed" /\ Goes("paid")
     \/ ~Fenced /\ project.eff[k].st # "completed" /\ Calls(k)

Confirmed == Answered("confirm") /\ Returns(Done(project), "paid")

Paid == /\ At("paid")
        /\ \/ /\ Unapplied(project) = {}
              /\ op' = [op EXCEPT !.at = "dispatch", !.v = 1]
              /\ UNCHANGED <<project, world>>
           \/ /\ Unapplied(project) # {}
              /\ project' = [project EXCEPT !.status = "revision_pending"]
              /\ op' = [op EXCEPT !.at = "process", !.then = "redispatch",
                                  !.prior = "paid"]
              /\ UNCHANGED world

Redispatch == /\ At("redispatch")
              /\ op' = [op EXCEPT !.at = IF /\ project.status = "paid"
                                            /\ project.active = 1
                                         THEN "dispatch" ELSE "end",
                                  !.then = "end", !.v = 1]
              /\ UNCHANGED <<project, world>>
-----------------------------------------------------------------------------
(* Builds.                                                                 *)

(* #cancelBuildRun, of #supersedeActiveBuild and #retireExpiredBuildBatch: *)
(* the recorded runs that are not over, or whose cancellation is pending.  *)
ToCancel(p, v) ==
  {c \in Candidates :
     LET e == p.eff[<<"cancel", v, c>>]
     IN /\ p.runs[v][c] # "none" /\ e.st # "completed"
        /\ p.runs[v][c] = "running" \/ e.st = "pending"}

Superseding == Active(project, {"completed", "failed", "cancelled"})

CancelRun ==
  \E v \in Versions : \E c \in ToCancel(project, v) :
    LET k == <<"cancel", v, c>> IN
    /\ (At("supersede") /\ v \in Superseding) \/ (At("retire") /\ v = op.v)
    /\ \A d \in ToCancel(project, v) : c <= d
    /\ project' = [project EXCEPT !.eff[k] = Queued(@)]
    /\ op' = [op EXCEPT !.v = v, !.c = c, !.key = k, !.call = "effect"]
    /\ UNCHANGED world

RunCancelled ==
  /\ Answered("supersede") \/ Answered("retire")
  /\ LET seen == backend[op.v][op.c]
     IN Returns([Done(project) EXCEPT
                   !.runs[op.v][op.c] = IF seen \in Terminal THEN seen
                                                             ELSE "cancelled"],
                op.at)

(* Faulty variant: the runs are left to end by themselves.                 *)
Supersede_KeepsRuns ==
  /\ At("supersede")
  /\ IF Superseding = {} THEN Goes("steer")
     ELSE Saves([project EXCEPT !.st[project.batch] = "cancelled"], "steer")

(* The rest of #supersedeActiveBuild.                                      *)
Supersede ==
  /\ At("supersede")
  /\ \/ Superseding = {} /\ Goes("steer")
     \/ \E v \in Superseding :
          /\ ToCancel(project, v) = {}
          /\ Saves([project EXCEPT !.st[v] = "cancelled"], "steer")

(* #sendSteeringAcknowledgement                                            *)
Steer ==
  LET k == <<"steer", project.active, 0>> IN
  /\ At("steer")
  /\ \/ /\ project.eff[k].st = "completed"
        /\ op' = [op EXCEPT !.at = "dispatch", !.v = project.active]
        /\ UNCHANGED <<project, world>>
     \/ project.eff[k].st # "completed" /\ Calls(k)

Steered == Answered("steer") /\ Returns(Done(project), "steer")

(* #dispatchBuildBatch: the batch, its runs one by one, and the dashboard. *)
Dispatch ==
  /\ At("dispatch")
  /\ \/ Fenced /\ Goes("end")
     \/ ~Fenced /\ project.st[op.v] # "none" /\ Goes("assign")
     \/ /\ ~Fenced /\ project.st[op.v] = "none"
        /\ project' = [project EXCEPT !.st[op.v] = "pending", !.batch = op.v,
                          !.eff[<<"dispatch", op.v, 0>>] = Queued(@)]
        /\ GoesTo("assign")
        /\ clock' = {}
        /\ UNCHANGED <<inbound, providers, bounds>>

Assign ==
  LET k == <<"dispatch", op.v, 0>> IN
  /\ At("assign")
  /\ \/ \E c \in Candidates :
          /\ project.runs[op.v][c] = "none"
          /\ \A d \in Candidates : d < c => project.runs[op.v][d] # "none"
          /\ op' = [op EXCEPT !.c = c, !.key = k, !.call = "effect"]
          /\ UNCHANGED <<project, world>>
     \/ /\ Full(project, op.v)
        /\ project.eff[k].st = "completed" /\ project.st[op.v] = "building"
        /\ Goes("access")
     \/ /\ Full(project, op.v)
        /\ project.eff[k].st # "completed" \/ project.st[op.v] # "building"
        /\ Saves([project EXCEPT !.st[op.v] = "building",
                                 !.status = Progress(project, "building"),
                                 !.eff[k] = Completed(@)], "access")

Assigned ==
  /\ Answered("assign")
  /\ LET seen == backend[op.v][op.c]
     IN Returns([project EXCEPT !.runs[op.v][op.c] =
                                  IF seen \in Terminal THEN seen ELSE "running",
                                !.st[op.v] = "dispatched"], "assign")

(* #sendDashboardAccess                                                    *)
Access ==
  LET k == <<"access", op.v, 0>> IN
  /\ At("access")
  /\ \/ project.eff[k].st \in {"completed", "failed"} /\ Continues
     \/ project.eff[k].st \in {"absent", "pending"} /\ Calls(k)

Accessed == Answered("access") /\ Returns(Done(project), op.then)

(* #reconcileActiveBuildBatch                                              *)
Batch ==
  LET active == Active(project, {"failed", "cancelled"}) IN
  /\ At("batch")
  /\ \/ active = {} /\ Goes("end")
     \/ \E v \in active :
          /\ op' = [op EXCEPT !.at = IF /\ Full(project, v)
                                        /\ project.st[v] \notin
                                             {"pending", "dispatched"}
                                     THEN "access" ELSE "open",
                              !.then = "open", !.v = v]
          /\ UNCHANGED <<project, world>>

Open ==
  /\ At("open")
  /\ IF /\ "build" \notin clock
        /\ \/ ~Full(project, op.v)
           \/ project.st[op.v] \in {"pending", "dispatched"}
     THEN Enters("dispatch", "watch") ELSE Goes("watch")

Watch ==
  LET c == project.preview[op.v] IN
  /\ At("watch")
  /\ \/ c # 0 /\ ~Latest(project, op.v) /\ Enters("ack", "end")
     \/ /\ c # 0 /\ Latest(project, op.v)
        /\ op' = [op EXCEPT !.at = "materialize", !.then = "review", !.c = c]
        /\ UNCHANGED <<project, world>>
     \/ c = 0 /\ Asks(project, "refresh", op.key, "query")

(* #refreshBuildRuns                                                       *)
Refreshed ==
  /\ Answered("refresh")
  /\ LET seen(c) == IF backend[op.v][c] \in Terminal THEN backend[op.v][c]
                                                     ELSE "running"
         now(c) == IF project.runs[op.v][c] = "none" THEN "none" ELSE seen(c)
         over == \A c \in Candidates : now(c) \in Terminal
     IN /\ project' = [project EXCEPT
             !.runs[op.v] = [c \in Candidates |-> now(c)],
             !.st[op.v] = IF over THEN "verifying" ELSE "building",
             !.status = Progress(project, IF over THEN "verifying" ELSE "building")]
        /\ IF \A c \in Candidates : now(c) = "none"
             THEN GoesTo("decide") ELSE op' = [op EXCEPT !.at = "ingest"]
        /\ UNCHANGED world

(* #ingestProvenEvents: the events are saved one by one, up to one of a run*)
(* that was not recorded as passed yet, which validateProvenEvent refuses. *)
Ingested ==
  LET unread == {c \in Candidates : /\ project.runs[op.v][c] # "none"
                                    /\ outbox[op.v][c] = "unread"}
      right == {c \in unread : project.runs[op.v][c] = "passed"}
      with(some) == [project EXCEPT !.proven = @ \cup {<<op.v, c>> : c \in some}]
  IN /\ Answered("ingest")
     /\ \/ right = unread /\ Returns(with(right), "decide")
        \/ /\ right # unread
           /\ \E some \in SUBSET right :
                project' = Blamed(with(some), op.key, FALSE)
           /\ GoesTo("end") /\ UNCHANGED world

Decide ==
  LET v == op.v
      missing == {c \in Candidates : project.runs[v][c] = "passed"}
                   \ Proven(project, v)
      over == Full(project, v) /\ Unfinished(project, v) = {}
      late == "build" \in clock /\ (v \notin project.grace \/ ~over)
  IN /\ At("decide")
     /\ \/ late /\ Goes("retire")
        \/ ~late /\ ~over /\ Goes("end")
        \/ /\ ~late /\ over /\ missing # {} /\ v \notin project.grace
           /\ Saves([project EXCEPT !.st[v] = "verifying", !.grace = @ \cup {v},
                                    !.status = Progress(project, "verifying")],
                    "end")
        \/ /\ ~late /\ over /\ missing # {} /\ v \in project.grace
           /\ "grace" \notin clock /\ Goes("end")
        \/ /\ ~late /\ over
           /\ missing = {} \/ (v \in project.grace /\ "grace" \in clock)
           /\ Goes("finalize")

(* The rest of #retireExpiredBuildBatch; the grace period ends with it.    *)
Retire ==
  LET v == op.v IN
  /\ At("retire") /\ ToCancel(project, v) = {}
  /\ IF v \in project.grace /\ Unfinished(project, v) = {}
       THEN UNCHANGED <<project, clock>>
       ELSE /\ project' = [project EXCEPT
                 !.runs[v] = [c \in Candidates |-> IF @[c] = "running"
                                                   THEN "cancelled" ELSE @[c]],
                 !.st[v] = "verifying", !.grace = @ \cup {v},
                 !.status = Progress(project, "verifying")]
            /\ clock' = clock \cup {"grace"}
  /\ GoesTo("finalize")
  /\ UNCHANGED <<inbound, providers, bounds>>

(* #finalizeBuildBatch: the winner is the best of the proven candidates.   *)
Finalize ==
  LET v == op.v
      proven == Proven(project, v)
  IN /\ At("finalize")
     /\ \/ /\ proven = {}
           /\ Saves([project EXCEPT !.st[v] = "failed",
                       !.status = Progress(project, "no_proven_candidate")],
                    "end")
        \/ proven # {} /\ ~Latest(project, v) /\ Enters("ack", "end")
        \/ /\ proven # {} /\ Latest(project, v)
           /\ \E c \in proven :
                /\ \A d \in proven : d <= c
                /\ op' = [op EXCEPT !.at = "materialize", !.then = "end", !.c = c]
           /\ UNCHANGED <<project, world>>
-----------------------------------------------------------------------------
(* Previews, releases, and the mail that hands the project over.           *)

(* #materializeAndSendPreview                                              *)
Materialize ==
  LET k == <<"materialize", op.v, op.c>> IN
  /\ At("materialize")
  /\ \/ Fenced /\ Goes("end")
     \/ ~Fenced /\ ~Latest(project, op.v) /\ Goes("ack")
     \/ /\ ~Fenced /\ Latest(project, op.v)
        /\ project.preview[op.v] = op.c /\ Goes("show")
     \/ /\ ~Fenced /\ Latest(project, op.v)
        /\ project.preview[op.v] # op.c /\ Calls(k)

Materialized ==
  /\ Answered("materialize")
  /\ Returns([Done(project) EXCEPT !.preview[op.v] = op.c,
                !.st[op.v] = "completed",
                !.status = Progress(project, "preview_ready")], "show")

Show ==
  LET k == <<"preview", op.v, op.c>> IN
  /\ At("show")
  /\ \/ Fenced /\ Goes("end")
     \/ ~Fenced /\ project.eff[k].st = "completed" /\ Goes("ack")
     \/ ~Fenced /\ project.eff[k].st # "completed" /\ Calls(k)

Shown == Answered("show")
         /\ Returns([Done(project) EXCEPT !.mail[op.key] = "sent"], "ack")

(* Faulty variant: the events of all runs that passed are acknowledged.    *)
Acknowledge_AllPassed ==
  LET todo == {c \in Candidates :
                 /\ project.runs[op.v][c] = "passed"
                 /\ project.eff[<<"ack", op.v, c>>].st # "completed"}
  IN /\ At("ack")
     /\ \/ todo = {} /\ Continues
        \/ \E c \in todo : Calls(<<"ack", op.v, c>>)

(* #acknowledgeBatchEvents                                                 *)
Acknowledge ==
  LET todo == {c \in Proven(project, op.v) :
                 project.eff[<<"ack", op.v, c>>].st # "completed"}
  IN /\ At("ack")
     /\ \/ todo = {} /\ Continues
        \/ \E c \in todo : /\ \A d \in todo : c <= d
                           /\ Calls(<<"ack", op.v, c>>)

Acknowledged == Answered("ack") /\ Returns(Done(project), "ack")

(* Faulty variant: the review period starts when the preview is sent.      *)
Review_OnceSent ==
  /\ At("review")
  /\ Goes(IF project.eff[<<"preview", op.v, project.preview[op.v]>>].st = "completed"
          THEN "deploy" ELSE "end")

(* The customer had the review period, counted from the delivery.          *)
Review ==
  LET k == <<"preview", op.v, project.preview[op.v]>> IN
  /\ At("review")
  /\ Goes(IF /\ project.eff[k].st = "completed" /\ project.mail[k] = "delivered"
             /\ "review" \in clock
          THEN "deploy" ELSE "end")

(* Faulty variant: the release of another version is taken for this one.   *)
Deploy_AnyRelease ==
  LET k == <<"deploy", op.v, op.c>>
      released == \E v \in Versions : project.release[v] = op.c
  IN /\ At("deploy")
     /\ \/ (Fenced \/ ~Latest(project, op.v)) /\ Goes("end")
        \/ ~Fenced /\ Latest(project, op.v) /\ released /\ Goes("finish")
        \/ /\ ~Fenced /\ Latest(project, op.v) /\ ~released
           /\ Asks([project EXCEPT !.eff[k] = Queued(@),
                                   !.status = Progress(project, "deploying")],
                   "deploy", k, "query")

(* #deployAndDeliver, up to the download of the proven artifact, ...       *)
Deploy ==
  LET k == <<"deploy", op.v, op.c>> IN
  /\ At("deploy")
  /\ \/ (Fenced \/ ~Latest(project, op.v)) /\ Goes("end")
     \/ /\ ~Fenced /\ Latest(project, op.v)
        /\ project.release[op.v] # 0 /\ Goes("finish")
     \/ /\ ~Fenced /\ Latest(project, op.v) /\ project.release[op.v] = 0
        /\ Asks([project EXCEPT !.eff[k] = Queued(@),
                                !.status = Progress(project, "deploying")],
                "deploy", k, "query")

Downloaded == Answered("deploy") /\ Returns(project, "upload")

(* Faulty variant: no other look for messages after the download.          *)
Upload_Straight == At("upload") /\ Asks(project, "upload", op.key, "effect")

(* ... the release, after another look for messages, ...                   *)
Upload ==
  /\ At("upload")
  /\ \/ (Fenced \/ ~Latest(project, op.v)) /\ Goes("end")
     \/ ~Fenced /\ Latest(project, op.v)
        /\ Asks(project, "upload", op.key, "effect")

Released ==
  /\ Answered("upload")
  /\ Returns([Done(project) EXCEPT !.release[op.v] = op.c,
                !.status = Progress(project, "delivering")], "finish")

(* A proof summary that must not be published parks the project.           *)
Rejected(k) == [project EXCEPT !.eff[k] = DeadLettered(Queued(@)),
                               !.status = "needs_operator_attention"]

\* Faulty variant: the operation goes on to the final mail.
Rejects_GoesOn(k) == Saves(Rejected(k), "hand")

Rejects(k) == Saves(Rejected(k), "end")

(* ... and, after one more, the proof summary, which may be rejected, ...  *)
Finish ==
  LET k == <<"proof", op.v, op.c>>
      queued == [project EXCEPT !.eff[k] = Queued(@)]
  IN /\ At("finish")
     /\ \/ (Fenced \/ ~Latest(project, op.v)) /\ Goes("end")
        \/ /\ ~Fenced /\ Latest(project, op.v)
           /\ \/ project.eff[k].st = "absent" /\ Saves(queued, "prove")
              \/ project.eff[k].st = "absent" /\ Rejects(k)
              \/ project.eff[k].st = "pending" /\ Goes("prove")
              \/ project.eff[k].st = "completed" /\ Goes("hand")
              \/ /\ project.eff[k].st = "failed"
                 /\ Throws(FALSE) /\ UNCHANGED world

(* What is attempted fails for good: #runWithEffectFailure of a policy     *)
(* error.                                                                  *)
Refused(p, k) == /\ project' = Blamed(p, k, FALSE)
                 /\ op' = [op EXCEPT !.at = "end", !.key = k]
                 /\ UNCHANGED world

(* ... which is a row of the same database, and may have been revoked when *)
(* a later operation comes back to it, ...                                 *)
Prove ==
  LET k == <<"proof", op.v, op.c>> IN
  /\ At("prove")
  /\ \/ /\ project' = [project EXCEPT !.eff[k] = Completed(@)]
        /\ op' = [op EXCEPT !.at = "hand", !.key = k]
        /\ UNCHANGED world
     \/ Refused(project, k)

(* ... and the final mail, which refers to it.                             *)
HandOver ==
  LET k == <<"final", op.v, op.c>>
      queued == [project EXCEPT !.eff[k] = Queued(@)]
  IN /\ At("hand")
     /\ \/ project.eff[k].st = "completed" /\ Goes("end")
        \/ /\ project.eff[k].st # "completed"
           /\ \/ Fenced /\ Saves(queued, "end")
              \/ ~Fenced /\ (Calls(k) \/ Refused(queued, k))

Finished ==
  /\ Answered("hand")
  /\ Returns([Done(project) EXCEPT !.mail[op.key] = "sent",
                !.status = Progress(project, "delivering")], "end")
-----------------------------------------------------------------------------
(* The build backend and the clock.  That a run passed and that its event  *)
(* can be read are two moments here: the agent waits between them.  Nobody *)
(* looks any more at the runs and the deadlines of a batch that was        *)
(* replaced.                                                               *)

RunEnds(c) ==
  \E v \in Versions :
    /\ v = project.batch
    /\ \/ /\ backend[v][c] = "running"
          /\ \E s \in {"passed", "rejected"} :
               backend' = [backend EXCEPT ![v][c] = s]
       \/ /\ backend[v][c] = "cancelling"
          /\ backend' = [backend EXCEPT ![v][c] = "cancelled"]
    /\ UNCHANGED <<project, op, inbound, outbox, outside, clock, bounds>>

Announce(c) ==
  \E v \in Versions :
    /\ v = project.batch /\ backend[v][c] = "passed" /\ outbox[v][c] = "absent"
    /\ outbox' = [outbox EXCEPT ![v][c] = "unread"]
    /\ UNCHANGED <<project, op, inbound, backend, outside, clock, bounds>>

Counting(v) ==
  {d \in Deadlines :
     CASE d = "build"  -> project.st[v] \in {"pending", "dispatched", "building",
                                             "verifying"}
       [] d = "grace"  -> v \in project.grace /\ project.st[v] = "verifying"
       [] d = "review" -> /\ project.preview[v] # 0 /\ project.release[v] = 0
                          /\ project.mail[<<"preview", v, project.preview[v]>>]
                               = "delivered"
       [] OTHER -> \E c \in Candidates : project.mail[<<d, v, c>>] = "sent"}

Elapse(d) == \E v \in Versions :
               /\ v = project.batch /\ d \in Counting(v) \ clock
               /\ clock' = (clock \cap Counting(v)) \cup {d}
               /\ UNCHANGED <<project, op, inbound, providers, bounds>>

Step == \/ End
        \/ LookForMail \/ MailChecked \/ Route
        \/ Process \/ Understood \/ Clarify \/ Clarified
        \/ Confirm \/ Confirmed \/ Paid \/ Redispatch
        \/ CancelRun \/ RunCancelled \/ Supersede \/ Steer \/ Steered
        \/ Dispatch \/ Assign \/ Assigned \/ Access \/ Accessed
        \/ Batch \/ Open \/ Watch \/ Refreshed \/ Ingested
        \/ Decide \/ Retire \/ Finalize
        \/ Materialize \/ Materialized \/ Show \/ Shown
        \/ Acknowledge \/ Acknowledged \/ Review
        \/ Deploy \/ Downloaded \/ Upload \/ Released
        \/ Finish \/ Prove \/ HandOver \/ Finished

Next == \/ Step \/ Reconcile \/ ReplayPayment \/ Crash
        \/ \E how \in {"lost", "transient", "permanent"} : CallFails(how)
        \/ \E m \in Mails : MailArrives(m)
        \/ \E m \in Messages : Receive(m)
        \/ \E k \in Tracked : \E result \in {"delivered", "bounced"} :
             Webhook(k, result)
        \/ \E c \in Candidates : RunEnds(c) \/ Announce(c)
        \/ \E d \in Deadlines : Elapse(d)

Spec == Init /\ [][Next]_vars

(* The worker reconciles again and again, every call is answered or fails, *)
(* runs end, their events are published, and the clock goes on.  A mail is *)
(* received by the worker before it reconciles.                            *)
Fairness == /\ WF_vars(Step) /\ WF_vars(Reconcile)
            /\ \A m \in Mails : SF_vars(Receive(m))
            /\ \A c \in Candidates : WF_vars(RunEnds(c)) /\ WF_vars(Announce(c))
            /\ \A d \in Deadlines : WF_vars(Elapse(d))
FairSpec == Spec /\ Fairness
-----------------------------------------------------------------------------
(* What is begun for a customer is begun when nothing they said is open:   *)
(* no envelope is unresolved, every saved message was applied, and the     *)
(* version acted on is the one in force.  Between the look for messages    *)
(* and the act, the operation may have waited for a provider.              *)
CustomerIsHeardFirst ==
  [][(op'.call = "effect" /\ op.call # "effect"
        /\ op'.key[1] \in {"preview", "deploy", "final"}) =>
       /\ inbound = {} /\ Unapplied(project) = {}
       /\ op'.key[2] = project.active]_vars

(* Nothing is put into production that the customer was not shown first,   *)
(* in a preview whose mail was delivered, for the same version.            *)
ReleasedAfterDelivery ==
  \A v \in Versions, c \in Candidates : <<"deploy", v, c>> \in outside =>
    project.preview[v] = c /\ project.mail[<<"preview", v, c>>] = "delivered"

(* A proven event is acknowledged to the backend, which then forgets it,   *)
(* only after it was saved, across every crash and lost answer.            *)
AcknowledgedEventsAreSaved ==
  \A v \in Versions, c \in Candidates :
    outbox[v][c] = "acknowledged" => <<v, c>> \in project.proven

(* A completed project has the version in force in production, the release *)
(* the customer was shown.                                                 *)
CompletedIsInForce ==
  project.status = "completed" =>
    /\ project.batch = project.active
    /\ project.release[project.active] # 0
    /\ project.release[project.active] = project.preview[project.active]

(* The runs a superseded batch knows of do not go on.                      *)
SupersededRunsAreCancelled ==
  \A v \in Versions, c \in Candidates :
    project.st[v] = "cancelled" /\ project.runs[v][c] # "none"
      => backend[v][c] # "running"

(* "Permanent or policy failures enter an explicit terminal/attention      *)
(* state, retain their evidence, and emit no downstream action", except for*)
(* a repeated webhook of a payment, which confirmPayment takes whatever the*)
(* status and which may go on with the build and beyond.                   *)
ParkedProjectsStayQuiet ==
  [][project.status \in Parked /\ ~op.replay =>
       op'.call # "effect" /\ outside' = outside]_vars

(* The same without the exception.                                         *)
ParkedProjectsEmitNothing ==
  [][project.status \in Parked =>
       op'.call # "effect" /\ outside' = outside]_vars

(* A message of the customer is not left behind by a project that ends.    *)
CompletedProjectsLeaveNoMessage ==
  project.status = "completed" => Unapplied(project) = {}

(* "Ambiguous requests enter clarification": a message that is open leads  *)
(* to a question that the customer can answer.                             *)
AmbiguityIsClarified ==
  \A m \in Messages :
    m \in Unapplied(project) ~> \/ m \in project.consumed
                               \/ project.questions # 0
                               \/ project.status \in Over

(* The status a message interrupted is one the project can still have when *)
(* the message turns out to change nothing.  (stableProjectStatus reads it *)
(* off the active batch, not off the version in force.)                    *)
InterruptedStatusIsRestored ==
  Answered("process") => Savable([project EXCEPT !.status = op.prior])

(* A paid project comes to an end, or waits for an operator or for an      *)
(* answer of the customer.                                                 *)
Settled == \/ project.status \in Over \cup {"no_proven_candidate"}
           \/ project.status = "needs_clarification" /\ project.questions # 0
ProjectSettles == []<>Settled

(* The acts of the agent, as the customer sees them, keep the promise.     *)
ActsOf(name) == {<<k[2], k[3]>> : k \in {a \in outside : a[1] = name}}
Promise == INSTANCE DeliveryPromise
             WITH version <- project.active, shown <- ActsOf("preview"),
                  released <- ActsOf("deploy"), handed <- ActsOf("final")
KeepsPromise == Promise!Spec
=============================================================================
