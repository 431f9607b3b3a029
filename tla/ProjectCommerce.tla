-------------------------- MODULE ProjectCommerce --------------------------
(***************************************************************************)
(* The commerce of one project in the hands of the orchestration agent     *)
(* (src/src/orchestration/application/orchestration-agent.ts): from the    *)
(* intake of a customer whose address is verified, through proposals,      *)
(* Checkout Sessions, edits and new quotes, to the payment that lets a     *)
(* build begin.  ProjectDelivery says what becomes of the build.           *)
(*                                                                         *)
(* As there, one operation has the project's turn, its steps are the saves *)
(* of the code, and between two of them it may wait for a provider.        *)
(* Meanwhile the customer writes or pays, a session lapses, or the process *)
(* dies.  What Stripe said before such a wait is used after it.            *)
(***************************************************************************)
EXTENDS DurableEffects

CONSTANTS Versions,   \* bound: of the plan
          Attempts,   \* bound: the Checkout Sessions of a version
          Mails,      \* messages of the customer
          Questions,  \* what a customer may be asked
          Outcomes,   \* what the reasoner may make of a conversation
          Delayed,    \* bound: the versions whose payment may take time
          Failures,   \* the ways a call can fail
          None,
          MaxFaults   \* bound: crashes and failed calls

ASSUME CommerceAssumption ==
  /\ Versions \subseteq Nat \ {0} /\ 1 \in Versions
  /\ Attempts \subseteq Nat \ {0} /\ 1 \in Attempts
  /\ Questions \subseteq Nat \ {0} /\ None \notin Mails
  /\ Outcomes \subseteq {"question", "quote", "no change"}
  /\ Delayed \subseteq Versions
  /\ Failures \subseteq {"lost", "transient", "permanent"}
  /\ MaxFaults \in Nat

VARIABLES
  project,  \* the stored aggregate
  op,       \* the operation that has the project's turn
  inbound,  \* the unresolved envelopes of the project
  stripe,   \* the Checkout Sessions, as Stripe has them
  links,    \* the sessions whose link was mailed
  faults

providers == <<stripe, links>>
world     == <<inbound, providers, faults>>
vars      == <<project, op, world>>

Sessions == Versions \X Attempts
Keys == ({"create"} \X Versions \X (Attempts \cup {a + 1 : a \in Attempts}))
   \cup ({"proposal", "reconcile"} \X Versions \X Attempts)
   \cup ({"expire", "confirm"} \X Versions \X {0})
   \cup ({"question"} \X Questions \X {0})
NoKey == <<"none", 0, 0>>

Parked == {"needs_operator_attention", "payment_verification_failed"}
Editing == {"awaiting_customer_revision", "revision_pending"}
Status == Parked \cup Editing \cup
          {"intake_received", "needs_clarification", "proposal_drafting",
           "awaiting_payment", "paid", "building"}

Projects == [status : Status,
             active : Versions \cup {0},     \* the version in force
             built  : Versions \cup {0},     \* the version of the active batch
             questions : Questions \cup {0},
             sess   : [Sessions -> {"none", "open", "complete", "expired"}],
             paid   : SUBSET Sessions,       \* the payment receipts
             saved  : SUBSET Mails, consumed : SUBSET Mails,
             eff    : [Keys -> Effects]]

Labels == {"idle", "route", "analyze", "look", "turn", "awaited", "create",
           "send", "process", "expire", "expiring", "draft", "clarify",
           "verify", "continue", "pending", "dispatch", "end"}
Ops == [at : Labels, then : Labels, v : Versions \cup {0}, c : Nat,
        mail : Mails \cup {None}, prior : Status \cup {"none"},
        key : Keys \cup {NoKey}, call : {"none", "query", "effect"}]
Idle == [at |-> "idle", then |-> "end", v |-> 0, c |-> 0, mail |-> None,
         prior |-> "none", key |-> NoKey, call |-> "none"]

TypeOK == /\ project \in Projects /\ op \in Ops
          /\ inbound \subseteq Mails
          /\ stripe \in [Sessions -> {"none", "open", "processing", "paid",
                                      "expired"}]
          /\ links \subseteq Sessions
          /\ faults \in 0..MaxFaults

Init == /\ project = [status |-> "intake_received", active |-> 0, built |-> 0,
                      questions |-> 0,
                      sess |-> [s \in Sessions |-> "none"], paid |-> {},
                      saved |-> {}, consumed |-> {},
                      eff |-> [k \in Keys |-> NoEffect]]
        /\ op = Idle /\ inbound = {}
        /\ stripe = [s \in Sessions |-> "none"] /\ links = {}
        /\ faults = 0
-----------------------------------------------------------------------------
(* What the code reads off the aggregate.                                  *)

Unapplied(p) == p.saved \ p.consumed

(* boundedPendingMessageBatch: the reasoner is given the oldest of them, up*)
(* to 50 messages and 200000 characters, and the others stay open.  Order  *)
(* and size are left out: any of them may be the ones that fit.            *)
Batches(p) == SUBSET Unapplied(p) \ {{}}

Paid(p, v) == \E a \in Attempts : <<v, a>> \in p.paid

(* The Checkout Sessions of a version: the newest one, at most, and those  *)
(* that are open.                                                          *)
Stored(p, v) == {a \in Attempts : v # 0 /\ p.sess[<<v, a>>] # "none"}
Newest(p, v) == {a \in Stored(p, v) : \A b \in Stored(p, v) : b <= a}
Open(p, v)   == {a \in Stored(p, v) : p.sess[<<v, a>>] = "open"}

(* stableProjectStatus                                                     *)
Stable(p) ==
  IF p.status \notin Editing THEN p.status
  ELSE IF p.built # 0 THEN "building"
  ELSE IF \E s \in Sessions : p.sess[s] = "open" THEN "awaiting_payment"
  ELSE IF p.paid # {} THEN "paid" ELSE "needs_clarification"
-----------------------------------------------------------------------------
(* The steps of an operation: a save, and then the next wait or the end.   *)

At(l)       == op.at = l /\ op.call = "none"
Answered(l) == op.at = l /\ op.call # "none"
GoesTo(l)   == op' = [op EXCEPT !.at = l, !.call = "none"]

(* The session an operation is about.                                      *)
Session == <<op.v, op.c>>

Saves(p, l) == project' = p /\ GoesTo(l) /\ UNCHANGED world
Goes(l)     == Saves(project, l)
Begins(l, t) == op' = [op EXCEPT !.at = l, !.then = t, !.v = project.active,
                                 !.call = "none"]
                /\ UNCHANGED <<project, world>>

(* #assertNoUnresolvedInboundMail throws PendingInboundMailError, which is *)
(* charged to no effect.                                                   *)
Fenced == inbound # {}

(* A provider is asked; markEffectAttempt, for what can be charged.        *)
Asks(p, l, k, call) ==
  /\ project' = p
  /\ op' = [op EXCEPT !.at = l, !.key = k, !.call = call]
  /\ UNCHANGED world
Queries(l) == Asks(project, l, op.key, "query")
Calls(k)   == Asks([project EXCEPT !.eff[k] = Queued(@)], op.at, k, "effect")

(* What a provider does for an effect.  Stripe answers a request that comes*)
(* again, under its idempotency key, with the session it made before.      *)
Acts(k) ==
  LET s == <<k[2], k[3]>>
      dead(t) == k[1] = "expire" /\ t = Session
  IN /\ stripe' = [t \in Sessions |->
                     IF k[1] = "create" /\ t = s /\ stripe[t] = "none" THEN "open"
                     ELSE IF dead(t) /\ stripe[t] = "open" THEN "expired"
                     ELSE stripe[t]]
     /\ links' = IF k[1] = "proposal" THEN links \cup {s} ELSE links

(* The answer arrives, and what it says is saved.                          *)
Returns(p, l) == /\ project' = p /\ GoesTo(l)
                 /\ IF op.call = "effect" THEN Acts(op.key)
                                          ELSE UNCHANGED providers
                 /\ UNCHANGED <<inbound, faults>>

Done(p) == [p EXCEPT !.eff[op.key] = Completed(@)]

(* #recordPendingEffectFailure and #failEffect.                            *)
Blamed(p, k, retryable) ==
  IF k = NoKey \/ ~Chargeable(p.eff[k]) THEN p ELSE
  LET e == Charged(p.eff[k], retryable)
  IN [p EXCEPT !.eff[k] = e,
               !.status = IF e.st # "failed" THEN @
                          ELSE IF k[1] = "reconcile"
                            THEN "payment_verification_failed"
                            ELSE "needs_operator_attention"]

(* #runWithEffectFailure: the error goes to the effect attempted last.     *)
Throws(retryable) == project' = Blamed(project, op.key, retryable)
                     /\ GoesTo("end")

CallFails(how) ==
  /\ op.call # "none" /\ faults < MaxFaults /\ faults' = faults + 1
  /\ how = "lost" => op.call = "effect"
  /\ IF how = "lost" THEN Acts(op.key) ELSE UNCHANGED providers
  /\ Throws(how # "permanent")
  /\ UNCHANGED inbound

(* The process dies; a call under way may have reached the provider.       *)
Crash == /\ op # Idle /\ faults < MaxFaults /\ faults' = faults + 1
         /\ op' = Idle
         /\ \/ UNCHANGED providers
            \/ op.call = "effect" /\ Acts(op.key)
         /\ UNCHANGED <<project, inbound>>

(* The turn ends; the envelope of a mail whose message is saved is done.   *)
End == /\ At("end")
       /\ op' = Idle /\ inbound' = inbound \ {op.mail}
       /\ UNCHANGED <<project, providers, faults>>
-----------------------------------------------------------------------------
(* reconcileProject, by the worker.  A retry that is not due yet defers    *)
(* the whole project; any of those scheduled may come due first.           *)
Reconcile ==
  /\ op = Idle /\ ~Fenced /\ project.status \notin Parked
  /\ LET scheduled == {k \in Keys : Retrying(project.eff[k])}
     IN project' \in IF scheduled = {} THEN {project}
                     ELSE {[project EXCEPT !.eff[k] = Retried(@)] :
                             k \in scheduled}
  /\ op' = [Idle EXCEPT !.at = "route"]
  /\ UNCHANGED world

(* #reconcileProjectOnce.  What goes on with a build is in ProjectDelivery.*)
Route ==
  /\ At("route")
  /\ LET p == project
         unpaid == p.active # 0 /\ ~Paid(p, p.active)
     IN
     \/ p.status \in Parked \cup {"building"} /\ Goes("end")
     \/ p.status = "intake_received" /\ Begins("analyze", "end")
     \/ /\ p.status = "needs_clarification"
        /\ IF p.questions # 0
           THEN op' = [op EXCEPT !.at = "clarify", !.c = p.questions]
                /\ UNCHANGED <<project, world>>
           ELSE Begins(IF p.active = 0 THEN "analyze" ELSE "end", "end")
     \/ /\ p.status \in Editing
        /\ IF unpaid /\ Stored(p, p.active) # {}
           THEN Begins("look", "turn") ELSE Begins("turn", "end")
     \/ p.status = "proposal_drafting" /\ Begins("create", "end")
     \/ p.status = "awaiting_payment" /\ Begins("look", "awaited")
     \/ p.status = "paid" /\ Begins("continue", "end")

(* #reconcileAwaitingPayment asks Stripe about the newest session, ...     *)
Watch(a) == <<"reconcile", op.v, a>>

LookLater == /\ At("look")
             /\ \E a \in Newest(project, op.v) : project.eff[Watch(a)].wait = "check"
             /\ Goes(op.then)

\* Faulty variant: a session that was not paid is never looked at again.
Look_OnlyOnce ==
  /\ At("look")
  /\ \E a \in Newest(project, op.v) :
       /\ project.eff[Watch(a)].wait # "check"
       /\ op' = [op EXCEPT !.c = a, !.key = Watch(a), !.call = "query"]
  /\ project' = [project EXCEPT !.eff[op'.key] = Checking(Queued(@))]
  /\ UNCHANGED world

Look == /\ At("look")
        /\ \E a \in Newest(project, op.v) :
             op' = [op EXCEPT !.c = a, !.key = Watch(a), !.call = "query"]
        /\ project' = [project EXCEPT !.eff[op'.key] = Checking(Queued(@))]
        /\ UNCHANGED world

(* The payment of a session of the version in force, with its receipt.     *)
Receipted(p, s) == [p EXCEPT !.sess[s] = "complete", !.paid = @ \cup {s},
                             !.status = "paid"]

Captured == /\ Answered("look") /\ stripe[Session] = "paid"
            /\ Returns(Receipted(Done(project), Session), "continue")

(* ... and saves what it says of a session that is not paid.               *)
Uncaptured ==
  /\ Answered("look") /\ stripe[Session] # "paid"
  /\ LET over == stripe[Session] = "expired"
         next == <<"create", op.v, op.c + 1>>
         expiry == <<"expire", op.v, 0>>
         eff(k) == LET e == project.eff[k] IN
                   CASE k = op.key -> IF over THEN Completed(e) ELSE Rescheduled(e)
                     [] over /\ k = next -> Queued(e)
                     [] over /\ k = expiry /\ e.st = "pending" -> Completed(e)
                     [] OTHER -> e
     IN Returns([project EXCEPT
                   !.sess[Session] = IF stripe[Session] = "processing"
                                     THEN "complete" ELSE stripe[Session],
                   !.eff = [k \in Keys |-> eff(k)]],
                IF op.then = "awaited" /\ stripe[Session] # "processing"
                THEN "create" ELSE op.then)

(* After the look, in the two states that lead to it.                      *)
Turn == /\ At("turn")
        /\ IF Unapplied(project) = {} THEN Goes("end")
           ELSE /\ op' = [op EXCEPT !.at = "process", !.then = "end",
                                    !.prior = Stable(project)]
                /\ UNCHANGED <<project, world>>

Awaited == /\ At("awaited")
           /\ op' = [op EXCEPT !.then = "end",
                        !.at = IF Unapplied(project) = {} THEN "create"
                                                          ELSE "process",
                        !.prior = "awaiting_payment"]
           /\ UNCHANGED <<project, world>>
-----------------------------------------------------------------------------
(* #createCheckoutAndSend: the session of the version, and its link.       *)

Create ==
  LET stored == Stored(project, op.v) IN
  /\ At("create")
  /\ \/ Newest(project, op.v) \cap Open(project, op.v) # {} /\ Goes("send")
     \/ /\ Newest(project, op.v) \cap Open(project, op.v) = {}
        /\ \E a \in Attempts \ stored : /\ \A b \in Attempts \ stored : a <= b
                                       /\ Calls(<<"create", op.v, a>>)

Created ==
  /\ Answered("create")
  /\ Returns([Done(project) EXCEPT !.sess[<<op.key[2], op.key[3]>>] = "open",
                                   !.status = "awaiting_payment"], "send")

(* #sendProposal                                                           *)
Send ==
  /\ At("send")
  /\ \E a \in Newest(project, op.v) :
       LET k == <<"proposal", op.v, a>> IN
       \/ project.eff[k].st = "completed" /\ Goes(op.then)
       \/ project.eff[k].st # "completed" /\ Calls(k)

Sent == Answered("send") /\ Returns(Done(project), op.then)
-----------------------------------------------------------------------------
(* What the customer says.                                                 *)

(* stageInboundMailEnvelope, at any time.                                  *)
MailArrives(m) == /\ m \notin inbound \cup project.saved
                  /\ inbound' = inbound \cup {m}
                  /\ UNCHANGED <<project, op, providers, faults>>

(* #receiveCustomerMessage                                                 *)
Received(p, m) ==
  IF p.status \in Parked THEN [p EXCEPT !.saved = @ \cup {m}]
  ELSE [p EXCEPT !.saved = @ \cup {m}, !.questions = 0,
                 !.status = IF p.paid # {} THEN "revision_pending"
                                           ELSE "awaiting_customer_revision"]

Receive(m) ==
  /\ op = Idle /\ m \in inbound
  /\ project' = IF m \in project.consumed THEN project
                                          ELSE Received(project, m)
  /\ IF m \in project.consumed \/ project.status \in Parked
       THEN inbound' = inbound \ {m} /\ UNCHANGED op
       ELSE /\ op' = [Idle EXCEPT !.at = "process", !.mail = m,
                                  !.prior = Stable(project)]
            /\ UNCHANGED inbound
  /\ UNCHANGED <<providers, faults>>

(* The reasoner asks back, about the intake, an edit or a draft.           *)
AsksBack == /\ "question" \in Outcomes
            /\ \E q \in Questions : op' = [op EXCEPT !.at = "clarify", !.c = q,
                                                     !.call = "none"]
            /\ UNCHANGED <<project, world>>

(* #analyzeStoredIntake                                                    *)
Analyze == At("analyze") /\ Queries("analyze")
Analyzed == /\ Answered("analyze")
            /\ AsksBack \/ Goes("draft")

(* #processSavedCustomerMessages.  An edit within the scope of a plan that *)
(* is paid for needs no commerce, and is in ProjectDelivery.               *)
Process == At("process") /\ Queries("process")

Understood ==
  /\ Answered("process")
  /\ \/ AsksBack
     \/ ~(project.active # 0 /\ Paid(project, project.active)) /\ Goes("expire")
     \/ /\ project.active # 0 /\ Paid(project, project.active)
        /\ \/ "quote" \in Outcomes /\ Goes("draft")
           \/ /\ "no change" \in Outcomes
              /\ \E batch \in Batches(project) :
                   Saves([project EXCEPT !.consumed = @ \cup batch,
                                         !.status = op.prior], op.then)

\* Faulty variant: an edit leaves the link of the plan it replaces.
Expire_KeepsLink == At("expire") /\ Goes("draft")

(* #expireCurrentCheckout looks at the session, charged to nothing new, ...*)
Expire ==
  /\ At("expire")
  /\ \/ Open(project, project.active) = {} /\ Goes("draft")
     \/ \E a \in Open(project, project.active) :
          /\ \A b \in Open(project, project.active) : a <= b
          /\ op' = [op EXCEPT !.v = project.active, !.c = a, !.call = "query"]
          /\ UNCHANGED <<project, world>>

(* ... and asks Stripe to expire it, or throws.                            *)
Expirable ==
  LET k == <<"expire", op.v, 0>>
      done == project.eff[k].st = "completed"
  IN /\ Answered("expire")
     /\ \/ /\ stripe[Session] \in {"paid", "processing"}
              \/ (stripe[Session] = "open" /\ done)
           /\ Throws(FALSE) /\ UNCHANGED world
        \/ /\ stripe[Session] = "expired"
           /\ Saves([project EXCEPT !.sess[Session] = "expired",
                                    !.eff[k] = Completed(Queued(@))], "draft")
        \/ /\ stripe[Session] = "open" /\ ~done
           /\ Asks([project EXCEPT !.eff[k] = Queued(@)], "expiring", k,
                   "effect")

Expired ==
  /\ Answered("expiring")
  /\ \/ /\ stripe[Session] = "open"
        /\ Returns([Done(project) EXCEPT !.sess[Session] = "expired"], "draft")
     \/ /\ stripe[Session] # "open"
        /\ Throws(TRUE) /\ UNCHANGED world

(* #createProposalAndSend: the next version of the plan takes up the batch *)
(* that was understood; the first one, of the intake, takes up no message. *)
Draft == At("draft") /\ Queries("draft")

Drafted ==
  /\ Answered("draft")
  /\ \/ AsksBack
     \/ LET v == project.active + 1
            open == Unapplied(project)
        IN
        /\ v \in Versions
        /\ \E batch \in IF open = {} THEN {{}} ELSE Batches(project) :
             project' = [project EXCEPT !.active = v, !.consumed = @ \cup batch,
                           !.status = "proposal_drafting",
                           !.eff[<<"create", v, 1>>] = Queued(@)]
        /\ op' = [op EXCEPT !.at = "create", !.then = "end", !.v = v,
                            !.call = "none"]
        /\ UNCHANGED world

(* #sendClarification                                                      *)
Clarify ==
  LET k == <<"question", op.c, 0>> IN
  /\ At("clarify")
  /\ \/ project.eff[k].st = "completed" /\ Goes("end")
     \/ /\ project.eff[k].st # "completed"
        /\ Asks([project EXCEPT !.eff[k] = Queued(@), !.questions = op.c,
                                !.status = "needs_clarification"],
                "clarify", k, "effect")

Clarified == Answered("clarify") /\ Returns(Done(project), "end")
-----------------------------------------------------------------------------
(* Payments.                                                               *)

(* confirmPayment, on a webhook of Stripe: any number of times, at any     *)
(* time, in any order.  One that is refused changes nothing.               *)
Webhook(s) ==
  /\ op = Idle /\ ~Fenced /\ stripe[s] = "paid"
  /\ \/ s \in project.paid \/ s[1] # project.active
     \/ project.status \in {"awaiting_payment", "awaiting_customer_revision"}
  /\ op' = [Idle EXCEPT !.at = "verify", !.v = s[1], !.c = s[2], !.call = "query"]
  /\ UNCHANGED <<project, world>>

\* Faulty variant: a payment of any version lets the build begin.
Verified_AnyVersion ==
  /\ Answered("verify")
  /\ \/ Session \in project.paid /\ Goes("continue")
     \/ Session \notin project.paid
        /\ Returns(Receipted(project, Session), "continue")

(* #verifyStripeSettlement and #persistVerifiedPayment                     *)
Verified ==
  /\ Answered("verify")
  /\ \/ /\ Session \in project.paid
        /\ Goes(IF op.v = project.active THEN "continue" ELSE "end")
     \/ /\ Session \notin project.paid /\ op.v = project.active
        /\ Returns(Receipted(project, Session), "continue")
     \/ /\ Session \notin project.paid /\ op.v # project.active
        /\ Returns([Receipted(project, Session) EXCEPT
                      !.status = "needs_operator_attention"], "end")

(* #continueAfterPayment and #sendPaymentConfirmation                      *)
Continue ==
  LET k == <<"confirm", op.v, 0>> IN
  /\ At("continue")
  /\ \/ Fenced /\ Goes("end")
     \/ ~Fenced /\ project.eff[k].st = "completed" /\ Goes("pending")
     \/ ~Fenced /\ project.eff[k].st # "completed" /\ Calls(k)

Confirmed == Answered("continue") /\ Returns(Done(project), "pending")

Pending ==
  /\ At("pending")
  /\ \/ Unapplied(project) = {} /\ Goes("dispatch")
     \/ /\ Unapplied(project) # {}
        /\ project' = [project EXCEPT !.status = "revision_pending"]
        /\ op' = [op EXCEPT !.at = "process", !.then = "dispatch",
                            !.prior = "paid"]
        /\ UNCHANGED world

(* #dispatchBuildBatch, up to its first save; the rest is ProjectDelivery. *)
Dispatch ==
  /\ At("dispatch")
  /\ \/ (Fenced \/ ~Paid(project, op.v)) /\ Goes("end")
     \/ /\ ~Fenced /\ Paid(project, op.v)
        /\ Saves([project EXCEPT !.built = op.v, !.status = "building"], "end")
-----------------------------------------------------------------------------
(* The customer and Stripe.  Only a link that was mailed can be paid.      *)

Moves(s, before, after) ==
  /\ stripe[s] = before /\ stripe' = [stripe EXCEPT ![s] = after]
  /\ UNCHANGED <<project, op, inbound, links, faults>>

Pay(s) == s \in links /\ Moves(s, "open", "paid")

(* A session that ends unpaid is replaced by the next attempt.             *)
Submit(s) == /\ s[1] \in Delayed /\ s \in links /\ s[2] + 1 \in Attempts
             /\ Moves(s, "open", "processing")
Settle(s) == Moves(s, "processing", "paid")
Lapse(s)  == s[2] + 1 \in Attempts /\ Moves(s, "open", "expired")

Step == \/ End \/ Route \/ LookLater \/ Look \/ Captured \/ Uncaptured
        \/ Turn \/ Awaited \/ Create \/ Created \/ Send \/ Sent
        \/ Analyze \/ Analyzed \/ Process \/ Understood
        \/ Expire \/ Expirable \/ Expired \/ Draft \/ Drafted
        \/ Clarify \/ Clarified
        \/ Verified \/ Continue \/ Confirmed \/ Pending \/ Dispatch

Next == \/ Step \/ Reconcile \/ Crash
        \/ \E how \in Failures : CallFails(how)
        \/ \E m \in Mails : MailArrives(m) \/ Receive(m)
        \/ \E s \in Sessions :
             Webhook(s) \/ Pay(s) \/ Submit(s) \/ Settle(s) \/ Lapse(s)

Spec == Init /\ [][Next]_vars

(* Turns are given in the order they are asked for, so the worker, which   *)
(* asks again and again, gets its own; it receives mails before it         *)
(* reconciles.  Calls are answered or fail, and the time of the next look  *)
(* at Stripe comes.  No webhook has to arrive, and nobody has to pay.      *)
Fairness == /\ WF_vars(Step) /\ SF_vars(Look) /\ SF_vars(Reconcile)
            /\ \A m \in Mails : SF_vars(Receive(m))
FairSpec == Spec /\ Fairness
-----------------------------------------------------------------------------
(* "Payment for an obsolete version never authorizes building a newer      *)
(* version": a build begins for the version in force, from a receipt for a *)
(* session that Stripe captured, with no envelope unresolved, and with no  *)
(* message open or, in the turn that found the payment, after the reasoner *)
(* was given what was open, of which the batch that fits changed nothing.  *)
BuildsAreInForce ==
  [][project'.built # project.built =>
       /\ project'.built = project.active
       /\ \E a \in Attempts : /\ <<project.active, a>> \in project.paid
                              /\ stripe[<<project.active, a>>] = "paid"
       /\ inbound = {}
       /\ Unapplied(project) = {} \/ op.then = "dispatch"]_vars

(* What the bounded batch gives up: that nothing of the customer is open   *)
(* when a build begins.                                                    *)
BuildsBeginWithNothingOpen ==
  [][project'.built # project.built => Unapplied(project) = {}]_vars

(* "expires the prior open Checkout Session where possible": of the links  *)
(* the customer has, at most one of each version can still be paid, and    *)
(* none of an older version that was never paid for.                       *)
Payable == {s \in links : stripe[s] = "open"}
OneLinkPerPlan ==
  \A s \in Payable : /\ s[1] = project.active \/ Paid(project, s[1])
                     /\ \A t \in Payable : s[1] = t[1] => s = t

(* A payment Stripe captured for the newest session of the version in      *)
(* force does not stay unrecorded, even when no webhook arrives, unless    *)
(* the project waits for an operator or for an answer of the customer.     *)
Unrecorded ==
  /\ \E a \in Newest(project, project.active) :
       stripe[<<project.active, a>>] = "paid"
  /\ ~Paid(project, project.active)
  /\ project.status \notin Parked \cup {"needs_clarification"}
PaymentsAreRecorded == []<>~Unrecorded

(* "recovers a lost paid webhook against an in-flight pre-payment edit":   *)
(* the verification of payments does not end as failed while a session of  *)
(* the version in force is captured.                                       *)
CapturedPaymentsPass ==
  project.status = "payment_verification_failed" =>
    \A a \in Attempts : project.active # 0 =>
      stripe[<<project.active, a>>] # "paid"
=============================================================================
