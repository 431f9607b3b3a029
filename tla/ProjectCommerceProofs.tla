----------------------- MODULE ProjectCommerceProofs -----------------------
(***************************************************************************)
(* Proofs about ProjectCommerce, for every number of versions, sessions,   *)
(* messages, questions and faults.  A build begins from op, a copy of what *)
(* the aggregate said before up to three waits for a provider, so the      *)
(* invariant IInv says what of that copy still holds when it is used: the  *)
(* version an operation goes on with is in force and has a receipt         *)
(* (OpIsInForce), and a receipt stands for a payment Stripe captured       *)
(* (ReceiptsAreCaptured).  The steps that only go from one label to the    *)
(* next share the lemmas GoesOn, SavesOn, ReturnsOn and AsksOn.            *)
(*                                                                         *)
(* The second part is about the links of the customer.  LinkInv says what  *)
(* the aggregate and Stripe may say of one session at the same time        *)
(* (SessionsFit), that the sessions of a version come one after the other  *)
(* (OrderFits), and what an operation that waits still knows of them       *)
(* (OpFits, DraftFits).  Most steps leave the stored sessions alone; the   *)
(* lemmas on Alike cover those.                                            *)
(***************************************************************************)
EXTENDS ProjectCommerce, TLAPS

(* An effect may be tried once.                                            *)
LEMMA MaxAttemptsIsPositive == MaxAttempts \in Nat /\ 1 \in 0..MaxAttempts
BY MaxAttemptsAssumption DEF MaxAttemptsAssumption

\* The effects that occur: a retry is scheduled only while attempts are left.
Sound == {e \in Effects : e.wait = "retry" => e.n < MaxAttempts}

(* Whatever the code does with an effect, it is sound again: above all,    *)
(* the count of its attempts stays within effectMaxAttempts.               *)
LEMMA EffectsStaySound ==
  ASSUME NEW e \in Sound
  PROVE  /\ Queued(e) \in Sound /\ Completed(e) \in Sound
         /\ Rescheduled(e) \in Sound /\ Checking(e) \in Sound
         /\ Retrying(e) => Retried(e) \in Sound
         /\ \A retryable \in BOOLEAN : Charged(e, retryable) \in Sound
<1>1. e \in Effects /\ e.n \in 0..MaxAttempts
  BY DEF Sound, Effects
<1>2. Queued(e) \in Sound
  <2>1. [st |-> "pending", n |-> 1, wait |-> "none"] \in Sound
    BY MaxAttemptsIsPositive DEF Sound, Effects
  <2> QED
    BY <2>1 DEF Queued
<1>3. Completed(e) \in Sound
  BY <1>1 DEF Sound, Effects, Completed
<1>4. Rescheduled(e) \in Sound
  <2>1. [st |-> "pending", n |-> 1, wait |-> "check"] \in Sound
    BY MaxAttemptsIsPositive DEF Sound, Effects
  <2> QED
    BY <2>1 DEF Rescheduled
<1>5. Checking(e) \in Sound
  <2>1. [e EXCEPT !.wait = "none"] \in Sound
    BY <1>1 DEF Sound, Effects
  <2> QED
    BY <2>1 DEF Checking
<1>6. Retrying(e) => Retried(e) \in Sound
  <2> SUFFICES ASSUME Retrying(e) PROVE Retried(e) \in Sound
    OBVIOUS
  <2>1. e.n + 1 \in 0..MaxAttempts
    BY <1>1, MaxAttemptsIsPositive DEF Retrying, Sound
  <2> QED
    BY <1>1, <2>1 DEF Sound, Effects, Retried
<1>7. ASSUME NEW retryable \in BOOLEAN
      PROVE  Charged(e, retryable) \in Sound
  <2>1. DeadLettered(e) \in Sound
    BY <1>1 DEF Sound, Effects, DeadLettered
  <2>2. CASE e.n >= MaxAttempts
    BY <2>1, <2>2 DEF Charged
  <2>3. CASE ~(e.n >= MaxAttempts)
    <3>1. e.n < MaxAttempts
      BY <1>1, <2>3, MaxAttemptsIsPositive
    <3>2. [e EXCEPT !.wait = "retry"] \in Sound
      BY <1>1, <3>1 DEF Sound, Effects
    <3> QED
      BY <2>1, <3>2 DEF Charged
  <2> QED
    BY <2>2, <2>3
<1> QED
  BY <1>2, <1>3, <1>4, <1>5, <1>6, <1>7
-----------------------------------------------------------------------------
\* The aggregates whose effects are sound.
SoundProjects ==
  [status : Status, active : Versions \cup {0}, built : Versions \cup {0},
   questions : Questions \cup {0},
   sess : [Sessions -> {"none", "open", "complete", "expired"}],
   paid : SUBSET Sessions, saved : SUBSET Mails, consumed : SUBSET Mails,
   eff : [Keys -> Sound]]

\* TypeOK, with a sound aggregate.
Typed == /\ project \in SoundProjects /\ op \in Ops
         /\ inbound \subseteq Mails
         /\ stripe \in [Sessions -> {"none", "open", "processing", "paid", "expired"}]
         /\ links \subseteq Sessions /\ faults \in 0..MaxFaults

\* Before the first quote there are no sessions, payments or receipts, and
\* the statuses that lead to them are not reached.
PlanIsThere ==
  project.active = 0 =>
    /\ project.status \in Parked \cup {"intake_received", "needs_clarification",
                                       "awaiting_customer_revision"}
    /\ \A s \in Sessions : project.sess[s] = "none" /\ stripe[s] = "none"
    /\ project.paid = {} /\ op.key[1] # "create"

\* A receipt is for a session Stripe captured, and the status "paid" is for
\* a receipt of the version in force.
ReceiptsAreCaptured ==
  /\ \A s \in project.paid : stripe[s] = "paid"
  /\ project.status = "paid" => Paid(project, project.active)

\* What an operation remembers suffices for the step it is at: the session it
\* asks about exists, the payment it verifies is captured.
OpIsReady ==
  /\ op.then \in {"end", "turn", "awaited", "dispatch"}
  /\ op.at \in {"look", "awaited", "create", "send"} \/ op.then = "awaited"
       => op.v \in Versions /\ project.active # 0
  /\ op.at \in {"expiring", "verify"} \/ (op.at \in {"look", "expire"} /\ op.call # "none")
       => Session \in Sessions /\ project.active # 0
  /\ op.at = "verify" => stripe[Session] = "paid"
  /\ op.at = "clarify" => op.c \in Questions
  /\ op.at = "process" => op.prior # "none"

\* The operations that lead to a build are about the version in force, which
\* is paid for; at the last step nothing the customer said is left over, or
\* the operation has just had the reasoner look at what there was.
OpIsInForce ==
  /\ op.at = "look" => op.v = project.active
  /\ op.at \in {"continue", "pending", "dispatch"} \/ op.then = "dispatch"
       => op.v = project.active /\ Paid(project, op.v)
  /\ op.then = "dispatch" => op.at \in {"process", "draft", "clarify", "end", "dispatch"}
  /\ op.at = "dispatch" => Unapplied(project) = {} \/ op.then = "dispatch"

\* The inductive invariant.
IInv == Typed /\ PlanIsThere /\ ReceiptsAreCaptured /\ OpIsReady /\ OpIsInForce
-----------------------------------------------------------------------------
\* What Stripe may do in a step: sessions stay paid, and none appears before
\* the first quote.
ProvidersGoOn ==
  /\ stripe' \in [Sessions -> {"none", "open", "processing", "paid", "expired"}]
  /\ links' \subseteq Sessions
  /\ \A s \in Sessions : /\ stripe[s] = "paid" => stripe'[s] = "paid"
                         /\ project.active = 0 => stripe'[s] = "none"

(* A step that asks no provider keeps what Stripe said.                    *)
LEMMA QuietProviders ==
  ASSUME IInv, UNCHANGED providers
  PROVE  ProvidersGoOn
BY DEF IInv, Typed, PlanIsThere, ProvidersGoOn, providers

(* A call that reaches its provider makes no paid session unpaid: an       *)
(* expiry touches open sessions only.                                      *)
LEMMA ActsGoOn ==
  ASSUME IInv, Acts(op.key)
  PROVE  ProvidersGoOn
<1>1. op.key \in Keys \cup {NoKey}
  BY DEF IInv, Typed, Ops
<1>2. op.key[1] = "proposal" => <<op.key[2], op.key[3]>> \in Sessions
  BY <1>1 DEF Keys, NoKey, Sessions
<1>3. links' \subseteq Sessions
  BY <1>2 DEF Acts, IInv, Typed
<1>4. stripe' \in [Sessions -> {"none", "open", "processing", "paid", "expired"}]
  BY DEF Acts, IInv, Typed
<1>5. \A s \in Sessions : stripe[s] = "paid" => stripe'[s] = "paid"
  BY DEF Acts, IInv, Typed
<1>6. ASSUME project.active = 0, NEW s \in Sessions PROVE stripe'[s] = "none"
  BY <1>6 DEF Acts, IInv, PlanIsThere
<1> QED
  BY <1>3, <1>4, <1>5, <1>6 DEF ProvidersGoOn

\* The aggregate p may replace the stored one: same version, no receipt lost,
\* none without a payment.
SameCourse(p) ==
  /\ p \in SoundProjects /\ p.active = project.active
  /\ project.paid \subseteq p.paid
  /\ \A s \in p.paid : stripe[s] = "paid"
  /\ p.status = "paid" => Paid(p, p.active)
  /\ p.active = 0 =>
       /\ p.status \in Parked \cup {"intake_received", "needs_clarification",
                                    "awaiting_customer_revision"}
       /\ p.sess = project.sess /\ p.paid = {}

\* A step of the world around the project.
WorldGoesOn == /\ ProvidersGoOn /\ inbound' \subseteq Mails
               /\ faults' \in 0..MaxFaults

(* A step that leaves the world alone.                                     *)
LEMMA QuietWorld ==
  ASSUME IInv, UNCHANGED world
  PROVE  WorldGoesOn
BY QuietProviders DEF IInv, Typed, WorldGoesOn, world, providers

(* A save of such an aggregate keeps the invariant of the aggregate.       *)
LEMMA CourseGoesOn ==
  ASSUME IInv, SameCourse(project'), WorldGoesOn, op' \in Ops,
         op'.key = op.key \/ op'.key[1] # "create" \/ project.active # 0
  PROVE  Typed' /\ PlanIsThere' /\ ReceiptsAreCaptured'
<1>1. Typed'
  BY DEF Typed, SameCourse, WorldGoesOn, ProvidersGoOn
<1>2. PlanIsThere'
  BY DEF IInv, Typed, PlanIsThere, SameCourse, WorldGoesOn, ProvidersGoOn
<1>3. ReceiptsAreCaptured'
  BY DEF ReceiptsAreCaptured, SameCourse, WorldGoesOn, ProvidersGoOn,
         SoundProjects, Paid
<1> QED
  BY <1>1, <1>2, <1>3

(* A step of the world alone keeps the invariant.                          *)
LEMMA StandsStill ==
  ASSUME IInv, UNCHANGED <<project, op>>, WorldGoesOn
  PROVE  IInv'
<1>1. SameCourse(project') /\ op' \in Ops
  BY DEF IInv, Typed, PlanIsThere, ReceiptsAreCaptured, SameCourse, SoundProjects
<1>2. OpIsReady'
  BY DEF IInv, OpIsReady, WorldGoesOn, ProvidersGoOn, Session
<1>3. OpIsInForce'
  BY DEF IInv, OpIsInForce
<1> QED
  BY <1>1, <1>2, <1>3, CourseGoesOn DEF IInv

\* An operation may wait at label l once p is saved.
MayGoTo(p, l) ==
  /\ l \in Labels \ {"look", "verify", "expiring"}
  /\ l \in {"awaited", "create", "send"} => op.v \in Versions /\ p.active # 0
  /\ l = "clarify" => op.c \in Questions
  /\ l = "process" => op.prior # "none"
  /\ l \in {"continue", "pending", "dispatch"} => op.v = p.active /\ Paid(p, op.v)
  /\ op.then = "dispatch" => l \in {"process", "draft", "clarify", "end", "dispatch"}
  /\ l = "dispatch" => Unapplied(p) = {} \/ op.then = "dispatch"

(* The pattern of most steps: a save, and then the next label.             *)
LEMMA GoesOn ==
  ASSUME IInv, NEW p, NEW l, SameCourse(p), MayGoTo(p, l),
         project' = p, GoesTo(l), WorldGoesOn
  PROVE  IInv'
<1>1. /\ op' \in Ops /\ op'.at = l /\ op'.call = "none"
      /\ op'.then = op.then /\ op'.v = op.v /\ op'.c = op.c
      /\ op'.key = op.key /\ op'.prior = op.prior
  BY DEF IInv, Typed, MayGoTo, GoesTo, Ops
<1>2. OpIsReady'
  BY <1>1 DEF IInv, OpIsReady, MayGoTo, SameCourse
<1>3. OpIsInForce'
  BY <1>1 DEF IInv, OpIsInForce, MayGoTo, SameCourse, Paid
<1> QED
  BY <1>1, <1>2, <1>3, CourseGoesOn DEF IInv

(* The pattern of a call: a save, and then the wait for the answer.        *)
LEMMA AsksOn ==
  ASSUME IInv, NEW p, NEW l, NEW k \in Keys \cup {NoKey},
         NEW call \in {"query", "effect"}, SameCourse(p), Asks(p, l, k, call),
         project.active = 0 => k[1] # "create",
         \/ l = op.at /\ l \notin {"look", "expire", "dispatch"}
         \/ l = "expiring" /\ op.at = "expire" /\ op.call # "none"
  PROVE  IInv'
<1>1. /\ op' \in Ops /\ op'.at = l /\ op'.call = call
      /\ op'.then = op.then /\ op'.v = op.v /\ op'.c = op.c
      /\ op'.key = k /\ op'.prior = op.prior
  BY DEF IInv, Typed, Asks, Ops, Labels
<1>2. project' = p /\ WorldGoesOn
  BY QuietWorld DEF Asks
<1>3. OpIsReady'
  BY <1>1, <1>2 DEF IInv, OpIsReady, SameCourse, WorldGoesOn, ProvidersGoOn, Session
<1>4. OpIsInForce'
  BY <1>1, <1>2 DEF IInv, OpIsInForce, SameCourse, Paid
<1> QED
  BY <1>1, <1>2, <1>3, <1>4, CourseGoesOn DEF IInv

(* The stored aggregate may stay.                                          *)
LEMMA StaysCourse ==
  ASSUME IInv
  PROVE  SameCourse(project)
BY DEF IInv, Typed, PlanIsThere, ReceiptsAreCaptured, SameCourse

(* A change of an effect alone moves no project.                           *)
LEMMA EffectStaysCourse ==
  ASSUME IInv, NEW k, NEW e, k \in Keys => e \in Sound
  PROVE  SameCourse([project EXCEPT !.eff[k] = e])
<1> DEFINE p == [project EXCEPT !.eff[k] = e]
<1>1. p \in SoundProjects
  BY DEF IInv, Typed, SoundProjects
<1>2. /\ p.active = project.active /\ p.paid = project.paid
      /\ p.status = project.status /\ p.sess = project.sess
  BY DEF IInv, Typed, SoundProjects
<1> QED
  BY <1>1, <1>2 DEF IInv, PlanIsThere, ReceiptsAreCaptured, SameCourse, Paid

(* Effects are queued and completed without moving the project.            *)
LEMMA KeyedEffects ==
  ASSUME IInv
  PROVE  /\ SameCourse(Done(project))
         /\ \A k \in Keys : SameCourse([project EXCEPT !.eff[k] = Queued(@)])
<1>1. op.key \in Keys => Completed(project.eff[op.key]) \in Sound
  BY EffectsStaySound DEF IInv, Typed, SoundProjects
<1>2. \A k \in Keys : Queued(project.eff[k]) \in Sound
  BY EffectsStaySound DEF IInv, Typed, SoundProjects
<1> QED
  BY <1>1, <1>2, EffectStaysCourse DEF Done, IInv, Typed, Ops
-----------------------------------------------------------------------------
(* #failEffect parks a project, but does not change its plan or receipts.  *)
LEMMA BlamedStaysCourse ==
  ASSUME IInv, NEW retryable \in BOOLEAN
  PROVE  SameCourse(Blamed(project, op.key, retryable))
<1> DEFINE e == Charged(project.eff[op.key], retryable)
           st == IF e.st # "failed" THEN project.status
                 ELSE IF op.key[1] = "reconcile" THEN "payment_verification_failed"
                                                 ELSE "needs_operator_attention"
           p == [project EXCEPT !.eff[op.key] = e, !.status = st]
<1>1. CASE op.key = NoKey \/ ~Chargeable(project.eff[op.key])
  BY <1>1, StaysCourse DEF Blamed
<1>2. CASE ~(op.key = NoKey \/ ~Chargeable(project.eff[op.key]))
  <2>1. op.key \in Keys
    BY <1>2 DEF IInv, Typed, Ops
  <2>2. e \in Sound
    BY <2>1, EffectsStaySound DEF IInv, Typed, SoundProjects
  <2>3. st \in Status /\ (st = project.status \/ st \in Parked)
    BY DEF IInv, Typed, SoundProjects, Status, Parked
  <2> HIDE DEF e, st
  <2>4. p \in SoundProjects
    BY <2>1, <2>2, <2>3 DEF IInv, Typed, SoundProjects
  <2>5. /\ p.active = project.active /\ p.paid = project.paid
        /\ p.status = st /\ p.sess = project.sess
    BY DEF IInv, Typed, SoundProjects
  <2>6. SameCourse(p)
    BY <2>3, <2>4, <2>5 DEF IInv, PlanIsThere, ReceiptsAreCaptured, SameCourse,
                            Paid, Parked
  <2>7. Blamed(project, op.key, retryable) = p
    BY <1>2 DEF Blamed, e, st
  <2> QED
    BY <2>6, <2>7
<1> QED
  BY <1>1, <1>2

(* #runWithEffectFailure keeps the invariant.                              *)
LEMMA ThrowsOn ==
  ASSUME IInv, NEW retryable \in BOOLEAN, Throws(retryable), WorldGoesOn
  PROVE  IInv'
<1>1. MayGoTo(project', "end")
  BY DEF MayGoTo, Labels
<1> QED
  BY <1>1, BlamedStaysCourse, GoesOn DEF Throws

(* The end of a turn keeps the invariant.                                  *)
LEMMA IdleOn ==
  ASSUME IInv, project' = project, op' = Idle, WorldGoesOn
  PROVE  IInv'
<1>1. /\ op' \in Ops /\ op'.at = "idle" /\ op'.then = "end"
      /\ op'.call = "none" /\ op'.key[1] = "none"
  BY DEF Idle, Ops, Labels, NoKey
<1>2. OpIsReady'
  BY <1>1 DEF OpIsReady
<1>3. OpIsInForce'
  BY <1>1 DEF OpIsInForce
<1> QED
  BY <1>1, <1>2, <1>3, StaysCourse, CourseGoesOn DEF IInv
-----------------------------------------------------------------------------
(* A crash or a failed call, whether or not it reached the provider, keeps *)
(* the invariant.                                                          *)
LEMMA FailuresKeep ==
  ASSUME IInv, Crash \/ \E how \in Failures : CallFails(how)
  PROVE  IInv'
<1>1. CASE Crash
  <2>1. WorldGoesOn
    <3>1. ProvidersGoOn
      BY <1>1, QuietProviders, ActsGoOn DEF Crash
    <3>2. faults' \in 0..MaxFaults
      <4>1. MaxFaults \in Nat /\ faults \in 0..MaxFaults
        BY CommerceAssumption DEF CommerceAssumption, IInv, Typed
      <4>2. faults < MaxFaults /\ faults' = faults + 1
        BY <1>1 DEF Crash
      <4> QED
        BY <4>1, <4>2
    <3>3. inbound' \subseteq Mails
      BY <1>1 DEF Crash, IInv, Typed
    <3> QED
      BY <3>1, <3>2, <3>3 DEF WorldGoesOn
  <2> QED
    BY <1>1, <2>1, IdleOn DEF Crash
<1>2. ASSUME NEW how \in Failures, CallFails(how)
      PROVE  IInv'
  <2>1. WorldGoesOn
    <3>1. ProvidersGoOn
      BY <1>2, QuietProviders, ActsGoOn DEF CallFails
    <3>2. faults' \in 0..MaxFaults
      <4>1. MaxFaults \in Nat /\ faults \in 0..MaxFaults
        BY CommerceAssumption DEF CommerceAssumption, IInv, Typed
      <4>2. faults < MaxFaults /\ faults' = faults + 1
        BY <1>2 DEF CallFails
      <4> QED
        BY <4>1, <4>2
    <3>3. inbound' \subseteq Mails
      BY <1>2 DEF CallFails, IInv, Typed
    <3> QED
      BY <3>1, <3>2, <3>3 DEF WorldGoesOn
  <2> QED
    BY <1>2, <2>1, ThrowsOn DEF CallFails
<1> QED
  BY <1>1, <1>2

(* The end of a turn keeps the invariant.                                  *)
LEMMA EndKeeps == ASSUME IInv, End PROVE IInv'
<1>1. WorldGoesOn
  BY QuietProviders DEF End, WorldGoesOn, IInv, Typed
<1> QED
  BY <1>1, IdleOn DEF End

(* Mails that arrive and sessions that move keep the invariant.            *)
LEMMA WorldKeeps ==
  ASSUME IInv,
         \/ \E m \in Mails : MailArrives(m)
         \/ \E s \in Sessions : Pay(s) \/ Submit(s) \/ Settle(s) \/ Lapse(s)
  PROVE  IInv'
<1>1. ASSUME NEW m \in Mails, MailArrives(m) PROVE IInv'
  <2>1. WorldGoesOn
    BY <1>1, QuietProviders DEF MailArrives, WorldGoesOn, IInv, Typed
  <2> QED
    BY <1>1, <2>1, StandsStill DEF MailArrives
<1>2. ASSUME NEW s \in Sessions, Pay(s) \/ Submit(s) \/ Settle(s) \/ Lapse(s)
      PROVE  IInv'
  <2>1. /\ UNCHANGED <<project, op, inbound, links, faults>>
        /\ stripe[s] \in {"open", "processing"}
        /\ \E t \in {"paid", "processing", "expired"} :
             stripe' = [stripe EXCEPT ![s] = t]
    BY <1>2 DEF Pay, Submit, Settle, Lapse, Moves
  <2>2. ProvidersGoOn
    BY <2>1 DEF ProvidersGoOn, IInv, Typed, PlanIsThere
  <2> QED
    BY <2>1, <2>2, StandsStill DEF WorldGoesOn, IInv, Typed
<1> QED
  BY <1>1, <1>2

(* A turn of the worker begins without a plan of its own.                  *)
LEMMA ReconcileKeeps == ASSUME IInv, Reconcile PROVE IInv'
<1>1. SameCourse(project')
  <2>1. CASE project' = project
    BY <2>1, StaysCourse
  <2>2. CASE \E k \in Keys : /\ Retrying(project.eff[k])
                             /\ project' = [project EXCEPT !.eff[k] = Retried(@)]
    <3>1. PICK k \in Keys : /\ Retrying(project.eff[k])
                            /\ project' = [project EXCEPT !.eff[k] = Retried(@)]
      BY <2>2
    <3>2. Retried(project.eff[k]) \in Sound
      BY <3>1, EffectsStaySound DEF IInv, Typed, SoundProjects
    <3> QED
      BY <3>1, <3>2, EffectStaysCourse
  <2> QED
    BY <2>1, <2>2 DEF Reconcile
<1>2. /\ op' \in Ops /\ op'.at = "route" /\ op'.then = "end"
      /\ op'.call = "none" /\ op'.key[1] = "none"
  BY DEF Reconcile, Idle, Ops, Labels, NoKey
<1>3. OpIsReady'
  BY <1>2 DEF OpIsReady
<1>4. OpIsInForce'
  BY <1>2 DEF OpIsInForce
<1> QED
  BY <1>1, <1>2, <1>3, <1>4, QuietWorld, CourseGoesOn DEF IInv, Reconcile

(* The pattern of the routes of #reconcileProjectOnce, which take the      *)
(* version in force.                                                       *)
LEMMA BeginsOn ==
  ASSUME IInv, At("route"),
         NEW l \in {"analyze", "end", "look", "turn", "create", "continue"},
         NEW t \in {"end", "turn", "awaited"}, Begins(l, t),
         l \in {"look", "create"} \/ t = "awaited" => project.active # 0,
         l = "continue" => Paid(project, project.active)
  PROVE  IInv'
<1>1. /\ op' \in Ops /\ op'.at = l /\ op'.call = "none" /\ op'.then = t
      /\ op'.v = project.active /\ op'.key = op.key
  BY DEF Begins, IInv, Typed, SoundProjects, Ops, Labels
<1>2. project' = project /\ WorldGoesOn
  BY QuietWorld DEF Begins
<1>3. project.active \in Versions \cup {0}
  BY DEF IInv, Typed, SoundProjects
<1>4. OpIsReady'
  BY <1>1, <1>2, <1>3 DEF OpIsReady
<1>5. OpIsInForce'
  BY <1>1, <1>2 DEF OpIsInForce
<1> QED
  BY <1>1, <1>2, <1>4, <1>5, StaysCourse, CourseGoesOn DEF IInv

(* #reconcileProjectOnce keeps the invariant: its routes are chosen by the *)
(* status, and the status says that the version is there or paid for.      *)
LEMMA RouteKeeps == ASSUME IInv, Route PROVE IInv'
<1> USE DEF Route
<1>1. op.then # "dispatch"
  BY DEF IInv, OpIsInForce, At
<1>2. project.status \in {"proposal_drafting", "awaiting_payment", "paid",
                          "revision_pending"} => project.active # 0
  BY DEF IInv, PlanIsThere, Parked
<1>3. CASE Goes("end")
  <2>1. MayGoTo(project, "end")
    BY DEF MayGoTo, Labels
  <2> QED
    BY <1>3, <2>1, StaysCourse, QuietWorld, GoesOn DEF Goes, Saves
<1>4. CASE project.status = "intake_received" /\ Begins("analyze", "end")
  BY <1>4, BeginsOn
<1>5. CASE /\ project.status = "needs_clarification"
           /\ Begins(IF project.active = 0 THEN "analyze" ELSE "end", "end")
  BY <1>5, BeginsOn
<1>6. CASE /\ project.questions # 0 /\ UNCHANGED <<project, world>>
           /\ op' = [op EXCEPT !.at = "clarify", !.c = project.questions]
  <2>1. /\ op' \in Ops /\ op'.at = "clarify" /\ op'.then = op.then
        /\ op'.c \in Questions /\ op'.v = op.v /\ op'.key = op.key
    BY <1>6, CommerceAssumption
    DEF IInv, Typed, SoundProjects, Ops, Labels, CommerceAssumption
  <2>2. OpIsReady'
    BY <1>6, <2>1 DEF IInv, OpIsReady
  <2>3. OpIsInForce'
    BY <1>1, <1>6, <2>1 DEF IInv, OpIsInForce
  <2> QED
    BY <1>6, <2>1, <2>2, <2>3, StaysCourse, QuietWorld, CourseGoesOn DEF IInv
<1>7. CASE /\ project.active # 0 /\ Begins("look", "turn")
  BY <1>7, BeginsOn
<1>8. CASE Begins("turn", "end")
  BY <1>8, BeginsOn
<1>9. CASE project.status = "proposal_drafting" /\ Begins("create", "end")
  BY <1>2, <1>9, BeginsOn
<1>10. CASE project.status = "awaiting_payment" /\ Begins("look", "awaited")
  BY <1>2, <1>10, BeginsOn
<1>11. CASE project.status = "paid" /\ Begins("continue", "end")
  <2>1. Paid(project, project.active)
    BY <1>11 DEF IInv, ReceiptsAreCaptured
  <2> QED
    BY <1>11, <2>1, BeginsOn
<1> QED
  BY <1>3, <1>4, <1>5, <1>6, <1>7, <1>8, <1>9, <1>10, <1>11
-----------------------------------------------------------------------------
(* A save and the next label.                                              *)
LEMMA SavesOn ==
  ASSUME IInv, NEW p, NEW l, Saves(p, l), SameCourse(p), MayGoTo(p, l)
  PROVE  IInv'
BY QuietWorld, GoesOn DEF Saves

(* An answer, its save and the next label.                                 *)
LEMMA ReturnsOn ==
  ASSUME IInv, NEW p, NEW l, Returns(p, l), SameCourse(p), MayGoTo(p, l)
  PROVE  IInv'
<1>1. WorldGoesOn
  BY QuietProviders, ActsGoOn DEF Returns, WorldGoesOn, IInv, Typed
<1> QED
  BY <1>1, GoesOn DEF Returns

(* The receipt of a captured session of the version in force.              *)
LEMMA ReceiptStaysCourse ==
  ASSUME IInv, NEW q, SameCourse(q), NEW s \in Sessions, stripe[s] = "paid",
         s[1] = project.active
  PROVE  LET p == Receipted(q, s)
         IN  SameCourse(p) /\ s[1] = p.active /\ Paid(p, s[1])
<1> DEFINE p == Receipted(q, s)
<1>1. /\ p \in SoundProjects /\ p.active = project.active
      /\ p.paid = q.paid \cup {s}
  BY DEF Receipted, SameCourse, SoundProjects, Status
<1>2. Paid(p, s[1])
  BY <1>1 DEF Paid, Sessions
<1>3. p.active # 0
  BY <1>1, CommerceAssumption DEF Sessions, CommerceAssumption
<1> QED
  BY <1>1, <1>2, <1>3 DEF SameCourse

(* A look that is not due yet keeps the invariant.                         *)
LEMMA LookLaterKeeps == ASSUME IInv, LookLater PROVE IInv'
<1>1. MayGoTo(project, op.then)
  BY DEF LookLater, At, IInv, OpIsReady, OpIsInForce, MayGoTo, Labels
<1> QED
  BY <1>1, StaysCourse, SavesOn DEF LookLater, Goes

(* The question about the newest session keeps the invariant.              *)
LEMMA LookKeeps == ASSUME IInv, Look PROVE IInv'
<1>1. PICK a \in Newest(project, op.v) :
        op' = [op EXCEPT !.c = a, !.key = Watch(a), !.call = "query"]
  BY DEF Look
<1>2. a \in Attempts /\ a \in Nat /\ op.v \in Versions /\ project.active # 0
      /\ op.v = project.active /\ op.at = "look" /\ op.then # "dispatch"
  BY CommerceAssumption DEF Look, At, Newest, Stored, IInv, OpIsReady,
                            OpIsInForce, CommerceAssumption
<1>3. Watch(a) \in Keys
  BY <1>2 DEF Watch, Keys
<1>4. /\ op' \in Ops /\ op'.at = "look" /\ op'.then = op.then /\ op'.v = op.v
      /\ op'.c = a /\ op'.key = Watch(a)
  BY <1>1, <1>2, <1>3 DEF IInv, Typed, Ops
<1>5. Checking(Queued(project.eff[Watch(a)])) \in Sound
  BY <1>3, EffectsStaySound DEF IInv, Typed, SoundProjects
<1>6. SameCourse(project')
  BY <1>4, <1>5, EffectStaysCourse DEF Look
<1>7. project'.active = project.active
  BY <1>6 DEF SameCourse
<1>8. OpIsReady'
  BY <1>2, <1>4, <1>7 DEF IInv, OpIsReady, Session, Sessions
<1>9. OpIsInForce'
  BY <1>2, <1>4, <1>7 DEF OpIsInForce
<1> QED
  BY <1>2, <1>4, <1>6, <1>8, <1>9, QuietWorld, CourseGoesOn DEF IInv, Look

(* A payment found by reconciliation keeps the invariant.                  *)
LEMMA CapturedKeeps == ASSUME IInv, Captured PROVE IInv'
<1> DEFINE p == Receipted(Done(project), Session)
<1>1. /\ Session \in Sessions /\ Session[1] = op.v /\ op.v = project.active
      /\ op.then # "dispatch"
  BY DEF Captured, Answered, IInv, OpIsReady, OpIsInForce, Session
<1>2. SameCourse(p) /\ op.v = p.active /\ Paid(p, op.v)
  BY <1>1, KeyedEffects, ReceiptStaysCourse DEF Captured
<1>3. MayGoTo(p, "continue")
  BY <1>1, <1>2 DEF MayGoTo, Labels
<1> QED
  BY <1>2, <1>3, ReturnsOn DEF Captured

(* A session found unpaid keeps the invariant.                             *)
LEMMA UncapturedKeeps == ASSUME IInv, Uncaptured PROVE IInv'
<1> DEFINE over == stripe[Session] = "expired"
           next == <<"create", op.v, op.c + 1>>
           expiry == <<"expire", op.v, 0>>
           eff(k) == LET e == project.eff[k] IN
                     CASE k = op.key -> IF over THEN Completed(e) ELSE Rescheduled(e)
                       [] over /\ k = next -> Queued(e)
                       [] over /\ k = expiry /\ e.st = "pending" -> Completed(e)
                       [] OTHER -> e
           sess == IF stripe[Session] = "processing" THEN "complete" ELSE stripe[Session]
           effs == [k \in Keys |-> eff(k)]
           l == IF op.then = "awaited" /\ stripe[Session] # "processing"
                THEN "create" ELSE op.then
           p == [project EXCEPT !.sess[Session] = sess, !.eff = effs]
<1>1. /\ Session \in Sessions /\ project.active # 0 /\ op.then # "dispatch"
      /\ op.v \in Versions /\ op.then \in {"end", "turn", "awaited"}
      /\ stripe[Session] # "paid"
  BY DEF Uncaptured, Answered, IInv, OpIsReady, OpIsInForce
<1>2. Returns(p, l)
  BY DEF Uncaptured
<1>3. effs \in [Keys -> Sound]
  <2> SUFFICES ASSUME NEW k \in Keys PROVE eff(k) \in Sound
    OBVIOUS
  <2>1. project.eff[k] \in Sound
    BY DEF IInv, Typed, SoundProjects
  <2> QED
    BY <2>1, EffectsStaySound
<1>4. sess \in {"none", "open", "complete", "expired"}
  BY <1>1 DEF IInv, Typed
<1> HIDE DEF effs, sess, eff
<1>5. /\ p \in SoundProjects /\ p.active = project.active
      /\ p.paid = project.paid /\ p.status = project.status
  BY <1>3, <1>4 DEF IInv, Typed, SoundProjects
<1>6. SameCourse(p)
  BY <1>1, <1>5 DEF IInv, ReceiptsAreCaptured, SameCourse, Paid
<1>7. MayGoTo(p, l)
  BY <1>1, <1>5 DEF MayGoTo, Labels
<1> QED
  BY <1>2, <1>6, <1>7, ReturnsOn

(* stableProjectStatus is a status.                                        *)
LEMMA StableIsStatus == ASSUME IInv PROVE Stable(project) \in Status
BY DEF IInv, Typed, SoundProjects, Stable, Status

(* The step after a look keeps the invariant.                              *)
LEMMA TurnKeeps == ASSUME IInv, Turn \/ Awaited PROVE IInv'
<1>1. CASE Turn /\ Goes("end")
  <2>1. MayGoTo(project, "end")
    BY DEF MayGoTo, Labels
  <2> QED
    BY <1>1, <2>1, StaysCourse, SavesOn DEF Goes
<1>2. CASE /\ op.at \in {"turn", "awaited"} /\ UNCHANGED <<project, world>>
           /\ \E l \in {"process", "create"}, st \in Status :
                /\ op' = [op EXCEPT !.at = l, !.then = "end", !.prior = st]
                /\ l = "create" => op.at = "awaited"
  <2>1. PICK l \in {"process", "create"}, st \in Status :
          /\ op' = [op EXCEPT !.at = l, !.then = "end", !.prior = st]
          /\ l = "create" => op.at = "awaited"
    BY <1>2
  <2>2. /\ op' \in Ops /\ op'.at = l /\ op'.then = "end" /\ op'.v = op.v
        /\ op'.prior = st /\ op'.key = op.key
    BY <2>1 DEF IInv, Typed, Ops, Labels
  <2>3. st # "none"
    BY DEF Status, Parked, Editing
  <2>4. OpIsReady'
    BY <1>2, <2>1, <2>2, <2>3 DEF IInv, OpIsReady
  <2>5. OpIsInForce'
    BY <2>2 DEF OpIsInForce
  <2> QED
    BY <1>2, <2>2, <2>4, <2>5, StaysCourse, QuietWorld, CourseGoesOn DEF IInv
<1>3. CASE Turn /\ ~Goes("end")
  <2>1. op' = [op EXCEPT !.at = "process", !.then = "end", !.prior = Stable(project)]
    BY <1>3 DEF Turn
  <2> QED
    BY <1>2, <1>3, <2>1, StableIsStatus DEF Turn, At
<1>4. CASE Awaited
  <2> DEFINE l == IF Unapplied(project) = {} THEN "create" ELSE "process"
  <2>1. op' = [op EXCEPT !.then = "end", !.at = l, !.prior = "awaiting_payment"]
    BY <1>4 DEF Awaited
  <2>2. op' = [op EXCEPT !.at = l, !.then = "end", !.prior = "awaiting_payment"]
    BY <2>1 DEF IInv, Typed, Ops
  <2>3. "awaiting_payment" \in Status
    BY DEF Status
  <2> QED
    BY <1>2, <1>4, <2>2, <2>3 DEF Awaited, At
<1> QED
  BY <1>1, <1>3, <1>4

(* The request for a session keeps the invariant.                          *)
LEMMA CreateKeeps == ASSUME IInv, Create PROVE IInv'
<1>1. /\ op.at = "create" /\ op.v \in Versions /\ project.active # 0
      /\ op.then # "dispatch"
  BY DEF Create, At, IInv, OpIsReady, OpIsInForce
<1>2. CASE Goes("send")
  <2>1. MayGoTo(project, "send")
    BY <1>1 DEF MayGoTo, Labels
  <2> QED
    BY <1>2, <2>1, StaysCourse, SavesOn DEF Goes
<1>3. ASSUME NEW a \in Attempts, Calls(<<"create", op.v, a>>)
      PROVE  IInv'
  <2>1. <<"create", op.v, a>> \in Keys
    BY <1>1 DEF Keys
  <2> QED
    BY <1>1, <1>3, <2>1, KeyedEffects, AsksOn DEF Calls
<1> QED
  BY <1>2, <1>3 DEF Create

(* A new session keeps the invariant.                                      *)
LEMMA CreatedKeeps == ASSUME IInv, Created PROVE IInv'
<1> DEFINE q == Done(project)
           s == <<op.key[2], op.key[3]>>
           p == [q EXCEPT !.sess[s] = "open", !.status = "awaiting_payment"]
<1>1. /\ op.v \in Versions /\ project.active # 0 /\ op.then # "dispatch"
  BY DEF Created, Answered, IInv, OpIsReady, OpIsInForce
<1>2. SameCourse(q)
  BY KeyedEffects
<1> HIDE DEF q, s
<1>3. /\ p \in SoundProjects /\ p.active = q.active /\ p.paid = q.paid
      /\ p.status = "awaiting_payment"
  BY <1>2 DEF SameCourse, SoundProjects, Status
<1>4. SameCourse(p)
  BY <1>1, <1>2, <1>3 DEF SameCourse
<1>5. MayGoTo(p, "send")
  BY <1>1, <1>4 DEF MayGoTo, SameCourse, Labels
<1> QED
  BY <1>4, <1>5, ReturnsOn DEF Created, q, s

(* The mail with the link keeps the invariant.                             *)
LEMMA SendKeeps == ASSUME IInv, Send PROVE IInv'
<1>1. /\ op.at = "send" /\ op.v \in Versions /\ project.active # 0
      /\ op.then # "dispatch" /\ op.then \in {"end", "turn", "awaited"}
  BY DEF Send, At, IInv, OpIsReady, OpIsInForce
<1>2. CASE Goes(op.then)
  <2>1. MayGoTo(project, op.then)
    BY <1>1 DEF MayGoTo, Labels
  <2> QED
    BY <1>2, <2>1, StaysCourse, SavesOn DEF Goes
<1>3. ASSUME NEW a \in Newest(project, op.v), Calls(<<"proposal", op.v, a>>)
      PROVE  IInv'
  <2>1. <<"proposal", op.v, a>> \in Keys
    BY <1>1 DEF Keys, Newest, Stored
  <2> QED
    BY <1>1, <1>3, <2>1, KeyedEffects, AsksOn DEF Calls
<1> QED
  BY <1>2, <1>3 DEF Send

(* The receipt of that mail keeps the invariant.                           *)
LEMMA SentKeeps == ASSUME IInv, Sent PROVE IInv'
<1>1. /\ op.at = "send" /\ op.v \in Versions /\ project.active # 0
      /\ op.then # "dispatch" /\ op.then \in {"end", "turn", "awaited"}
  BY DEF Sent, Answered, IInv, OpIsReady, OpIsInForce
<1>2. SameCourse(Done(project))
  BY KeyedEffects
<1>3. MayGoTo(Done(project), op.then)
  BY <1>1, <1>2 DEF MayGoTo, SameCourse, Labels
<1> QED
  BY <1>2, <1>3, ReturnsOn DEF Sent
-----------------------------------------------------------------------------
(* #receiveCustomerMessage keeps the invariant: a message of a project     *)
(* that was never paid for cannot make it "revision_pending".              *)
LEMMA ReceiveKeeps ==
  ASSUME IInv, NEW m \in Mails, Receive(m)
  PROVE  IInv'
<1>1. SameCourse(project')
  <2> DEFINE p == Received(project, m)
  <2>1. /\ p \in SoundProjects /\ p.active = project.active
        /\ p.paid = project.paid /\ p.sess = project.sess
    BY DEF Received, IInv, Typed, SoundProjects, Status, Editing
  <2>2. \/ p.status = project.status
        \/ p.status = "revision_pending" /\ project.paid # {}
        \/ p.status = "awaiting_customer_revision"
    BY DEF Received, IInv, Typed, SoundProjects
  <2>3. SameCourse(p)
    BY <2>1, <2>2 DEF IInv, PlanIsThere, ReceiptsAreCaptured, SameCourse, Paid
  <2> QED
    BY <2>3, StaysCourse DEF Receive
<1>2. WorldGoesOn
  BY QuietProviders DEF Receive, WorldGoesOn, IInv, Typed
<1>3. CASE op' = op
  <2>1. op' \in Ops /\ op = Idle
    BY <1>3 DEF Receive, IInv, Typed
  <2>2. OpIsReady' /\ OpIsInForce'
    BY <1>3, <2>1 DEF OpIsReady, OpIsInForce, Idle
  <2> QED
    BY <1>1, <1>2, <1>3, <2>1, <2>2, CourseGoesOn DEF IInv
<1>4. CASE op' = [Idle EXCEPT !.at = "process", !.mail = m, !.prior = Stable(project)]
  <2>1. /\ op' \in Ops /\ op'.at = "process" /\ op'.then = "end"
        /\ op'.prior = Stable(project) /\ op'.key[1] = "none"
    BY <1>4, StableIsStatus DEF Idle, Ops, Labels, NoKey
  <2>2. op'.prior # "none"
    BY <2>1, StableIsStatus DEF Status, Parked, Editing
  <2>3. OpIsReady'
    BY <2>1, <2>2 DEF OpIsReady
  <2>4. OpIsInForce'
    BY <2>1 DEF OpIsInForce
  <2> QED
    BY <1>1, <1>2, <2>1, <2>3, <2>4, CourseGoesOn DEF IInv
<1> QED
  BY <1>3, <1>4 DEF Receive

(* A question of the reasoner keeps the invariant.                         *)
LEMMA AsksBackKeeps ==
  ASSUME IInv, AsksBack, op.then # "dispatch" \/ op.at \in {"process", "draft"}
  PROVE  IInv'
<1>1. PICK q \in Questions :
        op' = [op EXCEPT !.at = "clarify", !.c = q, !.call = "none"]
  BY DEF AsksBack
<1>2. q \in Nat
  BY CommerceAssumption DEF CommerceAssumption
<1>3. /\ op' \in Ops /\ op'.at = "clarify" /\ op'.c = q /\ op'.then = op.then
      /\ op'.v = op.v /\ op'.key = op.key
  BY <1>1, <1>2 DEF IInv, Typed, Ops, Labels
<1>4. OpIsReady'
  BY <1>3 DEF IInv, OpIsReady, AsksBack
<1>5. OpIsInForce'
  BY <1>3 DEF IInv, OpIsInForce, AsksBack
<1> QED
  BY <1>3, <1>4, <1>5, StaysCourse, QuietWorld, CourseGoesOn DEF IInv, AsksBack

(* A question to the reasoner keeps the invariant.                         *)
LEMMA QueriesKeep ==
  ASSUME IInv, NEW l \in {"analyze", "process", "draft"}, At(l), Queries(l)
  PROVE  IInv'
<1>1. op.key \in Keys \cup {NoKey}
  BY DEF IInv, Typed, Ops
<1>2. project.active = 0 => op.key[1] # "create"
  BY DEF IInv, PlanIsThere
<1> QED
  BY <1>1, <1>2, StaysCourse, AsksOn DEF Queries, At

(* The analysis of the intake keeps the invariant.                         *)
LEMMA AnalyzedKeeps == ASSUME IInv, Analyzed PROVE IInv'
<1>1. op.at = "analyze" /\ op.then # "dispatch"
  BY DEF Analyzed, Answered, IInv, OpIsInForce
<1>2. CASE Goes("draft")
  <2>1. MayGoTo(project, "draft")
    BY <1>1 DEF MayGoTo, Labels
  <2> QED
    BY <1>2, <2>1, StaysCourse, SavesOn DEF Goes
<1> QED
  BY <1>1, <1>2, AsksBackKeeps DEF Analyzed

(* The outcome of an edit keeps the invariant: one that interrupts a       *)
(* dispatch comes back to it with the batch that was understood consumed.  *)
LEMMA UnderstoodKeeps == ASSUME IInv, Understood PROVE IInv'
<1>1. op.at = "process" /\ op.prior # "none" /\ op.prior \in Status
  BY DEF Understood, Answered, IInv, OpIsReady, Typed, Ops
<1>2. CASE /\ ~(project.active # 0 /\ Paid(project, project.active))
           /\ Goes("expire")
  <2>1. project.active = 0 => project.paid = {}
    BY DEF IInv, PlanIsThere
  <2>2. ~Paid(project, project.active)
    BY <1>2, <2>1 DEF Paid
  <2>3. op.then # "dispatch"
    BY <2>2 DEF IInv, OpIsInForce
  <2>4. MayGoTo(project, "expire")
    BY <2>3 DEF MayGoTo, Labels
  <2> QED
    BY <1>2, <2>4, StaysCourse, SavesOn DEF Goes
<1>3. CASE Goes("draft")
  <2>1. MayGoTo(project, "draft")
    BY DEF MayGoTo, Labels
  <2> QED
    BY <1>3, <2>1, StaysCourse, SavesOn DEF Goes
<1>4. CASE /\ project.active # 0 /\ Paid(project, project.active)
           /\ \E batch \in Batches(project) :
                Saves([project EXCEPT !.consumed = @ \cup batch,
                                      !.status = op.prior], op.then)
  <2>1. PICK batch \in Batches(project) :
               Saves([project EXCEPT !.consumed = @ \cup batch,
                                     !.status = op.prior], op.then)
    BY <1>4
  <2> DEFINE p == [project EXCEPT !.consumed = @ \cup batch, !.status = op.prior]
  <2>2. batch \subseteq Mails
    BY DEF Batches, Unapplied, IInv, Typed, SoundProjects
  <2>3. /\ p \in SoundProjects /\ p.active = project.active
        /\ p.paid = project.paid
    BY <1>1, <2>2 DEF IInv, Typed, SoundProjects
  <2>4. SameCourse(p)
    BY <1>4, <2>3 DEF IInv, ReceiptsAreCaptured, SameCourse, Paid
  <2>5. MayGoTo(p, op.then)
    BY <2>3 DEF IInv, OpIsReady, OpIsInForce, MayGoTo, Labels, Paid
  <2>6. Saves(p, op.then)
    BY <2>1
  <2> HIDE DEF p
  <2> QED
    BY <2>4, <2>5, <2>6, SavesOn
<1> QED
  BY <1>1, <1>2, <1>3, <1>4, AsksBackKeeps DEF Understood

(* The first half of #expireCurrentCheckout keeps the invariant.           *)
LEMMA ExpireKeeps == ASSUME IInv, Expire PROVE IInv'
<1>1. op.at = "expire" /\ op.then # "dispatch"
  BY DEF Expire, At, IInv, OpIsInForce
<1>2. CASE Goes("draft")
  <2>1. MayGoTo(project, "draft")
    BY <1>1 DEF MayGoTo, Labels
  <2> QED
    BY <1>2, <2>1, StaysCourse, SavesOn DEF Goes
<1>3. CASE /\ UNCHANGED <<project, world>>
           /\ \E a \in Open(project, project.active) :
                op' = [op EXCEPT !.v = project.active, !.c = a, !.call = "query"]
  <2>1. PICK a \in Open(project, project.active) :
          op' = [op EXCEPT !.v = project.active, !.c = a, !.call = "query"]
    BY <1>3
  <2>2. a \in Attempts /\ a \in Nat /\ project.active \in Versions
    BY CommerceAssumption DEF Open, Stored, IInv, Typed, SoundProjects,
                              CommerceAssumption
  <2>3. project.active # 0
    BY <2>2, CommerceAssumption DEF CommerceAssumption
  <2>4. /\ op' \in Ops /\ op'.at = "expire" /\ op'.then = op.then
        /\ op'.v = project.active /\ op'.c = a /\ op'.key = op.key
    BY <1>1, <2>1, <2>2 DEF IInv, Typed, Ops
  <2>5. OpIsReady'
    BY <1>3, <2>2, <2>3, <2>4 DEF IInv, OpIsReady, Session, Sessions
  <2>6. OpIsInForce'
    BY <1>1, <2>4 DEF OpIsInForce
  <2> QED
    BY <1>3, <2>4, <2>5, <2>6, StaysCourse, QuietWorld, CourseGoesOn DEF IInv
<1> QED
  BY <1>2, <1>3 DEF Expire

(* A session is saved as Stripe has it without moving the project.         *)
LEMMA SessionStaysCourse ==
  ASSUME IInv, NEW q, SameCourse(q), project.active # 0,
         NEW st \in {"none", "open", "complete", "expired"}
  PROVE  SameCourse([q EXCEPT !.sess[Session] = st])
<1> DEFINE p == [q EXCEPT !.sess[Session] = st]
<1>1. p \in SoundProjects
  BY DEF SameCourse, SoundProjects
<1>2. p.active = q.active /\ p.paid = q.paid /\ p.status = q.status
  BY DEF SameCourse, SoundProjects
<1> QED
  BY <1>1, <1>2 DEF SameCourse, Paid

(* What #expireCurrentCheckout does with the answer keeps the invariant.   *)
LEMMA ExpirableKeeps == ASSUME IInv, Expirable PROVE IInv'
<1> DEFINE k == <<"expire", op.v, 0>>
<1>1. /\ op.at = "expire" /\ op.call # "none" /\ op.then # "dispatch"
      /\ Session \in Sessions /\ op.v \in Versions /\ project.active # 0
  BY DEF Expirable, Answered, IInv, OpIsReady, OpIsInForce, Session, Sessions
<1>2. k \in Keys
  BY <1>1 DEF Keys
<1>3. CASE Throws(FALSE) /\ UNCHANGED world
  BY <1>3, QuietWorld, ThrowsOn
<1>4. CASE Saves([project EXCEPT !.sess[Session] = "expired",
                                 !.eff[k] = Completed(Queued(@))], "draft")
  <2> DEFINE e == Completed(Queued(project.eff[k]))
             q == [project EXCEPT !.eff[k] = e]
             p == [q EXCEPT !.sess[Session] = "expired"]
  <2>1. e \in Sound
    BY <1>2, EffectsStaySound DEF IInv, Typed, SoundProjects
  <2> HIDE DEF e
  <2>2. SameCourse(q)
    BY <2>1, EffectStaysCourse
  <2>3. SameCourse(p)
    BY <1>1, <2>2, SessionStaysCourse
  <2>4. p = [project EXCEPT !.sess[Session] = "expired", !.eff[k] = e]
    BY <1>2 DEF IInv, Typed, SoundProjects
  <2>5. MayGoTo(p, "draft")
    BY <1>1 DEF MayGoTo, Labels
  <2> QED
    BY <1>4, <2>3, <2>4, <2>5, SavesOn DEF e
<1>5. CASE Asks([project EXCEPT !.eff[k] = Queued(@)], "expiring", k, "effect")
  BY <1>1, <1>2, <1>5, KeyedEffects, AsksOn
<1> QED
  BY <1>3, <1>4, <1>5 DEF Expirable

(* The expiry of a session keeps the invariant.                            *)
LEMMA ExpiredKeeps == ASSUME IInv, Expired PROVE IInv'
<1>1. op.then # "dispatch" /\ project.active # 0
  BY DEF Expired, Answered, IInv, OpIsReady, OpIsInForce
<1>2. CASE Throws(TRUE) /\ UNCHANGED world
  BY <1>2, QuietWorld, ThrowsOn
<1>3. CASE Returns([Done(project) EXCEPT !.sess[Session] = "expired"], "draft")
  <2>1. SameCourse([Done(project) EXCEPT !.sess[Session] = "expired"])
    BY <1>1, KeyedEffects, SessionStaysCourse
  <2>2. MayGoTo([Done(project) EXCEPT !.sess[Session] = "expired"], "draft")
    BY <1>1 DEF MayGoTo, Labels
  <2> QED
    BY <1>3, <2>1, <2>2, ReturnsOn
<1> QED
  BY <1>2, <1>3 DEF Expired

(* A new version of the plan keeps the invariant, and the operation is no  *)
(* longer on its way to a build.                                           *)
LEMMA DraftedKeeps == ASSUME IInv, Drafted PROVE IInv'
<1>1. op.at = "draft"
  BY DEF Drafted, Answered
<1>2. CASE AsksBack
  BY <1>1, <1>2, AsksBackKeeps
<1>3. CASE ~AsksBack
  <2> DEFINE v == project.active + 1
             k == <<"create", v, 1>>
             e == Queued(project.eff[k])
             open == Unapplied(project)
  <2>0. PICK batch \in IF open = {} THEN {{}} ELSE Batches(project) :
          project' = [project EXCEPT !.active = v, !.consumed = @ \cup batch,
                        !.status = "proposal_drafting", !.eff[k] = e]
    BY <1>3 DEF Drafted
  <2>1. /\ v \in Versions /\ UNCHANGED world
        /\ project' = [project EXCEPT !.active = v, !.consumed = @ \cup batch,
                         !.status = "proposal_drafting", !.eff[k] = e]
        /\ op' = [op EXCEPT !.at = "create", !.then = "end", !.v = v, !.call = "none"]
        /\ batch \subseteq Mails
    BY <1>3, <2>0 DEF Drafted, Batches, Unapplied, IInv, Typed, SoundProjects
  <2>2. v # 0 /\ k \in Keys
    BY <2>1, CommerceAssumption DEF CommerceAssumption, Keys
  <2>3. e \in Sound
    BY <2>2, EffectsStaySound DEF IInv, Typed, SoundProjects
  <2>4. /\ op' \in Ops /\ op'.at = "create" /\ op'.then = "end" /\ op'.v = v
    BY <2>1 DEF IInv, Typed, Ops, Labels
  <2> HIDE DEF v, e
  <2>5. /\ project' \in SoundProjects /\ project'.active = v
        /\ project'.paid = project.paid /\ project'.status = "proposal_drafting"
    BY <2>1, <2>3 DEF IInv, Typed, SoundProjects, Status
  <2>6. Typed'
    BY <2>1, <2>4, <2>5, QuietWorld DEF Typed, WorldGoesOn, ProvidersGoOn
  <2>7. PlanIsThere'
    BY <2>2, <2>5 DEF PlanIsThere
  <2>8. ReceiptsAreCaptured'
    BY <2>1, <2>5 DEF IInv, ReceiptsAreCaptured, world, providers
  <2>9. OpIsReady' /\ OpIsInForce'
    BY <2>1, <2>2, <2>4, <2>5 DEF OpIsReady, OpIsInForce
  <2> QED
    BY <2>6, <2>7, <2>8, <2>9 DEF IInv
<1> QED
  BY <1>2, <1>3

(* A question to the customer keeps the invariant.                         *)
LEMMA ClarifyKeeps == ASSUME IInv, Clarify \/ Clarified PROVE IInv'
<1> DEFINE k == <<"question", op.c, 0>>
<1>1. op.at = "clarify" /\ op.c \in Questions
  BY DEF Clarify, Clarified, At, Answered, IInv, OpIsReady
<1>2. \A p : MayGoTo(p, "end")
  BY DEF MayGoTo, Labels
<1>3. CASE Goes("end")
  BY <1>2, <1>3, StaysCourse, SavesOn DEF Goes
<1>4. CASE Clarified
  BY <1>2, <1>4, KeyedEffects, ReturnsOn DEF Clarified
<1>5. CASE Asks([project EXCEPT !.eff[k] = Queued(@), !.questions = op.c,
                                !.status = "needs_clarification"],
                "clarify", k, "effect")
  <2> DEFINE e == Queued(project.eff[k])
             p == [project EXCEPT !.eff[k] = e, !.questions = op.c,
                                  !.status = "needs_clarification"]
  <2>1. k \in Keys
    BY <1>1 DEF Keys
  <2>2. e \in Sound
    BY <2>1, EffectsStaySound DEF IInv, Typed, SoundProjects
  <2> HIDE DEF e
  <2>3. /\ p \in SoundProjects /\ p.active = project.active
        /\ p.paid = project.paid /\ p.sess = project.sess
        /\ p.status = "needs_clarification"
    BY <1>1, <2>2 DEF IInv, Typed, SoundProjects, Status
  <2>4. SameCourse(p)
    BY <2>3 DEF IInv, PlanIsThere, ReceiptsAreCaptured, SameCourse
  <2> QED
    BY <1>1, <1>5, <2>1, <2>4, AsksOn DEF e
<1> QED
  BY <1>3, <1>4, <1>5 DEF Clarify
-----------------------------------------------------------------------------
(* A webhook begins with a session Stripe captured, so there is a plan.    *)
LEMMA WebhookKeeps ==
  ASSUME IInv, NEW s \in Sessions, Webhook(s)
  PROVE  IInv'
<1>1. op' = [Idle EXCEPT !.at = "verify", !.v = s[1], !.c = s[2], !.call = "query"]
  BY DEF Webhook
<1>2. s[1] \in Versions /\ s[2] \in Nat /\ s = <<s[1], s[2]>>
  <2>1. PICK v \in Versions, a \in Attempts : s = <<v, a>>
    BY DEF Sessions
  <2>2. a \in Nat
    BY CommerceAssumption DEF CommerceAssumption
  <2> QED
    BY <2>1, <2>2
<1>3. /\ op' \in Ops /\ op'.at = "verify" /\ op'.then = "end"
      /\ op'.v = s[1] /\ op'.c = s[2] /\ op'.key[1] = "none"
  BY <1>1, <1>2 DEF Idle, Ops, Labels, NoKey
<1>4. project.active # 0 /\ stripe[s] = "paid" /\ UNCHANGED <<project, world>>
  BY DEF Webhook, IInv, PlanIsThere
<1>5. Session' = s
  BY <1>2, <1>3 DEF Session
<1>6. OpIsReady'
  BY <1>3, <1>4, <1>5 DEF OpIsReady, world, providers
<1>7. OpIsInForce'
  BY <1>3 DEF OpIsInForce
<1> QED
  BY <1>3, <1>4, <1>6, <1>7, StaysCourse, QuietWorld, CourseGoesOn DEF IInv

(* A verified payment keeps the invariant: only one of the version in      *)
(* force goes on towards a build.                                          *)
LEMMA VerifiedKeeps == ASSUME IInv, Verified PROVE IInv'
<1>1. /\ Session \in Sessions /\ stripe[Session] = "paid" /\ project.active # 0
      /\ op.then # "dispatch" /\ Session = <<op.v, op.c>> /\ Session[1] = op.v
  BY DEF Verified, Answered, IInv, OpIsReady, OpIsInForce, Session
<1>2. \A p : MayGoTo(p, "end")
  BY <1>1 DEF MayGoTo, Labels
<1>3. CASE Goes("end")
  BY <1>2, <1>3, StaysCourse, SavesOn DEF Goes
<1>4. CASE /\ Session \in project.paid /\ op.v = project.active /\ Goes("continue")
  <2>1. Paid(project, op.v)
    BY <1>1, <1>4 DEF Paid, Sessions
  <2>2. MayGoTo(project, "continue")
    BY <1>1, <1>4, <2>1 DEF MayGoTo, Labels
  <2> QED
    BY <1>4, <2>2, StaysCourse, SavesOn DEF Goes
<1>5. CASE /\ op.v = project.active
           /\ Returns(Receipted(project, Session), "continue")
  <2> DEFINE p == Receipted(project, Session)
  <2>1. SameCourse(p) /\ op.v = p.active /\ Paid(p, op.v)
    BY <1>1, <1>5, StaysCourse, ReceiptStaysCourse
  <2>2. MayGoTo(p, "continue")
    BY <1>1, <2>1 DEF MayGoTo, Labels
  <2> QED
    BY <1>5, <2>1, <2>2, ReturnsOn
<1>6. CASE Returns([Receipted(project, Session) EXCEPT
                      !.status = "needs_operator_attention"], "end")
  <2> DEFINE p == [Receipted(project, Session) EXCEPT
                     !.status = "needs_operator_attention"]
  <2>1. /\ p \in SoundProjects /\ p.active = project.active
        /\ p.paid = project.paid \cup {Session}
        /\ p.status = "needs_operator_attention"
    BY <1>1 DEF Receipted, IInv, Typed, SoundProjects, Status, Parked
  <2>2. SameCourse(p)
    BY <1>1, <2>1 DEF IInv, ReceiptsAreCaptured, SameCourse
  <2> QED
    BY <1>2, <1>6, <2>2, ReturnsOn
<1> QED
  BY <1>3, <1>4, <1>5, <1>6 DEF Verified

(* The confirmation and the dispatch keep the invariant.                   *)
LEMMA ContinueKeeps ==
  ASSUME IInv, Continue \/ Confirmed \/ Dispatch
  PROVE  IInv'
<1>1. op.v = project.active /\ Paid(project, op.v) /\ op.v \in Versions
  BY DEF Continue, Confirmed, Dispatch, At, Answered, IInv, OpIsInForce, Typed,
         SoundProjects, Paid, Sessions
<1>2. \A p : MayGoTo(p, "end")
  BY DEF MayGoTo, Labels
<1>3. CASE Goes("end")
  BY <1>2, <1>3, StaysCourse, SavesOn DEF Goes
<1>4. CASE Continue /\ Goes("pending")
  <2>1. op.then # "dispatch"
    BY <1>4 DEF Continue, At, IInv, OpIsInForce
  <2>2. MayGoTo(project, "pending")
    BY <1>1, <2>1 DEF MayGoTo, Labels
  <2> QED
    BY <1>4, <2>2, StaysCourse, SavesOn DEF Goes
<1>5. CASE Continue /\ Calls(<<"confirm", op.v, 0>>)
  <2>1. <<"confirm", op.v, 0>> \in Keys
    BY <1>1 DEF Keys
  <2> QED
    BY <1>5, <2>1, KeyedEffects, AsksOn DEF Calls, Continue, At
<1>6. CASE Confirmed
  <2>1. op.then # "dispatch"
    BY <1>6 DEF Confirmed, Answered, IInv, OpIsInForce
  <2>2. SameCourse(Done(project)) /\ Paid(Done(project), op.v)
    BY <1>1, KeyedEffects DEF SameCourse, Paid
  <2>3. MayGoTo(Done(project), "pending")
    BY <1>1, <2>1, <2>2 DEF MayGoTo, SameCourse, Labels
  <2> QED
    BY <1>6, <2>2, <2>3, ReturnsOn DEF Confirmed
<1>7. CASE Dispatch /\ ~Goes("end")
  <2> DEFINE p == [project EXCEPT !.built = op.v, !.status = "building"]
  <2>1. Saves(p, "end")
    BY <1>7 DEF Dispatch
  <2>2. /\ p \in SoundProjects /\ p.active = project.active
        /\ p.paid = project.paid /\ p.status = "building"
    BY <1>1 DEF IInv, Typed, SoundProjects, Status
  <2>3. project.active # 0
    BY <1>1, CommerceAssumption DEF CommerceAssumption
  <2>4. SameCourse(p)
    BY <2>2, <2>3 DEF IInv, ReceiptsAreCaptured, SameCourse
  <2> QED
    BY <1>2, <2>1, <2>4, SavesOn
<1> QED
  BY <1>3, <1>4, <1>5, <1>6, <1>7 DEF Continue

(* The messages saved meanwhile are processed before the dispatch.         *)
LEMMA PendingKeeps == ASSUME IInv, Pending PROVE IInv'
<1>1. /\ op.at = "pending" /\ op.then # "dispatch" /\ op.v = project.active
      /\ Paid(project, op.v) /\ op.v \in Versions
  BY DEF Pending, At, IInv, OpIsInForce, Typed, SoundProjects, Paid, Sessions
<1>2. project.active # 0
  BY <1>1, CommerceAssumption DEF CommerceAssumption
<1>3. CASE Unapplied(project) = {} /\ Goes("dispatch")
  <2>1. MayGoTo(project, "dispatch")
    BY <1>1, <1>3 DEF MayGoTo, Labels
  <2> QED
    BY <1>3, <2>1, StaysCourse, SavesOn DEF Goes
<1>4. CASE /\ project' = [project EXCEPT !.status = "revision_pending"]
           /\ op' = [op EXCEPT !.at = "process", !.then = "dispatch",
                               !.prior = "paid"]
           /\ UNCHANGED world
  <2>1. /\ op' \in Ops /\ op'.at = "process" /\ op'.then = "dispatch"
        /\ op'.v = op.v /\ op'.prior = "paid" /\ op'.key = op.key
    BY <1>4 DEF IInv, Typed, Ops, Labels, Status
  <2>2. /\ project' \in SoundProjects /\ project'.active = project.active
        /\ project'.paid = project.paid /\ project'.status = "revision_pending"
    BY <1>4 DEF IInv, Typed, SoundProjects, Status, Editing
  <2>3. SameCourse(project')
    BY <1>2, <2>2 DEF IInv, ReceiptsAreCaptured, SameCourse
  <2>4. OpIsReady'
    BY <2>1 DEF OpIsReady
  <2>5. OpIsInForce'
    BY <1>1, <2>1, <2>2 DEF OpIsInForce, Paid
  <2> QED
    BY <1>4, <2>1, <2>3, <2>4, <2>5, QuietWorld, CourseGoesOn DEF IInv
<1> QED
  BY <1>3, <1>4 DEF Pending
-----------------------------------------------------------------------------
(* A new project satisfies the invariant.                                  *)
LEMMA InitIsInductive == Init => IInv
<1> SUFFICES ASSUME Init PROVE IInv
  OBVIOUS
<1>1. NoEffect \in Sound
  BY MaxAttemptsIsPositive DEF NoEffect, Sound, Effects
<1>2. project \in SoundProjects
  BY <1>1 DEF Init, SoundProjects, Status
<1>3. Typed
  <2>1. Idle \in Ops
    BY DEF Idle, Ops, Labels, NoKey
  <2>2. stripe \in [Sessions -> {"none", "open", "processing", "paid", "expired"}]
    BY DEF Init
  <2>3. inbound \subseteq Mails /\ links \subseteq Sessions
    BY DEF Init
  <2>4. MaxFaults \in Nat
    BY CommerceAssumption DEF CommerceAssumption
  <2>5. faults \in 0..MaxFaults
    BY <2>4 DEF Init
  <2> QED
    BY <1>2, <2>1, <2>2, <2>3, <2>5 DEF Init, Typed
<1>4. PlanIsThere
  BY DEF Init, PlanIsThere, Idle, NoKey
<1>5. ReceiptsAreCaptured /\ OpIsReady /\ OpIsInForce
  BY DEF Init, ReceiptsAreCaptured, OpIsReady, OpIsInForce, Idle
<1> QED
  BY <1>3, <1>4, <1>5 DEF IInv

(* Every step of the commerce keeps the invariant.                         *)
LEMMA NextIsInductive == IInv /\ [Next]_vars => IInv'
<1> SUFFICES ASSUME IInv, [Next]_vars PROVE IInv'
  OBVIOUS
<1>1. CASE UNCHANGED vars
  <2>1. WorldGoesOn
    BY <1>1, QuietWorld DEF vars
  <2> QED
    BY <1>1, <2>1, StandsStill DEF vars
<1>2. CASE End \/ Route \/ LookLater \/ Look \/ Captured \/ Uncaptured
  BY <1>2, EndKeeps, RouteKeeps, LookLaterKeeps, LookKeeps, CapturedKeeps,
     UncapturedKeeps
<1>3. CASE Turn \/ Awaited \/ Create \/ Created \/ Send \/ Sent
  BY <1>3, TurnKeeps, CreateKeeps, CreatedKeeps, SendKeeps, SentKeeps
<1>4. CASE Analyze \/ Process \/ Draft
  BY <1>4, QueriesKeep DEF Analyze, Process, Draft
<1>5. CASE Analyzed \/ Understood \/ Drafted \/ Clarify \/ Clarified
  BY <1>5, AnalyzedKeeps, UnderstoodKeeps, DraftedKeeps, ClarifyKeeps
<1>6. CASE Expire \/ Expirable \/ Expired
  BY <1>6, ExpireKeeps, ExpirableKeeps, ExpiredKeeps
<1>7. CASE Verified \/ Continue \/ Confirmed \/ Pending \/ Dispatch
  BY <1>7, VerifiedKeeps, ContinueKeeps, PendingKeeps
<1>8. CASE Reconcile
  BY <1>8, ReconcileKeeps
<1>9. CASE Crash \/ \E how \in Failures : CallFails(how)
  BY <1>9, FailuresKeep
<1>10. ASSUME NEW m \in Mails, MailArrives(m) \/ Receive(m)
       PROVE  IInv'
  BY <1>10, WorldKeeps, ReceiveKeeps
<1>11. ASSUME NEW s \in Sessions,
              Webhook(s) \/ Pay(s) \/ Submit(s) \/ Settle(s) \/ Lapse(s)
       PROVE  IInv'
  BY <1>11, WorldKeeps, WebhookKeeps
<1> QED
  BY <1>1, <1>2, <1>3, <1>4, <1>5, <1>6, <1>7, <1>8, <1>9, <1>10, <1>11
  DEF Next, Step

(* The invariant holds of every project, however often its turns are cut   *)
(* off by failed calls and restarts of the process.                        *)
THEOREM IsInductive == Spec => []IInv
BY InitIsInductive, NextIsInductive, PTL DEF Spec

(* The aggregate, the operation and the sessions stay what the code        *)
(* declares them to be; in particular no effect of a project is tried more *)
(* often than effectMaxAttempts allows.                                    *)
THEOREM CommerceTypeCorrect == Spec => []TypeOK
<1>1. IInv => TypeOK
  <2> SUFFICES ASSUME IInv PROVE TypeOK
    OBVIOUS
  <2>1. project \in Projects
    BY DEF IInv, Typed, SoundProjects, Projects, Sound
  <2> QED
    BY <2>1 DEF IInv, Typed, TypeOK
<1> QED
  BY <1>1, IsInductive, PTL

(* None of the ways to change the aggregate begins a build.                *)
LEMMA BlamesKeepBuilt ==
  ASSUME IInv
  PROVE  /\ \A k \in Keys \cup {NoKey}, retryable \in BOOLEAN :
              Blamed(project, k, retryable).built = project.built
         /\ Done(project).built = project.built
         /\ \A s \in Sessions : /\ Receipted(project, s).built = project.built
                               /\ Receipted(Done(project), s).built = project.built
         /\ \A m \in Mails : Received(project, m).built = project.built
<1>1. project \in SoundProjects
  BY DEF IInv, Typed
<1>2. ASSUME NEW k \in Keys \cup {NoKey}, NEW retryable \in BOOLEAN
      PROVE  Blamed(project, k, retryable).built = project.built
  BY <1>1 DEF Blamed, SoundProjects
<1>3. Done(project).built = project.built
  BY <1>1 DEF Done, SoundProjects
<1>4. ASSUME NEW s \in Sessions
      PROVE  /\ Receipted(project, s).built = project.built
             /\ Receipted(Done(project), s).built = project.built
  BY <1>1 DEF Receipted, Done, SoundProjects
<1>5. ASSUME NEW m \in Mails PROVE Received(project, m).built = project.built
  BY <1>1 DEF Received, SoundProjects
<1> QED
  BY <1>2, <1>3, <1>4, <1>5

(* A batch begins in #dispatchBuildBatch and nowhere else.                 *)
LEMMA OnlyDispatchBuilds ==
  ASSUME IInv, Next, ~Dispatch
  PROVE  project'.built = project.built
<1>1. project \in SoundProjects /\ op.key \in Keys \cup {NoKey}
  BY DEF IInv, Typed, Ops
<1>2. CASE End \/ Route \/ LookLater \/ Turn \/ Awaited \/ Send \/ Expire
           \/ Draft \/ Analyze \/ Process \/ Analyzed
  BY <1>1, <1>2 DEF End, Route, LookLater, Turn, Awaited, Send, Expire, Draft,
     Analyze, Process, Analyzed, Begins, Goes, Saves, Queries, Calls, Asks,
     AsksBack, SoundProjects
<1>3. CASE Look \/ Uncaptured \/ Create
  BY <1>1, <1>3 DEF Look, Uncaptured, Create, Goes, Saves, Returns, Calls, Asks,
     SoundProjects
<1>4. CASE Captured \/ Verified
  <2>1. Session \in Sessions
    BY <1>4 DEF IInv, OpIsReady, Captured, Verified, Answered
  <2> QED
    BY <1>1, <1>4, <2>1, BlamesKeepBuilt DEF Captured, Verified, Returns, Goes,
       Saves, Receipted, Done, SoundProjects
<1>5. CASE Created \/ Sent \/ Clarified \/ Confirmed \/ Clarify \/ Continue
  BY <1>1, <1>5, BlamesKeepBuilt DEF Created, Sent, Clarified, Confirmed, Clarify,
     Continue, Returns, Goes, Saves, Calls, Asks, Done, SoundProjects
<1>6. CASE Understood \/ Drafted \/ Pending
  BY <1>1, <1>6 DEF Understood, Drafted, Pending, AsksBack, Goes, Saves,
     SoundProjects
<1>7. CASE Expirable \/ Expired
  BY <1>1, <1>7, BlamesKeepBuilt DEF Expirable, Expired, Throws, Returns, Saves,
     Asks, Done, SoundProjects
<1>8. CASE Reconcile \/ Crash
  BY <1>1, <1>8 DEF Reconcile, Crash, SoundProjects
<1>9. ASSUME NEW how \in Failures, CallFails(how)
      PROVE  project'.built = project.built
  BY <1>1, <1>9, BlamesKeepBuilt DEF CallFails, Throws
<1>10. ASSUME NEW m \in Mails, MailArrives(m) \/ Receive(m)
       PROVE  project'.built = project.built
  BY <1>1, <1>10, BlamesKeepBuilt DEF MailArrives, Receive
<1>11. ASSUME NEW s \in Sessions,
              Webhook(s) \/ Pay(s) \/ Submit(s) \/ Settle(s) \/ Lapse(s)
       PROVE  project'.built = project.built
  BY <1>1, <1>11 DEF Webhook, Pay, Submit, Settle, Lapse, Moves
<1> QED
  BY <1>2, <1>3, <1>4, <1>5, <1>6, <1>7, <1>8, <1>9, <1>10, <1>11 DEF Next, Step

\* What BuildsAreInForce says of one step.
BuildStep ==
  project'.built # project.built =>
       /\ project'.built = project.active
       /\ \E a \in Attempts : /\ <<project.active, a>> \in project.paid
                              /\ stripe[<<project.active, a>>] = "paid"
       /\ inbound = {}
       /\ Unapplied(project) = {} \/ op.then = "dispatch"

(* #dispatchBuildBatch builds what op says is in force, and the invariant  *)
(* says that it still is, although op is older than the waits before it.   *)
LEMMA DispatchIsInForce ==
  ASSUME IInv, Dispatch
  PROVE  BuildStep
<1>1. project \in SoundProjects
  BY DEF IInv, Typed
<1>2. CASE Goes("end")
  BY <1>1, <1>2 DEF Goes, Saves, BuildStep
<1>3. CASE /\ ~Fenced /\ Paid(project, op.v)
           /\ Saves([project EXCEPT !.built = op.v, !.status = "building"], "end")
  <2>1. op.at = "dispatch"
    BY DEF Dispatch, At
  <2>2. /\ op.v = project.active
        /\ Unapplied(project) = {} \/ op.then = "dispatch"
    BY <2>1 DEF IInv, OpIsInForce
  <2>3. project'.built = project.active /\ inbound = {}
    BY <1>1, <1>3, <2>2 DEF Saves, Fenced, SoundProjects
  <2>4. PICK a \in Attempts : <<project.active, a>> \in project.paid
    BY <1>3, <2>2 DEF Paid
  <2>5. stripe[<<project.active, a>>] = "paid"
    BY <2>4 DEF IInv, ReceiptsAreCaptured
  <2> QED
    BY <2>2, <2>3, <2>4, <2>5 DEF BuildStep
<1> QED
  BY <1>2, <1>3 DEF Dispatch

(* "Payment for an obsolete version never authorizes building a newer      *)
(* version" (persistVerifiedPayment and dispatchBuildBatch): every build   *)
(* begins for the version in force, from a payment Stripe captured for it, *)
(* with no envelope unresolved, and with no message open unless this very  *)
(* turn had the reasoner look at what was open and a batch of it changed   *)
(* nothing, for any number of versions, sessions, messages and faults, and *)
(* however little of what is open fits a batch.                            *)
THEOREM BuildsStayInForce == Spec => BuildsAreInForce
<1>1. ASSUME IInv, [Next]_vars
      PROVE  [BuildStep]_vars
  <2>1. CASE UNCHANGED vars
    BY <2>1
  <2>2. CASE Dispatch
    BY <1>1, <2>2, DispatchIsInForce
  <2>3. CASE Next /\ ~Dispatch
    BY <1>1, <2>3, OnlyDispatchBuilds DEF BuildStep
  <2> QED
    BY <1>1, <2>1, <2>2, <2>3
<1> QED
  BY <1>1, IsInductive, PTL DEF Spec, BuildsAreInForce, BuildStep

-----------------------------------------------------------------------------
(* What the aggregate says of a session and what Stripe says of it.  Only  *)
(* a stored session is mailed, and thus paid; one that the aggregate has   *)
(* as over is over; one it has as open is of the plan in force, or of one  *)
(* that was paid for.                                                      *)
Over == {"processing", "paid", "expired"}
SessionFits(s) ==
  /\ s \in links \/ stripe[s] \in {"processing", "paid"}
       => project.sess[s] # "none"
  /\ project.sess[s] \in {"complete", "expired"} => stripe[s] \in Over
  /\ project.sess[s] = "open" => /\ stripe[s] # "none"
                                 /\ s[1] = project.active \/ Paid(project, s[1])

(* The sessions of a version are made one after the other, and only the    *)
(* newest can be open.                                                     *)
InOrder(p, v) ==
  \A a, b \in Attempts :
    p.sess[<<v, b>>] # "none" =>
      /\ a < b => p.sess[<<v, a>>] # "none"
      /\ p.sess[<<v, a>>] = "open" => b <= a

(* The first session of a version that is not there yet.                   *)
NextOne(p, v, a) == /\ a \in Attempts \ Stored(p, v)
                    /\ \A b \in Attempts \ Stored(p, v) : a <= b

(* What an operation remembers of sessions while it waits.                 *)
OpFits ==
  /\ op.at \in {"look", "awaited", "create", "send"} \/ op.then = "awaited"
       => op.v = project.active
  /\ op.at = "look" /\ op.call # "none" => op.c \in Newest(project, op.v)
  /\ op.at = "create" /\ op.call # "none" =>
       /\ op.call = "effect" /\ op.key[1] = "create" /\ op.key[2] = op.v
       /\ NextOne(project, op.v, op.key[3]) /\ Open(project, op.v) = {}
  /\ op.call = "effect" /\ op.key[1] = "proposal"
       => project.sess[<<op.key[2], op.key[3]>>] # "none"
  /\ op.at = "expiring" \/ (op.at = "expire" /\ op.call # "none")
       => op.v = project.active /\ op.c \in Open(project, op.v)
  /\ op.at = "expiring" /\ op.call # "none"
       => op.call = "effect" /\ op.key[1] = "expire"

(* The next version is drafted when the plan in force has no open link or  *)
(* was paid for; the intake is analysed when there is no plan.             *)
DraftFits ==
  /\ op.at = "draft"
       => Open(project, project.active) = {} \/ Paid(project, project.active)
  /\ op.at = "analyze" \/ project.status = "intake_received"
       \/ (op.at = "process" /\ op.prior = "intake_received")
       => project.active = 0

SessionsFit == \A s \in Sessions : SessionFits(s)
OrderFits   == \A v \in Versions : InOrder(project, v)
LinkInv == SessionsFit /\ OrderFits /\ OpFits /\ DraftFits

(* What any step may do to the sessions: one is made, expires, or is paid  *)
(* over its link; only a stored one is mailed.                             *)
Fate ==
  /\ links' \subseteq links \cup {s \in Sessions : project.sess[s] # "none"}
  /\ \A s \in Sessions :
       \/ stripe'[s] = stripe[s]
       \/ stripe[s] = "none" /\ stripe'[s] = "open"
       \/ stripe[s] = "open" /\ stripe'[s] = "expired"
       \/ stripe[s] = "open" /\ s \in links /\ stripe'[s] \in {"processing", "paid"}
       \/ stripe[s] = "processing" /\ stripe'[s] = "paid"

(* The plan in force stays, and what was paid stays paid.                  *)
SamePlan ==
  /\ project'.active = project.active /\ project.paid \subseteq project'.paid
  /\ project'.status = "intake_received" => project.active = 0
Same == SamePlan /\ project'.sess = project.sess

(* Nothing happens to the sessions, ...                                    *)
LEMMA QuietFate == ASSUME UNCHANGED providers PROVE Fate
BY DEF Fate, providers

(* ... or what the call of an operation does.                              *)
LEMMA ActsFate ==
  ASSUME IInv, OpFits, op.call = "effect", Acts(op.key)
  PROVE  Fate
<1>1. op.key \in Keys \cup {NoKey} /\ stripe \in [Sessions -> {"none", "open",
        "processing", "paid", "expired"}]
  BY DEF IInv, Typed, Ops
<1>2. op.key[1] = "proposal" => <<op.key[2], op.key[3]>> \in Sessions
  BY <1>1 DEF Keys, NoKey, Sessions
<1>3. links' \subseteq links \cup {s \in Sessions : project.sess[s] # "none"}
  BY <1>2 DEF Acts, OpFits
<1>4. \A s \in Sessions : stripe'[s] = stripe[s]
                          \/ (stripe[s] = "none" /\ stripe'[s] = "open")
                          \/ (stripe[s] = "open" /\ stripe'[s] = "expired")
  BY <1>1 DEF Acts
<1> QED
  BY <1>3, <1>4 DEF Fate

(* An answer does to the sessions what the call it answers does.           *)
LEMMA ReturnsFate ==
  ASSUME IInv, OpFits, NEW p, NEW l, Returns(p, l)
  PROVE  Fate
BY QuietFate, ActsFate DEF Returns

(* What is over stays over.                                                *)
LEMMA OverIsOver ==
  ASSUME Fate, NEW s \in Sessions, stripe[s] \in Over
  PROVE  stripe'[s] \in Over
BY DEF Fate, Over

(* What was paid for stays paid for.                                       *)
LEMMA PaidStays ==
  ASSUME SamePlan, NEW v, Paid(project, v)
  PROVE  Paid(project', v)
BY DEF SamePlan, Paid

(* Two sessions of a version are not both open.                            *)
LEMMA OneOpen ==
  ASSUME OrderFits, NEW v \in Versions, NEW a \in Open(project, v),
         NEW b \in Open(project, v)
  PROVE  a = b
<1>1. a \in Attempts /\ b \in Attempts /\ a \in Nat /\ b \in Nat
  BY CommerceAssumption DEF Open, Stored, CommerceAssumption
<1>2. a <= b /\ b <= a
  BY <1>1 DEF OrderFits, InOrder, Open, Stored
<1> QED
  BY <1>1, <1>2

(* A step that leaves what is stored of the sessions alone.                *)
LEMMA SameFits ==
  ASSUME IInv, SessionsFit, OrderFits, Same, Fate
  PROVE  SessionsFit' /\ OrderFits'
<1>1. ASSUME NEW s \in Sessions PROVE SessionFits(s)'
  <2>1. SessionFits(s)
    BY DEF SessionsFit
  <2>2. Paid(project, s[1]) => Paid(project', s[1])
    BY PaidStays DEF Same
  <2> QED
    BY <2>1, <2>2 DEF SessionFits, Same, SamePlan, Fate, Over
<1>2. OrderFits'
  BY DEF OrderFits, InOrder, Same
<1> QED
  BY <1>1, <1>2 DEF SessionsFit

(* A step that finds that a session is over.                               *)
LEMMA OverFits ==
  ASSUME IInv, SessionsFit, OrderFits, SamePlan, Fate, NEW s \in Sessions,
         NEW x \in {"complete", "expired"}, project.sess[s] # "none",
         stripe[s] \in Over \/ stripe'[s] \in Over,
         project'.sess = [project.sess EXCEPT ![s] = x]
  PROVE  SessionsFit' /\ OrderFits'
<1>1. /\ project.sess \in [Sessions -> {"none", "open", "complete", "expired"}]
  BY DEF IInv, Typed, SoundProjects
<1>2. /\ project'.sess[s] = x
      /\ \A t \in Sessions : t # s => project'.sess[t] = project.sess[t]
  BY <1>1
<1>3. stripe'[s] \in Over
  BY OverIsOver
<1>4. ASSUME NEW t \in Sessions PROVE SessionFits(t)'
  <2>1. SessionFits(t)
    BY DEF SessionsFit
  <2>2. Paid(project, t[1]) => Paid(project', t[1])
    BY PaidStays
  <2>3. CASE t = s
    BY <1>2, <1>3, <2>3 DEF SessionFits
  <2>4. CASE t # s
    BY <1>2, <2>1, <2>2, <2>4 DEF SessionFits, SamePlan, Fate, Over
  <2> QED
    BY <2>3, <2>4
<1>5. OrderFits'
  <2>1. \A t \in Sessions :
          /\ project'.sess[t] # "none" <=> project.sess[t] # "none"
          /\ project'.sess[t] = "open" => project.sess[t] = "open"
    BY <1>2
  <2>2. \A v \in Versions, a \in Attempts : <<v, a>> \in Sessions
    BY DEF Sessions
  <2> QED
    BY <2>1, <2>2 DEF OrderFits, InOrder
<1> QED
  BY <1>4, <1>5 DEF SessionsFit

(* An operation that goes on, and does not wait for an answer about a      *)
(* session.                                                                *)
LEMMA OpGoesFit ==
  ASSUME SamePlan,
         op'.at \in {"look", "awaited", "create", "send"} \/ op'.then = "awaited"
           => op'.v = project.active,
         op'.at \in {"look", "create", "expire"} => op'.call = "none",
         op'.at # "expiring",
         op'.call = "effect" => op'.key[1] # "proposal",
         op'.at = "draft" => \/ Open(project', project'.active) = {}
                             \/ Paid(project', project'.active),
         op'.at = "analyze" \/ (op'.at = "process" /\ op'.prior = "intake_received")
           => project.active = 0
  PROVE  OpFits' /\ DraftFits'
BY DEF OpFits, DraftFits, SamePlan

(* The same of an operation that goes to its next label and keeps what it  *)
(* remembers.                                                              *)
LEMMA GoesFit ==
  ASSUME IInv, OpFits, DraftFits, SamePlan, NEW l \in Labels, GoesTo(l),
         l \notin {"look", "expiring", "analyze", "process"},
         l \in {"awaited", "create", "send"} => op.v = project.active,
         l = "draft" => \/ Open(project', project'.active) = {}
                        \/ Paid(project', project'.active)
  PROVE  OpFits' /\ DraftFits'
<1>1. /\ op'.at = l /\ op'.then = op.then /\ op'.v = op.v /\ op'.call = "none"
  BY DEF GoesTo, IInv, Typed, Ops
<1>2. op.then = "awaited" => op.v = project.active
  BY DEF OpFits
<1> QED
  BY <1>1, <1>2, OpGoesFit

-----------------------------------------------------------------------------
(* The three shapes of most steps: the project is saved with its sessions  *)
(* and its plan as they were, and the operation goes on, ...               *)
Onward(l) == /\ l \in Labels \ {"look", "expiring", "analyze", "process"}
             /\ l \in {"awaited", "create", "send"} => op.v = project.active
             /\ l = "draft" => \/ Open(project, project.active) = {}
                               \/ Paid(project, project.active)

(* p is the project with its sessions and its plan as they are.            *)
Alike(p) == /\ p.sess = project.sess /\ p.active = project.active
            /\ project.paid \subseteq p.paid
            /\ p.status = "intake_received" => project.active = 0

(* Saving a project like the stored one leaves its sessions and its plan   *)
(* as they are.                                                            *)
LEMMA AlikeSame ==
  ASSUME NEW p, Alike(p), project' = p
  PROVE  /\ Same /\ SamePlan
         /\ \A v : Open(project', v) = Open(project, v)
BY DEF Alike, Same, SamePlan, Open, Stored

(* An operation that goes on, whatever was saved with it, ...              *)
LEMMA AlikeGoes ==
  ASSUME IInv, LinkInv, NEW p, NEW l, Alike(p), Onward(l),
         project' = p, GoesTo(l), Fate
  PROVE  LinkInv'
<1>1. Same /\ SamePlan /\ \A v : Open(project', v) = Open(project, v)
  BY AlikeSame
<1>2. SessionsFit' /\ OrderFits'
  BY <1>1, SameFits DEF LinkInv
<1>3. l = "draft" => \/ Open(project', project'.active) = {}
                     \/ Paid(project', project'.active)
  BY <1>1, PaidStays DEF Onward, SamePlan
<1>4. OpFits' /\ DraftFits'
  BY <1>1, <1>3, GoesFit DEF Onward, LinkInv
<1> QED
  BY <1>2, <1>4 DEF LinkInv

(* ... when it waits for nobody, ...                                       *)
LEMMA AlikeSaves ==
  ASSUME IInv, LinkInv, NEW p, NEW l, Alike(p), Onward(l), Saves(p, l)
  PROVE  LinkInv'
BY AlikeGoes, QuietFate DEF Saves, world, providers

(* ... when an answer has come, ...                                        *)
LEMMA AlikeReturns ==
  ASSUME IInv, LinkInv, NEW p, NEW l, Alike(p), Onward(l), Returns(p, l)
  PROVE  LinkInv'
BY AlikeGoes, ReturnsFate DEF Returns, LinkInv

(* ... or asks something that is not about a session, ...                  *)
LEMMA AlikeAsks ==
  ASSUME IInv, LinkInv, NEW p, NEW k, NEW call \in {"query", "effect"}, Alike(p),
         op.at \in {"analyze", "process", "draft", "clarify", "send", "continue"},
         Asks(p, op.at, k, call),
         call = "effect" /\ k[1] = "proposal"
           => project.sess[<<k[2], k[3]>>] # "none"
  PROVE  LinkInv'
<1>1. Same /\ SamePlan /\ \A v : Open(project', v) = Open(project, v)
  BY AlikeSame DEF Asks
<1>2. SessionsFit' /\ OrderFits'
  BY <1>1, SameFits, QuietFate DEF LinkInv, Asks, world
<1>3. /\ op'.at = op.at /\ op'.then = op.then /\ op'.v = op.v
      /\ op'.call = call /\ op'.key = k /\ op'.prior = op.prior
  BY DEF Asks, IInv, Typed, Ops
<1>4. OpFits'
  BY <1>1, <1>3 DEF LinkInv, OpFits, Same, SamePlan
<1>5. DraftFits'
  BY <1>1, <1>3, PaidStays DEF LinkInv, DraftFits, SamePlan
<1> QED
  BY <1>2, <1>4, <1>5 DEF LinkInv

(* ... or the operation stands still, or ends.                             *)
LEMMA StillFits ==
  ASSUME IInv, LinkInv, UNCHANGED <<project, op>>, Fate
  PROVE  LinkInv'
<1>1. Same
  BY DEF Same, SamePlan, LinkInv, DraftFits
<1>2. SessionsFit' /\ OrderFits'
  BY <1>1, SameFits DEF LinkInv
<1>3. OpFits' /\ DraftFits'
  BY DEF LinkInv, OpFits, DraftFits
<1> QED
  BY <1>2, <1>3 DEF LinkInv

(* The stored project is like itself, whatever becomes of its effects.     *)
LEMMA EffectsAlike ==
  ASSUME IInv, LinkInv
  PROVE  /\ Alike(project) /\ Alike(Done(project))
         /\ \A k, e : Alike([project EXCEPT !.eff[k] = e])
         /\ \A retryable : Alike(Blamed(project, op.key, retryable))
<1>1. project \in SoundProjects
  BY DEF IInv, Typed
<1>2. Alike(project)
  BY DEF Alike, LinkInv, DraftFits
<1>3. \A k, e : Alike([project EXCEPT !.eff[k] = e])
  BY <1>1, <1>2 DEF Alike, SoundProjects
<1>4. Alike(Done(project))
  BY <1>3 DEF Done
<1>5. ASSUME NEW retryable PROVE Alike(Blamed(project, op.key, retryable))
  <2>1. CASE op.key = NoKey \/ ~Chargeable(project.eff[op.key])
    BY <1>2, <2>1 DEF Blamed
  <2>2. CASE ~(op.key = NoKey \/ ~Chargeable(project.eff[op.key]))
    <3> DEFINE e == Charged(project.eff[op.key], retryable)
               st == IF e.st # "failed" THEN project.status
                     ELSE IF op.key[1] = "reconcile"
                       THEN "payment_verification_failed"
                       ELSE "needs_operator_attention"
    <3>1. Blamed(project, op.key, retryable)
          = [project EXCEPT !.eff[op.key] = e, !.status = st]
      BY <2>2 DEF Blamed
    <3>2. st = "intake_received" => project.status = "intake_received"
      OBVIOUS
    <3> HIDE DEF e, st
    <3> QED
      BY <1>1, <1>2, <3>1, <3>2 DEF Alike, SoundProjects
  <2> QED
    BY <2>1, <2>2
<1> QED
  BY <1>2, <1>3, <1>4, <1>5

(* An exception; a crash; a call that fails; the end.                      *)
LEMMA ThrowsFit ==
  ASSUME IInv, LinkInv, NEW retryable, Throws(retryable), Fate
  PROVE  LinkInv'
<1>1. Onward("end")
  BY DEF Onward, Labels
<1> QED
  BY <1>1, EffectsAlike, AlikeGoes DEF Throws

(* An operation that is over remembers nothing of the sessions.            *)
LEMMA IdleFits ==
  ASSUME IInv, LinkInv, UNCHANGED project, op' = Idle, Fate
  PROVE  LinkInv'
<1>1. Same /\ SamePlan
  BY EffectsAlike, AlikeSame
<1>2. SessionsFit' /\ OrderFits'
  BY <1>1, SameFits DEF LinkInv
<1>3. op'.at = "idle" /\ op'.then = "end" /\ op'.call = "none"
  BY DEF Idle
<1> QED
  BY <1>1, <1>2, <1>3, OpGoesFit DEF LinkInv

(* The turn ends, the process dies, a call fails or its answer is lost.    *)
LEMMA FailuresFit ==
  ASSUME IInv, LinkInv, End \/ Crash \/ \E how \in Failures : CallFails(how)
  PROVE  LinkInv'
<1>1. CASE End
  BY <1>1, IdleFits, QuietFate DEF End
<1>2. CASE Crash
  BY <1>2, IdleFits, QuietFate, ActsFate DEF Crash, LinkInv
<1>3. ASSUME NEW how \in Failures, CallFails(how) PROVE LinkInv'
  <2>1. Fate
    BY <1>3, QuietFate, ActsFate DEF CallFails, LinkInv
  <2> QED
    BY <1>3, <2>1, ThrowsFit DEF CallFails
<1> QED
  BY <1>1, <1>2, <1>3

(* The customer and Stripe, on their own.                                  *)
LEMMA WorldFits ==
  ASSUME IInv, LinkInv,
         \/ \E m \in Mails : MailArrives(m)
         \/ \E s \in Sessions : Pay(s) \/ Submit(s) \/ Settle(s) \/ Lapse(s)
  PROVE  LinkInv'
<1>1. ASSUME NEW m \in Mails, MailArrives(m) PROVE LinkInv'
  BY <1>1, StillFits, QuietFate DEF MailArrives
<1>2. ASSUME NEW s \in Sessions, Pay(s) \/ Submit(s) \/ Settle(s) \/ Lapse(s)
      PROVE  LinkInv'
  <2>1. UNCHANGED <<project, op, links>>
    BY <1>2 DEF Pay, Submit, Settle, Lapse, Moves
  <2>2. Fate
    BY <1>2, <2>1 DEF Pay, Submit, Settle, Lapse, Moves, Fate, IInv, Typed
  <2> QED
    BY <2>1, <2>2, StillFits
<1> QED
  BY <1>1, <1>2

(* The worker takes a project up and finds out what to do.                 *)
LEMMA BeginsFit ==
  ASSUME IInv, LinkInv,
         NEW l \in {"analyze", "end", "look", "turn", "create", "continue"},
         NEW t \in {"end", "turn", "awaited"}, Begins(l, t), At("route"),
         l = "analyze" => project.active = 0
  PROVE  LinkInv'
<1>1. Same /\ SamePlan
  BY EffectsAlike, AlikeSame DEF Begins
<1>2. SessionsFit' /\ OrderFits'
  BY <1>1, SameFits, QuietFate DEF LinkInv, Begins, world
<1>3. /\ op'.at = l /\ op'.then = t /\ op'.v = project.active
      /\ op'.call = "none"
  BY DEF Begins, IInv, Typed, Ops
<1> QED
  BY <1>1, <1>2, <1>3, OpGoesFit DEF LinkInv

(* A retry comes due, and the status decides where the operation goes.     *)
LEMMA RouteFits == ASSUME IInv, LinkInv, Reconcile \/ Route PROVE LinkInv'
<1>1. CASE Reconcile
  <2>1. \E p : project' = p /\ Alike(p)
    <3>1. CASE project' = project
      BY <3>1, EffectsAlike
    <3>2. CASE \E k \in Keys : project' = [project EXCEPT !.eff[k] = Retried(@)]
      <4>1. PICK k \in Keys : project' = [project EXCEPT !.eff[k] = Retried(@)]
        BY <3>2
      <4>2. \E e : project' = [project EXCEPT !.eff[k] = e]
        BY <4>1
      <4> QED
        BY <4>2, EffectsAlike
    <3> QED
      BY <1>1, <3>1, <3>2 DEF Reconcile
  <2>2. Same /\ SamePlan
    BY <2>1, AlikeSame
  <2>3. SessionsFit' /\ OrderFits'
    BY <1>1, <2>2, SameFits, QuietFate DEF LinkInv, Reconcile, world
  <2>4. op'.at = "route" /\ op'.then = "end" /\ op'.call = "none"
    BY <1>1 DEF Reconcile, Idle
  <2> QED
    BY <2>2, <2>3, <2>4, OpGoesFit DEF LinkInv
<1>2. CASE Route /\ Goes("end")
  <2>1. Onward("end")
    BY DEF Onward, Labels
  <2> QED
    BY <1>2, <2>1, EffectsAlike, AlikeSaves DEF Goes
<1>3. CASE Route /\ \E l \in {"look", "turn", "create", "continue", "end"},
                       t \in {"end", "turn", "awaited"} : Begins(l, t)
  BY <1>3, BeginsFit DEF Route
<1>4. CASE Route /\ Begins("analyze", "end")
           /\ (project.status = "intake_received" \/ project.active = 0)
  <2>1. project.active = 0
    BY <1>4 DEF LinkInv, DraftFits
  <2> QED
    BY <1>4, <2>1, BeginsFit DEF Route
<1>5. CASE Route /\ op' = [op EXCEPT !.at = "clarify", !.c = project.questions]
           /\ UNCHANGED <<project, world>>
  <2>1. Same /\ SamePlan
    BY <1>5, EffectsAlike, AlikeSame
  <2>2. SessionsFit' /\ OrderFits'
    BY <1>5, <2>1, SameFits, QuietFate DEF LinkInv, world
  <2>3. /\ op'.at = "clarify" /\ op'.then = op.then /\ op'.v = op.v
        /\ op'.call = "none"
    BY <1>5 DEF IInv, Typed, Ops, Route, At
  <2> QED
    BY <2>1, <2>2, <2>3, OpGoesFit DEF LinkInv, OpFits
<1> QED
  BY <1>1, <1>2, <1>3, <1>4, <1>5 DEF Route

(* The newest session of the plan is looked at, ...                        *)
LEMMA LookFits == ASSUME IInv, LinkInv, LookLater \/ Look PROVE LinkInv'
<1>1. op.at = "look" /\ op.v = project.active
      /\ op.then \in {"end", "turn", "awaited"}
  BY DEF LookLater, Look, At, LinkInv, OpFits, IInv, OpIsReady, OpIsInForce
<1>2. CASE LookLater
  <2>1. Onward(op.then)
    BY <1>1 DEF Onward, Labels
  <2> QED
    BY <1>2, <2>1, EffectsAlike, AlikeSaves DEF LookLater, Goes
<1>3. CASE Look
  <2>1. PICK a \in Newest(project, op.v) :
          op' = [op EXCEPT !.c = a, !.key = Watch(a), !.call = "query"]
    BY <1>3 DEF Look
  <2>2. /\ op'.at = "look" /\ op'.then = op.then /\ op'.v = op.v /\ op'.c = a
        /\ op'.call = "query"
    BY <1>1, <2>1 DEF IInv, Typed, Ops
  <2>3. \E p : project' = p /\ Alike(p)
    <3>1. \E k, e : project' = [project EXCEPT !.eff[k] = e]
      BY <1>3 DEF Look
    <3> QED
      BY <3>1, EffectsAlike
  <2>4. Same /\ SamePlan
    BY <2>3, AlikeSame
  <2>5. SessionsFit' /\ OrderFits'
    BY <1>3, <2>4, SameFits, QuietFate DEF LinkInv, Look, world
  <2>6. Newest(project', op.v) = Newest(project, op.v)
    BY <2>4 DEF Newest, Stored, Same
  <2>7. OpFits' /\ DraftFits'
    BY <1>1, <2>2, <2>4, <2>6 DEF OpFits, DraftFits, SamePlan
  <2> QED
    BY <2>5, <2>7 DEF LinkInv
<1> QED
  BY <1>2, <1>3

(* What a receipt leaves of the project.                                   *)
LEMMA ReceiptedCourse ==
  ASSUME IInv, LinkInv, NEW q, q \in SoundProjects, Alike(q), NEW s \in Sessions
  PROVE  LET p == Receipted(q, s) IN
         /\ p.active = project.active /\ project.paid \subseteq p.paid
         /\ p.sess = [project.sess EXCEPT ![s] = "complete"]
         /\ p.status = "paid"
BY DEF Receipted, Alike, SoundProjects

(* ... and was paid, or a webhook says so: the receipt is stored.          *)
LEMMA ReceiptFits ==
  ASSUME IInv, LinkInv, Session \in Sessions, stripe[Session] = "paid",
         project'.active = project.active, project.paid \subseteq project'.paid,
         project'.status # "intake_received",
         project'.sess = [project.sess EXCEPT ![Session] = "complete"],
         NEW l \in {"continue", "end"}, GoesTo(l), Fate
  PROVE  LinkInv'
<1>1. SamePlan
  BY DEF SamePlan
<1>2. stripe[Session] \in Over /\ project.sess[Session] # "none"
  BY DEF LinkInv, SessionsFit, SessionFits, Over
<1>3. SessionsFit' /\ OrderFits'
  BY <1>1, <1>2, OverFits DEF LinkInv
<1>4. OpFits' /\ DraftFits'
  BY <1>1, GoesFit DEF LinkInv, Labels
<1> QED
  BY <1>3, <1>4 DEF LinkInv

(* A capture that the worker or a webhook finds is stored with its         *)
(* receipt.                                                                *)
LEMMA VerifiedFits ==
  ASSUME IInv, LinkInv, Captured \/ Verified
  PROVE  LinkInv'
<1>1. Session \in Sessions
  BY DEF Captured, Verified, Answered, IInv, OpIsReady
<1>2. /\ project \in SoundProjects /\ Done(project) \in SoundProjects
      /\ Alike(project) /\ Alike(Done(project))
  BY EffectsAlike, KeyedEffects DEF IInv, Typed, SameCourse
<1>3. CASE Captured
  <2> DEFINE p == Receipted(Done(project), Session)
  <2>1. /\ p.active = project.active /\ project.paid \subseteq p.paid
        /\ p.sess = [project.sess EXCEPT ![Session] = "complete"]
        /\ p.status = "paid"
    BY <1>1, <1>2, ReceiptedCourse
  <2>2. project' = p /\ GoesTo("continue") /\ stripe[Session] = "paid"
    BY <1>3 DEF Captured, Returns
  <2>3. Fate
    BY <1>3, ReturnsFate DEF Captured, LinkInv
  <2> HIDE DEF p
  <2> QED
    BY <1>1, <2>1, <2>2, <2>3, ReceiptFits
<1>4. CASE Verified /\ (Goes("continue") \/ Goes("end"))
  <2>1. Onward("continue") /\ Onward("end")
    BY DEF Onward, Labels
  <2> QED
    BY <1>2, <1>4, <2>1, AlikeSaves DEF Goes
<1>5. ASSUME Verified, NEW st, st # "intake_received", NEW l \in {"continue", "end"},
             \/ Returns(Receipted(project, Session), l) /\ st = "paid"
             \/ Returns([Receipted(project, Session) EXCEPT !.status = st], l)
      PROVE  LinkInv'
  <2> DEFINE q == Receipted(project, Session)
             p == [q EXCEPT !.status = st]
  <2>1. /\ q.active = project.active /\ project.paid \subseteq q.paid
        /\ q.sess = [project.sess EXCEPT ![Session] = "complete"]
        /\ q.status = "paid"
    BY <1>1, <1>2, ReceiptedCourse
  <2>2. /\ p.active = q.active /\ p.paid = q.paid /\ p.sess = q.sess
        /\ p.status = st
    BY <1>2 DEF Receipted, SoundProjects
  <2>3. /\ project' = p \/ (project' = q /\ st = "paid")
        /\ GoesTo(l)
    BY <1>5 DEF Returns
  <2>4. Fate
    BY <1>5, ReturnsFate DEF LinkInv
  <2>5. stripe[Session] = "paid"
    BY <1>5 DEF Verified, Answered, IInv, OpIsReady
  <2> HIDE DEF p, q
  <2> QED
    BY <1>1, <1>5, <2>1, <2>2, <2>3, <2>4, <2>5, ReceiptFits
<1>6. CASE Verified /\ Returns(Receipted(project, Session), "continue")
  BY <1>5, <1>6
<1>7. CASE Verified /\ Returns([Receipted(project, Session) EXCEPT
                                  !.status = "needs_operator_attention"], "end")
  <2>1. \E st : /\ st = "needs_operator_attention"
                /\ Returns([Receipted(project, Session) EXCEPT !.status = st], "end")
    BY <1>7
  <2>2. "needs_operator_attention" # "intake_received"
    OBVIOUS
  <2> QED
    BY <1>5, <1>7, <2>1, <2>2
<1> QED
  BY <1>3, <1>4, <1>6, <1>7 DEF Verified

(* ... or was not paid, and is stored as it is.                            *)
LEMMA UncapturedFits == ASSUME IInv, LinkInv, Uncaptured PROVE LinkInv'
<1> DEFINE x == IF stripe[Session] = "processing" THEN "complete"
                                                  ELSE stripe[Session]
           l == IF op.then = "awaited" /\ stripe[Session] # "processing"
                THEN "create" ELSE op.then
<1>1. /\ Session \in Sessions /\ op.v = project.active /\ op.at = "look"
      /\ op.then \in {"end", "turn", "awaited"} /\ stripe[Session] # "paid"
      /\ op.c \in Newest(project, op.v)
  BY DEF Uncaptured, Answered, IInv, OpIsReady, OpIsInForce, LinkInv, OpFits
<1>2. project.sess[Session] # "none" /\ stripe[Session] # "none"
  <2>1. project.sess[Session] # "none"
    BY <1>1 DEF Newest, Stored, Session
  <2>2. SessionFits(Session)
    BY <1>1 DEF LinkInv, SessionsFit
  <2>3. project.sess[Session] \in {"open", "complete", "expired"}
    BY <1>1, <2>1 DEF IInv, Typed, SoundProjects
  <2> QED
    BY <2>1, <2>2, <2>3 DEF SessionFits, Over
<1>3. PICK effs : Returns([project EXCEPT !.sess[Session] = x, !.eff = effs], l)
  BY DEF Uncaptured
<1> DEFINE p == [project EXCEPT !.sess[Session] = x, !.eff = effs]
<1>4. /\ p.active = project.active /\ p.paid = project.paid
      /\ p.status = project.status
      /\ p.sess = [project.sess EXCEPT ![Session] = x]
  BY DEF IInv, Typed, SoundProjects
<1>5. project' = p /\ GoesTo(l) /\ Fate
  BY <1>3, ReturnsFate DEF Returns, LinkInv
<1>6. SamePlan
  BY <1>4, <1>5 DEF SamePlan, LinkInv, DraftFits
<1>7. stripe[Session] \in {"open", "processing", "expired"}
  BY <1>1, <1>2 DEF IInv, Typed
<1>8. SessionsFit' /\ OrderFits'
  <2>1. CASE stripe[Session] = "open"
    <3>1. project.sess[Session] = "open"
      <4>1. SessionFits(Session)
        BY <1>1 DEF LinkInv, SessionsFit
      <4>2. project.sess[Session] \in {"open", "complete", "expired"}
        BY <1>1, <1>2 DEF IInv, Typed, SoundProjects
      <4> QED
        BY <2>1, <4>1, <4>2 DEF SessionFits, Over
    <3>2. project'.sess = project.sess
      BY <1>1, <1>4, <1>5, <2>1, <3>1 DEF IInv, Typed, SoundProjects
    <3> QED
      BY <1>5, <1>6, <3>2, SameFits DEF Same, LinkInv
  <2>2. CASE stripe[Session] \in {"processing", "expired"}
    <3>1. x \in {"complete", "expired"} /\ stripe[Session] \in Over
      BY <2>2 DEF Over
    <3> HIDE DEF x
    <3> QED
      BY <1>1, <1>2, <1>4, <1>5, <1>6, <3>1, OverFits DEF LinkInv
  <2> QED
    BY <1>7, <2>1, <2>2
<1>9. OpFits' /\ DraftFits'
  <2>1. l \in {"create", "end", "turn", "awaited"} /\ l \in Labels
    BY <1>1 DEF Labels
  <2> HIDE DEF l
  <2> QED
    BY <1>1, <1>5, <1>6, <2>1, GoesFit DEF LinkInv
<1> QED
  BY <1>8, <1>9 DEF LinkInv

(* After the look.                                                         *)
LEMMA TurnFits == ASSUME IInv, LinkInv, Turn \/ Awaited PROVE LinkInv'
<1>1. op.at = "awaited" => op.v = project.active
  BY DEF LinkInv, OpFits
<1>2. CASE Turn /\ Goes("end")
  <2>1. Onward("end")
    BY DEF Onward, Labels
  <2> QED
    BY <1>2, <2>1, EffectsAlike, AlikeSaves DEF Goes
<1>3. CASE /\ UNCHANGED <<project, world>>
           /\ \E l \in {"process", "create"} : \E st :
                /\ op' = [op EXCEPT !.at = l, !.then = "end", !.prior = st]
                /\ st = "intake_received" => project.active = 0
                /\ l = "create" => op.at = "awaited"
           /\ op.call = "none"
  <2>1. PICK l \in {"process", "create"} : \E st :
          /\ op' = [op EXCEPT !.at = l, !.then = "end", !.prior = st]
          /\ st = "intake_received" => project.active = 0
          /\ l = "create" => op.at = "awaited"
    BY <1>3
  <2>2. /\ op'.at = l /\ op'.then = "end" /\ op'.v = op.v
        /\ op'.prior = "intake_received" => project.active = 0
        /\ op'.call = "none"
    BY <1>3, <2>1 DEF IInv, Typed, Ops
  <2>3. Same /\ SamePlan
    BY <1>3, EffectsAlike, AlikeSame
  <2>4. SessionsFit' /\ OrderFits'
    BY <1>3, <2>3, SameFits, QuietFate DEF LinkInv, world
  <2> QED
    BY <1>1, <2>1, <2>2, <2>3, <2>4, OpGoesFit DEF LinkInv
<1>4. CASE Turn /\ ~Goes("end")
  <2>1. Stable(project) = "intake_received" => project.active = 0
    BY DEF Stable, LinkInv, DraftFits
  <2>2. /\ UNCHANGED <<project, world>> /\ op.call = "none"
        /\ op' = [op EXCEPT !.at = "process", !.then = "end",
                            !.prior = Stable(project)]
    BY <1>4 DEF Turn, At
  <2> QED
    BY <1>3, <2>1, <2>2
<1>5. CASE Awaited
  <2> DEFINE l == IF Unapplied(project) = {} THEN "create" ELSE "process"
  <2>1. /\ UNCHANGED <<project, world>> /\ op.call = "none" /\ op.at = "awaited"
        /\ op' = [op EXCEPT !.at = l, !.then = "end",
                            !.prior = "awaiting_payment"]
    BY <1>5 DEF Awaited, At, IInv, Typed, Ops
  <2>2. "awaiting_payment" # "intake_received" /\ l \in {"process", "create"}
    OBVIOUS
  <2> HIDE DEF l
  <2>3. \E st : /\ op' = [op EXCEPT !.at = l, !.then = "end", !.prior = st]
                /\ st = "intake_received" => project.active = 0
    BY <2>1, <2>2
  <2> QED
    BY <1>3, <2>1, <2>2, <2>3
<1> QED
  BY <1>2, <1>4, <1>5

(* A session is asked for when none is open, ...                           *)
LEMMA CreateFits == ASSUME IInv, LinkInv, Create PROVE LinkInv'
<1>1. op.at = "create" /\ op.v = project.active /\ op.v \in Versions
  BY DEF Create, At, LinkInv, OpFits, IInv, OpIsReady
<1>2. CASE Goes("send")
  <2>1. Onward("send")
    BY <1>1 DEF Onward, Labels
  <2> QED
    BY <1>2, <2>1, EffectsAlike, AlikeSaves DEF Goes
<1>3. CASE ~Goes("send")
  <2>1. PICK a \in Attempts \ Stored(project, op.v) :
          /\ \A b \in Attempts \ Stored(project, op.v) : a <= b
          /\ Calls(<<"create", op.v, a>>)
    BY <1>3 DEF Create
  <2>2. Newest(project, op.v) \cap Open(project, op.v) = {}
    BY <1>3 DEF Create
  <2> DEFINE k == <<"create", op.v, a>>
  <2>3. /\ op'.at = "create" /\ op'.then = op.then /\ op'.v = op.v
        /\ op'.call = "effect" /\ op'.key = k
    BY <1>1, <2>1 DEF Calls, Asks, IInv, Typed, Ops
  <2>4. \E e : project' = [project EXCEPT !.eff[k] = e]
    BY <2>1 DEF Calls, Asks
  <2>5. Same /\ SamePlan
    BY <2>4, EffectsAlike, AlikeSame
  <2>6. SessionsFit' /\ OrderFits'
    BY <2>1, <2>5, SameFits, QuietFate DEF LinkInv, Calls, Asks, world
  <2>7. Open(project, op.v) = {}
    <3> SUFFICES ASSUME NEW b \in Open(project, op.v) PROVE FALSE
      OBVIOUS
    <3>1. \A c \in Stored(project, op.v) : c <= b
      BY <1>1 DEF Open, Stored, LinkInv, OrderFits, InOrder
    <3>2. b \in Newest(project, op.v)
      BY <3>1 DEF Newest, Open
    <3> QED
      BY <2>2, <3>2
  <2>8. Stored(project', op.v) = Stored(project, op.v)
        /\ Open(project', op.v) = Open(project, op.v)
    BY <2>5 DEF Stored, Open, Same
  <2>9. NextOne(project', op.v, a)
    BY <2>1, <2>8 DEF NextOne
  <2>10. OpFits'
    <3>1. op'.key[1] = "create" /\ op'.key[2] = op.v /\ op'.key[3] = a
      BY <2>3
    <3> QED
      BY <1>1, <2>3, <2>5, <2>7, <2>8, <2>9, <3>1 DEF OpFits, SamePlan
  <2>11. DraftFits'
    BY <2>3, <2>5 DEF DraftFits, SamePlan
  <2> QED
    BY <2>6, <2>10, <2>11 DEF LinkInv
<1> QED
  BY <1>2, <1>3

(* ... and is then the newest, and the only open one.                      *)
LEMMA CreatedFits == ASSUME IInv, LinkInv, Created PROVE LinkInv'
<1> DEFINE a == op.key[3]
           s == <<op.key[2], op.key[3]>>
<1>1. /\ op.at = "create" /\ op.v = project.active /\ op.v \in Versions
      /\ op.call = "effect" /\ op.key[1] = "create" /\ op.key[2] = op.v
      /\ NextOne(project, op.v, a) /\ Open(project, op.v) = {}
  BY DEF Created, Answered, LinkInv, OpFits, IInv, OpIsReady
<1>2. a \in Attempts /\ s = <<op.v, a>> /\ s \in Sessions /\ a \in Nat
  BY <1>1, CommerceAssumption DEF NextOne, Sessions, CommerceAssumption
<1>3. /\ project'.active = project.active /\ project'.paid = project.paid
      /\ project'.status = "awaiting_payment"
      /\ project'.sess = [project.sess EXCEPT ![s] = "open"]
      /\ GoesTo("send") /\ Acts(op.key)
  BY <1>1 DEF Created, Returns, Done, IInv, Typed, SoundProjects
<1>4. Fate
  BY ReturnsFate DEF Created, LinkInv
<1>5. stripe'[s] # "none"
  BY <1>1, <1>2, <1>3 DEF Acts, IInv, Typed
<1> HIDE DEF a, s
<1>6. /\ project'.sess[s] = "open"
      /\ \A t \in Sessions : t # s => project'.sess[t] = project.sess[t]
  BY <1>2, <1>3 DEF IInv, Typed, SoundProjects
<1>7. SamePlan
  BY <1>3 DEF SamePlan
<1>8. ASSUME NEW t \in Sessions PROVE SessionFits(t)'
  <2>1. SessionFits(t)
    BY DEF LinkInv, SessionsFit
  <2>2. CASE t = s
    <3>1. s[1] = project.active
      BY <1>1, <1>2
    <3> QED
      BY <1>3, <1>5, <1>6, <2>2, <3>1 DEF SessionFits
  <2>3. CASE t # s
    <3>1. Paid(project, t[1]) => Paid(project', t[1])
      BY <1>7, PaidStays
    <3> QED
      BY <1>3, <1>4, <1>6, <2>1, <2>3, <3>1 DEF SessionFits, Fate, Over
  <2> QED
    BY <2>2, <2>3
<1>9. ASSUME NEW v \in Versions PROVE InOrder(project', v)
  <2>1. InOrder(project, v) /\ \A b \in Attempts : <<v, b>> \in Sessions
    BY DEF LinkInv, OrderFits, Sessions
  <2>2. CASE v # op.v
    <3>1. \A b \in Attempts : project'.sess[<<v, b>>] = project.sess[<<v, b>>]
      BY <1>2, <1>6, <2>1, <2>2
    <3> QED
      BY <2>1, <3>1 DEF InOrder
  <2>3. CASE v = op.v
    <3>1. \A b \in Attempts : b # a => project'.sess[<<v, b>>] = project.sess[<<v, b>>]
      BY <1>2, <1>6, <2>1, <2>3
    <3>2. project'.sess[<<v, a>>] = "open"
      BY <1>2, <1>6, <2>3
    <3>3. \A b \in Attempts : project.sess[<<v, b>>] # "open"
      BY <1>1, <2>3, CommerceAssumption
         DEF Open, Stored, CommerceAssumption
    <3>4. v # 0 /\ Attempts \subseteq Nat
      BY CommerceAssumption DEF CommerceAssumption
    <3>5. /\ project.sess[<<v, a>>] = "none"
          /\ \A b \in Attempts : project.sess[<<v, b>>] = "none" => a <= b
      BY <1>1, <1>2, <2>3, <3>4 DEF NextOne, Stored
    <3>6. ASSUME NEW b \in Attempts, project.sess[<<v, b>>] # "none"
          PROVE  b < a
      <4>1. ~(a < b) /\ b # a
        BY <1>2, <2>1, <3>5, <3>6 DEF InOrder
      <4>2. a \in Nat /\ b \in Nat
        BY <1>2, <3>4
      <4> QED
        BY <4>1, <4>2
    <3>7. ASSUME NEW b \in Attempts, NEW c \in Attempts,
                 project'.sess[<<v, c>>] # "none", b < c
          PROVE  project'.sess[<<v, b>>] # "none"
      <4>1. c <= a
        BY <1>2, <3>1, <3>4, <3>6, <3>7
      <4>2. b < a
        <5>1. {a, b, c} \subseteq Nat
          BY <1>2, <3>4
        <5> QED
          BY <3>7, <4>1, <5>1
      <4>3. project.sess[<<v, b>>] # "none" /\ b # a
        BY <1>2, <3>4, <3>5, <4>2
      <4> QED
        BY <3>1, <4>3
    <3>8. ASSUME NEW b \in Attempts, NEW c \in Attempts,
                 project'.sess[<<v, c>>] # "none",
                 project'.sess[<<v, b>>] = "open"
          PROVE  c <= b
      <4>1. b = a
        BY <3>1, <3>3, <3>8
      <4>2. c <= a
        BY <1>2, <3>1, <3>4, <3>6, <3>8
      <4> QED
        BY <4>1, <4>2
    <3> QED
      BY <3>7, <3>8 DEF InOrder
  <2> QED
    BY <2>2, <2>3
<1>10. OpFits' /\ DraftFits'
  BY <1>1, <1>3, <1>7, GoesFit DEF LinkInv, Labels
<1> QED
  BY <1>8, <1>9, <1>10 DEF LinkInv, SessionsFit, OrderFits

(* Its link is mailed.                                                     *)
LEMMA SendFits == ASSUME IInv, LinkInv, Send \/ Sent PROVE LinkInv'
<1>1. /\ op.at = "send" /\ op.v = project.active
      /\ op.then \in {"end", "turn", "awaited"}
  BY DEF Send, Sent, At, Answered, LinkInv, OpFits, IInv, OpIsReady, OpIsInForce
<1>2. Onward(op.then)
  BY <1>1 DEF Onward, Labels
<1>3. CASE Send /\ Goes(op.then)
  BY <1>2, <1>3, EffectsAlike, AlikeSaves DEF Goes
<1>4. CASE Send /\ ~Goes(op.then)
  <2>1. PICK a \in Newest(project, op.v) : Calls(<<"proposal", op.v, a>>)
    BY <1>4 DEF Send
  <2>2. PICK k, p : /\ Asks(p, op.at, k, "effect") /\ Alike(p)
                    /\ k = <<"proposal", op.v, a>>
    BY <2>1, EffectsAlike DEF Calls
  <2>3. project.sess[<<k[2], k[3]>>] # "none"
    BY <2>2 DEF Newest, Stored
  <2> QED
    BY <1>1, <2>2, <2>3, AlikeAsks
<1>5. CASE Sent
  BY <1>2, <1>5, EffectsAlike, AlikeReturns DEF Sent
<1> QED
  BY <1>3, <1>4, <1>5

-----------------------------------------------------------------------------
(* A mail is saved, and work on it begins.                                 *)
LEMMA ReceiveFits ==
  ASSUME IInv, LinkInv, NEW m \in Mails, Receive(m)
  PROVE  LinkInv'
<1>1. \E p : project' = p /\ Alike(p)
  <2>1. Alike(Received(project, m))
    BY EffectsAlike DEF Received, Alike, IInv, Typed, SoundProjects
  <2> QED
    BY <2>1, EffectsAlike DEF Receive
<1>2. Same /\ SamePlan
  BY <1>1, AlikeSame
<1>3. SessionsFit' /\ OrderFits'
  BY <1>2, SameFits, QuietFate DEF LinkInv, Receive
<1>4. /\ op'.at \in {"idle", "process"} /\ op'.then = "end" /\ op'.call = "none"
      /\ op'.prior \in {"none", Stable(project)}
  <2>1. CASE op' = op /\ op = Idle
    BY <2>1 DEF Idle
  <2>2. CASE op' = [Idle EXCEPT !.at = "process", !.mail = m,
                                !.prior = Stable(project)]
    BY <2>2 DEF Idle
  <2> QED
    BY <2>1, <2>2 DEF Receive
<1>5. Stable(project) = "intake_received" => project.active = 0
  BY DEF Stable, LinkInv, DraftFits
<1> QED
  BY <1>2, <1>3, <1>4, <1>5, OpGoesFit DEF LinkInv

(* The reasoner is asked, and asks back.                                   *)
LEMMA QueriesFit ==
  ASSUME IInv, LinkInv, Analyze \/ Process \/ Draft
  PROVE  LinkInv'
<1>1. op.at \in {"analyze", "process", "draft"} /\ Queries(op.at)
  BY DEF Analyze, Process, Draft, At
<1> QED
  BY <1>1, EffectsAlike, AlikeAsks DEF Queries

(* Asking back leaves the sessions and the plan alone.                     *)
LEMMA AsksBackFits ==
  ASSUME IInv, LinkInv, AsksBack
  PROVE  LinkInv'
<1>1. PICK q \in Questions :
        op' = [op EXCEPT !.at = "clarify", !.c = q, !.call = "none"]
  BY DEF AsksBack
<1>2. Same /\ SamePlan
  BY EffectsAlike, AlikeSame DEF AsksBack
<1>3. SessionsFit' /\ OrderFits'
  BY <1>2, SameFits, QuietFate DEF LinkInv, AsksBack, world
<1>4. /\ op'.at = "clarify" /\ op'.then = op.then /\ op'.v = op.v
      /\ op'.call = "none"
  BY <1>1 DEF IInv, Typed, Ops
<1> QED
  BY <1>2, <1>3, <1>4, OpGoesFit DEF LinkInv, OpFits

(* What the reasoner makes of it: a question, a new quote, or nothing; a   *)
(* draft is begun only when no link of the plan is open or it was paid     *)
(* for.                                                                    *)
LEMMA AnswersFit ==
  ASSUME IInv, LinkInv, Analyzed \/ Understood
  PROVE  LinkInv'
<1>1. CASE AsksBack
  BY <1>1, AsksBackFits
<1>2. CASE Analyzed /\ Goes("draft")
  <2>1. project.active = 0
    BY <1>2 DEF Analyzed, Answered, LinkInv, DraftFits
  <2>2. Onward("draft")
    BY <2>1 DEF Onward, Labels, Open, Stored
  <2> QED
    BY <1>2, <2>2, EffectsAlike, AlikeSaves DEF Goes
<1>3. CASE Goes("expire")
  <2>1. Onward("expire")
    BY DEF Onward, Labels
  <2> QED
    BY <1>3, <2>1, EffectsAlike, AlikeSaves DEF Goes
<1>4. CASE Paid(project, project.active) /\ Goes("draft")
  <2>1. Onward("draft")
    BY <1>4 DEF Onward, Labels
  <2> QED
    BY <1>4, <2>1, EffectsAlike, AlikeSaves DEF Goes
<1>5. CASE /\ Understood /\ project.active # 0
           /\ \E batch \in Batches(project) :
                Saves([project EXCEPT !.consumed = @ \cup batch,
                                      !.status = op.prior], op.then)
  <2>0. PICK batch \in Batches(project) :
               Saves([project EXCEPT !.consumed = @ \cup batch,
                                     !.status = op.prior], op.then)
    BY <1>5
  <2> DEFINE p == [project EXCEPT !.consumed = @ \cup batch,
                                  !.status = op.prior]
  <2>1. op.at = "process" /\ op.prior # "intake_received"
    BY <1>5 DEF Understood, Answered, LinkInv, DraftFits
  <2>2. op.then \in {"end", "turn", "awaited", "dispatch"}
        /\ (op.then = "awaited" => op.v = project.active)
    BY DEF IInv, OpIsReady, LinkInv, OpFits
  <2>3. Onward(op.then)
    BY <2>2 DEF Onward, Labels
  <2>4. Alike(p)
    BY <2>1 DEF Alike, IInv, Typed, SoundProjects
  <2> QED
    BY <2>0, <2>3, <2>4, AlikeSaves
<1> QED
  BY <1>1, <1>2, <1>3, <1>4, <1>5 DEF Analyzed, Understood

(* The open session of the plan is looked at, ...                          *)
LEMMA ExpireFits == ASSUME IInv, LinkInv, Expire PROVE LinkInv'
<1>1. CASE Open(project, project.active) = {} /\ Goes("draft")
  <2>1. Onward("draft")
    BY <1>1 DEF Onward, Labels
  <2> QED
    BY <1>1, <2>1, EffectsAlike, AlikeSaves DEF Goes
<1>2. CASE ~(Open(project, project.active) = {} /\ Goes("draft"))
  <2>1. PICK a \in Open(project, project.active) :
          op' = [op EXCEPT !.v = project.active, !.c = a, !.call = "query"]
    BY <1>2 DEF Expire
  <2>2. UNCHANGED <<project, world>> /\ op.at = "expire"
    BY <1>2 DEF Expire, At
  <2>3. /\ op'.at = "expire" /\ op'.then = op.then /\ op'.v = project.active
        /\ op'.c = a /\ op'.call = "query"
    BY <2>1, <2>2 DEF IInv, Typed, Ops
  <2>4. SessionsFit' /\ OrderFits'
    BY <2>2, EffectsAlike, AlikeSame, SameFits, QuietFate DEF LinkInv, world
  <2>5. OpFits'
    BY <2>1, <2>2, <2>3 DEF OpFits
  <2>6. DraftFits'
    BY <2>2, <2>3 DEF DraftFits, LinkInv
  <2> QED
    BY <2>4, <2>5, <2>6 DEF LinkInv
<1> QED
  BY <1>1, <1>2

(* ... and no other is open when it is over.                               *)
LEMMA NoneOpen ==
  ASSUME IInv, LinkInv, Fate, op.v = project.active,
         op.c \in Open(project, op.v), stripe[Session] \in Over \/ stripe'[Session] \in Over,
         project'.active = project.active, project'.paid = project.paid,
         project'.status = project.status,
         project'.sess = [project.sess EXCEPT ![Session] = "expired"],
         GoesTo("draft")
  PROVE  LinkInv'
<1>1. /\ op.v \in Versions /\ op.c \in Attempts /\ Session \in Sessions
      /\ project.sess[Session] = "open" /\ Session = <<op.v, op.c>>
  BY DEF Open, Stored, Sessions, Session, IInv, Typed, SoundProjects
<1>2. SamePlan
  BY DEF SamePlan, LinkInv, DraftFits
<1>3. SessionsFit' /\ OrderFits'
  BY <1>1, <1>2, OverFits DEF LinkInv
<1>4. Open(project', project'.active) = {}
  <2> SUFFICES ASSUME NEW a \in Open(project', op.v) PROVE FALSE
    OBVIOUS
  <2>1. a \in Attempts /\ project'.sess[<<op.v, a>>] = "open"
    BY DEF Open, Stored
  <2>2. a # op.c /\ <<op.v, a>> \in Sessions
    BY <1>1, <2>1 DEF IInv, Typed, SoundProjects, Sessions
  <2>3. project.sess[<<op.v, a>>] = "open"
    BY <1>1, <2>1, <2>2 DEF IInv, Typed, SoundProjects
  <2>4. a \in Open(project, op.v)
    BY <1>1, <2>1, <2>3, CommerceAssumption DEF Open, Stored, CommerceAssumption
  <2> QED
    BY <1>1, <2>2, <2>4, OneOpen DEF LinkInv
<1>5. OpFits' /\ DraftFits'
  BY <1>2, <1>4, GoesFit DEF LinkInv, Labels
<1> QED
  BY <1>3, <1>5 DEF LinkInv

(* A session that Stripe has as open is asked to expire; one that lapsed   *)
(* is stored so; one that was paid for in the meantime stops the edit.     *)
LEMMA ExpirableFits == ASSUME IInv, LinkInv, Expirable PROVE LinkInv'
<1> DEFINE k == <<"expire", op.v, 0>>
<1>1. /\ op.at = "expire" /\ op.v = project.active /\ op.c \in Open(project, op.v)
  BY DEF Expirable, Answered, LinkInv, OpFits
<1>2. CASE Throws(FALSE) /\ UNCHANGED world
  BY <1>2, QuietFate, ThrowsFit DEF world
<1>3. CASE /\ stripe[Session] = "expired"
           /\ Saves([project EXCEPT !.sess[Session] = "expired",
                                    !.eff[k] = Completed(Queued(@))], "draft")
  <2>1. /\ project'.active = project.active /\ project'.paid = project.paid
        /\ project'.status = project.status
        /\ project'.sess = [project.sess EXCEPT ![Session] = "expired"]
        /\ GoesTo("draft") /\ Fate
    BY <1>3, QuietFate DEF Saves, world, IInv, Typed, SoundProjects
  <2> QED
    BY <1>1, <1>3, <2>1, NoneOpen DEF Over
<1>4. CASE Asks([project EXCEPT !.eff[k] = Queued(@)], "expiring", k, "effect")
  <2>1. /\ op'.at = "expiring" /\ op'.then = op.then /\ op'.v = op.v
        /\ op'.c = op.c /\ op'.call = "effect" /\ op'.key = k
    BY <1>4 DEF Asks, IInv, Typed, Ops
  <2>2. \E e : project' = [project EXCEPT !.eff[k] = e]
    BY <1>4 DEF Asks
  <2>3. Same /\ SamePlan
    BY <2>2, EffectsAlike, AlikeSame
  <2>4. SessionsFit' /\ OrderFits'
    BY <1>4, <2>3, SameFits, QuietFate DEF LinkInv, Asks, world
  <2>5. Open(project', op.v) = Open(project, op.v)
    BY <2>3 DEF Open, Stored, Same
  <2>6. OpFits'
    BY <1>1, <2>1, <2>3, <2>5 DEF OpFits, SamePlan, LinkInv
  <2>7. DraftFits'
    BY <2>1, <2>3 DEF DraftFits, SamePlan
  <2> QED
    BY <2>4, <2>6, <2>7 DEF LinkInv
<1> QED
  BY <1>2, <1>3, <1>4 DEF Expirable

(* The expiry is stored, unless Stripe says that the session went another  *)
(* way.                                                                    *)
LEMMA ExpiredFits == ASSUME IInv, LinkInv, Expired PROVE LinkInv'
<1>1. /\ op.v = project.active /\ op.c \in Open(project, op.v)
      /\ op.call = "effect" /\ op.key[1] = "expire"
  BY DEF Expired, Answered, LinkInv, OpFits
<1>2. CASE Throws(TRUE) /\ UNCHANGED world
  BY <1>2, QuietFate, ThrowsFit DEF world
<1>3. CASE /\ stripe[Session] = "open"
           /\ Returns([Done(project) EXCEPT !.sess[Session] = "expired"], "draft")
  <2>1. /\ project'.active = project.active /\ project'.paid = project.paid
        /\ project'.status = project.status
        /\ project'.sess = [project.sess EXCEPT ![Session] = "expired"]
        /\ GoesTo("draft") /\ Acts(op.key)
    BY <1>1, <1>3 DEF Returns, Done, IInv, Typed, SoundProjects
  <2>2. Fate
    BY <1>3, ReturnsFate DEF LinkInv
  <2>3. stripe'[Session] = "expired"
    <3>1. Session \in Sessions
      BY <1>1 DEF Open, Stored, Sessions, Session, IInv, Typed, SoundProjects
    <3> QED
      BY <1>1, <1>3, <2>1, <3>1 DEF Acts
  <2> QED
    BY <1>1, <2>1, <2>2, <2>3, NoneOpen DEF Over
<1> QED
  BY <1>2, <1>3 DEF Expired

(* A new version is in force: of the one before, no session is open, or it *)
(* was paid for.                                                           *)
LEMMA DraftedFits == ASSUME IInv, LinkInv, Drafted PROVE LinkInv'
<1>1. CASE AsksBack
  BY <1>1, AsksBackFits
<1>2. CASE ~AsksBack
  <2> DEFINE v == project.active + 1
  <2>1. /\ v \in Versions /\ UNCHANGED world /\ op.at = "draft"
        /\ project'.active = v /\ project'.paid = project.paid
        /\ project'.sess = project.sess /\ project'.status = "proposal_drafting"
    BY <1>2 DEF Drafted, Answered, IInv, Typed, SoundProjects
  <2>2. /\ op'.at = "create" /\ op'.then = "end" /\ op'.v = v
        /\ op'.call = "none"
    BY <1>2 DEF Drafted, IInv, Typed, Ops
  <2> HIDE DEF v
  <2>3. stripe' = stripe /\ links' = links
    BY <2>1 DEF world, providers
  <2>4. ASSUME NEW s \in Sessions PROVE SessionFits(s)'
    <3>1. SessionFits(s)
      BY DEF LinkInv, SessionsFit
    <3>2. ASSUME project.sess[s] = "open" PROVE Paid(project, s[1])
      <4>1. CASE s[1] = project.active
        <5>1. PICK a \in Attempts : s = <<project.active, a>>
          BY <4>1 DEF Sessions
        <5>2. project.active # 0
          BY <4>1, CommerceAssumption DEF Sessions, CommerceAssumption
        <5>3. a \in Open(project, project.active)
          BY <3>2, <5>1, <5>2 DEF Open, Stored
        <5> QED
          BY <2>1, <4>1, <5>3 DEF LinkInv, DraftFits
      <4> QED
        BY <3>1, <3>2, <4>1 DEF SessionFits
    <3>3. Paid(project, s[1]) => Paid(project', s[1])
      BY <2>1 DEF Paid
    <3> QED
      BY <2>1, <2>3, <3>1, <3>2, <3>3 DEF SessionFits
  <2>5. OrderFits'
    BY <2>1 DEF LinkInv, OrderFits, InOrder
  <2>6. OpFits' /\ DraftFits'
    BY <2>1, <2>2 DEF OpFits, DraftFits
  <2> QED
    BY <2>4, <2>5, <2>6 DEF LinkInv, SessionsFit
<1> QED
  BY <1>1, <1>2

(* The customer is asked something.                                        *)
LEMMA ClarifyFits ==
  ASSUME IInv, LinkInv, Clarify \/ Clarified
  PROVE  LinkInv'
<1> DEFINE k == <<"question", op.c, 0>>
<1>1. Onward("end")
  BY DEF Onward, Labels
<1>2. CASE Goes("end")
  BY <1>1, <1>2, EffectsAlike, AlikeSaves DEF Goes
<1>3. CASE Clarified
  BY <1>1, <1>3, EffectsAlike, AlikeReturns DEF Clarified
<1>4. CASE Clarify /\ ~Goes("end")
  <2> DEFINE p == [project EXCEPT !.eff[k] = Queued(@), !.questions = op.c,
                                  !.status = "needs_clarification"]
  <2>1. op.at = "clarify" /\ Asks(p, op.at, k, "effect")
    BY <1>4 DEF Clarify, At
  <2>2. Alike(p)
    BY DEF Alike, IInv, Typed, SoundProjects
  <2>3. k[1] # "proposal"
    OBVIOUS
  <2> HIDE DEF p, k
  <2> QED
    BY <2>1, <2>2, <2>3, AlikeAsks
<1> QED
  BY <1>2, <1>3, <1>4 DEF Clarify

(* Stripe tells of a payment.                                              *)
LEMMA WebhookFits ==
  ASSUME IInv, LinkInv, NEW s \in Sessions, Webhook(s)
  PROVE  LinkInv'
<1>1. Same /\ SamePlan
  BY EffectsAlike, AlikeSame DEF Webhook
<1>2. SessionsFit' /\ OrderFits'
  BY <1>1, SameFits, QuietFate DEF LinkInv, Webhook, world
<1>3. op'.at = "verify" /\ op'.then = "end" /\ op'.call = "query"
  BY DEF Webhook, Idle
<1> QED
  BY <1>1, <1>2, <1>3, OpGoesFit DEF LinkInv

(* The payment is confirmed to the customer, and the build begins.         *)
LEMMA ContinueFits ==
  ASSUME IInv, LinkInv, Continue \/ Confirmed \/ Dispatch
  PROVE  LinkInv'
<1>1. Onward("end") /\ Onward("pending")
  BY DEF Onward, Labels
<1>2. CASE Goes("end") \/ Goes("pending")
  BY <1>1, <1>2, EffectsAlike, AlikeSaves DEF Goes
<1>3. CASE Continue /\ Calls(<<"confirm", op.v, 0>>)
  <2> DEFINE k == <<"confirm", op.v, 0>>
  <2>1. op.at = "continue" /\ \E e : Asks([project EXCEPT !.eff[k] = e], op.at, k,
                                          "effect")
    BY <1>3 DEF Continue, At, Calls
  <2>2. k[1] # "proposal"
    OBVIOUS
  <2> HIDE DEF k
  <2> QED
    BY <2>1, <2>2, EffectsAlike, AlikeAsks
<1>4. CASE Confirmed
  BY <1>1, <1>4, EffectsAlike, AlikeReturns DEF Confirmed
<1>5. CASE Saves([project EXCEPT !.built = op.v, !.status = "building"], "end")
  <2>1. Alike([project EXCEPT !.built = op.v, !.status = "building"])
    BY DEF Alike, IInv, Typed, SoundProjects
  <2> QED
    BY <1>1, <1>5, <2>1, AlikeSaves
<1> QED
  BY <1>2, <1>3, <1>4, <1>5 DEF Continue, Dispatch

(* Mails that came before the build are processed first.                   *)
LEMMA PendingFits == ASSUME IInv, LinkInv, Pending PROVE LinkInv'
<1>1. CASE Goes("dispatch")
  <2>1. Onward("dispatch")
    BY DEF Onward, Labels
  <2> QED
    BY <1>1, <2>1, EffectsAlike, AlikeSaves DEF Goes
<1>2. CASE Pending /\ ~Goes("dispatch")
  <2>1. /\ project' = [project EXCEPT !.status = "revision_pending"]
        /\ op' = [op EXCEPT !.at = "process", !.then = "dispatch",
                            !.prior = "paid"]
        /\ UNCHANGED world /\ op.call = "none"
    BY <1>2 DEF Pending, At
  <2>2. Alike([project EXCEPT !.status = "revision_pending"])
    BY DEF Alike, IInv, Typed, SoundProjects
  <2>3. Same /\ SamePlan
    BY <2>1, <2>2, AlikeSame
  <2>4. SessionsFit' /\ OrderFits'
    BY <2>1, <2>3, SameFits, QuietFate DEF LinkInv, world
  <2>5. /\ op'.at = "process" /\ op'.then = "dispatch" /\ op'.prior = "paid"
        /\ op'.call = "none"
    BY <2>1 DEF IInv, Typed, Ops
  <2> QED
    BY <2>3, <2>4, <2>5, OpGoesFit DEF LinkInv
<1> QED
  BY <1>1, <1>2

(* A project begins without sessions.                                      *)
LEMMA InitFits == Init => LinkInv
<1> SUFFICES ASSUME Init PROVE LinkInv
  OBVIOUS
<1>1. SessionsFit
  BY DEF Init, SessionsFit, SessionFits
<1>2. OrderFits
  BY DEF Init, OrderFits, InOrder, Sessions
<1>3. OpFits /\ DraftFits
  BY DEF Init, OpFits, DraftFits, Idle
<1> QED
  BY <1>1, <1>2, <1>3 DEF LinkInv

(* Every step keeps what the aggregate and Stripe say of the sessions      *)
(* together.                                                               *)
LEMMA NextFits == IInv /\ LinkInv /\ [Next]_vars => LinkInv'
<1> SUFFICES ASSUME IInv, LinkInv, [Next]_vars PROVE LinkInv'
  OBVIOUS
<1>1. CASE UNCHANGED vars
  BY <1>1, StillFits, QuietFate DEF vars, world
<1>2. CASE End \/ Crash \/ \E how \in Failures : CallFails(how)
  BY <1>2, FailuresFit
<1>3. CASE Route \/ Reconcile \/ LookLater \/ Look \/ Captured \/ Uncaptured
  BY <1>3, RouteFits, LookFits, VerifiedFits, UncapturedFits
<1>4. CASE Turn \/ Awaited \/ Create \/ Created \/ Send \/ Sent
  BY <1>4, TurnFits, CreateFits, CreatedFits, SendFits
<1>5. CASE Analyze \/ Analyzed \/ Process \/ Understood \/ Draft \/ Drafted
  BY <1>5, QueriesFit, AnswersFit, DraftedFits
<1>6. CASE Expire \/ Expirable \/ Expired \/ Clarify \/ Clarified
  BY <1>6, ExpireFits, ExpirableFits, ExpiredFits, ClarifyFits
<1>7. CASE Verified \/ Continue \/ Confirmed \/ Pending \/ Dispatch
  BY <1>7, VerifiedFits, ContinueFits, PendingFits
<1>8. ASSUME NEW m \in Mails, MailArrives(m) \/ Receive(m)
      PROVE  LinkInv'
  BY <1>8, WorldFits, ReceiveFits
<1>9. ASSUME NEW s \in Sessions,
             Webhook(s) \/ Pay(s) \/ Submit(s) \/ Settle(s) \/ Lapse(s)
      PROVE  LinkInv'
  BY <1>9, WorldFits, WebhookFits
<1> QED
  BY <1>1, <1>2, <1>3, <1>4, <1>5, <1>6, <1>7, <1>8, <1>9 DEF Next, Step

(* A link that can be paid is of a session the aggregate has as open too:  *)
(* the only one of its version, and of the version in force, or of one     *)
(* that was paid for.                                                      *)
LEMMA LinksFit == IInv /\ LinkInv => OneLinkPerPlan
<1> SUFFICES ASSUME IInv, LinkInv PROVE OneLinkPerPlan
  OBVIOUS
<1>1. ASSUME NEW s \in Payable
      PROVE  /\ s \in Sessions /\ project.sess[s] = "open"
             /\ s[1] = project.active \/ Paid(project, s[1])
  <2>1. s \in links /\ stripe[s] = "open" /\ s \in Sessions
    BY DEF Payable, IInv, Typed
  <2>2. SessionFits(s) /\ project.sess[s] \in {"none", "open", "complete", "expired"}
    BY <2>1 DEF LinkInv, SessionsFit, IInv, Typed, SoundProjects
  <2> QED
    BY <2>1, <2>2 DEF SessionFits, Over
<1>2. ASSUME NEW s \in Payable, NEW t \in Payable, s[1] = t[1]
      PROVE  s = t
  <2>1. PICK v \in Versions, a \in Attempts : s = <<v, a>>
    BY <1>1 DEF Sessions
  <2>2. PICK w \in Versions, b \in Attempts : t = <<w, b>>
    BY <1>1 DEF Sessions
  <2>3. v = w /\ v # 0
    BY <1>2, <2>1, <2>2, CommerceAssumption DEF CommerceAssumption
  <2>4. a \in Open(project, v) /\ b \in Open(project, v)
    BY <1>1, <2>1, <2>2, <2>3 DEF Open, Stored
  <2> QED
    BY <2>1, <2>2, <2>3, <2>4, OneOpen DEF LinkInv
<1> QED
  BY <1>1, <1>2 DEF OneLinkPerPlan

(* Of the links the customer has, at most one of each version of the plan  *)
(* can be paid, and none of an older version that was not paid for: what   *)
(* "expires the prior open Checkout Session" is there for, whatever edits, *)
(* payments, lapses, lost calls and restarts come in between.              *)
THEOREM OneLinkStays == Spec => []OneLinkPerPlan
<1>1. Spec => []LinkInv
  BY IsInductive, InitFits, NextFits, PTL DEF Spec
<1> QED
  BY <1>1, IsInductive, LinksFit, PTL
=============================================================================
