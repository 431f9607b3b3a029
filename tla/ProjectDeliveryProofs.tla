----------------------- MODULE ProjectDeliveryProofs -----------------------
(***************************************************************************)
(* Theorems about ProjectDelivery: what is shown, released and handed over *)
(* to the customer of a paid project keeps DeliveryPromise, whatever       *)
(* crashes, failed calls, revisions and replayed webhooks come between,    *)
(* for any number of versions, candidates and messages.                    *)
(***************************************************************************)
EXTENDS ProjectDelivery, TLAPS

-----------------------------------------------------------------------------
(* The inductive invariant.  First what the project says of the world: of  *)
(* what the customer has seen (s is outside), ...                          *)
ShownFits(p, s) ==
  \A v \in Versions, c \in Candidates :
    /\ <<"preview", v, c>> \in s => p.preview[v] = c
    /\ <<"deploy", v, c>> \in s =>
         p.preview[v] = c /\ p.mail[<<"preview", v, c>>] = "delivered"
    /\ p.mail[<<"preview", v, c>>] # "none" => <<"preview", v, c>> \in s
    /\ p.release[v] = c => <<"deploy", v, c>> \in s

(* ... of the events that were acknowledged, ...                           *)
AcksFit(p, o) ==
  \A v \in Versions, c \in Candidates :
    o[v][c] = "acknowledged" => <<v, c>> \in p.proven

(* ... and of the runs: one that is recorded was started, and one that is  *)
(* over or cancelled does not run.                                         *)
RunsFit(p, b) ==
  \A v \in Versions, c \in Candidates :
    /\ p.runs[v][c] # "none" => b[v][c] # "none"
    /\ p.runs[v][c] \in Terminal => b[v][c] # "running"
    /\ p.eff[<<"cancel", v, c>>].st = "completed" =>
         b[v][c] \notin {"none", "running"}
    /\ p.st[v] = "cancelled" /\ p.runs[v][c] # "none" => b[v][c] # "running"

(* What can be saved of a project, and a mail that was sent is one whose   *)
(* effect is complete.                                                     *)
ProjectFits(p) ==
  /\ Savable(p)
  /\ p.batch # 0 => p.st[p.batch] # "none"
  /\ \A k \in Tracked : p.mail[k] # "none" => p.eff[k].st = "completed"

(* What an operation relies on at each of its labels: the version it works *)
(* on, ...                                                                 *)
Placed == {"dispatch", "assign", "access", "open", "watch", "refresh",
           "ingest", "decide", "retire", "finalize", "materialize", "show",
           "ack", "review", "deploy", "upload", "finish", "prove", "hand"}
Unseen == {"refresh", "ingest", "decide", "retire", "finalize"}
Building == {"dispatch", "assign", "access", "open", "watch"} \cup Unseen
Showing == {"materialize", "show", "ack", "review", "deploy", "upload",
            "finish", "prove", "hand"}
VersionFits(p, o) ==
  /\ o.at \in Placed => o.v \in Versions
  /\ o.then \in {"end", "batch", "redispatch", "open", "watch", "review"}
  /\ o.then \in {"open", "watch"} => o.at \in Building \cup {"end"}
  /\ o.then = "review" => o.at \in Showing \cup {"end"}
  /\ o.at \in {"materialize", "show", "ack"} => o.then \in {"end", "review"}
  /\ o.at \in {"confirm", "paid"} => p.active = 1
  /\ o.at = "dispatch" /\ p.st[o.v] = "none" => o.v = p.active
  /\ "open" \in {o.at, o.then} /\ o.at # "end" => p.st[o.v] # "none"

(* ... the candidate it shows, releases and hands over, ...                *)
CandidateFits(p, o) ==
  /\ o.at = "clarify" => o.c \in Questions
  /\ o.at \in Unseen => p.preview[o.v] = 0
  /\ o.at \in Showing \ {"ack"} => o.c \in Candidates
  /\ o.at = "materialize" => p.preview[o.v] \in {0, o.c}
  /\ o.then = "review" /\ o.at # "end" =>
       o.c \in Candidates /\ p.preview[o.v] = o.c
  /\ o.at \in {"show", "review", "deploy", "upload", "finish", "prove", "hand"} =>
       p.preview[o.v] = o.c
  /\ o.at \in {"show", "prove", "hand"} => Latest(p, o.v)
  /\ o.at \in {"deploy", "upload", "finish", "prove", "hand"} =>
       p.mail[<<"preview", o.v, o.c>>] = "delivered"
  /\ o.at = "upload" \/ (o.at = "deploy" /\ o.call # "none") =>
       o.key = <<"deploy", o.v, o.c>>
  /\ o.at \in {"finish", "prove", "hand"} => p.release[o.v] = o.c

(* ... and the effect it waits for.                                        *)
EffectFits(p, o) ==
  \/ o.at = "confirm" /\ o.key[1] = "confirm"
  \/ o.at = "clarify" /\ o.key[1] = "question"
  \/ o.at = "steer" /\ o.key[1] = "steer"
  \/ o.at = "access" /\ o.key[1] = "access"
  \/ /\ o.at \in {"supersede", "retire"} /\ o.key = <<"cancel", o.v, o.c>>
     /\ o.v \in Versions /\ o.c \in Candidates /\ p.runs[o.v][o.c] # "none"
  \/ /\ o.at = "assign" /\ o.key = <<"dispatch", o.v, 0>>
     /\ o.c \in Candidates
  \/ /\ o.at = "materialize" /\ o.key[1] = "materialize"
     /\ p.preview[o.v] = 0 /\ Latest(p, o.v)
  \/ /\ o.at = "show" /\ o.key = <<"preview", o.v, o.c>>
     /\ p.eff[o.key].st # "completed"
  \/ /\ o.at = "ack" /\ o.key[1] = "ack"
     /\ <<o.key[2], o.key[3]>> \in p.proven
  \/ o.at = "upload" /\ Latest(p, o.v)
  \/ /\ o.at = "hand" /\ o.key = <<"final", o.v, o.c>> /\ Latest(p, o.v)
     /\ p.eff[o.key].st # "completed"
CallFits(p, o) ==
  /\ o.call = "effect" => EffectFits(p, o)
  /\ o.call = "query" => o.at \in {"mail", "process", "refresh", "ingest",
                                   "deploy"}

(* The status that a message interrupted is one of a project that goes on; *)
(* a project that is parked is left to the operator, unless a webhook of   *)
(* its payment comes again.                                                *)
StatusFits(p, o) ==
  /\ o.prior \notin Parked /\ (o.at = "process" => o.prior \in Status)
  /\ p.status \in Parked /\ ~o.replay => o.at \in {"idle", "end", "route"}

OpFits(p, o) == /\ VersionFits(p, o) /\ CandidateFits(p, o)
                /\ CallFits(p, o) /\ StatusFits(p, o)

(* The effects that occur: a retry is scheduled only while attempts are    *)
(* left.                                                                   *)
Sound == {e \in Effects : e.wait = "retry" => e.n < MaxAttempts}

Aggregates == [status : Status, active : Versions,
               batch : Versions \cup {0}, questions : Questions \cup {0},
               st : [Versions -> BatchStatus],
               grace : SUBSET Versions,
               runs : [Versions -> [Candidates -> Terminal \cup
                                                  {"none", "running"}]],
               proven : SUBSET (Versions \X Candidates),
               preview : [Versions -> Candidates \cup {0}],
               release : [Versions -> Candidates \cup {0}],
               saved : SUBSET Messages, consumed : SUBSET Messages,
               mail : [Tracked -> {"none", "sent", "delivered", "bounced"}],
               eff : [Keys -> Sound]]

Backends == [Versions -> [Candidates -> Terminal \cup
                                        {"none", "running", "cancelling"}]]
Outboxes == [Versions -> [Candidates -> {"absent", "unread", "acknowledged"}]]
Outsides == SUBSET ({"preview", "deploy", "final"} \X Versions \X Candidates)

Fits(p, o, b, a, s) ==
  /\ p \in Aggregates /\ o \in Ops
  /\ b \in Backends /\ a \in Outboxes /\ s \in Outsides
  /\ ProjectFits(p) /\ OpFits(p, o)
  /\ ShownFits(p, s) /\ AcksFit(p, a) /\ RunsFit(p, b)

Bounded == /\ inbound \subseteq Mails /\ clock \subseteq Deadlines
           /\ faults \in 0..MaxFaults /\ replays \in 0..MaxReplays

IInv == Fits(project, op, backend, outbox, outside) /\ Bounded
-----------------------------------------------------------------------------
(* The effects of DurableEffects.                                          *)

(* An effect has at least one attempt.                                     *)
LEMMA MaxAttemptsIsPositive == MaxAttempts \in Nat /\ 1 \in 0..MaxAttempts
BY MaxAttemptsAssumption DEF MaxAttemptsAssumption

(* Whatever becomes of a durable effect, it is sound again, ...            *)
LEMMA EffectsStaySound ==
  ASSUME NEW e \in Sound
  PROVE  /\ Queued(e) \in Sound /\ Completed(e) \in Sound
         /\ DeadLettered(e) \in Sound
         /\ Rescheduled(e) \in Sound /\ Checking(e) \in Sound
         /\ Retrying(e) => Retried(e) \in Sound
         /\ \A retryable \in BOOLEAN : Charged(e, retryable) \in Sound
<1>1. e \in Effects /\ e.n \in 0..MaxAttempts
  BY DEF Sound, Effects
<1>2. Queued(e) \in Sound
  <2>1. [st |-> "pending", n |-> 1, wait |-> "none"] \in Sound
    BY MaxAttemptsIsPositive DEF Sound, Effects
  <2> QED
    BY <2>1 DEF Queued
<1>3. Completed(e) \in Sound /\ DeadLettered(e) \in Sound
  BY <1>1 DEF Sound, Effects, Completed, DeadLettered
<1>4. Rescheduled(e) \in Sound
  <2>1. [st |-> "pending", n |-> 1, wait |-> "check"] \in Sound
    BY MaxAttemptsIsPositive DEF Sound, Effects
  <2> QED
    BY <2>1 DEF Rescheduled
<1>5. Checking(e) \in Sound
  <2>1. [e EXCEPT !.wait = "none"] \in Sound
    BY <1>1 DEF Sound, Effects
  <2> QED
    BY <2>1 DEF Checking
<1>6. Retrying(e) => Retried(e) \in Sound
  <2> SUFFICES ASSUME Retrying(e) PROVE Retried(e) \in Sound
    OBVIOUS
  <2>1. e.n + 1 \in 0..MaxAttempts
    BY <1>1, MaxAttemptsIsPositive DEF Retrying, Sound
  <2> QED
    BY <1>1, <2>1 DEF Sound, Effects, Retried
<1>7. ASSUME NEW retryable \in BOOLEAN
      PROVE  Charged(e, retryable) \in Sound
  <2>1. CASE ~retryable \/ e.n >= MaxAttempts
    BY <1>3, <2>1 DEF Charged
  <2>2. CASE ~(~retryable \/ e.n >= MaxAttempts)
    <3>1. e.n < MaxAttempts
      BY <1>1, <2>2, MaxAttemptsIsPositive
    <3>2. [e EXCEPT !.wait = "retry"] \in Sound
      BY <1>1, <3>1 DEF Sound, Effects
    <3> QED
      BY <2>2, <3>2 DEF Charged
  <2> QED
    BY <2>1, <2>2
<1> QED
  BY <1>2, <1>3, <1>4, <1>5, <1>6, <1>7

(* ... and only Completed completes it.                                    *)
LEMMA EffectStatus ==
  ASSUME NEW e \in Sound
  PROVE  /\ (Queued(e)).st = "completed" <=> e.st = "completed"
         /\ (Checking(e)).st = e.st
         /\ (Rescheduled(e)).st = e.st
         /\ (Retried(e)).st = e.st
         /\ (Completed(e)).st = "completed"
         /\ (DeadLettered(e)).st = "failed"
         /\ \A retryable \in BOOLEAN :
              Chargeable(e) => (Charged(e, retryable)).st \in {"pending", "failed"}
BY DEF Sound, Effects, Queued, Checking, Rescheduled, Retried, Completed,
       DeadLettered, Chargeable, Charged
-----------------------------------------------------------------------------
(* The operation from one step to the next.  GoesTo leaves what it is      *)
(* about as it is, ...                                                     *)
OpGoes(o, r, l) ==
  /\ r \in Ops /\ r.at = l /\ r.call = "none" /\ r.then = o.then /\ r.v = o.v
  /\ r.c = o.c /\ r.mail = o.mail
  /\ r.prior = o.prior /\ r.replay = o.replay /\ r.key = o.key

(* The operation after GoesTo.                                             *)
LEMMA GoesOn ==
  ASSUME op \in Ops, NEW l \in Labels, GoesTo(l)
  PROVE  OpGoes(op, op', l)
BY DEF Ops, GoesTo, OpGoes

(* ... Enters says where to go on, ...                                     *)
OpEnters(o, r, l, t) ==
  /\ r \in Ops /\ r.at = l /\ r.then = t /\ r.call = o.call /\ r.v = o.v
  /\ r.c = o.c /\ r.mail = o.mail
  /\ r.prior = o.prior /\ r.replay = o.replay /\ r.key = o.key

(* The operation after Enters.                                             *)
LEMMA EntersOn ==
  ASSUME op \in Ops, NEW l \in Labels, NEW t \in Labels, Enters(l, t)
  PROVE  OpEnters(op, op', l, t)
BY DEF Ops, Enters, OpEnters

(* ... and Asks names an effect.                                           *)
OpAsks(o, r, l, k, call) ==
  /\ r \in Ops /\ r.at = l /\ r.key = k /\ r.call = call /\ r.then = o.then
  /\ r.v = o.v /\ r.c = o.c /\ r.mail = o.mail
  /\ r.prior = o.prior /\ r.replay = o.replay

(* The operation after Asks, and the project that was saved before.        *)
LEMMA AsksOn ==
  ASSUME op \in Ops, NEW p, NEW l \in Labels, NEW k \in Keys \cup {NoKey},
         NEW call \in {"query", "effect"}, Asks(p, l, k, call)
  PROVE  OpAsks(op, op', l, k, call) /\ project' = p
BY DEF Ops, Asks, OpAsks
-----------------------------------------------------------------------------
(* What most of the steps leave of a project, as far as the world and the  *)
(* schema are concerned.                                                   *)
Stays(p, q) ==
  /\ q.preview = p.preview /\ q.release = p.release /\ q.mail = p.mail
  /\ q.runs = p.runs /\ p.proven \subseteq q.proven
  /\ \A k \in Keys : p.eff[k].st = "completed" => q.eff[k].st = "completed"
  /\ \A v \in Versions, c \in Candidates :
       q.eff[<<"cancel", v, c>>].st = "completed" =>
         p.eff[<<"cancel", v, c>>].st = "completed"
  /\ \A v \in Versions :
       /\ q.st[v] = "cancelled" => p.st[v] = "cancelled"
       /\ p.st[v] # "none" => q.st[v] # "none"

(* The keys that belong to a version and a candidate of it.                *)
LEMMA KeysOf ==
  ASSUME NEW v \in Versions, NEW c \in Candidates
  PROVE  /\ \A t \in {"cancel", "ack", "materialize", "deploy", "proof", "preview",
                    "final", "check preview", "check final"} : <<t, v, c>> \in Keys
         /\ \A t \in {"steer", "dispatch", "access"} : <<t, v, 0>> \in Keys
         /\ <<"preview", v, c>> \in Tracked /\ <<"final", v, c>> \in Tracked
         /\ v # 0 /\ c # 0
<1>1. \A t \in {"cancel", "ack", "materialize", "deploy", "proof", "preview",
               "final", "check preview", "check final"} : <<t, v, c>> \in Keys
  BY DEF Keys
<1>2. \A t \in {"steer", "dispatch", "access"} : <<t, v, 0>> \in Keys
  BY DEF Keys
<1>3. <<"preview", v, c>> \in Tracked /\ <<"final", v, c>> \in Tracked
  BY DEF Tracked
<1>4. v # 0 /\ c # 0
  BY PlanAssumption DEF PlanAssumption
<1> QED
  BY <1>1, <1>2, <1>3, <1>4

(* The mails that are followed are effects, and so are the looks at them.  *)
LEMMA TrackedKeys ==
  ASSUME NEW k \in Tracked
  PROVE  /\ k \in Keys /\ Check(k) \in Keys /\ k \notin {Check(j) : j \in Tracked}
         /\ Check(k)[1] \in {"check preview", "check final"}
<1>1. PICK t \in {"preview", "final"}, v \in Versions, c \in Candidates :
        k = <<t, v, c>>
  BY DEF Tracked
<1>2. k \in Keys /\ Check(k) \in Keys
  BY <1>1 DEF Keys, Check
<1>3. Check(k)[1] \in {"check preview", "check final"}
  BY <1>1 DEF Check
<1>4. ASSUME NEW j \in Tracked, k = Check(j) PROVE FALSE
  <2>1. k[1] \in {"check preview", "check final"}
    BY <1>4 DEF Check
  <2> QED
    BY <1>1, <2>1
<1> QED
  BY <1>2, <1>3, <1>4

(* A project that stays as it was in these respects fits the same world.   *)
LEMMA StaysFits ==
  ASSUME NEW p \in Aggregates, NEW q \in Aggregates, Stays(p, q),
         NEW b, NEW a, NEW s,
         ShownFits(p, s), AcksFit(p, a), RunsFit(p, b)
  PROVE  ShownFits(q, s) /\ AcksFit(q, a) /\ RunsFit(q, b)
<1>1. ShownFits(q, s)
  <2>1. q.preview = p.preview /\ q.mail = p.mail /\ q.release = p.release
    BY DEF Stays
  <2>2. ASSUME NEW v \in Versions, NEW c \in Candidates
        PROVE  /\ <<"preview", v, c>> \in s => q.preview[v] = c
               /\ <<"deploy", v, c>> \in s =>
                    q.preview[v] = c /\ q.mail[<<"preview", v, c>>] = "delivered"
               /\ q.mail[<<"preview", v, c>>] # "none" => <<"preview", v, c>> \in s
               /\ q.release[v] = c => <<"deploy", v, c>> \in s
    BY <2>1 DEF ShownFits
  <2> QED
    BY <2>2 DEF ShownFits
<1>2. AcksFit(q, a)
  BY DEF Stays, AcksFit
<1>3. RunsFit(q, b)
  BY DEF Stays, RunsFit
<1> QED
  BY <1>1, <1>2, <1>3

(* The schema accepts it, unless its status becomes "completed", or it is  *)
(* and the version in force changes.                                       *)
LEMMA StaysSavable ==
  ASSUME NEW p \in Aggregates, NEW q \in Aggregates, Stays(p, q),
         ProjectFits(p),
         \/ q.status # "completed"
         \/ q.status = p.status /\ q.batch = p.batch /\ q.active = p.active,
         q.batch = p.batch \/ q.st[q.batch] # "none"
  PROVE  ProjectFits(q)
<1>1. Savable(q)
  <2>1. CASE q.status # "completed"
    BY <2>1 DEF Savable
  <2>2. CASE q.status = "completed"
    <3>1. /\ p.status = "completed" /\ q.batch = p.batch /\ q.active = p.active
          /\ p.batch = p.active /\ p.release[p.active] # 0
      BY <2>2 DEF ProjectFits, Savable
    <3> DEFINE k == <<"final", p.active, p.release[p.active]>>
    <3>2. k \in Keys
      <4>1. p.active \in Versions /\ p.release[p.active] \in Candidates
        BY <3>1 DEF Aggregates
      <4> QED
        BY <4>1, KeysOf
    <3>3. p.eff[k].st = "completed" /\ p.mail[k] = "delivered"
      BY <3>1 DEF ProjectFits, Savable
    <3> QED
      BY <3>1, <3>2, <3>3 DEF Savable, Stays
  <2> QED
    BY <2>1, <2>2
<1>2. q.batch # 0 => q.st[q.batch] # "none"
  BY DEF ProjectFits, Stays, Aggregates
<1>3. \A k \in Tracked : q.mail[k] # "none" => q.eff[k].st = "completed"
  BY TrackedKeys DEF ProjectFits, Stays
<1> QED
  BY <1>1, <1>2, <1>3 DEF ProjectFits
-----------------------------------------------------------------------------
(* What the providers do.                                                  *)

(* What an operation relies on while a provider acts for it.               *)
LEMMA EffectKey ==
  ASSUME NEW p \in Aggregates, NEW o \in Ops, OpFits(p, o), o.call = "effect"
  PROVE  /\ o.key \in Keys
         /\ o.key[1] = "dispatch" =>
              /\ o.at = "assign" /\ o.key = <<"dispatch", o.v, 0>>
              /\ o.v \in Versions /\ o.c \in Candidates
         /\ o.key[1] = "cancel" =>
              /\ o.at \in {"supersede", "retire"} /\ o.key = <<"cancel", o.v, o.c>>
              /\ o.v \in Versions /\ o.c \in Candidates /\ p.runs[o.v][o.c] # "none"
         /\ o.key[1] = "ack" => o.at = "ack" /\ <<o.key[2], o.key[3]>> \in p.proven
         /\ o.key[1] = "preview" =>
              /\ o.at = "show" /\ o.key = <<"preview", o.v, o.c>>
              /\ o.v \in Versions /\ o.c \in Candidates
              /\ p.preview[o.v] = o.c /\ p.eff[o.key].st # "completed"
         /\ o.key[1] = "deploy" =>
              /\ o.at = "upload" /\ o.key = <<"deploy", o.v, o.c>>
              /\ o.v \in Versions /\ o.c \in Candidates /\ p.preview[o.v] = o.c
              /\ p.mail[<<"preview", o.v, o.c>>] = "delivered"
         /\ o.key[1] = "final" =>
              /\ o.at = "hand" /\ o.key = <<"final", o.v, o.c>>
              /\ o.v \in Versions /\ o.c \in Candidates /\ p.release[o.v] = o.c
              /\ p.preview[o.v] = o.c /\ p.eff[o.key].st # "completed"
         /\ o.key[1] \in {"preview", "deploy", "final"} => Latest(p, o.v)
<1>1. EffectFits(p, o)
  BY DEF OpFits, CallFits
<1>2. o.at \in Placed => o.v \in Versions
  BY DEF OpFits, VersionFits
<1>3. CandidateFits(p, o)
  BY DEF OpFits
<1>4. o.key[1] # "none"
  BY <1>1, <1>3 DEF EffectFits, CandidateFits
<1>5. o.key \in Keys
  <2>1. o.key \in Keys \cup {NoKey}
    BY DEF Ops
  <2> QED
    BY <2>1, <1>4 DEF NoKey
<1>6. o.at = "upload" => /\ o.key = <<"deploy", o.v, o.c>>
                         /\ o.v \in Versions /\ o.c \in Candidates
                         /\ p.preview[o.v] = o.c
                         /\ p.mail[<<"preview", o.v, o.c>>] = "delivered"
  BY <1>2, <1>3 DEF CandidateFits, Placed, Showing
<1>7. o.at = "show" => /\ o.v \in Versions /\ o.c \in Candidates
                       /\ p.preview[o.v] = o.c /\ Latest(p, o.v)
  BY <1>2, <1>3 DEF CandidateFits, Placed, Showing
<1>8. o.at = "hand" => /\ o.v \in Versions /\ o.c \in Candidates
                         /\ p.release[o.v] = o.c /\ p.preview[o.v] = o.c
  BY <1>2, <1>3 DEF CandidateFits, Placed, Showing
<1>9. o.at = "assign" => o.v \in Versions
  BY <1>2 DEF Placed
<1> QED
  BY <1>1, <1>5, <1>6, <1>7, <1>8, <1>9 DEF EffectFits

(* What a provider does for an effect fits the project before its answer   *)
(* is saved: the process may die between the two.                          *)
LEMMA ActsFit ==
  ASSUME Fits(project, op, backend, outbox, outside), op.call = "effect",
         Acts(op.key)
  PROVE  Fits(project, op, backend', outbox', outside')
<1> DEFINE k == op.key
           v == op.v
           c == op.c
<1>1. /\ project \in Aggregates /\ op \in Ops /\ OpFits(project, op)
      /\ backend \in Backends /\ outbox \in Outboxes /\ outside \in Outsides
      /\ ShownFits(project, outside) /\ AcksFit(project, outbox)
      /\ RunsFit(project, backend) /\ ProjectFits(project)
  BY DEF Fits
<1>2. backend' \in Backends /\ RunsFit(project, backend')
  <2>1. CASE k[1] = "dispatch"
    <3>1. v \in Versions /\ c \in Candidates
      BY <1>1, <2>1, EffectKey
    <3>2. backend' = [backend EXCEPT ![v][c] = IF @ = "none" THEN "running" ELSE @]
      BY <2>1 DEF Acts
    <3>3. backend' \in Backends
      BY <1>1, <3>1, <3>2 DEF Backends
    <3>4. backend[v][c] = "none" =>
            /\ project.runs[v][c] = "none"
            /\ project.eff[<<"cancel", v, c>>].st # "completed"
      BY <1>1, <3>1 DEF RunsFit
    <3>5. \A w \in Versions, d \in Candidates :
            backend'[w][d] = IF w = v /\ d = c /\ backend[v][c] = "none"
                             THEN "running" ELSE backend[w][d]
      BY <1>1, <3>1, <3>2 DEF Backends
    <3>6. ASSUME NEW w \in Versions, NEW d \in Candidates
          PROVE  /\ project.runs[w][d] # "none" => backend'[w][d] # "none"
                 /\ project.runs[w][d] \in Terminal => backend'[w][d] # "running"
                 /\ project.eff[<<"cancel", w, d>>].st = "completed" =>
                      backend'[w][d] \notin {"none", "running"}
                 /\ project.st[w] = "cancelled" /\ project.runs[w][d] # "none"
                      => backend'[w][d] # "running"
      <4>1. CASE w = v /\ d = c /\ backend[v][c] = "none"
        BY <3>4, <3>5, <4>1 DEF Terminal
      <4>2. CASE ~(w = v /\ d = c /\ backend[v][c] = "none")
        <5>1. backend'[w][d] = backend[w][d]
          BY <3>5, <4>2
        <5> QED
          BY <1>1, <5>1 DEF RunsFit
      <4> QED
        BY <4>1, <4>2
    <3> QED
      BY <3>3, <3>6 DEF RunsFit
  <2>2. CASE k[1] = "cancel"
    <3>1. v \in Versions /\ c \in Candidates
      BY <1>1, <2>2, EffectKey
    <3>2. backend' = [backend EXCEPT ![v][c] = IF @ = "running" THEN "cancelling"
                                                                ELSE @]
      BY <2>2 DEF Acts
    <3>3. backend' \in Backends
      BY <1>1, <3>1, <3>2 DEF Backends
    <3>4. \A w \in Versions, d \in Candidates :
            backend'[w][d] = IF w = v /\ d = c /\ backend[v][c] = "running"
                             THEN "cancelling" ELSE backend[w][d]
      BY <1>1, <3>1, <3>2 DEF Backends
    <3>5. ASSUME NEW w \in Versions, NEW d \in Candidates
          PROVE  /\ project.runs[w][d] # "none" => backend'[w][d] # "none"
                 /\ project.runs[w][d] \in Terminal => backend'[w][d] # "running"
                 /\ project.eff[<<"cancel", w, d>>].st = "completed" =>
                      backend'[w][d] \notin {"none", "running"}
                 /\ project.st[w] = "cancelled" /\ project.runs[w][d] # "none"
                      => backend'[w][d] # "running"
      <4>1. CASE backend'[w][d] = "cancelling"
        BY <4>1
      <4>2. CASE backend'[w][d] # "cancelling"
        <5>1. backend'[w][d] = backend[w][d]
          BY <3>4, <4>2
        <5> QED
          BY <1>1, <5>1 DEF RunsFit
      <4> QED
        BY <4>1, <4>2
    <3> QED
      BY <3>3, <3>5 DEF RunsFit
  <2>3. CASE k[1] \notin {"dispatch", "cancel"}
    <3>1. backend' = backend
      BY <2>3 DEF Acts
    <3> QED
      BY <1>1, <3>1
  <2> QED
    BY <2>1, <2>2, <2>3
<1>3. outbox' \in Outboxes /\ AcksFit(project, outbox')
  <2>1. CASE k[1] = "ack"
    <3>1. <<k[2], k[3]>> \in project.proven
      BY <1>1, <2>1, EffectKey
    <3>2. k[2] \in Versions /\ k[3] \in Candidates
      BY <1>1, <3>1 DEF Aggregates
    <3>3. outbox' = [outbox EXCEPT ![k[2]][k[3]] = "acknowledged"]
      BY <2>1 DEF Acts
    <3>4. outbox' \in Outboxes
      BY <1>1, <3>2, <3>3 DEF Outboxes
    <3>5. \A w \in Versions, d \in Candidates :
            outbox'[w][d] = "acknowledged" =>
              outbox[w][d] = "acknowledged" \/ (w = k[2] /\ d = k[3])
      BY <1>1, <3>2, <3>3 DEF Outboxes
    <3> QED
      BY <1>1, <3>1, <3>4, <3>5 DEF AcksFit
  <2>2. CASE k[1] # "ack"
    BY <1>1, <2>2 DEF Acts
  <2> QED
    BY <2>1, <2>2
<1>4. outside' \in Outsides /\ ShownFits(project, outside')
  <2>1. CASE k[1] \in {"preview", "deploy", "final"}
    <3>1. outside' = outside \cup {k}
      BY <2>1 DEF Acts
    <3>2. /\ v \in Versions /\ c \in Candidates /\ k = <<k[1], v, c>>
          /\ project.preview[v] = c
          /\ k[1] = "deploy" => project.mail[<<"preview", v, c>>] = "delivered"
      BY <1>1, <2>1, EffectKey
    <3>3. outside' \in Outsides
      BY <1>1, <2>1, <3>1, <3>2 DEF Outsides
    <3>4. ASSUME NEW w \in Versions, NEW d \in Candidates
          PROVE  /\ <<"preview", w, d>> \in outside' => project.preview[w] = d
                 /\ <<"deploy", w, d>> \in outside' =>
                      /\ project.preview[w] = d
                      /\ project.mail[<<"preview", w, d>>] = "delivered"
                 /\ project.mail[<<"preview", w, d>>] # "none"
                      => <<"preview", w, d>> \in outside'
                 /\ project.release[w] = d => <<"deploy", w, d>> \in outside'
      <4>1. \A t \in {"preview", "deploy"} : <<t, w, d>> \in outside' =>
              <<t, w, d>> \in outside \/ (t = k[1] /\ w = v /\ d = c)
        BY <3>1, <3>2
      <4>2. outside \subseteq outside'
        BY <3>1
      <4> QED
        BY <1>1, <3>2, <4>1, <4>2 DEF ShownFits
    <3> QED
      BY <3>3, <3>4 DEF ShownFits
  <2>2. CASE k[1] \notin {"preview", "deploy", "final"}
    BY <1>1, <2>2 DEF Acts
  <2> QED
    BY <2>1, <2>2
<1> QED
  BY <1>1, <1>2, <1>3, <1>4 DEF Fits
-----------------------------------------------------------------------------
(* The steps.                                                              *)

(* What the operations rely on.                                            *)
Same(p, q) ==
  /\ q.active = p.active /\ q.batch = p.batch /\ q.questions = p.questions
  /\ q.st = p.st /\ q.runs = p.runs /\ q.proven = p.proven
  /\ q.preview = p.preview /\ q.release = p.release
  /\ q.saved = p.saved /\ q.consumed = p.consumed /\ q.mail = p.mail

(* Whatever a provider did, the project and the operation fit the world.   *)
LEMMA WorldFits ==
  ASSUME Fits(project, op, backend, outbox, outside),
         UNCHANGED providers \/ (op.call = "effect" /\ Acts(op.key))
  PROVE  Fits(project, op, backend', outbox', outside')
<1>1. CASE UNCHANGED providers
  BY <1>1 DEF providers
<1>2. CASE op.call = "effect" /\ Acts(op.key)
  BY <1>2, ActsFit
<1> QED
  BY <1>1, <1>2

(* A step that lets the project stay.                                      *)
LEMMA StepFits ==
  ASSUME NEW p, NEW o, NEW q, NEW r, NEW b, NEW a, NEW s,
         Fits(p, o, b, a, s), q \in Aggregates, r \in Ops, Stays(p, q),
         \/ q.status # "completed"
         \/ q.status = p.status /\ q.batch = p.batch /\ q.active = p.active,
         q.batch = p.batch \/ q.st[q.batch] # "none",
         OpFits(q, r)
  PROVE  Fits(q, r, b, a, s)
<1>1. ShownFits(q, s) /\ AcksFit(q, a) /\ RunsFit(q, b)
  BY StaysFits DEF Fits
<1>2. ProjectFits(q)
  BY StaysSavable DEF Fits
<1> QED
  BY <1>1, <1>2 DEF Fits

(* A step of the operation alone.                                          *)
LEMMA OpFitsOn ==
  ASSUME NEW p, NEW o, NEW r, NEW b, NEW a, NEW s,
         Fits(p, o, b, a, s), r \in Ops, OpFits(p, r)
  PROVE  Fits(p, r, b, a, s)
BY DEF Fits

(* What is read off a project that is the same in what the operations rely *)
(* on is the same.                                                         *)
LEMMA SameFits ==
  ASSUME NEW p, NEW q, Same(p, q), NEW o
  PROVE  /\ VersionFits(p, o) => VersionFits(q, o)
         /\ CandidateFits(p, o) => CandidateFits(q, o)
         /\ \A v : Latest(q, v) <=> Latest(p, v)
<1>1. \A v : Latest(q, v) <=> Latest(p, v)
  BY DEF Same, Latest, Unapplied
<1>2. VersionFits(p, o) => VersionFits(q, o)
  BY DEF Same, VersionFits
<1>3. CandidateFits(p, o) => CandidateFits(q, o)
  BY <1>1 DEF Same, CandidateFits
<1> QED
  BY <1>1, <1>2, <1>3

(* One effect changes; it is not taken back, and a cancellation is         *)
(* completed only where the run is looked at.                              *)
Changes(p, q, k, e) ==
  q \in Aggregates /\ Same(p, q) /\ q.eff = [p.eff EXCEPT ![k] = e]

(* Such a change leaves the rest as it is.                                 *)
LEMMA EffectStays ==
  ASSUME NEW p \in Aggregates, NEW q, NEW k \in Keys, NEW e, Changes(p, q, k, e),
         p.eff[k].st = "completed" => e.st = "completed",
         k[1] = "cancel" /\ e.st = "completed" => p.eff[k].st = "completed"
  PROVE  Stays(p, q)
<1>1. q \in Aggregates /\ Same(p, q)
  BY DEF Changes
<1>2. \A j \in Keys : q.eff[j] = IF j = k THEN e ELSE p.eff[j]
  BY DEF Changes, Aggregates
<1>3. \A j \in Keys : p.eff[j].st = "completed" => q.eff[j].st = "completed"
  BY <1>2
<1>4. \A v \in Versions, c \in Candidates :
        q.eff[<<"cancel", v, c>>].st = "completed" =>
          p.eff[<<"cancel", v, c>>].st = "completed"
  <2> SUFFICES ASSUME NEW v \in Versions, NEW c \in Candidates,
                      q.eff[<<"cancel", v, c>>].st = "completed"
               PROVE  p.eff[<<"cancel", v, c>>].st = "completed"
    OBVIOUS
  <2>1. <<"cancel", v, c>> \in Keys
    BY KeysOf
  <2>2. CASE k = <<"cancel", v, c>>
    BY <1>2, <2>1, <2>2
  <2>3. CASE k # <<"cancel", v, c>>
    BY <1>2, <2>1, <2>3
  <2> QED
    BY <2>2, <2>3
<1> QED
  BY <1>1, <1>3, <1>4 DEF Stays, Same

(* Nothing but the status changes.                                         *)
LEMMA StatusStays ==
  ASSUME NEW p, NEW q, Same(p, q), q.eff = p.eff
  PROVE  Stays(p, q)
BY DEF Same, Stays

(* The end of an operation asks nothing of the project, ...                *)
LEMMA EndFits ==
  ASSUME NEW p \in Aggregates, NEW q \in Aggregates, Stays(p, q),
         NEW o \in Ops, OpFits(p, o), NEW r, OpGoes(o, r, "end")
  PROVE  OpFits(q, r)
<1>1. /\ r \in Ops /\ r.at = "end" /\ r.call = "none" /\ r.then = o.then
      /\ r.v = o.v /\ r.c = o.c
  /\ r.prior = o.prior /\ r.replay = o.replay /\ r.key = o.key
  BY DEF OpGoes
<1>2. VersionFits(q, r)
  BY <1>1 DEF OpFits, VersionFits, Placed
<1>3. CandidateFits(q, r) /\ CallFits(q, r) /\ StatusFits(q, r)
  BY <1>1 DEF OpFits, CandidateFits, CallFits, StatusFits, Unseen, Showing
<1> QED
  BY <1>1, <1>2, <1>3 DEF OpFits

(* ... and neither does a project without one.                             *)
LEMMA IdleFits ==
  ASSUME NEW p
  PROVE  Idle \in Ops /\ OpFits(p, Idle)
<1>1. Idle \in Ops
  BY DEF Idle, Ops, Labels
<1>2. /\ Idle.at = "idle" /\ Idle.then = "end" /\ Idle.call = "none"
      /\ Idle.prior = "none"
  BY DEF Idle
<1> QED
  BY <1>1, <1>2 DEF OpFits, VersionFits, CandidateFits, CallFits, StatusFits,
                    Placed, Unseen, Building, Showing, Parked

(* The bounds of the model are numbers.                                    *)
LEMMA BoundsAreNat == MaxFaults \in Nat /\ MaxReplays \in Nat
BY PlanAssumption DEF PlanAssumption

(* The turn of an operation ends.                                          *)
LEMMA EndKeeps == ASSUME IInv, End PROVE IInv'
<1>1. Fits(project, op, backend, outbox, outside) /\ Bounded
  BY DEF IInv
<1>2. /\ project' = project /\ backend' = backend /\ outbox' = outbox
      /\ outside' = outside /\ op' = Idle
  BY DEF End, providers
<1>3. Fits(project', op', backend', outbox', outside')
  BY <1>1, <1>2, IdleFits, OpFitsOn
<1>4. Bounded'
  BY <1>1 DEF End, bounds, Bounded
<1> QED
  BY <1>3, <1>4 DEF IInv

(* A crash loses the operation, but not what a provider did for it.        *)
LEMMA CrashKeeps == ASSUME IInv, Crash PROVE IInv'
<1>1. Fits(project, op, backend, outbox, outside) /\ Bounded
  BY DEF IInv
<1>2. Fits(project, op, backend', outbox', outside')
  BY <1>1, WorldFits DEF Crash
<1>3. project' = project /\ op' = Idle
  BY DEF Crash
<1>4. Fits(project', op', backend', outbox', outside')
  BY <1>2, <1>3, IdleFits, OpFitsOn
<1>5. Bounded'
  BY <1>1, BoundsAreNat DEF Crash, Bounded
<1> QED
  BY <1>4, <1>5 DEF IInv

(* Stays and Same are reflexive and transitive.                            *)
LEMMA StaysOn ==
  ASSUME NEW p, NEW q, NEW r
  PROVE  /\ Stays(p, p) /\ Same(p, p)
         /\ Stays(p, q) /\ Stays(q, r) => Stays(p, r)
         /\ Same(p, q) /\ Same(q, r) => Same(p, r)
<1>1. Stays(p, p) /\ Same(p, p)
  BY DEF Stays, Same
<1>2. Stays(p, q) /\ Stays(q, r) => Stays(p, r)
  BY DEF Stays
<1>3. Same(p, q) /\ Same(q, r) => Same(p, r)
  BY DEF Same
<1> QED
  BY <1>1, <1>2, <1>3

(* A failure is charged to an effect that is not complete; at most it      *)
(* parks the project.                                                      *)
LEMMA BlamedStays ==
  ASSUME NEW p \in Aggregates, NEW k \in Keys \cup {NoKey},
         NEW retryable \in BOOLEAN
  PROVE  /\ Blamed(p, k, retryable) \in Aggregates
         /\ Same(p, Blamed(p, k, retryable))
         /\ Stays(p, Blamed(p, k, retryable))
         /\ \/ (Blamed(p, k, retryable)).status = p.status
            \/ (Blamed(p, k, retryable)).status \in Parked
<1>1. CASE k = NoKey \/ ~Chargeable(p.eff[k])
  BY <1>1, StaysOn DEF Blamed
<1>2. CASE ~(k = NoKey \/ ~Chargeable(p.eff[k]))
  <2> DEFINE e == Charged(p.eff[k], retryable)
             t == IF e.st # "failed" THEN p.status
                  ELSE IF k[1] = "deploy" THEN "deployment_verification_failed"
                                          ELSE "needs_operator_attention"
             q == [p EXCEPT !.eff[k] = e, !.status = t]
  <2>1. k \in Keys /\ Chargeable(p.eff[k]) /\ p.eff[k] \in Sound
    BY <1>2 DEF Aggregates
  <2>2. e \in Sound /\ e.st # "completed" /\ p.eff[k].st # "completed"
    BY <2>1, EffectsStaySound, EffectStatus DEF Chargeable
  <2>3. t \in Status /\ (t = p.status \/ t \in Parked)
    <3>1. p.status \in Status
      BY DEF Aggregates
    <3> HIDE DEF e
    <3> QED
      BY <3>1 DEF Status, Over, Parked
  <2>4. Blamed(p, k, retryable) = q
    BY <1>2 DEF Blamed, Aggregates
  <2>5. Changes(p, q, k, e) /\ q.status = t
    <3> HIDE DEF e, t
    <3> QED
      BY <2>1, <2>2, <2>3 DEF Changes, Aggregates, Same
  <2> HIDE DEF e, t, q
  <2>6. Stays(p, q)
    BY <2>1, <2>2, <2>5, EffectStays
  <2> QED
    BY <2>3, <2>4, <2>5, <2>6 DEF Changes
<1> QED
  BY <1>1, <1>2

(* The status of a failed or interrupted operation is not "completed" by   *)
(* what the failure adds.                                                  *)
LEMMA ThrowsFits ==
  ASSUME NEW b, NEW a, NEW s, Fits(project, op, b, a, s),
         NEW retryable \in BOOLEAN, Throws(retryable)
  PROVE  Fits(project', op', b, a, s)
<1>1. project \in Aggregates /\ op \in Ops /\ OpFits(project, op)
  BY DEF Fits
<1>2. op.key \in Keys \cup {NoKey}
  BY <1>1 DEF Ops
<1>3. /\ project' \in Aggregates /\ Same(project, project')
      /\ Stays(project, project')
      /\ project'.status = project.status \/ project'.status \in Parked
  BY <1>1, <1>2, BlamedStays DEF Throws
<1>4. OpGoes(op, op', "end")
  BY <1>1, GoesOn DEF Throws, Labels
<1>5. op' \in Ops /\ OpFits(project', op')
  BY <1>1, <1>3, <1>4, EndFits DEF OpGoes
<1>6. \/ project'.status # "completed"
      \/ /\ project'.status = project.status /\ project'.batch = project.batch
         /\ project'.active = project.active
  BY <1>3 DEF Same, Parked
<1>7. project'.batch = project.batch
  BY <1>3 DEF Same
<1> QED
  BY <1>3, <1>5, <1>6, <1>7, StepFits

(* A call that fails parks the project, schedules a retry, or, while       *)
(* evidence is collected after a deadline, counts as an answer.            *)
LEMMA CallFailsKeeps ==
  ASSUME IInv, NEW how \in {"lost", "transient", "permanent"}, CallFails(how)
  PROVE  IInv'
<1>1. Fits(project, op, backend, outbox, outside) /\ Bounded
  BY DEF IInv
<1>2. Fits(project, op, backend', outbox', outside')
  BY <1>1, WorldFits DEF CallFails
<1>3. Bounded'
  BY <1>1, BoundsAreNat DEF CallFails, Bounded
<1>4. CASE Throws(how # "permanent")
  <2>1. (how # "permanent") \in BOOLEAN
    OBVIOUS
  <2>2. Fits(project', op', backend', outbox', outside')
    BY <1>2, <1>4, <2>1, ThrowsFits
  <2> QED
    BY <1>3, <2>2 DEF IInv
<1>5. CASE /\ Tolerated(how # "permanent") /\ UNCHANGED project
           /\ GoesTo("retire") \/ GoesTo("finalize")
  <2>1. project \in Aggregates /\ op \in Ops /\ OpFits(project, op)
    BY <1>1 DEF Fits
  <2>2. op.at \in {"refresh", "ingest"}
    BY <1>5 DEF Tolerated
  <2>3. /\ op' \in Ops /\ op'.at \in {"retire", "finalize"} /\ op'.call = "none"
        /\ op'.then = op.then /\ op'.v = op.v
        /\ op'.prior = op.prior /\ op'.replay = op.replay
    BY <1>5, <2>1, GoesOn DEF OpGoes, Labels
  <2>4. OpFits(project, op')
    BY <2>1, <2>2, <2>3
    DEF OpFits, VersionFits, CandidateFits, CallFits, StatusFits,
        Placed, Unseen, Building, Showing
  <2>5. Fits(project', op', backend', outbox', outside')
    BY <1>2, <1>5, <2>3, <2>4, OpFitsOn
  <2> QED
    BY <1>3, <2>5 DEF IInv
<1> QED
  BY <1>4, <1>5 DEF CallFails
-----------------------------------------------------------------------------
(* The world, while an operation waits or none is there.                   *)

(* A mail of the customer is staged, or a deadline passes.                 *)
LEMMA ArrivalsKeep ==
  ASSUME IInv, \/ \E m \in Mails : MailArrives(m)
               \/ \E d \in Deadlines : Elapse(d)
  PROVE  IInv'
<1>1. /\ project' = project /\ op' = op /\ backend' = backend
      /\ outbox' = outbox /\ outside' = outside
  BY DEF MailArrives, Elapse, providers
<1>2. Fits(project', op', backend', outbox', outside')
  BY <1>1 DEF IInv
<1>3. Bounded'
  <2>1. CASE \E m \in Mails : MailArrives(m)
    BY <2>1 DEF MailArrives, IInv, Bounded, bounds
  <2>2. CASE \E d \in Deadlines : Elapse(d)
    <3>1. clock' \subseteq Deadlines
      BY <2>2 DEF Elapse, IInv, Bounded, Counting
    <3> QED
      BY <2>2, <3>1 DEF Elapse, IInv, Bounded, bounds
  <2> QED
    BY <2>1, <2>2
<1> QED
  BY <1>2, <1>3 DEF IInv

(* A run that ends does not run any more.                                  *)
LEMMA RunEndsKeeps ==
  ASSUME IInv, NEW c \in Candidates, RunEnds(c)
  PROVE  IInv'
<1>1. /\ backend \in Backends /\ RunsFit(project, backend)
      /\ Fits(project, op, backend, outbox, outside) /\ Bounded
  BY DEF IInv, Fits
<1>2. /\ project' = project /\ op' = op /\ outbox' = outbox
      /\ outside' = outside /\ Bounded'
  BY <1>1 DEF RunEnds, bounds, Bounded
<1>3. PICK v \in Versions, x \in Terminal : backend' = [backend EXCEPT ![v][c] = x]
  BY DEF RunEnds, Terminal
<1>4. backend' \in Backends
  BY <1>1, <1>3 DEF Backends
<1>5. \A w \in Versions, d \in Candidates :
        backend'[w][d] \in Terminal \/ backend'[w][d] = backend[w][d]
  BY <1>1, <1>3 DEF Backends
<1>6. RunsFit(project, backend')
  <2> SUFFICES ASSUME NEW w \in Versions, NEW d \in Candidates
               PROVE  /\ project.runs[w][d] # "none" => backend'[w][d] # "none"
                      /\ project.runs[w][d] \in Terminal =>
                           backend'[w][d] # "running"
                      /\ project.eff[<<"cancel", w, d>>].st = "completed" =>
                           backend'[w][d] \notin {"none", "running"}
                      /\ project.st[w] = "cancelled" /\ project.runs[w][d] # "none"
                           => backend'[w][d] # "running"
    BY DEF RunsFit
  <2>1. CASE backend'[w][d] \in Terminal
    BY <2>1 DEF Terminal
  <2>2. CASE backend'[w][d] = backend[w][d]
    BY <1>1, <2>2 DEF RunsFit
  <2> QED
    BY <1>5, <2>1, <2>2
<1>7. Fits(project', op', backend', outbox', outside')
  BY <1>1, <1>2, <1>4, <1>6 DEF Fits
<1> QED
  BY <1>2, <1>7 DEF IInv

(* An event that is published is not acknowledged.                         *)
LEMMA AnnounceKeeps ==
  ASSUME IInv, NEW c \in Candidates, Announce(c)
  PROVE  IInv'
<1>1. /\ outbox \in Outboxes /\ AcksFit(project, outbox)
      /\ Fits(project, op, backend, outbox, outside) /\ Bounded
  BY DEF IInv, Fits
<1>2. /\ project' = project /\ op' = op /\ backend' = backend
      /\ outside' = outside /\ Bounded'
  BY <1>1 DEF Announce, bounds, Bounded
<1>3. PICK v \in Versions : outbox' = [outbox EXCEPT ![v][c] = "unread"]
  BY DEF Announce
<1>4. outbox' \in Outboxes
  BY <1>1, <1>3 DEF Outboxes
<1>5. \A w \in Versions, d \in Candidates :
        outbox'[w][d] = "acknowledged" => outbox[w][d] = "acknowledged"
  BY <1>1, <1>3 DEF Outboxes
<1>6. AcksFit(project, outbox')
  BY <1>1, <1>5 DEF AcksFit
<1>7. Fits(project', op', backend', outbox', outside')
  BY <1>1, <1>2, <1>4, <1>6 DEF Fits
<1> QED
  BY <1>2, <1>7 DEF IInv
-----------------------------------------------------------------------------
(* The worker begins.                                                      *)

(* A new operation has nothing to rely on yet.                             *)
LEMMA BeginFits ==
  ASSUME NEW p, NEW r \in Ops, r.call = "none", r.then = "end", r.prior = "none",
         r.at \in {"mail", "confirm"}, r.at = "confirm" => p.active = 1,
         ~r.replay => p.status \notin Parked
  PROVE  OpFits(p, r)
<1>1. VersionFits(p, r)
  BY DEF VersionFits, Placed, Showing
<1>2. CandidateFits(p, r)
  BY DEF CandidateFits, Unseen, Showing
<1>3. CallFits(p, r) /\ StatusFits(p, r)
  BY DEF CallFits, StatusFits, Parked
<1> QED
  BY <1>1, <1>2, <1>3 DEF OpFits

(* A retry that is due is counted, and the worker looks for mail.          *)
LEMMA ReconcileKeeps == ASSUME IInv, Reconcile PROVE IInv'
<1>1. /\ project \in Aggregates /\ Bounded
      /\ Fits(project, op, backend, outbox, outside)
  BY DEF IInv, Fits
<1>2. /\ project' \in Aggregates /\ Same(project, project')
      /\ Stays(project, project') /\ project'.status = project.status
  <2>1. CASE project' = project
    BY <1>1, <2>1, StaysOn
  <2>2. CASE \E k \in Keys : /\ Retrying(project.eff[k])
                             /\ project' = [project EXCEPT !.eff[k] = Retried(@)]
    <3>1. PICK k \in Keys : /\ Retrying(project.eff[k])
                            /\ project' = [project EXCEPT !.eff[k] = Retried(@)]
      BY <2>2
    <3> DEFINE e == Retried(project.eff[k])
    <3>2. project.eff[k] \in Sound
      BY <1>1 DEF Aggregates
    <3>3. e \in Sound /\ e.st = project.eff[k].st
      BY <3>1, <3>2, EffectsStaySound, EffectStatus
    <3> HIDE DEF e
    <3>4. project' = [project EXCEPT !.eff[k] = e]
      BY <3>1 DEF e
    <3>5. Changes(project, project', k, e) /\ project'.status = project.status
      BY <1>1, <3>3, <3>4 DEF Changes, Aggregates, Same
    <3>6. Stays(project, project')
      BY <1>1, <3>3, <3>5, EffectStays
    <3> QED
      BY <3>5, <3>6 DEF Changes
  <2> QED
    BY <2>1, <2>2 DEF Reconcile
<1>3. /\ op' \in Ops /\ op'.at = "mail" /\ op'.call = "none"
      /\ op'.then = "end" /\ op'.prior = "none"
  BY DEF Reconcile, Idle, Ops, Labels
<1>4. OpFits(project', op')
  BY <1>2, <1>3, BeginFits DEF Reconcile, Over
<1>5. Fits(project', op', backend', outbox', outside')
  <2>1. backend' = backend /\ outbox' = outbox /\ outside' = outside
    BY DEF Reconcile, world, providers
  <2> QED
    BY <1>1, <1>2, <1>3, <1>4, <2>1, StepFits DEF Same
<1>6. Bounded'
  BY <1>1 DEF Reconcile, world, bounds, Bounded
<1> QED
  BY <1>5, <1>6 DEF IInv

(* So does a webhook of a payment that is recorded.                        *)
LEMMA ReplayKeeps == ASSUME IInv, ReplayPayment PROVE IInv'
<1>1. /\ project \in Aggregates /\ Bounded
      /\ Fits(project, op, backend, outbox, outside)
  BY DEF IInv, Fits
<1>2. /\ op' \in Ops /\ op'.at = "confirm" /\ op'.call = "none"
      /\ op'.then = "end" /\ op'.prior = "none" /\ op'.replay
  BY DEF ReplayPayment, Idle, Ops, Labels
<1>3. Bounded'
  BY <1>1, BoundsAreNat DEF ReplayPayment, Bounded
<1>4. OpFits(project, op')
  BY <1>2, BeginFits DEF ReplayPayment
<1>5. Fits(project', op', backend', outbox', outside')
  <2>1. /\ project' = project /\ backend' = backend /\ outbox' = outbox
        /\ outside' = outside
    BY DEF ReplayPayment, providers
  <2> QED
    BY <1>1, <1>2, <1>4, <2>1, OpFitsOn
<1> QED
  BY <1>3, <1>5 DEF IInv
-----------------------------------------------------------------------------
(* How the steps of an operation begin and how they close.                 *)

(* The project and the operation before the step, in the world after it.   *)
WorldOn == Fits(project, op, backend', outbox', outside') /\ Bounded'

(* A step that saves the project and goes on.                              *)
LEMMA SavesOn ==
  ASSUME IInv, NEW p, NEW l \in Labels, Saves(p, l)
  PROVE  WorldOn /\ project' = p /\ OpGoes(op, op', l)
<1>1. Fits(project, op, backend, outbox, outside) /\ Bounded /\ op \in Ops
  BY DEF IInv, Fits
<1>2. OpGoes(op, op', l)
  BY <1>1, GoesOn DEF Saves
<1>3. WorldOn
  BY <1>1 DEF Saves, world, providers, bounds, Bounded, WorldOn
<1> QED
  BY <1>2, <1>3 DEF Saves

(* A step that saves nothing.                                              *)
LEMMA RestsOn ==
  ASSUME IInv, UNCHANGED <<project, world>>
  PROVE  WorldOn /\ project' = project
BY DEF IInv, Fits, world, providers, bounds, Bounded, WorldOn

(* A step that saves the project and asks a provider.                      *)
LEMMA WaitsOn ==
  ASSUME IInv, NEW p, NEW l \in Labels, NEW k \in Keys \cup {NoKey},
         NEW call \in {"query", "effect"}, Asks(p, l, k, call)
  PROVE  WorldOn /\ project' = p /\ OpAsks(op, op', l, k, call)
<1>1. Fits(project, op, backend, outbox, outside) /\ Bounded /\ op \in Ops
  BY DEF IInv, Fits
<1>2. project' = p /\ OpAsks(op, op', l, k, call)
  BY <1>1, AsksOn
<1>3. WorldOn
  BY <1>1 DEF Asks, world, providers, bounds, Bounded, WorldOn
<1> QED
  BY <1>2, <1>3

(* A step that saves what a provider answered: what the provider did fits  *)
(* the project before it.                                                  *)
LEMMA ReturnsOn ==
  ASSUME IInv, NEW p, NEW l \in Labels, Returns(p, l)
  PROVE  WorldOn /\ project' = p /\ OpGoes(op, op', l)
<1>1. Fits(project, op, backend, outbox, outside) /\ Bounded /\ op \in Ops
  BY DEF IInv, Fits
<1>2. OpGoes(op, op', l)
  BY <1>1, GoesOn DEF Returns
<1>3. Fits(project, op, backend', outbox', outside')
  BY <1>1, WorldFits DEF Returns
<1>4. Bounded'
  BY <1>1 DEF Returns, bounds, Bounded
<1> QED
  BY <1>2, <1>3, <1>4 DEF Returns, WorldOn

(* The project does not change.                                            *)
LEMMA OpKeeps ==
  ASSUME WorldOn, project' = project, op' \in Ops, OpFits(project, op')
  PROVE  IInv'
BY OpFitsOn DEF WorldOn, IInv

(* The project stays.                                                      *)
LEMMA StaysKeeps ==
  ASSUME WorldOn, project' \in Aggregates, Stays(project, project'),
         \/ project'.status # "completed"
         \/ /\ project'.status = project.status
            /\ project'.batch = project.batch /\ project'.active = project.active,
         \/ project'.batch = project.batch
         \/ project'.st[project'.batch] # "none",
         op' \in Ops, OpFits(project', op')
  PROVE  IInv'
<1>1. Fits(project', op', backend', outbox', outside')
  BY StepFits DEF WorldOn
<1> QED
  BY <1>1 DEF WorldOn, IInv

(* The operation ends, and the project stays.                              *)
LEMMA EndsKeeps ==
  ASSUME WorldOn, project' \in Aggregates, Stays(project, project'),
         \/ project'.status # "completed"
         \/ /\ project'.status = project.status
            /\ project'.batch = project.batch /\ project'.active = project.active,
         \/ project'.batch = project.batch
         \/ project'.st[project'.batch] # "none",
         OpGoes(op, op', "end")
  PROVE  IInv'
<1>1. project \in Aggregates /\ op \in Ops /\ OpFits(project, op)
  BY DEF WorldOn, Fits
<1>2. op' \in Ops /\ OpFits(project', op')
  BY <1>1, EndFits DEF OpGoes
<1> QED
  BY <1>2, StaysKeeps

(* The operation just ends.                                                *)
LEMMA EndKeepsOn ==
  ASSUME IInv, Goes("end")
  PROVE  IInv'
<1>1. WorldOn /\ project' = project /\ OpGoes(op, op', "end")
  BY SavesOn DEF Goes, Labels
<1>2. project \in Aggregates
  BY <1>1 DEF WorldOn, Fits
<1> QED
  BY <1>1, <1>2, StaysOn, EndsKeeps

(* A provider fails the operation.                                         *)
LEMMA ThrowsKeeps ==
  ASSUME IInv, NEW retryable \in BOOLEAN, Throws(retryable), UNCHANGED world
  PROVE  IInv'
<1>1. Fits(project, op, backend, outbox, outside) /\ Bounded
  BY DEF IInv
<1>2. Fits(project', op', backend, outbox, outside)
  BY <1>1, ThrowsFits
<1> QED
  BY <1>1, <1>2 DEF world, providers, bounds, Bounded, IInv
-----------------------------------------------------------------------------
(* The mails that are followed.                                            *)

(* What becomes of a project when the delivery of a mail is recorded.      *)
Delivered(p, q, k) ==
  /\ q \in Aggregates
  /\ q.active = p.active /\ q.batch = p.batch /\ q.questions = p.questions
  /\ q.st = p.st /\ q.runs = p.runs /\ q.proven = p.proven
  /\ q.preview = p.preview /\ q.release = p.release
  /\ q.saved = p.saved /\ q.consumed = p.consumed
  /\ \A j \in Tracked : \/ q.mail[j] = p.mail[j]
                        \/ p.mail[j] = "sent" /\ q.mail[j] # "none"
  /\ \A j \in Keys : /\ j # Check(k) => q.eff[j] = p.eff[j]
                     /\ p.eff[j].st = "completed" => q.eff[j].st = "completed"

(* #recordMailDelivery touches the mail, the effect that follows it and the*)
(* status.                                                                 *)
LEMMA DeliveryIs ==
  ASSUME NEW p \in Aggregates, NEW k \in Tracked,
         NEW result \in {"delivered", "bounced"}
  PROVE  Delivered(p, Delivery(p, k, result), k)
<1> DEFINE t == CASE result = "bounced" /\ Required(p, k)
                       /\ p.mail[k] # "delivered" -> "needs_operator_attention"
                  [] result = "delivered" /\ p.mail[k] # "bounced"
                       /\ Required(p, k) /\ k[1] = "final"
                       -> Progress(p, "completed")
                  [] OTHER -> p.status
           old == p.eff[Check(k)]
           e == IF old.st # "pending" THEN old
                ELSE IF result = "delivered" THEN Completed(old)
                                             ELSE DeadLettered(old)
           m == IF p.mail[k] = "sent" THEN result ELSE p.mail[k]
           q == [p EXCEPT !.mail[k] = m, !.status = t, !.eff[Check(k)] = e]
<1>1. Delivery(p, k, result) = q
  BY DEF Delivery
<1>2. Check(k) \in Keys
  BY TrackedKeys
<1>3. e \in Sound /\ (old.st = "completed" => e.st = "completed")
  <2>1. old \in Sound
    BY <1>2 DEF Aggregates
  <2> HIDE DEF old
  <2> QED
    BY <2>1, EffectsStaySound, EffectStatus
<1>4. t \in Status
  <2>1. p.status \in Status
    BY DEF Aggregates
  <2>2. Progress(p, "completed") \in Status
    BY DEF Progress, Status, Over
  <2> QED
    BY <2>1, <2>2 DEF Status, Over, Parked
<1>5. /\ m \in {"none", "sent", "delivered", "bounced"}
      /\ m = p.mail[k] \/ (p.mail[k] = "sent" /\ m # "none")
  BY DEF Aggregates
<1> HIDE DEF t, e, m
<1>6. q \in Aggregates
  BY <1>2, <1>3, <1>4, <1>5 DEF Aggregates
<1>7. /\ q.active = p.active /\ q.batch = p.batch /\ q.questions = p.questions
      /\ q.st = p.st /\ q.runs = p.runs /\ q.proven = p.proven
      /\ q.preview = p.preview /\ q.release = p.release
      /\ q.saved = p.saved /\ q.consumed = p.consumed
      /\ q.mail = [p.mail EXCEPT ![k] = m]
      /\ q.eff = [p.eff EXCEPT ![Check(k)] = e]
  BY <1>2 DEF Aggregates
<1> HIDE DEF q
<1>8. \A j \in Tracked : \/ q.mail[j] = p.mail[j]
                         \/ p.mail[j] = "sent" /\ q.mail[j] # "none"
  BY <1>5, <1>7 DEF Aggregates
<1>9. \A j \in Keys : /\ j # Check(k) => q.eff[j] = p.eff[j]
                      /\ p.eff[j].st = "completed" => q.eff[j].st = "completed"
  BY <1>2, <1>3, <1>7 DEF Aggregates
<1> QED
  BY <1>1, <1>6, <1>7, <1>8, <1>9 DEF Delivered

(* A project that can be saved fits the same world then.                   *)
LEMMA DeliveredFits ==
  ASSUME NEW p, NEW o, NEW q, NEW r, NEW b, NEW a, NEW s, NEW k \in Tracked,
         Fits(p, o, b, a, s), Delivered(p, q, k), Savable(q),
         r \in Ops, OpFits(q, r)
  PROVE  Fits(q, r, b, a, s)
<1>1. /\ q \in Aggregates /\ p \in Aggregates /\ ProjectFits(p)
      /\ ShownFits(p, s) /\ AcksFit(p, a) /\ RunsFit(p, b)
  BY DEF Fits, Delivered
<1>2. ProjectFits(q)
  <2>1. q.batch # 0 => q.st[q.batch] # "none"
    BY <1>1 DEF ProjectFits, Delivered
  <2>2. \A j \in Tracked : q.mail[j] # "none" => q.eff[j].st = "completed"
    BY <1>1, TrackedKeys DEF ProjectFits, Delivered
  <2> QED
    BY <2>1, <2>2 DEF ProjectFits
<1>3. ShownFits(q, s)
  <2> SUFFICES ASSUME NEW v \in Versions, NEW c \in Candidates
               PROVE  /\ <<"preview", v, c>> \in s => q.preview[v] = c
                      /\ <<"deploy", v, c>> \in s =>
                           /\ q.preview[v] = c
                           /\ q.mail[<<"preview", v, c>>] = "delivered"
                      /\ q.mail[<<"preview", v, c>>] # "none"
                           => <<"preview", v, c>> \in s
                      /\ q.release[v] = c => <<"deploy", v, c>> \in s
    BY DEF ShownFits
  <2>1. <<"preview", v, c>> \in Tracked
    BY KeysOf
  <2>2. /\ <<"preview", v, c>> \in s => p.preview[v] = c
        /\ <<"deploy", v, c>> \in s =>
             p.preview[v] = c /\ p.mail[<<"preview", v, c>>] = "delivered"
        /\ p.mail[<<"preview", v, c>>] # "none" => <<"preview", v, c>> \in s
        /\ p.release[v] = c => <<"deploy", v, c>> \in s
    BY <1>1 DEF ShownFits
  <2>3. /\ q.preview[v] = p.preview[v] /\ q.release[v] = p.release[v]
        /\ \/ q.mail[<<"preview", v, c>>] = p.mail[<<"preview", v, c>>]
           \/ p.mail[<<"preview", v, c>>] = "sent"
    BY <2>1 DEF Delivered
  <2> QED
    BY <2>2, <2>3
<1>4. AcksFit(q, a)
  BY <1>1 DEF AcksFit, Delivered
<1>5. RunsFit(q, b)
  <2>1. q.runs = p.runs /\ q.st = p.st
    BY DEF Delivered
  <2>2. ASSUME NEW v \in Versions, NEW c \in Candidates
        PROVE  q.eff[<<"cancel", v, c>>] = p.eff[<<"cancel", v, c>>]
    <3>1. <<"cancel", v, c>> \in Keys
      BY KeysOf
    <3>2. Check(k) # <<"cancel", v, c>>
      BY DEF Check
    <3> QED
      BY <3>1, <3>2 DEF Delivered
  <2> QED
    BY <1>1, <2>1, <2>2 DEF RunsFit
<1> QED
  BY <1>1, <1>2, <1>3, <1>4, <1>5 DEF Fits

(* A webhook about a mail fits a project without an operation.             *)
LEMMA WebhookKeeps ==
  ASSUME IInv, NEW k \in Tracked, NEW result \in {"delivered", "bounced"},
         Webhook(k, result)
  PROVE  IInv'
<1>1. /\ project \in Aggregates /\ Bounded
      /\ Fits(project, op, backend, outbox, outside)
  BY DEF IInv, Fits
<1>2. /\ op' = Idle /\ backend' = backend /\ outbox' = outbox
      /\ outside' = outside /\ Bounded' /\ Savable(project')
  BY <1>1 DEF Webhook, world, providers, bounds, Bounded
<1>3. Delivered(project, project', k)
  BY <1>1, DeliveryIs DEF Webhook
<1>4. Fits(project', op', backend', outbox', outside')
  BY <1>1, <1>2, <1>3, IdleFits, DeliveredFits
<1> QED
  BY <1>2, <1>4 DEF IInv

(* The look for mail is over: nothing is relied on.                        *)
LEMMA RouteFits ==
  ASSUME NEW p, NEW q, q.active = p.active, q.st = p.st,
         NEW o \in Ops, OpFits(p, o), o.at = "mail", NEW r, OpGoes(o, r, "route")
  PROVE  r \in Ops /\ OpFits(q, r)
<1>1. /\ r \in Ops /\ r.at = "route" /\ r.call = "none" /\ r.then = o.then
      /\ r.v = o.v /\ r.c = o.c
  /\ r.prior = o.prior /\ r.replay = o.replay /\ r.key = o.key
  BY DEF OpGoes
<1>2. VersionFits(q, r)
  BY <1>1 DEF OpFits, VersionFits, Placed, Building, Unseen, Showing
<1>3. CandidateFits(q, r)
  BY <1>1 DEF OpFits, VersionFits, CandidateFits, Unseen, Building, Showing
<1>4. CallFits(q, r) /\ StatusFits(q, r)
  BY <1>1 DEF OpFits, CallFits, StatusFits
<1> QED
  BY <1>1, <1>2, <1>3, <1>4 DEF OpFits

(* An operation that waits relies on what it relied on before.             *)
LEMMA AskFits ==
  ASSUME NEW p, NEW q, Same(p, q), q.status = p.status \/ q.status \notin Parked,
         NEW o, OpFits(p, o), NEW r, NEW k, NEW call, OpAsks(o, r, o.at, k, call),
         o.at \in {"upload", "deploy"} => k = <<"deploy", o.v, o.c>>,
         CallFits(q, r)
  PROVE  r \in Ops /\ OpFits(q, r)
<1>1. /\ r \in Ops /\ r.at = o.at /\ r.then = o.then /\ r.v = o.v /\ r.c = o.c
      /\ r.prior = o.prior /\ r.replay = o.replay /\ r.key = k
  BY DEF OpAsks
<1>2. VersionFits(p, r)
  BY <1>1 DEF OpFits, VersionFits
<1>3. CandidateFits(p, r)
  BY <1>1 DEF OpFits, CandidateFits
<1>4. StatusFits(q, r)
  BY <1>1 DEF OpFits, StatusFits
<1> QED
  BY <1>1, <1>2, <1>3, <1>4, SameFits DEF OpFits

(* What the worker begins with: the mails it waits for.                    *)
LEMMA LookForMailKeeps == ASSUME IInv, LookForMail PROVE IInv'
<1>1. project \in Aggregates /\ op \in Ops /\ OpFits(project, op)
  BY DEF IInv, Fits
<1>2. op.at = "mail" /\ "route" \in Labels /\ "end" \in Labels /\ "mail" \in Labels
  BY DEF LookForMail, At, Labels
<1>3. CASE Goes("route")
  <2>1. WorldOn /\ project' = project /\ OpGoes(op, op', "route")
    BY <1>2, <1>3, SavesOn DEF Goes
  <2> QED
    BY <1>1, <1>2, <2>1, RouteFits, OpKeeps
<1>4. ASSUME NEW k \in Awaited,
             LET key == Check(k)
                 p == [project EXCEPT !.eff[key] = Queued(@)]
             IN \/ /\ p.eff[key].st = "pending"
                   /\ Saves([p EXCEPT !.eff[key] = DeadLettered(@),
                                      !.status = "needs_operator_attention"], "end")
                \/ Saves(p, "route")
                \/ Asks([p EXCEPT !.eff[key] = Checking(@)], "mail", key, "query")
      PROVE  IInv'
  <2> DEFINE key == Check(k)
             old == project.eff[key]
             p == [project EXCEPT !.eff[key] = Queued(@)]
             dead == [p EXCEPT !.eff[key] = DeadLettered(@),
                               !.status = "needs_operator_attention"]
             seen == [p EXCEPT !.eff[key] = Checking(@)]
  <2>1. key \in Keys /\ key[1] # "cancel"
    BY TrackedKeys DEF Awaited
  <2>2. old \in Sound
    BY <1>1, <2>1 DEF Aggregates
  <2>3. /\ Queued(old) \in Sound /\ DeadLettered(Queued(old)) \in Sound
        /\ Checking(Queued(old)) \in Sound
    BY <2>2, EffectsStaySound
  <2>4. /\ (Queued(old)).st = "completed" <=> old.st = "completed"
        /\ (DeadLettered(Queued(old))).st = "failed"
        /\ (Checking(Queued(old))).st = "completed" <=> old.st = "completed"
    BY <2>2, <2>3, EffectStatus
  <2> HIDE DEF key
  <2>5. /\ Changes(project, p, key, Queued(old)) /\ p.status = project.status
        /\ p.eff[key] = Queued(old)
    BY <1>1, <2>1, <2>3 DEF Changes, Aggregates, Same
  <2>6. /\ Changes(project, dead, key, DeadLettered(Queued(old)))
        /\ dead.status = "needs_operator_attention"
    BY <1>1, <2>1, <2>3 DEF Changes, Aggregates, Same, Status, Over, Parked
  <2>7. /\ Changes(project, seen, key, Checking(Queued(old)))
        /\ seen.status = project.status
    BY <1>1, <2>1, <2>3 DEF Changes, Aggregates, Same
  <2> HIDE DEF p, dead, seen
  <2>8. CASE p.eff[key].st = "pending" /\ Saves(dead, "end")
    <3>1. WorldOn /\ project' = dead /\ OpGoes(op, op', "end")
      BY <1>2, <2>8, SavesOn
    <3>2. old.st # "completed"
      BY <2>4, <2>5, <2>8
    <3>3. Stays(project, dead)
      BY <1>1, <2>1, <2>4, <2>6, <3>2, EffectStays
    <3> QED
      BY <2>6, <3>1, <3>3, EndsKeeps DEF Changes, Same
  <2>9. CASE Saves(p, "route")
    <3>1. WorldOn /\ project' = p /\ OpGoes(op, op', "route")
      BY <1>2, <2>9, SavesOn
    <3>2. Stays(project, p)
      BY <1>1, <2>1, <2>4, <2>5, EffectStays
    <3>3. op' \in Ops /\ OpFits(p, op')
      BY <1>1, <1>2, <2>5, <3>1, RouteFits DEF Changes, Same
    <3> QED
      BY <2>5, <3>1, <3>2, <3>3, StaysKeeps DEF Changes, Same
  <2>10. CASE Asks(seen, "mail", key, "query")
    <3>1. WorldOn /\ project' = seen /\ OpAsks(op, op', "mail", key, "query")
      BY <1>2, <2>1, <2>10, WaitsOn
    <3>2. Stays(project, seen)
      BY <1>1, <2>1, <2>4, <2>7, EffectStays
    <3>3. CallFits(seen, op')
      BY <3>1 DEF OpAsks, CallFits
    <3>4. Same(project, seen) /\ OpAsks(op, op', op.at, key, "query")
      BY <1>2, <2>7, <3>1 DEF Changes
    <3>5. op' \in Ops /\ OpFits(seen, op')
      BY <1>1, <1>2, <2>7, <3>3, <3>4, AskFits
    <3> QED
      BY <2>7, <3>1, <3>2, <3>5, StaysKeeps DEF Changes, Same
  <2> QED
    BY <1>4, <2>8, <2>9, <2>10 DEF key, p, dead, seen
<1> QED
  BY <1>3, <1>4 DEF LookForMail

(* The answer about a mail is saved, unless the schema refuses it.         *)
LEMMA MailCheckedKeeps == ASSUME IInv, MailChecked PROVE IInv'
<1>1. project \in Aggregates /\ op \in Ops /\ OpFits(project, op)
  BY DEF IInv, Fits
<1>2. op.at = "mail" /\ "route" \in Labels
  BY DEF MailChecked, Answered, Labels
<1>3. PICK k \in Awaited :
        \/ Returns([project EXCEPT !.eff[Check(k)] = Rescheduled(@)], "route")
        \/ \E result \in {"delivered", "bounced"} :
             \/ /\ Savable(Delivery(project, k, result))
                /\ Returns(Delivery(project, k, result), "route")
             \/ Throws(TRUE) /\ UNCHANGED world
  BY DEF MailChecked
<1>4. k \in Tracked
  BY DEF Awaited
<1>5. CASE Returns([project EXCEPT !.eff[Check(k)] = Rescheduled(@)], "route")
  <2> DEFINE key == Check(k)
             e == Rescheduled(project.eff[key])
             q == [project EXCEPT !.eff[key] = e]
  <2>1. key \in Keys /\ key[1] # "cancel"
    BY <1>4, TrackedKeys
  <2>2. e \in Sound /\ e.st = project.eff[key].st
    <3>1. project.eff[key] \in Sound
      BY <1>1, <2>1 DEF Aggregates
    <3> QED
      BY <3>1, EffectsStaySound, EffectStatus
  <2>3. Returns(q, "route")
    BY <1>5
  <2> HIDE DEF key, e
  <2>4. Changes(project, q, key, e) /\ q.status = project.status
    BY <1>1, <2>1, <2>2 DEF Changes, Aggregates, Same
  <2> HIDE DEF q
  <2>5. WorldOn /\ project' = q /\ OpGoes(op, op', "route")
    BY <1>2, <2>3, ReturnsOn
  <2>6. Stays(project, q)
    BY <1>1, <2>1, <2>2, <2>4, EffectStays
  <2>7. op' \in Ops /\ OpFits(q, op')
    BY <1>1, <1>2, <2>4, <2>5, RouteFits DEF Changes, Same
  <2> QED
    BY <2>4, <2>5, <2>6, <2>7, StaysKeeps DEF Changes, Same
<1>6. ASSUME NEW result \in {"delivered", "bounced"},
             Savable(Delivery(project, k, result)),
             Returns(Delivery(project, k, result), "route")
      PROVE  IInv'
  <2>1. WorldOn /\ project' = Delivery(project, k, result)
        /\ OpGoes(op, op', "route")
    BY <1>2, <1>6, ReturnsOn
  <2>2. Delivered(project, project', k)
    BY <1>1, <1>4, <2>1, DeliveryIs
  <2>3. op' \in Ops /\ OpFits(project', op')
    BY <1>1, <1>2, <2>1, <2>2, RouteFits DEF Delivered
  <2>4. Savable(project')
    BY <1>6, <2>1
  <2>5. Fits(project, op, backend', outbox', outside')
    BY <2>1 DEF WorldOn
  <2>6. Fits(project', op', backend', outbox', outside')
    BY <1>4, <2>2, <2>3, <2>4, <2>5, DeliveredFits
  <2> QED
    BY <2>1, <2>6 DEF WorldOn, IInv
<1>7. CASE Throws(TRUE) /\ UNCHANGED world
  BY <1>7, ThrowsKeeps
<1> QED
  BY <1>3, <1>5, <1>6, <1>7
-----------------------------------------------------------------------------
(* Where an operation goes on.                                             *)

(* At these labels nothing of the project is relied on.                    *)
Free == {"clarify", "process", "supersede", "steer", "batch", "redispatch",
         "confirm"}

(* So an operation that waits for nothing may be there.                    *)
LEMMA FreeFits ==
  ASSUME NEW p, NEW r \in Ops, r.at \in Free, r.call = "none",
         r.then \in {"end", "batch", "redispatch"},
         r.at = "clarify" => r.c \in Questions,
         r.at = "confirm" => p.active = 1,
         r.prior \notin Parked, r.at = "process" => r.prior \in Status,
         ~r.replay => p.status \notin Parked
  PROVE  OpFits(p, r)
<1>1. VersionFits(p, r)
  BY DEF VersionFits, Free, Placed, Building, Unseen, Showing
<1>2. CandidateFits(p, r)
  BY DEF CandidateFits, Free, Unseen, Showing
<1>3. CallFits(p, r) /\ StatusFits(p, r)
  BY DEF CallFits, StatusFits
<1> QED
  BY <1>1, <1>2, <1>3 DEF OpFits

(* An operation that relied on nothing goes on anywhere but in a build.    *)
LEMMA FreeThen ==
  ASSUME NEW p, NEW o, OpFits(p, o), o.at \in Free \cup {"route", "paid"}
  PROVE  o.then \in {"end", "batch", "redispatch"} /\ o.prior \notin Parked
BY DEF OpFits, VersionFits, StatusFits, Free, Building, Unseen, Showing

(* A project that is parked is not gone on with.                           *)
LEMMA NotParked ==
  ASSUME NEW p, NEW o, OpFits(p, o), o.at \notin {"idle", "end", "route"},
         ~o.replay
  PROVE  p.status \notin Parked
BY DEF OpFits, StatusFits

(* Where Continues leads, what was relied on before still holds.           *)
LEMMA ThenFits ==
  ASSUME NEW p, NEW q, Stays(p, q), NEW o \in Ops, OpFits(p, o),
         o.at \notin {"idle", "end", "route"},
         q.status = p.status \/ q.status \notin Parked,
         NEW r, OpGoes(o, r, o.then)
  PROVE  r \in Ops /\ OpFits(q, r)
<1>1. /\ r \in Ops /\ r.at = o.then /\ r.call = "none" /\ r.then = o.then
      /\ r.v = o.v /\ r.c = o.c
  /\ r.prior = o.prior /\ r.replay = o.replay /\ r.key = o.key
  BY DEF OpGoes
<1>2. VersionFits(p, o) /\ CandidateFits(p, o) /\ StatusFits(p, o)
  BY DEF OpFits
<1>3. CASE o.then \in {"end", "batch", "redispatch"}
  <2>1. VersionFits(q, r)
    BY <1>1, <1>3 DEF VersionFits, Placed, Building, Unseen, Showing
  <2>2. CandidateFits(q, r)
    BY <1>1, <1>3 DEF CandidateFits, Unseen, Showing
  <2>3. CallFits(q, r) /\ StatusFits(q, r)
    BY <1>1, <1>2, <1>3 DEF CallFits, StatusFits
  <2> QED
    BY <1>1, <2>1, <2>2, <2>3 DEF OpFits
<1>4. CASE o.then \in {"open", "watch"}
  <2>1. o.v \in Versions /\ (o.then = "open" => p.st[o.v] # "none")
    BY <1>2, <1>4 DEF VersionFits, Placed, Building, Unseen
  <2>2. o.then = "open" => q.st[o.v] # "none"
    BY <2>1 DEF Stays
  <2>3. VersionFits(q, r)
    BY <1>1, <1>4, <2>1, <2>2 DEF VersionFits, Placed, Building, Unseen, Showing
  <2>4. CandidateFits(q, r)
    BY <1>1, <1>4 DEF CandidateFits, Unseen, Showing
  <2>5. CallFits(q, r) /\ StatusFits(q, r)
    BY <1>1, <1>2, <1>4 DEF CallFits, StatusFits
  <2> QED
    BY <1>1, <2>3, <2>4, <2>5 DEF OpFits
<1>5. CASE o.then = "review"
  <2>1. o.v \in Versions /\ o.c \in Candidates /\ p.preview[o.v] = o.c
    BY <1>2, <1>5 DEF VersionFits, CandidateFits, Placed, Showing
  <2>2. q.preview = p.preview
    BY DEF Stays
  <2>3. VersionFits(q, r)
    BY <1>1, <1>5, <2>1 DEF VersionFits, Placed, Building, Unseen, Showing
  <2>4. CandidateFits(q, r)
    BY <1>1, <1>5, <2>1, <2>2 DEF CandidateFits, Unseen, Showing
  <2>5. CallFits(q, r) /\ StatusFits(q, r)
    BY <1>1, <1>2, <1>5 DEF CallFits, StatusFits
  <2> QED
    BY <1>1, <2>3, <2>4, <2>5 DEF OpFits
<1> QED
  BY <1>2, <1>3, <1>4, <1>5 DEF VersionFits

(* So it goes on with a project that has not changed.                      *)
LEMMA ContinuesKeeps ==
  ASSUME IInv, Continues, op.at \notin {"idle", "end", "route"}
  PROVE  IInv'
<1>1. project \in Aggregates /\ op \in Ops /\ OpFits(project, op)
  BY DEF IInv, Fits
<1>2. op.then \in Labels
  BY <1>1 DEF Ops
<1>3. WorldOn /\ project' = project /\ OpGoes(op, op', op.then)
  BY <1>2, SavesOn DEF Continues, Goes
<1>4. op' \in Ops /\ OpFits(project, op')
  BY <1>1, <1>3, ThenFits, StaysOn
<1> QED
  BY <1>3, <1>4, OpKeeps

(* The receipt of an effect is saved with its answer.                      *)
LEMMA DoneStays ==
  ASSUME NEW b, NEW a, NEW s, Fits(project, op, b, a, s), op.call = "effect",
         op.key[1] # "cancel"
  PROVE  /\ Changes(project, Done(project), op.key,
                    Completed(project.eff[op.key]))
         /\ Stays(project, Done(project))
         /\ (Done(project)).status = project.status
         /\ (Done(project)).eff[op.key].st = "completed"
<1> DEFINE e == Completed(project.eff[op.key])
<1>1. project \in Aggregates /\ op \in Ops /\ OpFits(project, op)
  BY DEF Fits
<1>2. op.key \in Keys
  BY <1>1, EffectKey
<1>3. e \in Sound /\ e.st = "completed"
  <2>1. project.eff[op.key] \in Sound
    BY <1>1, <1>2 DEF Aggregates
  <2> QED
    BY <2>1, EffectsStaySound, EffectStatus
<1> HIDE DEF e
<1> DEFINE q == [project EXCEPT !.eff[op.key] = e]
<1>4. Done(project) = q
  BY DEF Done, e
<1>5. Changes(project, q, op.key, e) /\ q.status = project.status
      /\ q.eff[op.key] = e
  BY <1>1, <1>2, <1>3 DEF Changes, Aggregates, Same
<1> HIDE DEF q
<1>6. Stays(project, q)
  BY <1>1, <1>2, <1>3, <1>5, EffectStays
<1> QED
  BY <1>3, <1>4, <1>5, <1>6 DEF e

(* An effect is queued, and its provider asked, when what the operation    *)
(* relies on for it holds.                                                 *)
LEMMA CallsKeep ==
  ASSUME IInv, NEW k \in Keys, Calls(k), op.at \notin {"upload", "deploy"},
         OpAsks(op, op', op.at, k, "effect") => EffectFits(project, op')
  PROVE  IInv'
<1>1. project \in Aggregates /\ op \in Ops /\ OpFits(project, op)
  BY DEF IInv, Fits
<1>2. op.at \in Labels
  BY <1>1 DEF Ops
<1> DEFINE old == project.eff[k]
           q == [project EXCEPT !.eff[k] = Queued(@)]
<1>3. WorldOn /\ project' = q /\ OpAsks(op, op', op.at, k, "effect")
  BY <1>2, WaitsOn DEF Calls
<1>4. Queued(old) \in Sound /\ ((Queued(old)).st = "completed" <=> old.st = "completed")
  <2>1. old \in Sound
    BY <1>1 DEF Aggregates
  <2> QED
    BY <2>1, EffectsStaySound, EffectStatus
<1>5. /\ Changes(project, q, k, Queued(old)) /\ q.status = project.status
      /\ q.eff[k] = Queued(old)
  BY <1>1, <1>4 DEF Changes, Aggregates, Same
<1> HIDE DEF q
<1>6. Stays(project, q)
  BY <1>1, <1>4, <1>5, EffectStays
<1>7. op'.key = k /\ EffectFits(project, op')
  BY <1>3 DEF OpAsks
<1>8. Same(project, q)
  BY <1>5 DEF Changes
<1>9. EffectFits(q, op')
  <2>1. \A v : Latest(q, v) <=> Latest(project, v)
    BY <1>8, SameFits
  <2>2. /\ q.runs = project.runs /\ q.preview = project.preview
        /\ q.proven = project.proven
    BY <1>8 DEF Same
  <2>3. q.eff[op'.key].st = "completed" <=> project.eff[op'.key].st = "completed"
    BY <1>4, <1>5, <1>7
  <2> QED
    BY <1>7, <2>1, <2>2, <2>3 DEF EffectFits
<1>10. CallFits(q, op')
  BY <1>3, <1>9 DEF OpAsks, CallFits
<1>11. op' \in Ops /\ OpFits(q, op')
  BY <1>1, <1>3, <1>5, <1>8, <1>10, AskFits
<1> QED
  BY <1>3, <1>5, <1>6, <1>8, <1>11, StaysKeeps DEF Changes, Same
-----------------------------------------------------------------------------
(* Customer messages.                                                      *)

(* The status a message interrupts is one of a project that goes on.       *)
LEMMA StableFits ==
  ASSUME NEW p \in Aggregates, p.status \notin Parked
  PROVE  Stable(p) \in Status \ Parked
<1>1. p.status \in Status
  BY DEF Aggregates
<1> QED
  BY <1>1 DEF Stable, Status, Over, Parked

(* What the status of a project calls for.                                 *)
LEMMA RouteKeeps == ASSUME IInv, Route PROVE IInv'
<1>1. project \in Aggregates /\ op \in Ops /\ OpFits(project, op)
  BY DEF IInv, Fits
<1>2. op.at = "route" /\ op.call = "none"
  BY DEF Route, At
<1>3. op.then \in {"end", "batch", "redispatch"} /\ op.prior \notin Parked
  BY <1>1, <1>2, FreeThen
<1>4. CASE Goes("end")
  BY <1>4, EndKeepsOn
<1>5. CASE /\ project.status = "needs_clarification" /\ project.questions # 0
           /\ op' = [op EXCEPT !.at = "clarify", !.then = "batch",
                               !.c = project.questions]
           /\ UNCHANGED <<project, world>>
  <2>1. project.questions \in Questions /\ project.questions \in Nat
    BY <1>1, <1>5, PlanAssumption DEF Aggregates, PlanAssumption
  <2>2. /\ op' \in Ops /\ op'.at = "clarify" /\ op'.call = "none"
        /\ op'.then = "batch"
        /\ op'.prior = op.prior /\ op'.replay = op.replay /\ op'.c \in Questions
    BY <1>1, <1>2, <1>5, <2>1 DEF Ops, Labels
  <2>3. OpFits(project, op')
    BY <1>3, <1>5, <2>2, FreeFits DEF Free, Parked
  <2> QED
    BY <1>5, <2>2, <2>3, RestsOn, OpKeeps
<1>6. CASE /\ project.status = "revision_pending"
           /\ op' = [op EXCEPT !.at = "process", !.then = "batch",
                               !.prior = Stable(project)]
           /\ UNCHANGED <<project, world>>
  <2>1. Stable(project) \in Status \ Parked
    BY <1>1, <1>6, StableFits DEF Parked
  <2>2. /\ op' \in Ops /\ op'.at = "process" /\ op'.call = "none"
        /\ op'.then = "batch" /\ op'.prior \in Status \ Parked
    <3> HIDE DEF Stable
    <3> QED
      BY <1>1, <1>2, <1>6, <2>1 DEF Ops, Labels
  <2>3. OpFits(project, op')
    BY <1>6, <2>2, FreeFits DEF Free, Parked
  <2> QED
    BY <1>6, <2>2, <2>3, RestsOn, OpKeeps
<1>7. ASSUME NEW l \in {"supersede", "steer", "confirm", "batch"}, Enters(l, "end"),
             l = "confirm" => project.active = 1,
             project.status \notin Parked
      PROVE  IInv'
  <2>1. l \in Labels /\ "end" \in Labels
    BY DEF Labels
  <2>2. OpEnters(op, op', l, "end")
    BY <1>1, <1>7, <2>1, EntersOn
  <2>3. op' \in Ops /\ OpFits(project, op')
    BY <1>2, <1>3, <1>7, <2>2, FreeFits DEF OpEnters, Free
  <2>4. UNCHANGED <<project, world>>
    BY <1>7 DEF Enters
  <2> QED
    BY <2>3, <2>4, RestsOn, OpKeeps
<1> QED
  BY <1>4, <1>5, <1>6, <1>7 DEF Route, Over, Parked

(* A message is saved; a project that is parked takes note of it only.     *)
LEMMA ReceiveKeeps ==
  ASSUME IInv, NEW m \in Messages, Receive(m)
  PROVE  IInv'
<1>1. /\ project \in Aggregates /\ Bounded /\ ProjectFits(project)
      /\ Fits(project, op, backend, outbox, outside)
  BY DEF IInv, Fits
<1>2. WorldOn /\ Bounded'
  BY <1>1 DEF Receive, providers, bounds, Bounded, WorldOn
<1>3. CASE m \in project.consumed \/ project.status \in Parked
  <2>1. op' = Idle
    BY <1>3 DEF Receive
  <2>2. \/ project' = project
        \/ project' = [project EXCEPT !.saved = @ \cup {m}]
    BY <1>3 DEF Receive, Received
  <2>3. /\ project' \in Aggregates /\ Stays(project, project')
        /\ project'.status = project.status /\ project'.batch = project.batch
        /\ project'.active = project.active
    <3>1. CASE project' = project
      BY <1>1, <3>1, StaysOn
    <3>2. CASE project' = [project EXCEPT !.saved = @ \cup {m}]
      BY <1>1, <3>2 DEF Aggregates, Stays
    <3> QED
      BY <2>2, <3>1, <3>2
  <2> QED
    BY <1>2, <2>1, <2>3, IdleFits, StaysKeeps
<1>4. CASE ~(m \in project.consumed \/ project.status \in Parked)
  <2>1. Stable(project) \in Status \ Parked
    BY <1>1, <1>4, StableFits
  <2>2. op' = [Idle EXCEPT !.at = "process", !.mail = m, !.prior = Stable(project)]
    BY <1>4 DEF Receive
  <2>3. /\ op' \in Ops /\ op'.at = "process" /\ op'.call = "none"
        /\ op'.then = "end" /\ op'.prior \in Status \ Parked
    BY <2>1, <2>2 DEF Idle, Ops, Labels
  <2>4. project' = [project EXCEPT !.saved = @ \cup {m}, !.questions = 0,
                                   !.status = "revision_pending"]
    BY <1>4 DEF Receive, Received
  <2>5. /\ project' \in Aggregates /\ Stays(project, project')
        /\ project'.status = "revision_pending" /\ project'.batch = project.batch
    BY <1>1, <2>4 DEF Aggregates, Stays, Status, Over
  <2>6. OpFits(project', op')
    BY <2>3, <2>5, FreeFits DEF Free, Parked
  <2> QED
    BY <1>2, <2>3, <2>5, <2>6, StaysKeeps
<1> QED
  BY <1>3, <1>4

(* The project stays, with a status that its schema accepts.               *)
LEMMA SavableKeeps ==
  ASSUME WorldOn, project' \in Aggregates, Stays(project, project'),
         Savable(project'), project'.batch = project.batch,
         op' \in Ops, OpFits(project', op')
  PROVE  IInv'
<1>1. /\ project \in Aggregates /\ ProjectFits(project)
      /\ ShownFits(project, outside') /\ AcksFit(project, outbox')
      /\ RunsFit(project, backend')
      /\ Fits(project, op, backend', outbox', outside') /\ Bounded'
  BY DEF WorldOn, Fits
<1>2. /\ ShownFits(project', outside') /\ AcksFit(project', outbox')
      /\ RunsFit(project', backend')
  BY <1>1, StaysFits
<1>3. ProjectFits(project')
  <2>1. project'.batch # 0 => project'.st[project'.batch] # "none"
    BY <1>1 DEF ProjectFits, Stays, Aggregates
  <2>2. \A k \in Tracked : project'.mail[k] # "none" =>
          project'.eff[k].st = "completed"
    BY <1>1, TrackedKeys DEF ProjectFits, Stays
  <2> QED
    BY <2>1, <2>2 DEF ProjectFits
<1>4. Fits(project', op', backend', outbox', outside')
  BY <1>1, <1>2, <1>3 DEF Fits
<1> QED
  BY <1>1, <1>4 DEF IInv

(* The reasoner is asked.                                                  *)
LEMMA ProcessKeeps == ASSUME IInv, Process PROVE IInv'
<1>1. project \in Aggregates /\ op \in Ops /\ OpFits(project, op)
  BY DEF IInv, Fits
<1>2. op.at = "process" /\ "process" \in Labels /\ op.key \in Keys \cup {NoKey}
  BY <1>1 DEF Process, At, Ops, Labels
<1>3. /\ WorldOn /\ project' = project
      /\ OpAsks(op, op', "process", op.key, "query")
  BY <1>2, WaitsOn DEF Process
<1>4. CallFits(project, op')
  BY <1>3 DEF OpAsks, CallFits
<1>5. op' \in Ops /\ OpFits(project, op')
  BY <1>1, <1>2, <1>3, <1>4, AskFits, StaysOn
<1> QED
  BY <1>3, <1>5, OpKeeps

(* What it makes of the open messages: nothing, ...                        *)
LEMMA UnchangedKeeps ==
  ASSUME IInv, op.at = "process", NEW batch \in SUBSET Messages,
         LET q == [project EXCEPT !.consumed = @ \cup batch, !.status = op.prior]
         IN Savable(q) /\ Returns(q, op.then)
  PROVE  IInv'
<1>1. project \in Aggregates /\ op \in Ops /\ OpFits(project, op)
  BY DEF IInv, Fits
<1>2. /\ op.prior \in Status \ Parked /\ op.then \in Labels
      /\ op.then \in {"end", "batch", "redispatch"}
  BY <1>1, FreeThen DEF OpFits, StatusFits, Free, Labels
<1> DEFINE q == [project EXCEPT !.consumed = @ \cup batch, !.status = op.prior]
<1>3. q \in Aggregates /\ Stays(project, q) /\ q.batch = project.batch
      /\ q.status = op.prior
  BY <1>1, <1>2 DEF Aggregates, Stays
<1>4. Savable(q) /\ Returns(q, op.then)
  OBVIOUS
<1> HIDE DEF q
<1>5. WorldOn /\ project' = q /\ OpGoes(op, op', op.then)
  BY <1>2, <1>4, ReturnsOn
<1>6. op' \in Ops /\ OpFits(q, op')
  BY <1>1, <1>2, <1>3, <1>5, ThenFits
<1>7. Savable(project') /\ project' \in Aggregates /\ Stays(project, project')
      /\ project'.batch = project.batch /\ OpFits(project', op')
  BY <1>3, <1>4, <1>5, <1>6
<1> QED
  BY <1>5, <1>6, <1>7, SavableKeeps

(* ... a version that is paid for, ...                                     *)
LEMMA RevisedKeeps ==
  ASSUME IInv, op.at = "process", NEW batch \in SUBSET Messages,
         project.active + 1 \in Versions,
         Returns([project EXCEPT !.consumed = @ \cup batch, !.active = @ + 1,
                                 !.status = "paid"], "supersede")
  PROVE  IInv'
<1>1. project \in Aggregates /\ op \in Ops /\ OpFits(project, op)
  BY DEF IInv, Fits
<1>2. /\ op.prior \notin Parked /\ "supersede" \in Labels
      /\ op.then \in {"end", "batch", "redispatch"}
  BY <1>1, FreeThen DEF Free, Labels
<1> DEFINE q == [project EXCEPT !.consumed = @ \cup batch, !.active = @ + 1,
                                !.status = "paid"]
<1>3. q \in Aggregates /\ Stays(project, q) /\ q.batch = project.batch
      /\ q.status = "paid"
  BY <1>1 DEF Aggregates, Stays, Status
<1>4. Returns(q, "supersede")
  OBVIOUS
<1> HIDE DEF q
<1>5. WorldOn /\ project' = q /\ OpGoes(op, op', "supersede")
  BY <1>2, <1>4, ReturnsOn
<1>6. op' \in Ops /\ OpFits(q, op')
  BY <1>2, <1>3, <1>5, FreeFits DEF OpGoes, Free, Parked
<1> QED
  BY <1>3, <1>5, <1>6, StaysKeeps

(* ... or a question.                                                      *)
LEMMA UnderstoodKeeps == ASSUME IInv, Understood PROVE IInv'
<1>1. project \in Aggregates /\ op \in Ops /\ OpFits(project, op)
  BY DEF IInv, Fits
<1>2. op.at = "process"
  BY DEF Understood, Answered
<1>3. /\ op.prior \notin Parked
      /\ op.then \in {"end", "batch", "redispatch"}
  BY <1>1, <1>2, FreeThen DEF Free
<1>4. ASSUME NEW batch \in SUBSET Messages,
             LET q == [project EXCEPT !.consumed = @ \cup batch,
                                      !.status = op.prior]
             IN Savable(q) /\ Returns(q, op.then)
      PROVE  IInv'
  BY <1>2, <1>4, UnchangedKeeps
<1>5. CASE Throws(TRUE) /\ UNCHANGED world
  BY <1>5, ThrowsKeeps
<1>6. ASSUME NEW batch \in SUBSET Messages, project.active + 1 \in Versions,
             Returns([project EXCEPT !.consumed = @ \cup batch,
                        !.active = @ + 1, !.status = "paid"], "supersede")
      PROVE  IInv'
  BY <1>2, <1>6, RevisedKeeps
<1>7. ASSUME NEW q \in Questions,
             op' = [op EXCEPT !.at = "clarify", !.c = q, !.call = "none"],
             UNCHANGED <<project, world>>
      PROVE  IInv'
  <2>1. q \in Nat
    BY PlanAssumption DEF PlanAssumption
  <2>2. /\ op' \in Ops /\ op'.at = "clarify" /\ op'.call = "none" /\ op'.c = q
        /\ op'.then = op.then /\ op'.prior = op.prior /\ op'.replay = op.replay
    <3>1. "clarify" \in Labels /\ q \in Nat
      BY <2>1 DEF Labels
    <3> HIDE DEF Labels
    <3> QED
      BY <1>1, <1>7, <3>1 DEF Ops
  <2>3. ~op.replay => project.status \notin Parked
    BY <1>1, <1>2, NotParked
  <2>4. OpFits(project, op')
    BY <1>3, <2>2, <2>3, FreeFits DEF Free
  <2> QED
    BY <1>7, <2>2, <2>4, RestsOn, OpKeeps
<1>8. \/ \E batch \in Batches(project) :
           \/ LET q == [[project EXCEPT !.consumed = @ \cup batch]
                          EXCEPT !.status = op.prior]
              IN \/ Savable(q) /\ Returns(q, op.then)
                 \/ Throws(TRUE) /\ UNCHANGED world
           \/ /\ project.active + 1 \in Versions
              /\ Returns([[project EXCEPT !.consumed = @ \cup batch]
                            EXCEPT !.active = @ + 1, !.status = "paid"],
                         "supersede")
      \/ /\ \E q \in Questions :
              op' = [op EXCEPT !.at = "clarify", !.c = q, !.call = "none"]
         /\ UNCHANGED <<project, world>>
  BY DEF Understood
<1>9. ASSUME NEW batch
      PROVE  /\ [[project EXCEPT !.consumed = @ \cup batch]
                    EXCEPT !.status = op.prior]
                  = [project EXCEPT !.consumed = @ \cup batch,
                                    !.status = op.prior]
             /\ [[project EXCEPT !.consumed = @ \cup batch]
                    EXCEPT !.active = @ + 1, !.status = "paid"]
                  = [project EXCEPT !.consumed = @ \cup batch,
                                    !.active = @ + 1, !.status = "paid"]
  BY <1>1 DEF Aggregates
<1>10. Batches(project) \subseteq SUBSET Messages
  BY <1>1 DEF Batches, Unapplied, Aggregates
<1>11. ASSUME NEW batch \in Batches(project),
              \/ LET q == [[project EXCEPT !.consumed = @ \cup batch]
                             EXCEPT !.status = op.prior]
                 IN \/ Savable(q) /\ Returns(q, op.then)
                    \/ Throws(TRUE) /\ UNCHANGED world
              \/ /\ project.active + 1 \in Versions
                 /\ Returns([[project EXCEPT !.consumed = @ \cup batch]
                               EXCEPT !.active = @ + 1, !.status = "paid"],
                            "supersede")
       PROVE  IInv'
  <2>1. batch \in SUBSET Messages
    BY <1>10
  <2>2. CASE LET q == [[project EXCEPT !.consumed = @ \cup batch]
                         EXCEPT !.status = op.prior]
             IN Savable(q) /\ Returns(q, op.then)
    BY <1>4, <1>9, <2>1, <2>2
  <2>3. CASE /\ project.active + 1 \in Versions
             /\ Returns([[project EXCEPT !.consumed = @ \cup batch]
                           EXCEPT !.active = @ + 1, !.status = "paid"],
                        "supersede")
    BY <1>6, <1>9, <2>1, <2>3
  <2> QED
    BY <1>5, <1>11, <2>2, <2>3
<1> QED
  BY <1>7, <1>8, <1>11

(* The question is sent.                                                   *)
LEMMA ClarifyKeeps == ASSUME IInv, Clarify PROVE IInv'
<1> DEFINE k == <<"question", op.c, 0>>
           old == project.eff[k]
           q1 == [project EXCEPT !.eff[k] = Queued(@)]
           q == [project EXCEPT !.eff[k] = Queued(@), !.questions = op.c,
                                !.status = "needs_clarification"]
<1>1. project \in Aggregates /\ op \in Ops /\ OpFits(project, op)
  BY DEF IInv, Fits
<1>2. op.at = "clarify" /\ op.call = "none" /\ "clarify" \in Labels
  BY DEF Clarify, At, Labels
<1>3. op.c \in Questions
  BY <1>1, <1>2 DEF OpFits, CandidateFits
<1>4. k \in Keys /\ k[1] = "question"
  BY <1>3 DEF Keys
<1>5. CASE Continues
  BY <1>2, <1>5, ContinuesKeeps
<1>6. CASE Asks(q, "clarify", k, "effect")
  <2>1. Queued(old) \in Sound
        /\ ((Queued(old)).st = "completed" <=> old.st = "completed")
    <3>1. old \in Sound
      BY <1>1, <1>4 DEF Aggregates
    <3> QED
      BY <3>1, EffectsStaySound, EffectStatus
  <2> HIDE DEF k
  <2>2. Changes(project, q1, k, Queued(old))
    BY <1>1, <1>4, <2>1 DEF Changes, Aggregates, Same
  <2>3. /\ q \in Aggregates /\ q.eff = q1.eff /\ q.status = "needs_clarification"
        /\ q.preview = q1.preview /\ q.release = q1.release /\ q.mail = q1.mail
        /\ q.runs = q1.runs /\ q.proven = q1.proven /\ q.st = q1.st
        /\ q.batch = project.batch
    BY <1>1, <1>3, <1>4, <2>1 DEF Aggregates, Status
  <2> HIDE DEF q1, q
  <2>4. Stays(project, q1)
    BY <1>1, <1>4, <2>1, <2>2, EffectStays
  <2>5. Stays(q1, q)
    BY <2>3 DEF Stays
  <2>6. Stays(project, q)
    BY <2>4, <2>5, StaysOn
  <2>7. WorldOn /\ project' = q /\ OpAsks(op, op', "clarify", k, "effect")
    BY <1>2, <1>4, <1>6, WaitsOn
  <2>8. OpFits(q, op')
    <3>1. /\ op'.at = "clarify" /\ op'.then = op.then /\ op'.v = op.v
          /\ op'.c = op.c
          /\ op'.prior = op.prior /\ op'.replay = op.replay /\ op'.key = k
          /\ op'.call = "effect"
      BY <2>7 DEF OpAsks
    <3>2. op.then \in {"end", "batch", "redispatch"} /\ op.prior \notin Parked
      BY <1>1, <1>2, FreeThen DEF Free
    <3>3. VersionFits(q, op')
      BY <3>1, <3>2 DEF VersionFits, Placed, Building, Unseen, Showing
    <3>4. CandidateFits(q, op')
      BY <1>3, <3>1, <3>2 DEF CandidateFits, Unseen, Showing
    <3>5. CallFits(q, op')
      BY <1>4, <3>1 DEF CallFits, EffectFits
    <3>6. StatusFits(q, op')
      BY <2>3, <3>1, <3>2 DEF StatusFits, Parked
    <3> QED
      BY <3>3, <3>4, <3>5, <3>6 DEF OpFits
  <2>9. op' \in Ops
    BY <2>7 DEF OpAsks
  <2> QED
    BY <2>3, <2>6, <2>7, <2>8, <2>9, StaysKeeps
<1> QED
  BY <1>5, <1>6 DEF Clarify

(* Where a receipt is saved, and the operation goes on as it said.         *)
LEMMA ReceiptThen ==
  ASSUME IInv, op.call = "effect", op.key[1] # "cancel",
         Returns(Done(project), op.then)
  PROVE  IInv'
<1>1. /\ project \in Aggregates /\ op \in Ops /\ OpFits(project, op)
      /\ Fits(project, op, backend, outbox, outside)
  BY DEF IInv, Fits
<1>2. op.then \in Labels
  BY <1>1 DEF Ops
<1>3. op.at \notin {"idle", "end", "route"}
  BY <1>1 DEF OpFits, CallFits, EffectFits
<1>4. WorldOn /\ project' = Done(project) /\ OpGoes(op, op', op.then)
  BY <1>2, ReturnsOn
<1>5. /\ Done(project) \in Aggregates /\ Same(project, Done(project))
      /\ Stays(project, Done(project)) /\ (Done(project)).status = project.status
  BY <1>1, DoneStays DEF Changes
<1>6. op' \in Ops /\ OpFits(Done(project), op')
  BY <1>1, <1>3, <1>4, <1>5, ThenFits
<1> QED
  BY <1>4, <1>5, <1>6, StaysKeeps DEF Same

(* The question was sent; the operation goes on where it came from.        *)
LEMMA ClarifiedKeeps == ASSUME IInv, Clarified PROVE IInv'
<1>1. op \in Ops /\ OpFits(project, op) /\ op.at = "clarify" /\ op.call # "none"
  BY DEF IInv, Fits, Clarified, Answered
<1>2. op.call = "effect" /\ op.key[1] = "question"
  BY <1>1 DEF Ops, OpFits, CallFits, EffectFits
<1> QED
  BY <1>2, ReceiptThen DEF Clarified

(* The payment is confirmed to the customer, ...                           *)
LEMMA ConfirmKeeps == ASSUME IInv, Confirm PROVE IInv'
<1>1. project \in Aggregates /\ op \in Ops /\ OpFits(project, op)
  BY DEF IInv, Fits
<1>2. op.at = "confirm" /\ "paid" \in Labels
  BY DEF Confirm, At, Labels
<1>3. CASE Goes("end")
  BY <1>3, EndKeepsOn
<1>4. CASE Goes("paid")
  <2>1. WorldOn /\ project' = project /\ OpGoes(op, op', "paid")
    BY <1>2, <1>4, SavesOn DEF Goes
  <2>2. OpFits(project, op')
    BY <1>1, <1>2, <2>1
    DEF OpGoes, OpFits, VersionFits, CandidateFits, CallFits, StatusFits,
        Placed, Unseen, Building, Showing
  <2> QED
    BY <2>1, <2>2, OpKeeps DEF OpGoes
<1>5. CASE Calls(<<"confirm", 1, 0>>)
  <2>1. <<"confirm", 1, 0>> \in Keys
    BY DEF Keys
  <2>2. OpAsks(op, op', op.at, <<"confirm", 1, 0>>, "effect") =>
          EffectFits(project, op')
    BY <1>2 DEF OpAsks, EffectFits
  <2> QED
    BY <1>2, <1>5, <2>1, <2>2, CallsKeep
<1> QED
  BY <1>3, <1>4, <1>5 DEF Confirm

(* ... and the operation goes on with the payment.                         *)
LEMMA ConfirmedKeeps == ASSUME IInv, Confirmed PROVE IInv'
<1>1. /\ project \in Aggregates /\ op \in Ops /\ OpFits(project, op)
      /\ op.at = "confirm" /\ op.call # "none" /\ "paid" \in Labels
      /\ Fits(project, op, backend, outbox, outside)
  BY DEF IInv, Fits, Confirmed, Answered, Labels
<1>2. op.call = "effect" /\ op.key[1] = "confirm"
  BY <1>1 DEF Ops, OpFits, CallFits, EffectFits
<1>3. WorldOn /\ project' = Done(project) /\ OpGoes(op, op', "paid")
  BY <1>1, ReturnsOn DEF Confirmed
<1>4. /\ Done(project) \in Aggregates /\ Same(project, Done(project))
      /\ Stays(project, Done(project)) /\ (Done(project)).status = project.status
  BY <1>1, <1>2, DoneStays DEF Changes
<1>5. OpFits(Done(project), op')
  BY <1>1, <1>3, <1>4
  DEF OpGoes, OpFits, VersionFits, CandidateFits, CallFits, StatusFits, Same,
      Placed, Unseen, Building, Showing
<1> QED
  BY <1>3, <1>4, <1>5, StaysKeeps DEF Same, OpGoes

(* The build of the first version begins, unless a message is open.        *)
LEMMA PaidKeeps == ASSUME IInv, Paid PROVE IInv'
<1>1. /\ project \in Aggregates /\ op \in Ops /\ OpFits(project, op)
      /\ op.at = "paid" /\ op.call = "none"
  BY DEF IInv, Fits, Paid, At
<1>2. /\ op.then \in {"end", "batch", "redispatch"} /\ op.prior \notin Parked
      /\ project.active = 1
      /\ ~op.replay => project.status \notin Parked
  BY <1>1, FreeThen, NotParked DEF OpFits, VersionFits
<1>3. CASE /\ op' = [op EXCEPT !.at = "dispatch", !.v = 1]
           /\ UNCHANGED <<project, world>>
  <2>1. /\ op' \in Ops /\ op'.at = "dispatch" /\ op'.v = 1 /\ op'.then = op.then
        /\ op'.call = "none"
        /\ op'.prior = op.prior /\ op'.replay = op.replay /\ op'.v \in Versions
    BY <1>1, <1>3, PlanAssumption DEF Ops, Labels, PlanAssumption
  <2>2. OpFits(project, op')
    BY <1>2, <2>1
    DEF OpFits, VersionFits, CandidateFits, CallFits, StatusFits,
        Placed, Unseen, Building, Showing
  <2> QED
    BY <1>3, <2>1, <2>2, RestsOn, OpKeeps
<1>4. CASE /\ project' = [project EXCEPT !.status = "revision_pending"]
           /\ op' = [op EXCEPT !.at = "process", !.then = "redispatch",
                               !.prior = "paid"]
           /\ UNCHANGED world
  <2>1. /\ op' \in Ops /\ op'.at = "process" /\ op'.then = "redispatch"
        /\ op'.call = "none" /\ op'.prior = "paid"
    BY <1>1, <1>4 DEF Ops, Labels, Status
  <2>2. /\ project' \in Aggregates /\ Same(project, project')
        /\ project'.eff = project.eff /\ project'.status = "revision_pending"
    BY <1>1, <1>4 DEF Aggregates, Same, Status
  <2>3. OpFits(project', op')
    BY <2>1, <2>2, FreeFits DEF Free, Parked, Status
  <2>4. WorldOn
    BY <1>4 DEF IInv, WorldOn, Bounded, world, providers, bounds
  <2> QED
    BY <2>1, <2>2, <2>3, <2>4, StatusStays, StaysKeeps DEF Same
<1> QED
  BY <1>3, <1>4 DEF Paid

(* So it does once the message changed nothing.                            *)
LEMMA RedispatchKeeps == ASSUME IInv, Redispatch PROVE IInv'
<1>1. /\ project \in Aggregates /\ op \in Ops /\ OpFits(project, op)
      /\ op.at = "redispatch" /\ op.call = "none"
  BY DEF IInv, Fits, Redispatch, At
<1>2. /\ op.prior \notin Parked
      /\ ~op.replay => project.status \notin Parked
  BY <1>1, FreeThen, NotParked DEF Free
<1>3. /\ op' \in Ops /\ op'.at \in {"dispatch", "end"} /\ op'.v = 1
      /\ op'.at = "dispatch" => project.active = 1
      /\ op'.then = "end" /\ op'.call = "none"
      /\ op'.prior = op.prior /\ op'.replay = op.replay
      /\ op'.v \in Versions
  <2> DEFINE l == IF project.status = "paid" /\ project.active = 1
                  THEN "dispatch" ELSE "end"
  <2>1. l \in {"dispatch", "end"} /\ (l = "dispatch" => project.active = 1)
    OBVIOUS
  <2>2. op' = [op EXCEPT !.at = l, !.then = "end", !.v = 1]
    BY DEF Redispatch
  <2> HIDE DEF l
  <2> QED
    BY <1>1, <2>1, <2>2, PlanAssumption DEF Ops, Labels, PlanAssumption
<1>4. OpFits(project, op')
  BY <1>2, <1>3
  DEF OpFits, VersionFits, CandidateFits, CallFits, StatusFits,
      Placed, Unseen, Building, Showing
<1>5. UNCHANGED <<project, world>>
  BY DEF Redispatch
<1> QED
  BY <1>3, <1>4, <1>5, RestsOn, OpKeeps
-----------------------------------------------------------------------------
(* Builds.                                                                 *)

(* What a step that changes the runs leaves of a project.                  *)
Rest(p, q) ==
  /\ q.preview = p.preview /\ q.release = p.release /\ q.mail = p.mail
  /\ p.proven \subseteq q.proven
  /\ \A k \in Keys : p.eff[k].st = "completed" => q.eff[k].st = "completed"

(* One such step, whose runs fit the backend.                              *)
LEMMA RunsKeep ==
  ASSUME WorldOn, project' \in Aggregates, Rest(project, project'),
         \/ project'.status # "completed"
         \/ /\ project'.status = project.status
            /\ project'.active = project.active,
         project'.batch = project.batch,
         project'.batch # 0 => project'.st[project'.batch] # "none",
         RunsFit(project', backend'),
         op' \in Ops, OpFits(project', op')
  PROVE  IInv'
<1>1. /\ project \in Aggregates /\ ProjectFits(project)
      /\ ShownFits(project, outside') /\ AcksFit(project, outbox')
      /\ backend' \in Backends /\ outbox' \in Outboxes /\ outside' \in Outsides
      /\ Bounded'
  BY DEF WorldOn, Fits
<1>2. ShownFits(project', outside')
  <2>1. /\ project'.preview = project.preview /\ project'.mail = project.mail
        /\ project'.release = project.release
    BY DEF Rest
  <2>2. ASSUME NEW v \in Versions, NEW c \in Candidates
        PROVE  /\ <<"preview", v, c>> \in outside' => project'.preview[v] = c
               /\ <<"deploy", v, c>> \in outside' =>
                    /\ project'.preview[v] = c
                    /\ project'.mail[<<"preview", v, c>>] = "delivered"
               /\ project'.mail[<<"preview", v, c>>] # "none"
                    => <<"preview", v, c>> \in outside'
               /\ project'.release[v] = c => <<"deploy", v, c>> \in outside'
    BY <1>1, <2>1 DEF ShownFits
  <2> QED
    BY <2>2 DEF ShownFits
<1>3. AcksFit(project', outbox')
  BY <1>1 DEF Rest, AcksFit
<1>4. Savable(project')
  <2>1. CASE project'.status # "completed"
    BY <2>1 DEF Savable
  <2>2. CASE project'.status = "completed"
    <3>1. /\ project.status = "completed" /\ project'.active = project.active
          /\ project.batch = project.active /\ project.release[project.active] # 0
      BY <1>1, <2>2 DEF ProjectFits, Savable
    <3> DEFINE k == <<"final", project.active, project.release[project.active]>>
    <3>2. k \in Keys
      <4>1. project.active \in Versions
            /\ project.release[project.active] \in Candidates
        BY <1>1, <3>1 DEF Aggregates
      <4> QED
        BY <4>1, KeysOf
    <3>3. project.eff[k].st = "completed" /\ project.mail[k] = "delivered"
      BY <1>1, <3>1 DEF ProjectFits, Savable
    <3> QED
      BY <3>1, <3>2, <3>3 DEF Savable, Rest
  <2> QED
    BY <2>1, <2>2
<1>5. \A k \in Tracked : project'.mail[k] # "none" => project'.eff[k].st = "completed"
  BY <1>1, TrackedKeys DEF ProjectFits, Rest
<1>6. Fits(project', op', backend', outbox', outside')
  BY <1>1, <1>2, <1>3, <1>4, <1>5 DEF Fits, ProjectFits
<1> QED
  BY <1>1, <1>6 DEF IInv

(* The cancellation of a recorded run is asked for.                        *)
LEMMA CancelRunKeeps == ASSUME IInv, CancelRun PROVE IInv'
<1>1. /\ project \in Aggregates /\ op \in Ops /\ OpFits(project, op)
      /\ Fits(project, op, backend, outbox, outside) /\ Bounded
  BY DEF IInv, Fits
<1>2. PICK v \in Versions : \E c \in ToCancel(project, v) :
        /\ (At("supersede") /\ v \in Superseding) \/ (At("retire") /\ v = op.v)
        /\ project' = [project EXCEPT !.eff[<<"cancel", v, c>>] = Queued(@)]
        /\ op' = [op EXCEPT !.v = v, !.c = c, !.key = <<"cancel", v, c>>,
                            !.call = "effect"]
        /\ UNCHANGED world
  BY DEF CancelRun
<1>3. PICK c \in ToCancel(project, v) :
        /\ (At("supersede") /\ v \in Superseding) \/ (At("retire") /\ v = op.v)
        /\ project' = [project EXCEPT !.eff[<<"cancel", v, c>>] = Queued(@)]
        /\ op' = [op EXCEPT !.v = v, !.c = c, !.key = <<"cancel", v, c>>,
                            !.call = "effect"]
        /\ UNCHANGED world
  BY <1>2
<1> DEFINE k == <<"cancel", v, c>>
           old == project.eff[k]
<1>4. c \in Candidates /\ project.runs[v][c] # "none" /\ c \in Nat
  BY PlanAssumption DEF ToCancel, PlanAssumption
<1>5. k \in Keys /\ k[1] = "cancel"
  BY <1>4, KeysOf
<1>6. Queued(old) \in Sound /\ ((Queued(old)).st = "completed" <=> old.st = "completed")
  <2>1. old \in Sound
    BY <1>1, <1>5 DEF Aggregates
  <2> QED
    BY <2>1, EffectsStaySound, EffectStatus
<1>7. Changes(project, project', k, Queued(old)) /\ project'.status = project.status
  <2> HIDE DEF k
  <2>1. project' = [project EXCEPT !.eff[k] = Queued(@)]
    BY <1>3 DEF k
  <2> QED
    BY <1>1, <1>5, <1>6, <2>1 DEF Changes, Aggregates, Same
<1>8. Stays(project, project')
  BY <1>1, <1>5, <1>6, <1>7, EffectStays
<1>9. /\ op' \in Ops /\ op'.at = op.at /\ op'.then = op.then /\ op'.v = v
      /\ op'.c = c
      /\ op'.prior = op.prior /\ op'.replay = op.replay /\ op'.key = k /\ op'.call = "effect"
  <2>1. c \in Nat /\ k \in Keys
    BY <1>4, <1>5
  <2> HIDE DEF k
  <2>2. op' = [op EXCEPT !.v = v, !.c = c, !.key = k, !.call = "effect"]
    BY <1>3 DEF k
  <2> QED
    BY <1>1, <2>1, <2>2 DEF Ops
<1>10. Same(project, project')
  BY <1>7 DEF Changes
<1>11. op.at = "supersede" \/ (op.at = "retire" /\ v = op.v)
  BY <1>3 DEF At
<1>12. VersionFits(project, op')
  BY <1>1, <1>9, <1>11
  DEF OpFits, VersionFits, Placed, Building, Unseen, Showing
<1>13. CandidateFits(project, op')
  BY <1>1, <1>9, <1>11
  DEF OpFits, VersionFits, CandidateFits, Building, Unseen, Showing
<1>14. CallFits(project', op')
  <2>1. project'.runs = project.runs
    BY <1>10 DEF Same
  <2> QED
    BY <1>4, <1>9, <1>11, <2>1 DEF CallFits, EffectFits
<1>15. StatusFits(project', op')
  BY <1>1, <1>7, <1>9 DEF OpFits, StatusFits
<1>16. OpFits(project', op')
  BY <1>10, <1>12, <1>13, <1>14, <1>15, SameFits DEF OpFits
<1>17. WorldOn
  BY <1>1, <1>3 DEF WorldOn, Bounded, world, providers, bounds
<1> QED
  BY <1>7, <1>8, <1>9, <1>10, <1>16, <1>17, StaysKeeps DEF Changes, Same

(* A run whose cancellation was answered does not go on.                   *)
LEMMA RunCancelledKeeps == ASSUME IInv, RunCancelled PROVE IInv'
<1> DEFINE v == op.v
           c == op.c
           k == op.key
           x == IF backend[v][c] \in Terminal THEN backend[v][c] ELSE "cancelled"
           q == [Done(project) EXCEPT !.runs[v][c] = x]
<1>1. /\ project \in Aggregates /\ op \in Ops /\ OpFits(project, op)
      /\ Fits(project, op, backend, outbox, outside) /\ backend \in Backends
      /\ op.at \in {"supersede", "retire"} /\ op.call # "none"
      /\ ProjectFits(project)
  BY DEF IInv, Fits, RunCancelled, Answered
<1>2. op.call = "effect"
  BY <1>1 DEF Ops, OpFits, CallFits
<1>3. /\ k = <<"cancel", v, c>> /\ v \in Versions /\ c \in Candidates
      /\ project.runs[v][c] # "none" /\ k \in Keys /\ k[1] = "cancel"
  <2>1. EffectFits(project, op)
    BY <1>1, <1>2 DEF OpFits, CallFits
  <2>2. /\ op.key = <<"cancel", op.v, op.c>> /\ op.v \in Versions
        /\ op.c \in Candidates /\ project.runs[op.v][op.c] # "none"
    BY <1>1, <2>1 DEF EffectFits
  <2>3. <<"cancel", op.v, op.c>> \in Keys
    BY <2>2, KeysOf
  <2> QED
    BY <2>2, <2>3
<1>4. Returns(q, op.at)
  BY DEF RunCancelled
<1>5. op.at \in Labels
  BY <1>1 DEF Ops
<1>6. WorldOn /\ project' = q /\ OpGoes(op, op', op.at)
  <2> HIDE DEF q
  <2> QED
    BY <1>4, <1>5, ReturnsOn
<1>7. backend'[v][c] # "running"
  <2>1. Acts(k)
    BY <1>2, <1>4 DEF Returns
  <2>2. backend' = [backend EXCEPT ![v][c] = IF @ = "running" THEN "cancelling"
                                                               ELSE @]
    BY <1>3, <2>1 DEF Acts
  <2> QED
    BY <1>1, <1>3, <2>2 DEF Backends
<1> DEFINE e == Completed(project.eff[k])
<1>8. e \in Sound /\ e.st = "completed"
  <2>1. project.eff[k] \in Sound
    BY <1>1, <1>3 DEF Aggregates
  <2> QED
    BY <2>1, EffectsStaySound, EffectStatus
<1>9. q = [project EXCEPT !.eff[k] = e, !.runs[v][c] = x]
  BY <1>1 DEF Done, Aggregates
<1>10. x \in Terminal
  BY DEF Terminal
<1> HIDE DEF e, x, q, k
<1>11. /\ q \in Aggregates /\ q.eff = [project.eff EXCEPT ![k] = e]
       /\ q.runs = [project.runs EXCEPT ![v][c] = x]
       /\ q.active = project.active /\ q.batch = project.batch
       /\ q.st = project.st /\ q.proven = project.proven
       /\ q.preview = project.preview /\ q.release = project.release
       /\ q.mail = project.mail /\ q.status = project.status
       /\ q.questions = project.questions
  BY <1>1, <1>3, <1>8, <1>9, <1>10 DEF Aggregates
<1>12. Rest(project, q)
  BY <1>1, <1>3, <1>8, <1>11 DEF Rest, Aggregates
<1>13. RunsFit(q, backend')
  <2>1. RunsFit(project, backend')
    BY <1>6 DEF WorldOn, Fits
  <2> SUFFICES ASSUME NEW w \in Versions, NEW d \in Candidates
               PROVE  /\ q.runs[w][d] # "none" => backend'[w][d] # "none"
                      /\ q.runs[w][d] \in Terminal => backend'[w][d] # "running"
                      /\ q.eff[<<"cancel", w, d>>].st = "completed" =>
                           backend'[w][d] \notin {"none", "running"}
                      /\ q.st[w] = "cancelled" /\ q.runs[w][d] # "none"
                           => backend'[w][d] # "running"
    BY DEF RunsFit
  <2>2. CASE w = v /\ d = c
    <3>1. backend'[w][d] # "none"
      BY <1>3, <2>1, <2>2 DEF RunsFit
    <3> QED
      BY <1>7, <2>2, <3>1
  <2>3. CASE ~(w = v /\ d = c)
    <3>1. q.runs[w][d] = project.runs[w][d]
      BY <1>1, <1>3, <1>11, <2>3 DEF Aggregates
    <3>2. <<"cancel", w, d>> \in Keys /\ <<"cancel", w, d>> # k
      BY <1>3, <2>3, KeysOf
    <3>3. q.eff[<<"cancel", w, d>>] = project.eff[<<"cancel", w, d>>]
      BY <1>1, <1>11, <3>2 DEF Aggregates
    <3> QED
      BY <1>11, <2>1, <3>1, <3>3 DEF RunsFit
  <2> QED
    BY <2>2, <2>3
<1>14. op' \in Ops /\ OpFits(q, op')
  BY <1>1, <1>6, <1>11
  DEF OpGoes, OpFits, VersionFits, CandidateFits, CallFits, StatusFits,
      Placed, Unseen, Building, Showing
<1>15. q.batch # 0 => q.st[q.batch] # "none"
  BY <1>1, <1>11 DEF ProjectFits
<1> QED
  BY <1>6, <1>11, <1>12, <1>13, <1>14, <1>15, RunsKeep

(* From a label where nothing was relied on to another one.                *)
LEMMA FreeGoes ==
  ASSUME NEW p, NEW q, NEW o \in Ops, OpFits(p, o), o.at \in Free,
         q.status = p.status, NEW r, OpGoes(o, r, "steer")
  PROVE  r \in Ops /\ OpFits(q, r)
<1>1. /\ r \in Ops /\ r.at = "steer" /\ r.call = "none" /\ r.then = o.then
      /\ r.prior = o.prior /\ r.replay = o.replay
  BY DEF OpGoes
<1>2. o.then \in {"end", "batch", "redispatch"} /\ o.prior \notin Parked
  BY FreeThen
<1>3. ~o.replay => q.status \notin Parked
  BY NotParked DEF Free
<1> QED
  BY <1>1, <1>2, <1>3, FreeFits DEF Free

(* A batch is given up once none of its runs goes on.                      *)
LEMMA SupersedeKeeps == ASSUME IInv, Supersede PROVE IInv'
<1>1. /\ project \in Aggregates /\ op \in Ops /\ OpFits(project, op)
      /\ Fits(project, op, backend, outbox, outside) /\ backend \in Backends
      /\ op.at = "supersede" /\ "steer" \in Labels /\ op.at \in Free
      /\ ProjectFits(project) /\ RunsFit(project, backend)
  BY DEF IInv, Fits, Supersede, At, Labels, Free
<1>2. CASE Goes("steer")
  <2>1. WorldOn /\ project' = project /\ OpGoes(op, op', "steer")
    BY <1>1, <1>2, SavesOn DEF Goes
  <2> QED
    BY <1>1, <2>1, FreeGoes, OpKeeps
<1>3. ASSUME NEW v \in Superseding, ToCancel(project, v) = {},
             Saves([project EXCEPT !.st[v] = "cancelled"], "steer")
      PROVE  IInv'
  <2> DEFINE q == [project EXCEPT !.st[v] = "cancelled"]
  <2>1. v \in Versions
    BY DEF Superseding, Active
  <2>2. /\ q \in Aggregates /\ q.st = [project.st EXCEPT ![v] = "cancelled"]
        /\ q.eff = project.eff /\ q.runs = project.runs
        /\ q.active = project.active /\ q.batch = project.batch
        /\ q.proven = project.proven /\ q.preview = project.preview
        /\ q.release = project.release /\ q.mail = project.mail
        /\ q.status = project.status
    BY <1>1, <2>1 DEF Aggregates, BatchStatus
  <2>3. Saves(q, "steer")
    BY <1>3
  <2> HIDE DEF q
  <2>4. WorldOn /\ project' = q /\ OpGoes(op, op', "steer")
    BY <1>1, <2>3, SavesOn
  <2>5. Rest(project, q)
    BY <2>2 DEF Rest
  <2>6. backend' = backend
    BY <2>3 DEF Saves, world, providers
  <2>7. RunsFit(q, backend)
    <3> SUFFICES ASSUME NEW w \in Versions, NEW d \in Candidates
                 PROVE  /\ q.runs[w][d] # "none" => backend[w][d] # "none"
                        /\ q.runs[w][d] \in Terminal => backend[w][d] # "running"
                        /\ q.eff[<<"cancel", w, d>>].st = "completed" =>
                             backend[w][d] \notin {"none", "running"}
                        /\ q.st[w] = "cancelled" /\ q.runs[w][d] # "none"
                             => backend[w][d] # "running"
      BY DEF RunsFit
    <3>1. CASE w # v
      <4>1. q.st[w] = project.st[w]
        BY <1>1, <2>2, <3>1 DEF Aggregates
      <4> QED
        BY <1>1, <2>2, <4>1 DEF RunsFit
    <3>2. CASE w = v
      <4>1. /\ project.runs[w][d] # "none" => backend[w][d] # "none"
            /\ project.runs[w][d] \in Terminal => backend[w][d] # "running"
            /\ project.eff[<<"cancel", w, d>>].st = "completed" =>
                 backend[w][d] \notin {"none", "running"}
        BY <1>1 DEF RunsFit
      <4>2. project.runs[w][d] # "none" =>
              \/ project.eff[<<"cancel", w, d>>].st = "completed"
              \/ project.runs[w][d] # "running"
        BY <1>3, <3>2 DEF ToCancel
      <4>3. project.runs[w][d] \in Terminal \cup {"none", "running"}
        BY <1>1 DEF Aggregates
      <4> QED
        BY <2>2, <4>1, <4>2, <4>3
    <3> QED
      BY <3>1, <3>2
  <2>8. q.batch # 0 => q.st[q.batch] # "none"
    BY <1>1, <2>1, <2>2 DEF ProjectFits, Aggregates
  <2>9. op' \in Ops /\ OpFits(q, op')
    BY <1>1, <2>2, <2>4, FreeGoes
  <2> QED
    BY <2>2, <2>4, <2>5, <2>6, <2>7, <2>8, <2>9, RunsKeep
<1> QED
  BY <1>2, <1>3 DEF Supersede

(* The revision is acknowledged to the customer, ...                       *)
LEMMA SteerKeeps == ASSUME IInv, Steer PROVE IInv'
<1> DEFINE k == <<"steer", project.active, 0>>
<1>1. /\ project \in Aggregates /\ op \in Ops /\ OpFits(project, op)
      /\ op.at = "steer" /\ op.call = "none" /\ op.at \in Free
  BY DEF IInv, Fits, Steer, At, Free
<1>2. project.active \in Versions /\ project.active \in Nat
  BY <1>1, PlanAssumption DEF Aggregates, PlanAssumption
<1>3. op.then \in {"end", "batch", "redispatch"} /\ op.prior \notin Parked
      /\ (~op.replay => project.status \notin Parked)
  BY <1>1, FreeThen, NotParked DEF Free
<1>4. CASE /\ op' = [op EXCEPT !.at = "dispatch", !.v = project.active]
           /\ UNCHANGED <<project, world>>
  <2>1. /\ op' \in Ops /\ op'.at = "dispatch" /\ op'.v = project.active
        /\ op'.then = op.then /\ op'.call = "none"
        /\ op'.prior = op.prior /\ op'.replay = op.replay
    BY <1>1, <1>2, <1>4 DEF Ops, Labels
  <2>2. OpFits(project, op')
    BY <1>2, <1>3, <2>1
    DEF OpFits, VersionFits, CandidateFits, CallFits, StatusFits,
        Placed, Unseen, Building, Showing
  <2> QED
    BY <1>4, <2>1, <2>2, RestsOn, OpKeeps
<1>5. CASE Calls(k)
  <2>1. k \in Keys /\ k[1] = "steer"
    BY <1>2 DEF Keys
  <2>2. OpAsks(op, op', op.at, k, "effect") => EffectFits(project, op')
    BY <1>1, <2>1 DEF OpAsks, EffectFits
  <2> HIDE DEF k
  <2> QED
    BY <1>1, <1>5, <2>1, <2>2, CallsKeep
<1> QED
  BY <1>4, <1>5 DEF Steer

(* ... and the receipt is saved.                                           *)
LEMMA SteeredKeeps == ASSUME IInv, Steered PROVE IInv'
<1>1. /\ project \in Aggregates /\ op \in Ops /\ OpFits(project, op)
      /\ op.at = "steer" /\ op.call # "none" /\ op.at \in Free
      /\ Fits(project, op, backend, outbox, outside) /\ "steer" \in Labels
  BY DEF IInv, Fits, Steered, Answered, Free, Labels
<1>2. op.call = "effect" /\ op.key[1] = "steer"
  BY <1>1 DEF Ops, OpFits, CallFits, EffectFits
<1>3. WorldOn /\ project' = Done(project) /\ OpGoes(op, op', "steer")
  BY <1>1, ReturnsOn DEF Steered
<1>4. /\ Done(project) \in Aggregates /\ Same(project, Done(project))
      /\ Stays(project, Done(project)) /\ (Done(project)).status = project.status
  BY <1>1, <1>2, DoneStays DEF Changes
<1>5. op' \in Ops /\ OpFits(Done(project), op')
  BY <1>1, <1>3, <1>4, FreeGoes
<1> QED
  BY <1>3, <1>4, <1>5, StaysKeeps DEF Same

(* A batch is begun for the version in force, so that of a project that is *)
(* not completed.                                                          *)
LEMMA DispatchKeeps == ASSUME IInv, Dispatch PROVE IInv'
<1> DEFINE v == op.v
           k == <<"dispatch", op.v, 0>>
           old == project.eff[k]
           q1 == [project EXCEPT !.eff[k] = Queued(@)]
           q == [project EXCEPT !.st[v] = "pending", !.batch = v,
                                !.eff[k] = Queued(@)]
<1>1. /\ project \in Aggregates /\ op \in Ops /\ OpFits(project, op)
      /\ Fits(project, op, backend, outbox, outside) /\ Bounded
      /\ op.at = "dispatch" /\ op.call = "none" /\ ProjectFits(project)
      /\ "assign" \in Labels /\ v \in Versions
  BY DEF IInv, Fits, Dispatch, At, Labels, OpFits, VersionFits, Placed
<1>2. CASE Goes("end")
  BY <1>2, EndKeepsOn
<1>3. CASE project.st[v] # "none" /\ Goes("assign")
  <2>1. WorldOn /\ project' = project /\ OpGoes(op, op', "assign")
    BY <1>1, <1>3, SavesOn DEF Goes
  <2>2. OpFits(project, op')
    BY <1>1, <2>1
    DEF OpGoes, OpFits, VersionFits, CandidateFits, CallFits, StatusFits,
        Placed, Unseen, Building, Showing
  <2> QED
    BY <2>1, <2>2, OpKeeps DEF OpGoes
<1>4. CASE /\ project.st[v] = "none" /\ project' = q /\ GoesTo("assign")
           /\ clock' = {} /\ UNCHANGED <<inbound, providers, bounds>>
  <2>1. v = project.active /\ v # 0
    BY <1>1, <1>4, KeysOf, PlanAssumption
    DEF OpFits, VersionFits, PlanAssumption
  <2>2. project.status # "completed"
    BY <1>1, <1>4, <2>1 DEF ProjectFits, Savable
  <2>3. k \in Keys /\ k[1] = "dispatch"
    BY <1>1 DEF Keys
  <2>4. Queued(old) \in Sound
        /\ ((Queued(old)).st = "completed" <=> old.st = "completed")
    <3>1. old \in Sound
      BY <1>1, <2>3 DEF Aggregates
    <3> QED
      BY <3>1, EffectsStaySound, EffectStatus
  <2>5. WorldOn
    BY <1>1, <1>4 DEF WorldOn, Bounded, providers, bounds
  <2>6. OpGoes(op, op', "assign")
    BY <1>1, <1>4, GoesOn
  <2> HIDE DEF k
  <2>7. Changes(project, q1, k, Queued(old))
    BY <1>1, <2>3, <2>4 DEF Changes, Aggregates, Same
  <2>8. /\ q \in Aggregates /\ q.eff = q1.eff /\ q.status = project.status
        /\ q.preview = q1.preview /\ q.release = q1.release /\ q.mail = q1.mail
        /\ q.runs = q1.runs /\ q.proven = q1.proven /\ q.active = project.active
        /\ q1.st = project.st /\ q.st = [project.st EXCEPT ![v] = "pending"]
        /\ q.batch = v /\ q.st[v] = "pending" /\ q.preview = project.preview
    BY <1>1, <2>3, <2>4 DEF Aggregates, BatchStatus
  <2> HIDE DEF q1, q
  <2>9. Stays(project, q1)
    BY <1>1, <2>3, <2>4, <2>7, EffectStays
  <2>10. Stays(q1, q)
    BY <1>1, <2>8 DEF Stays, Aggregates
  <2>11. Stays(project, q)
    BY <2>9, <2>10, StaysOn
  <2>12. op' \in Ops /\ OpFits(q, op')
    BY <1>1, <2>6, <2>8
    DEF OpGoes, OpFits, VersionFits, CandidateFits, CallFits, StatusFits,
        Placed, Unseen, Building, Showing
  <2> QED
    BY <1>4, <2>2, <2>5, <2>8, <2>11, <2>12, StaysKeeps
<1> QED
  BY <1>2, <1>3, <1>4 DEF Dispatch

(* The runs of a batch are started one by one, ...                         *)
LEMMA AssignKeeps == ASSUME IInv, Assign PROVE IInv'
<1> DEFINE v == op.v
           k == <<"dispatch", op.v, 0>>
           e == Completed(project.eff[k])
           q1 == [project EXCEPT !.eff[k] = e]
           q == [project EXCEPT !.st[v] = "building",
                                !.status = Progress(project, "building"),
                                !.eff[k] = e]
<1>1. /\ project \in Aggregates /\ op \in Ops /\ OpFits(project, op)
      /\ op.at = "assign" /\ op.call = "none"
      /\ "access" \in Labels /\ v \in Versions
  BY DEF IInv, Fits, Assign, At, Labels, OpFits, VersionFits, Placed
<1>2. k \in Keys /\ k[1] = "dispatch"
  BY <1>1 DEF Keys
<1>3. ASSUME NEW c \in Candidates,
             op' = [op EXCEPT !.c = c, !.key = k, !.call = "effect"],
             UNCHANGED <<project, world>>
      PROVE  IInv'
  <2>1. c \in Nat
    BY PlanAssumption DEF PlanAssumption
  <2>2. /\ op' \in Ops /\ op'.at = "assign" /\ op'.v = v /\ op'.then = op.then
        /\ op'.call = "effect" /\ op'.key = k /\ op'.c = c
        /\ op'.prior = op.prior /\ op'.replay = op.replay
    BY <1>1, <1>2, <1>3, <2>1 DEF Ops
  <2>3. EffectFits(project, op')
    BY <2>2 DEF EffectFits
  <2>4. CallFits(project, op')
    BY <2>2, <2>3 DEF CallFits
  <2>5. VersionFits(project, op') /\ StatusFits(project, op')
    BY <1>1, <2>2 DEF OpFits, VersionFits, StatusFits, Placed
  <2>6. CandidateFits(project, op')
    BY <1>1, <2>2
    DEF OpFits, VersionFits, CandidateFits, Unseen, Building, Showing
  <2>7. OpFits(project, op')
    BY <2>4, <2>5, <2>6 DEF OpFits
  <2> QED
    BY <1>3, <2>2, <2>7, RestsOn, OpKeeps
<1>4. CASE Goes("access")
  <2>1. WorldOn /\ project' = project /\ OpGoes(op, op', "access")
    BY <1>1, <1>4, SavesOn DEF Goes
  <2>2. OpFits(project, op')
    BY <1>1, <2>1
    DEF OpGoes, OpFits, VersionFits, CandidateFits, CallFits, StatusFits,
        Placed, Unseen, Building, Showing
  <2> QED
    BY <2>1, <2>2, OpKeeps DEF OpGoes
<1>5. CASE Saves(q, "access")
  <2>1. e \in Sound /\ e.st = "completed"
    <3>1. project.eff[k] \in Sound
      BY <1>1, <1>2 DEF Aggregates
    <3> QED
      BY <3>1, EffectsStaySound, EffectStatus
  <2>2. Progress(project, "building") \in {"building", "needs_clarification"}
    BY DEF Progress
  <2> DEFINE t == Progress(project, "building")
  <2> HIDE DEF k, e, t
  <2>3. Changes(project, q1, k, e)
    BY <1>1, <1>2, <2>1 DEF Changes, Aggregates, Same
  <2>4. t \in {"building", "needs_clarification"} /\ t \in Status
    BY <2>2 DEF t, Status
  <2>5. q = [project EXCEPT !.st[v] = "building", !.status = t, !.eff[k] = e]
    BY DEF t
  <2>6. /\ q \in Aggregates /\ q.eff = q1.eff /\ q.status = t
        /\ q.preview = q1.preview /\ q.release = q1.release /\ q.mail = q1.mail
        /\ q.runs = q1.runs /\ q.proven = q1.proven /\ q.active = project.active
        /\ q1.st = project.st /\ q.st = [project.st EXCEPT ![v] = "building"]
        /\ q.batch = project.batch /\ q.st[v] = "building"
        /\ q.preview = project.preview
    BY <1>1, <1>2, <2>1, <2>4, <2>5 DEF Aggregates, BatchStatus
  <2>7. Saves(q, "access")
    BY <1>5
  <2> HIDE DEF q1, q
  <2>8. WorldOn /\ project' = q /\ OpGoes(op, op', "access")
    BY <1>1, <2>7, SavesOn
  <2>9. Stays(project, q1)
    BY <1>1, <1>2, <2>1, <2>3, EffectStays
  <2>10. Stays(q1, q)
    BY <1>1, <2>6 DEF Stays, Aggregates
  <2>11. Stays(project, q)
    BY <2>9, <2>10, StaysOn
  <2>12. q.status \notin Parked /\ q.status # "completed"
    BY <2>4, <2>6 DEF Parked
  <2>13. op' \in Ops /\ OpFits(q, op')
    BY <1>1, <2>6, <2>8, <2>12
    DEF OpGoes, OpFits, VersionFits, CandidateFits, CallFits, StatusFits,
        Placed, Unseen, Building, Showing
  <2> QED
    BY <2>6, <2>8, <2>11, <2>12, <2>13, StaysKeeps
<1> QED
  BY <1>3, <1>4, <1>5 DEF Assign

(* ... and each is recorded with what the backend says of it.              *)
LEMMA AssignedKeeps == ASSUME IInv, Assigned PROVE IInv'
<1> DEFINE v == op.v
           c == op.c
           x == IF backend[v][c] \in Terminal THEN backend[v][c] ELSE "running"
           q == [project EXCEPT !.runs[v][c] = x, !.st[v] = "dispatched"]
<1>1. /\ project \in Aggregates /\ op \in Ops /\ OpFits(project, op)
      /\ Fits(project, op, backend, outbox, outside) /\ backend \in Backends
      /\ op.at = "assign" /\ op.call # "none" /\ ProjectFits(project)
      /\ "assign" \in Labels /\ v \in Versions
  BY DEF IInv, Fits, Assigned, Answered, Labels, OpFits, VersionFits, Placed
<1>2. op.call = "effect"
  BY <1>1 DEF Ops, OpFits, CallFits
<1>3. op.key[1] = "dispatch" /\ c \in Candidates
  <2>1. EffectFits(project, op)
    BY <1>1, <1>2 DEF OpFits, CallFits
  <2> QED
    BY <1>1, <2>1 DEF EffectFits
<1>4. Returns(q, "assign")
  BY DEF Assigned
<1>5. WorldOn /\ project' = q /\ OpGoes(op, op', "assign")
  <2> HIDE DEF q
  <2> QED
    BY <1>1, <1>4, ReturnsOn
<1>6. /\ backend'[v][c] # "none"
      /\ backend[v][c] \in Terminal => backend'[v][c] = backend[v][c]
  <2>1. Acts(op.key)
    BY <1>2, <1>4 DEF Returns
  <2>2. backend' = [backend EXCEPT ![v][c] = IF @ = "none" THEN "running" ELSE @]
    BY <1>3, <2>1 DEF Acts
  <2> QED
    BY <1>1, <1>3, <2>2 DEF Backends, Terminal
<1>7. x \in Terminal \cup {"running"} /\ (x \in Terminal => x = backend[v][c])
  BY DEF Terminal
<1> HIDE DEF x
<1>8. /\ q \in Aggregates /\ q.eff = project.eff
      /\ q.runs = [project.runs EXCEPT ![v][c] = x]
      /\ q.st = [project.st EXCEPT ![v] = "dispatched"]
      /\ q.active = project.active /\ q.batch = project.batch
      /\ q.proven = project.proven /\ q.preview = project.preview
      /\ q.release = project.release /\ q.mail = project.mail
      /\ q.status = project.status /\ q.st[v] = "dispatched"
  BY <1>1, <1>3, <1>7 DEF Aggregates, BatchStatus
<1> HIDE DEF q
<1>9. Rest(project, q)
  BY <1>8 DEF Rest
<1>10. RunsFit(q, backend')
  <2>1. RunsFit(project, backend')
    BY <1>5 DEF WorldOn, Fits
  <2> SUFFICES ASSUME NEW w \in Versions, NEW d \in Candidates
               PROVE  /\ q.runs[w][d] # "none" => backend'[w][d] # "none"
                      /\ q.runs[w][d] \in Terminal => backend'[w][d] # "running"
                      /\ q.eff[<<"cancel", w, d>>].st = "completed" =>
                           backend'[w][d] \notin {"none", "running"}
                      /\ q.st[w] = "cancelled" /\ q.runs[w][d] # "none"
                           => backend'[w][d] # "running"
    BY DEF RunsFit
  <2>2. q.eff[<<"cancel", w, d>>].st = "completed" =>
          backend'[w][d] \notin {"none", "running"}
    BY <1>8, <2>1 DEF RunsFit
  <2>3. CASE w = v /\ d = c
    <3>1. q.runs[w][d] = x /\ q.st[w] = "dispatched"
      BY <1>1, <1>3, <1>8, <2>3 DEF Aggregates
    <3> QED
      BY <1>6, <1>7, <2>2, <2>3, <3>1 DEF Terminal
  <2>4. CASE ~(w = v /\ d = c)
    <3>1. q.runs[w][d] = project.runs[w][d]
      BY <1>1, <1>3, <1>8, <2>4 DEF Aggregates
    <3>2. q.st[w] = project.st[w] \/ q.st[w] = "dispatched"
      BY <1>1, <1>8 DEF Aggregates
    <3> QED
      BY <2>1, <2>2, <3>1, <3>2 DEF RunsFit
  <2> QED
    BY <2>3, <2>4
<1>11. op' \in Ops /\ OpFits(q, op')
  BY <1>1, <1>5, <1>8
  DEF OpGoes, OpFits, VersionFits, CandidateFits, CallFits, StatusFits,
      Placed, Unseen, Building, Showing
<1>12. q.batch # 0 => q.st[q.batch] # "none"
  BY <1>1, <1>8 DEF ProjectFits, Aggregates
<1> QED
  BY <1>5, <1>8, <1>9, <1>10, <1>11, <1>12, RunsKeep

(* The customer is given the dashboard, ...                                *)
LEMMA AccessKeeps == ASSUME IInv, Access PROVE IInv'
<1> DEFINE k == <<"access", op.v, 0>>
<1>1. /\ op.at = "access" /\ op.v \in Versions
  BY DEF IInv, Fits, Access, At, OpFits, VersionFits, Placed
<1>2. CASE Continues
  BY <1>1, <1>2, ContinuesKeeps
<1>3. CASE Calls(k)
  <2>1. k \in Keys /\ k[1] = "access"
    BY <1>1 DEF Keys
  <2>2. OpAsks(op, op', op.at, k, "effect") => EffectFits(project, op')
    BY <1>1, <2>1 DEF OpAsks, EffectFits
  <2> HIDE DEF k
  <2> QED
    BY <1>1, <1>3, <2>1, <2>2, CallsKeep
<1> QED
  BY <1>2, <1>3 DEF Access

(* ... and the operation goes on as it said.                               *)
LEMMA AccessedKeeps == ASSUME IInv, Accessed PROVE IInv'
<1>1. op \in Ops /\ OpFits(project, op) /\ op.at = "access" /\ op.call # "none"
  BY DEF IInv, Fits, Accessed, Answered
<1>2. op.call = "effect" /\ op.key[1] = "access"
  BY <1>1 DEF Ops, OpFits, CallFits, EffectFits
<1> QED
  BY <1>2, ReceiptThen DEF Accessed

(* The worker takes up the active batch, ...                               *)
LEMMA BatchKeeps == ASSUME IInv, Batch PROVE IInv'
<1>1. /\ project \in Aggregates /\ op \in Ops /\ OpFits(project, op)
      /\ op.at = "batch" /\ op.call = "none" /\ ProjectFits(project)
  BY DEF IInv, Fits, Batch, At
<1>2. CASE Goes("end")
  BY <1>2, EndKeepsOn
<1>3. ASSUME NEW v \in Active(project, {"failed", "cancelled"}),
             NEW l \in {"access", "open"},
             op' = [op EXCEPT !.at = l, !.then = "open", !.v = v],
             UNCHANGED <<project, world>>
      PROVE  IInv'
  <2>1. v \in Versions /\ v \in Nat /\ v # 0 /\ v = project.batch
    BY PlanAssumption DEF Active, PlanAssumption
  <2>2. project.st[v] # "none"
    BY <1>1, <2>1 DEF ProjectFits
  <2>3. op.prior \notin Parked /\ (~op.replay => project.status \notin Parked)
    BY <1>1, NotParked DEF OpFits, StatusFits
  <2>4. /\ op' \in Ops /\ op'.at = l /\ op'.v = v /\ op'.then = "open"
        /\ op'.call = "none" /\ op'.prior = op.prior /\ op'.replay = op.replay
    BY <1>1, <1>3, <2>1 DEF Ops, Labels
  <2>5. OpFits(project, op')
    BY <2>1, <2>2, <2>3, <2>4
    DEF OpFits, VersionFits, CandidateFits, CallFits, StatusFits,
        Placed, Unseen, Building, Showing
  <2> QED
    BY <1>3, <2>4, <2>5, RestsOn, OpKeeps
<1>4. ASSUME NEW v \in Active(project, {"failed", "cancelled"}),
             op' = [op EXCEPT !.at = IF /\ Full(project, v)
                                        /\ project.st[v] \notin
                                             {"pending", "dispatched"}
                                     THEN "access" ELSE "open",
                              !.then = "open", !.v = v],
             UNCHANGED <<project, world>>
      PROVE  IInv'
  <2> DEFINE l == IF /\ Full(project, v)
                     /\ project.st[v] \notin {"pending", "dispatched"}
                  THEN "access" ELSE "open"
  <2>1. l \in {"access", "open"}
    OBVIOUS
  <2>2. op' = [op EXCEPT !.at = l, !.then = "open", !.v = v]
    BY <1>4
  <2> HIDE DEF l
  <2> QED
    BY <1>3, <1>4, <2>1, <2>2
<1> QED
  BY <1>2, <1>4 DEF Batch

(* ... starts the runs that are missing, ...                               *)
LEMMA OpenKeeps == ASSUME IInv, Open PROVE IInv'
<1>1. /\ project \in Aggregates /\ op \in Ops /\ OpFits(project, op)
      /\ op.at = "open" /\ op.call = "none"
      /\ {"watch", "dispatch"} \subseteq Labels
  BY DEF IInv, Fits, Open, At, Labels
<1>2. op.v \in Versions /\ project.st[op.v] # "none"
  BY <1>1 DEF OpFits, VersionFits, Placed
<1>3. CASE Enters("dispatch", "watch")
  <2>1. OpEnters(op, op', "dispatch", "watch")
    BY <1>1, <1>3, EntersOn
  <2>2. op' \in Ops /\ OpFits(project, op')
    BY <1>1, <1>2, <2>1
    DEF OpEnters, OpFits, VersionFits, CandidateFits, CallFits, StatusFits,
        Placed, Unseen, Building, Showing
  <2>3. UNCHANGED <<project, world>>
    BY <1>3 DEF Enters
  <2> QED
    BY <2>2, <2>3, RestsOn, OpKeeps
<1>4. CASE Goes("watch")
  <2>1. WorldOn /\ project' = project /\ OpGoes(op, op', "watch")
    BY <1>1, <1>4, SavesOn DEF Goes
  <2>2. op' \in Ops /\ OpFits(project, op')
    BY <1>1, <1>2, <2>1
    DEF OpGoes, OpFits, VersionFits, CandidateFits, CallFits, StatusFits,
        Placed, Unseen, Building, Showing
  <2> QED
    BY <2>1, <2>2, OpKeeps
<1> QED
  BY <1>3, <1>4 DEF Open

(* ... and asks the backend about them, unless a preview is there.         *)
LEMMA WatchKeeps == ASSUME IInv, Watch PROVE IInv'
<1> DEFINE c == project.preview[op.v]
<1>1. /\ project \in Aggregates /\ op \in Ops /\ OpFits(project, op)
      /\ op.at = "watch" /\ op.call = "none" /\ op.v \in Versions
      /\ {"ack", "end", "refresh"} \subseteq Labels
  BY DEF IInv, Fits, Watch, At, Labels, OpFits, VersionFits, Placed
<1>2. CASE Enters("ack", "end")
  <2>1. OpEnters(op, op', "ack", "end")
    BY <1>1, <1>2, EntersOn
  <2>2. op' \in Ops /\ OpFits(project, op')
    BY <1>1, <2>1
    DEF OpEnters, OpFits, VersionFits, CandidateFits, CallFits, StatusFits,
        Placed, Unseen, Building, Showing
  <2>3. UNCHANGED <<project, world>>
    BY <1>2 DEF Enters
  <2> QED
    BY <2>2, <2>3, RestsOn, OpKeeps
<1>3. CASE /\ c # 0
           /\ op' = [op EXCEPT !.at = "materialize", !.then = "review", !.c = c]
           /\ UNCHANGED <<project, world>>
  <2>1. c \in Candidates /\ c \in Nat
    BY <1>1, <1>3, PlanAssumption DEF Aggregates, PlanAssumption
  <2>2. /\ op' \in Ops /\ op'.at = "materialize" /\ op'.then = "review"
        /\ op'.v = op.v /\ op'.c = c /\ op'.call = "none"
        /\ op'.prior = op.prior /\ op'.replay = op.replay
    BY <1>1, <1>3, <2>1 DEF Ops, Labels
  <2>3. OpFits(project, op')
    BY <1>1, <2>1, <2>2
    DEF OpFits, VersionFits, CandidateFits, CallFits, StatusFits,
        Placed, Unseen, Building, Showing
  <2> QED
    BY <1>3, <2>2, <2>3, RestsOn, OpKeeps
<1>4. CASE c = 0 /\ Asks(project, "refresh", op.key, "query")
  <2>1. op.key \in Keys \cup {NoKey}
    BY <1>1 DEF Ops
  <2>2. /\ WorldOn /\ project' = project
        /\ OpAsks(op, op', "refresh", op.key, "query")
    BY <1>1, <1>4, <2>1, WaitsOn
  <2>3. op' \in Ops /\ OpFits(project, op')
    BY <1>1, <1>4, <2>2
    DEF OpAsks, OpFits, VersionFits, CandidateFits, CallFits, StatusFits,
        Placed, Unseen, Building, Showing
  <2> QED
    BY <2>2, <2>3, OpKeeps
<1> QED
  BY <1>2, <1>3, <1>4 DEF Watch

(* What the backend says of the runs is recorded, ...                      *)
LEMMA RefreshedKeeps == ASSUME IInv, Refreshed PROVE IInv'
<1> DEFINE v == op.v
           seen(c) == IF backend[v][c] \in Terminal THEN backend[v][c]
                                                    ELSE "running"
           now(c) == IF project.runs[v][c] = "none" THEN "none" ELSE seen(c)
           f == [c \in Candidates |-> now(c)]
           over == \A c \in Candidates : now(c) \in Terminal
           s == IF over THEN "verifying" ELSE "building"
           t == Progress(project, s)
           q == [project EXCEPT !.runs[v] = f, !.st[v] = s, !.status = t]
<1>1. /\ project \in Aggregates /\ op \in Ops /\ OpFits(project, op)
      /\ Fits(project, op, backend, outbox, outside) /\ backend \in Backends
      /\ op.at = "refresh" /\ op.call # "none" /\ ProjectFits(project)
      /\ RunsFit(project, backend)
      /\ {"decide", "ingest"} \subseteq Labels /\ v \in Versions
  BY DEF IInv, Fits, Refreshed, Answered, Labels, OpFits, VersionFits, Placed
<1>2. op.call = "query"
  BY <1>1 DEF Ops, OpFits, CallFits, EffectFits
<1>3. /\ f \in [Candidates -> Terminal \cup {"none", "running"}]
      /\ \A c \in Candidates :
           /\ f[c] # "none" => project.runs[v][c] # "none"
           /\ f[c] \in Terminal => backend[v][c] = f[c]
  <2>1. ASSUME NEW c \in Candidates
        PROVE  /\ now(c) \in Terminal \cup {"none", "running"}
               /\ now(c) # "none" => project.runs[v][c] # "none"
               /\ now(c) \in Terminal => backend[v][c] = now(c)
    <3>1. CASE project.runs[v][c] = "none"
      BY <3>1 DEF Terminal
    <3>2. CASE project.runs[v][c] # "none" /\ backend[v][c] \in Terminal
      BY <3>2
    <3>3. CASE project.runs[v][c] # "none" /\ backend[v][c] \notin Terminal
      BY <3>3 DEF Terminal
    <3> QED
      BY <3>1, <3>2, <3>3
  <2> HIDE DEF now
  <2> QED
    BY <2>1
<1>4. s \in {"verifying", "building"}
  <2> HIDE DEF over
  <2> QED
    OBVIOUS
<1>5. t \in Status /\ t \notin Parked /\ t # "completed"
  <2> HIDE DEF s
  <2> QED
    BY <1>4 DEF Progress, Status, Over, Parked
<1>6. /\ project' = q /\ UNCHANGED world
      /\ GoesTo("decide") \/ op' = [op EXCEPT !.at = "ingest"]
  BY DEF Refreshed
<1> HIDE DEF f, s, t
<1>7. /\ q \in Aggregates /\ q.eff = project.eff
      /\ q.runs = [project.runs EXCEPT ![v] = f]
      /\ q.st = [project.st EXCEPT ![v] = s] /\ q.st[v] = s
      /\ q.active = project.active /\ q.batch = project.batch
      /\ q.proven = project.proven /\ q.preview = project.preview
      /\ q.release = project.release /\ q.mail = project.mail
      /\ q.status = t
  BY <1>1, <1>3, <1>4, <1>5 DEF Aggregates, BatchStatus
<1> HIDE DEF q
<1>8. WorldOn /\ backend' = backend
  BY <1>1, <1>6 DEF IInv, WorldOn, Bounded, world, providers, bounds
<1>9. Rest(project, q)
  BY <1>7 DEF Rest
<1>10. RunsFit(q, backend)
  <2> SUFFICES ASSUME NEW w \in Versions, NEW d \in Candidates
               PROVE  /\ q.runs[w][d] # "none" => backend[w][d] # "none"
                      /\ q.runs[w][d] \in Terminal => backend[w][d] # "running"
                      /\ q.eff[<<"cancel", w, d>>].st = "completed" =>
                           backend[w][d] \notin {"none", "running"}
                      /\ q.st[w] = "cancelled" /\ q.runs[w][d] # "none"
                           => backend[w][d] # "running"
    BY DEF RunsFit
  <2>1. /\ project.runs[w][d] # "none" => backend[w][d] # "none"
        /\ project.runs[w][d] \in Terminal => backend[w][d] # "running"
        /\ project.eff[<<"cancel", w, d>>].st = "completed" =>
             backend[w][d] \notin {"none", "running"}
        /\ project.st[w] = "cancelled" /\ project.runs[w][d] # "none"
             => backend[w][d] # "running"
    BY <1>1 DEF RunsFit
  <2>2. CASE w = v
    <3>1. q.runs[w][d] = f[d] /\ q.st[w] = s
      BY <1>1, <1>7, <2>2 DEF Aggregates
    <3> QED
      BY <1>3, <1>4, <1>7, <2>1, <2>2, <3>1 DEF Terminal
  <2>3. CASE w # v
    <3>1. q.runs[w][d] = project.runs[w][d] /\ q.st[w] = project.st[w]
      BY <1>1, <1>7, <2>3 DEF Aggregates
    <3> QED
      BY <1>7, <2>1, <3>1
  <2> QED
    BY <2>2, <2>3
<1>11. /\ op' \in Ops /\ op'.then = op.then /\ op'.v = v
       /\ op'.prior = op.prior /\ op'.replay = op.replay
       /\ \/ op'.at = "decide" /\ op'.call = "none"
          \/ op'.at = "ingest" /\ op'.call = "query"
  <2>1. CASE GoesTo("decide")
    BY <1>1, <2>1, GoesOn DEF OpGoes
  <2>2. CASE op' = [op EXCEPT !.at = "ingest"]
    BY <1>1, <1>2, <2>2 DEF Ops
  <2> QED
    BY <1>6, <2>1, <2>2
<1>12. OpFits(q, op')
  BY <1>1, <1>4, <1>5, <1>7, <1>11
  DEF OpFits, VersionFits, CandidateFits, CallFits, StatusFits,
      Placed, Unseen, Building, Showing
<1>13. q.batch # 0 => q.st[q.batch] # "none"
  BY <1>1, <1>4, <1>7 DEF ProjectFits, Aggregates
<1> QED
  BY <1>5, <1>6, <1>7, <1>8, <1>9, <1>10, <1>11, <1>12, <1>13, RunsKeep

(* An operation that fails for good ends, whatever it is about.            *)
LEMMA StopsKeep ==
  ASSUME WorldOn, NEW q, q \in Aggregates, Stays(project, q),
         q.status = project.status, q.batch = project.batch,
         q.active = project.active, NEW k \in Keys \cup {NoKey},
         project' = Blamed(q, k, FALSE),
         op' \in Ops, op'.at = "end", op'.call = "none", op'.then = op.then,
         op'.prior = op.prior
  PROVE  IInv'
<1>1. project \in Aggregates /\ op \in Ops /\ OpFits(project, op)
  BY DEF WorldOn, Fits
<1>2. /\ project' \in Aggregates /\ Same(q, project') /\ Stays(q, project')
      /\ project'.status = q.status \/ project'.status \in Parked
  BY BlamedStays
<1>3. Stays(project, project')
  BY <1>2, StaysOn
<1>4. /\ \/ project'.status # "completed"
         \/ /\ project'.status = project.status
            /\ project'.batch = project.batch
            /\ project'.active = project.active
      /\ project'.batch = project.batch
  BY <1>2 DEF Same, Parked
<1>5. OpFits(project', op')
  <2>1. /\ op.then \in {"end", "batch", "redispatch", "open", "watch", "review"}
        /\ op.prior \notin Parked
    BY <1>1 DEF OpFits, VersionFits, StatusFits
  <2> QED
    BY <2>1 DEF OpFits, VersionFits, CandidateFits, CallFits, StatusFits,
                Placed, Unseen, Building, Showing
<1> QED
  BY <1>2, <1>3, <1>4, <1>5, StaysKeeps

(* Proven events that are recorded leave the rest as it is.                *)
LEMMA ProvenKeep ==
  ASSUME IInv, NEW new \in SUBSET (Versions \X Candidates)
  PROVE  LET q == [project EXCEPT !.proven = @ \cup new]
         IN /\ q \in Aggregates /\ Stays(project, q) /\ q.status = project.status
            /\ q.batch = project.batch /\ q.active = project.active
            /\ q.preview = project.preview /\ q.st = project.st
<1>1. project \in Aggregates
  BY DEF IInv, Fits
<1> QED
  BY <1>1 DEF Aggregates, Stays

(* The events that are unread are saved, unless one of them is refused.    *)
LEMMA IngestedKeeps == ASSUME IInv, Ingested PROVE IInv'
<1> DEFINE unread == {c \in Candidates : /\ project.runs[op.v][c] # "none"
                                         /\ outbox[op.v][c] = "unread"}
           right == {c \in unread : project.runs[op.v][c] = "passed"}
           new(some) == {<<op.v, c>> : c \in some}
           with(some) == [project EXCEPT !.proven = @ \cup new(some)]
<1>1. /\ project \in Aggregates /\ op \in Ops /\ OpFits(project, op)
      /\ op.at = "ingest" /\ {"decide", "end"} \subseteq Labels
      /\ op.v \in Versions /\ op.key \in Keys \cup {NoKey}
  BY DEF IInv, Fits, Ingested, Answered, Labels, OpFits, VersionFits, Placed,
         Ops
<1>2. \/ right = unread /\ Returns(with(right), "decide")
      \/ /\ \E some \in SUBSET right :
              project' = Blamed(with(some), op.key, FALSE)
         /\ GoesTo("end") /\ UNCHANGED world
  BY DEF Ingested
<1>3. right \subseteq Candidates
  OBVIOUS
<1> HIDE DEF right, unread
<1>4. ASSUME NEW some \in SUBSET Candidates
      PROVE  /\ with(some) \in Aggregates /\ Stays(project, with(some))
             /\ (with(some)).status = project.status
             /\ (with(some)).batch = project.batch
             /\ (with(some)).active = project.active
             /\ (with(some)).preview = project.preview
             /\ (with(some)).st = project.st
  <2>1. new(some) \in SUBSET (Versions \X Candidates)
    BY <1>1
  <2> HIDE DEF new
  <2> QED
    BY <2>1, ProvenKeep
<1> HIDE DEF with
<1>5. CASE Returns(with(right), "decide")
  <2> DEFINE q == with(right)
  <2>1. /\ q \in Aggregates /\ Stays(project, q) /\ q.status = project.status
        /\ q.batch = project.batch /\ q.active = project.active
        /\ q.preview = project.preview /\ q.st = project.st
    BY <1>3, <1>4
  <2> HIDE DEF q
  <2>2. WorldOn /\ project' = q /\ OpGoes(op, op', "decide")
    BY <1>1, <1>5, ReturnsOn DEF q
  <2>3. op' \in Ops /\ OpFits(q, op')
    BY <1>1, <2>1, <2>2
    DEF OpGoes, OpFits, VersionFits, CandidateFits, CallFits, StatusFits,
        Placed, Unseen, Building, Showing
  <2> QED
    BY <2>1, <2>2, <2>3, StaysKeeps
<1>6. CASE /\ \E some \in SUBSET right :
                project' = Blamed(with(some), op.key, FALSE)
           /\ GoesTo("end") /\ UNCHANGED world
  <2>1. PICK some \in SUBSET right : project' = Blamed(with(some), op.key, FALSE)
    BY <1>6
  <2>2. /\ with(some) \in Aggregates /\ Stays(project, with(some))
        /\ (with(some)).status = project.status
        /\ (with(some)).batch = project.batch
        /\ (with(some)).active = project.active
    BY <1>3, <1>4
  <2>3. OpGoes(op, op', "end")
    BY <1>1, <1>6, GoesOn
  <2>4. WorldOn
    BY <1>6 DEF IInv, Fits, world, providers, bounds, Bounded, WorldOn
  <2>5. /\ op' \in Ops /\ op'.at = "end" /\ op'.call = "none"
        /\ op'.then = op.then /\ op'.prior = op.prior
    BY <2>3 DEF OpGoes
  <2> DEFINE q == with(some)
  <2>6. /\ q \in Aggregates /\ Stays(project, q) /\ q.status = project.status
        /\ q.batch = project.batch /\ q.active = project.active
        /\ project' = Blamed(q, op.key, FALSE)
    BY <2>1, <2>2
  <2> HIDE DEF q
  <2> QED
    BY <1>1, <2>4, <2>5, <2>6, StopsKeep
<1> QED
  BY <1>2, <1>5, <1>6

(* The status of a batch changes, and with it that of the project.         *)
LEMMA BatchEndsKeeps ==
  ASSUME IInv, NEW v \in Versions, NEW s \in {"verifying", "failed"},
         NEW g \in SUBSET Versions,
         NEW t \in {"verifying", "no_proven_candidate", "needs_clarification"},
         Saves([project EXCEPT !.st[v] = s, !.grace = g, !.status = t], "end")
  PROVE  IInv'
<1> DEFINE q == [project EXCEPT !.st[v] = s, !.grace = g, !.status = t]
<1>1. project \in Aggregates /\ ProjectFits(project) /\ "end" \in Labels
  BY DEF IInv, Fits, Labels
<1>2. t \in Status /\ t # "completed"
  BY DEF Status
<1>3. /\ q \in Aggregates /\ q.eff = project.eff /\ q.runs = project.runs
      /\ q.st = [project.st EXCEPT ![v] = s]
      /\ q.active = project.active /\ q.batch = project.batch
      /\ q.proven = project.proven /\ q.preview = project.preview
      /\ q.release = project.release /\ q.mail = project.mail /\ q.status = t
  BY <1>1, <1>2 DEF Aggregates, BatchStatus
<1>4. Saves(q, "end")
  OBVIOUS
<1> HIDE DEF q
<1>5. WorldOn /\ project' = q /\ OpGoes(op, op', "end")
  BY <1>1, <1>4, SavesOn
<1>6. Stays(project, q)
  BY <1>1, <1>3 DEF Stays, Aggregates
<1> QED
  BY <1>2, <1>3, <1>5, <1>6, EndsKeeps

(* What the runs and the deadlines make of the batch.                      *)
LEMMA DecideKeeps == ASSUME IInv, Decide PROVE IInv'
<1>1. /\ project \in Aggregates /\ op \in Ops /\ OpFits(project, op)
      /\ op.at = "decide" /\ op.call = "none" /\ op.v \in Versions
      /\ {"retire", "finalize"} \subseteq Labels
  BY DEF IInv, Fits, Decide, At, Labels, OpFits, VersionFits, Placed
<1>2. CASE Goes("end")
  BY <1>2, EndKeepsOn
<1>3. ASSUME NEW l \in {"retire", "finalize"}, Goes(l)
      PROVE  IInv'
  <2>1. WorldOn /\ project' = project /\ OpGoes(op, op', l)
    BY <1>1, <1>3, SavesOn DEF Goes
  <2>2. op' \in Ops /\ OpFits(project, op')
    BY <1>1, <2>1
    DEF OpGoes, OpFits, VersionFits, CandidateFits, CallFits, StatusFits,
        Placed, Unseen, Building, Showing
  <2> QED
    BY <2>1, <2>2, OpKeeps
<1>4. CASE Saves([project EXCEPT !.st[op.v] = "verifying", !.grace = @ \cup {op.v},
                                 !.status = Progress(project, "verifying")], "end")
  <2> DEFINE g == project.grace \cup {op.v}
             t == Progress(project, "verifying")
  <2>1. g \in SUBSET Versions
    BY <1>1 DEF Aggregates
  <2>2. t \in {"verifying", "no_proven_candidate", "needs_clarification"}
    BY DEF Progress
  <2>3. Saves([project EXCEPT !.st[op.v] = "verifying", !.grace = g, !.status = t],
              "end")
    BY <1>4
  <2> HIDE DEF g, t
  <2> QED
    BY <1>1, <2>1, <2>2, <2>3, BatchEndsKeeps
<1> QED
  BY <1>2, <1>3, <1>4 DEF Decide

(* The runs that are not over when the deadline passed are given up.       *)
LEMMA RetireKeeps == ASSUME IInv, Retire PROVE IInv'
<1> DEFINE v == op.v
           f == [c \in Candidates |-> IF project.runs[v][c] = "running"
                                      THEN "cancelled" ELSE project.runs[v][c]]
           g == project.grace \cup {v}
           t == Progress(project, "verifying")
           q == [project EXCEPT !.runs[v] = f, !.st[v] = "verifying", !.grace = g,
                                !.status = t]
<1>1. /\ project \in Aggregates /\ op \in Ops /\ OpFits(project, op)
      /\ Fits(project, op, backend, outbox, outside) /\ Bounded
      /\ op.at = "retire" /\ op.call = "none" /\ ProjectFits(project)
      /\ RunsFit(project, backend) /\ "finalize" \in Labels /\ v \in Versions
  BY DEF IInv, Fits, Retire, At, Labels, OpFits, VersionFits, Placed
<1>2. OpGoes(op, op', "finalize")
  BY <1>1, GoesOn DEF Retire
<1>3. backend' = backend /\ outbox' = outbox /\ outside' = outside
  BY DEF Retire, providers
<1>4. CASE UNCHANGED <<project, clock>>
  <2>1. WorldOn
    BY <1>1, <1>4 DEF Retire, WorldOn, Bounded, providers, bounds
  <2>2. op' \in Ops /\ OpFits(project, op')
    BY <1>1, <1>2
    DEF OpGoes, OpFits, VersionFits, CandidateFits, CallFits, StatusFits,
        Placed, Unseen, Building, Showing
  <2> QED
    BY <1>4, <2>1, <2>2, OpKeeps
<1>5. CASE project' = q /\ clock' = clock \cup {"grace"}
  <2>1. /\ f \in [Candidates -> Terminal \cup {"none", "running"}]
        /\ \A c \in Candidates :
             /\ f[c] # "none" => project.runs[v][c] # "none"
             /\ f[c] \in Terminal => \/ project.runs[v][c] \in Terminal
                                     \/ project.runs[v][c] = "running"
    <3>1. project.runs[v] \in [Candidates -> Terminal \cup {"none", "running"}]
      BY <1>1 DEF Aggregates
    <3> QED
      BY <3>1 DEF Terminal
  <2>2. g \in SUBSET Versions
    BY <1>1 DEF Aggregates
  <2>3. t \in {"verifying", "needs_clarification"}
    BY DEF Progress
  <2> HIDE DEF f, g, t
  <2>4. /\ q \in Aggregates /\ q.eff = project.eff
        /\ q.runs = [project.runs EXCEPT ![v] = f]
        /\ q.st = [project.st EXCEPT ![v] = "verifying"] /\ q.st[v] = "verifying"
        /\ q.active = project.active /\ q.batch = project.batch
        /\ q.proven = project.proven /\ q.preview = project.preview
        /\ q.release = project.release /\ q.mail = project.mail
        /\ q.status = t
    BY <1>1, <2>1, <2>2, <2>3 DEF Aggregates, BatchStatus, Status
  <2>5. project' = q
    BY <1>5
  <2> HIDE DEF q
  <2>6. WorldOn
    <3>1. clock' \subseteq Deadlines
      BY <1>1, <1>5 DEF Bounded, Deadlines
    <3> QED
      BY <1>1, <1>3, <3>1 DEF Retire, WorldOn, Bounded, bounds
  <2>7. Rest(project, q)
    BY <2>4 DEF Rest
  <2>8. RunsFit(q, backend)
    <3> SUFFICES ASSUME NEW w \in Versions, NEW d \in Candidates
                 PROVE  /\ q.runs[w][d] # "none" => backend[w][d] # "none"
                        /\ q.runs[w][d] \in Terminal => backend[w][d] # "running"
                        /\ q.eff[<<"cancel", w, d>>].st = "completed" =>
                             backend[w][d] \notin {"none", "running"}
                        /\ q.st[w] = "cancelled" /\ q.runs[w][d] # "none"
                             => backend[w][d] # "running"
      BY DEF RunsFit
    <3>1. /\ project.runs[w][d] # "none" => backend[w][d] # "none"
          /\ project.runs[w][d] \in Terminal => backend[w][d] # "running"
          /\ project.eff[<<"cancel", w, d>>].st = "completed" =>
               backend[w][d] \notin {"none", "running"}
          /\ project.st[w] = "cancelled" /\ project.runs[w][d] # "none"
               => backend[w][d] # "running"
      BY <1>1 DEF RunsFit
    <3>2. CASE w = v
      <4>1. q.runs[w][d] = f[d] /\ q.st[w] = "verifying"
        BY <1>1, <2>4, <3>2 DEF Aggregates
      <4>2. project.runs[v][d] = "running" =>
              project.eff[<<"cancel", v, d>>].st = "completed"
        BY DEF Retire, ToCancel
      <4> QED
        BY <2>1, <2>4, <3>1, <3>2, <4>1, <4>2
    <3>3. CASE w # v
      <4>1. q.runs[w][d] = project.runs[w][d] /\ q.st[w] = project.st[w]
        BY <1>1, <2>4, <3>3 DEF Aggregates
      <4> QED
        BY <2>4, <3>1, <4>1
    <3> QED
      BY <3>2, <3>3
  <2>9. op' \in Ops /\ OpFits(q, op')
    BY <1>1, <1>2, <2>3, <2>4
    DEF OpGoes, OpFits, VersionFits, CandidateFits, CallFits, StatusFits,
        Placed, Unseen, Building, Showing, Parked
  <2>10. q.batch # 0 => q.st[q.batch] # "none"
    BY <1>1, <2>4 DEF ProjectFits, Aggregates
  <2> QED
    BY <1>3, <2>3, <2>4, <2>5, <2>6, <2>7, <2>8, <2>9, <2>10, RunsKeep
<1> QED
  BY <1>4, <1>5 DEF Retire

(* The winner is to be shown, if there is one.                             *)
LEMMA FinalizeKeeps == ASSUME IInv, Finalize PROVE IInv'
<1>1. /\ project \in Aggregates /\ op \in Ops /\ OpFits(project, op)
      /\ op.at = "finalize" /\ op.call = "none" /\ op.v \in Versions
      /\ {"ack", "end"} \subseteq Labels
  BY DEF IInv, Fits, Finalize, At, Labels, OpFits, VersionFits, Placed
<1>2. CASE Saves([project EXCEPT !.st[op.v] = "failed",
                    !.status = Progress(project, "no_proven_candidate")], "end")
  <2> DEFINE g == project.grace
             t == Progress(project, "no_proven_candidate")
  <2>1. g \in SUBSET Versions
    BY <1>1 DEF Aggregates
  <2>2. t \in {"verifying", "no_proven_candidate", "needs_clarification"}
    BY DEF Progress
  <2>3. [project EXCEPT !.st[op.v] = "failed", !.status = t]
          = [project EXCEPT !.st[op.v] = "failed", !.grace = g, !.status = t]
    BY <1>1 DEF Aggregates
  <2>4. Saves([project EXCEPT !.st[op.v] = "failed", !.grace = g, !.status = t],
              "end")
    BY <1>2, <2>3
  <2> HIDE DEF g, t
  <2> QED
    BY <1>1, <2>1, <2>2, <2>4, BatchEndsKeeps
<1>3. CASE Enters("ack", "end")
  <2>1. OpEnters(op, op', "ack", "end")
    BY <1>1, <1>3, EntersOn
  <2>2. op' \in Ops /\ OpFits(project, op')
    BY <1>1, <2>1
    DEF OpEnters, OpFits, VersionFits, CandidateFits, CallFits, StatusFits,
        Placed, Unseen, Building, Showing
  <2>3. UNCHANGED <<project, world>>
    BY <1>3 DEF Enters
  <2> QED
    BY <2>2, <2>3, RestsOn, OpKeeps
<1>4. ASSUME NEW c \in Candidates,
             op' = [op EXCEPT !.at = "materialize", !.then = "end", !.c = c],
             UNCHANGED <<project, world>>
      PROVE  IInv'
  <2>1. c \in Nat
    BY PlanAssumption DEF PlanAssumption
  <2>2. /\ op' \in Ops /\ op'.at = "materialize" /\ op'.then = "end"
        /\ op'.v = op.v /\ op'.c = c /\ op'.call = "none"
        /\ op'.prior = op.prior /\ op'.replay = op.replay
    BY <1>1, <1>4, <2>1 DEF Ops, Labels
  <2>3. OpFits(project, op')
    BY <1>1, <2>2
    DEF OpFits, VersionFits, CandidateFits, CallFits, StatusFits,
        Placed, Unseen, Building, Showing
  <2> QED
    BY <1>4, <2>2, <2>3, RestsOn, OpKeeps
<1> QED
  BY <1>2, <1>3, <1>4 DEF Finalize, Proven
-----------------------------------------------------------------------------
(* Previews, releases, and the mail that hands the project over.           *)

(* A step whose parts fit.                                                 *)
LEMMA PartsKeep ==
  ASSUME WorldOn, project' \in Aggregates, ProjectFits(project'),
         ShownFits(project', outside'), AcksFit(project', outbox'),
         RunsFit(project', backend'), op' \in Ops, OpFits(project', op')
  PROVE  IInv'
BY DEF WorldOn, Fits, IInv

(* A receipt alone fits the world.                                         *)
LEMMA DoneFits ==
  ASSUME IInv, WorldOn, op.call = "effect", op.key[1] # "cancel"
  PROVE  /\ Done(project) \in Aggregates /\ Same(project, Done(project))
         /\ (Done(project)).status = project.status
         /\ (Done(project)).eff[op.key].st = "completed"
         /\ ProjectFits(Done(project)) /\ ShownFits(Done(project), outside')
         /\ AcksFit(Done(project), outbox') /\ RunsFit(Done(project), backend')
<1>1. Fits(project, op, backend, outbox, outside)
  BY DEF IInv
<1>2. /\ Done(project) \in Aggregates /\ Same(project, Done(project))
      /\ Stays(project, Done(project))
      /\ (Done(project)).status = project.status
      /\ (Done(project)).eff[op.key].st = "completed"
  BY <1>1, DoneStays DEF Changes
<1>3. /\ project \in Aggregates /\ ProjectFits(project)
      /\ ShownFits(project, outside') /\ AcksFit(project, outbox')
      /\ RunsFit(project, backend')
  BY DEF WorldOn, Fits
<1>4. /\ ShownFits(Done(project), outside') /\ AcksFit(Done(project), outbox')
      /\ RunsFit(Done(project), backend')
  BY <1>2, <1>3, StaysFits
<1>5. ProjectFits(Done(project))
  BY <1>2, <1>3, StaysSavable DEF Same
<1> QED
  BY <1>2, <1>4, <1>5

(* The winner is materialized, unless it is, or it is not in force.        *)
LEMMA MaterializeKeeps == ASSUME IInv, Materialize PROVE IInv'
<1> DEFINE k == <<"materialize", op.v, op.c>>
<1>1. /\ project \in Aggregates /\ op \in Ops /\ OpFits(project, op)
      /\ op.at = "materialize" /\ op.call = "none"
      /\ {"ack", "show"} \subseteq Labels
  BY DEF IInv, Fits, Materialize, At, Labels
<1>2. /\ op.v \in Versions /\ op.c \in Candidates
      /\ project.preview[op.v] \in {0, op.c}
  BY <1>1 DEF OpFits, VersionFits, CandidateFits, Placed, Showing
<1>3. CASE Goes("end")
  BY <1>3, EndKeepsOn
<1>4. CASE Goes("ack")
  <2>1. WorldOn /\ project' = project /\ OpGoes(op, op', "ack")
    BY <1>1, <1>4, SavesOn DEF Goes
  <2>2. op' \in Ops /\ OpFits(project, op')
    BY <1>1, <1>2, <2>1
    DEF OpGoes, OpFits, VersionFits, CandidateFits, CallFits, StatusFits,
        Placed, Unseen, Building, Showing
  <2> QED
    BY <2>1, <2>2, OpKeeps
<1>5. CASE Latest(project, op.v) /\ project.preview[op.v] = op.c /\ Goes("show")
  <2>1. WorldOn /\ project' = project /\ OpGoes(op, op', "show")
    BY <1>1, <1>5, SavesOn DEF Goes
  <2>2. op' \in Ops /\ OpFits(project, op')
    BY <1>1, <1>2, <1>5, <2>1
    DEF OpGoes, OpFits, VersionFits, CandidateFits, CallFits, StatusFits,
        Placed, Unseen, Building, Showing
  <2> QED
    BY <2>1, <2>2, OpKeeps
<1>6. CASE /\ Latest(project, op.v) /\ project.preview[op.v] # op.c /\ Calls(k)
  <2>1. k \in Keys /\ k[1] = "materialize"
    BY <1>2, KeysOf
  <2>2. OpAsks(op, op', op.at, k, "effect") => EffectFits(project, op')
    BY <1>1, <1>2, <1>6, <2>1 DEF OpAsks, EffectFits
  <2> HIDE DEF k
  <2> QED
    BY <1>1, <1>6, <2>1, <2>2, CallsKeep
<1> QED
  BY <1>3, <1>4, <1>5, <1>6 DEF Materialize

(* What is materialized is what the customer will see of the version: no   *)
(* other candidate of it was shown before.                                 *)
LEMMA MaterializedKeeps == ASSUME IInv, Materialized PROVE IInv'
<1> DEFINE v == op.v
           c == op.c
           d == Done(project)
           t == Progress(project, "preview_ready")
           q == [d EXCEPT !.preview[v] = c, !.st[v] = "completed", !.status = t]
<1>1. /\ project \in Aggregates /\ op \in Ops /\ OpFits(project, op)
      /\ op.at = "materialize" /\ op.call # "none" /\ "show" \in Labels
  BY DEF IInv, Fits, Materialized, Answered, Labels
<1>2. v \in Versions /\ c \in Candidates /\ c # 0
  BY <1>1, PlanAssumption
  DEF OpFits, VersionFits, CandidateFits, Placed, Showing, PlanAssumption
<1>3. op.call = "effect"
  BY <1>1 DEF Ops, OpFits, CallFits
<1>4. /\ op.key[1] = "materialize" /\ project.preview[v] = 0
      /\ Latest(project, v)
  <2>1. EffectFits(project, op)
    BY <1>1, <1>3 DEF OpFits, CallFits
  <2> QED
    BY <1>1, <2>1 DEF EffectFits
<1>5. Returns(q, "show")
  BY DEF Materialized
<1>6. t \in {"preview_ready", "needs_clarification"}
  BY DEF Progress
<1> HIDE DEF t
<1>7. WorldOn /\ project' = q /\ OpGoes(op, op', "show")
  <2> HIDE DEF q
  <2> QED
    BY <1>1, <1>5, ReturnsOn
<1>8. /\ d \in Aggregates /\ Same(project, d) /\ ProjectFits(d)
      /\ ShownFits(d, outside') /\ AcksFit(d, outbox') /\ RunsFit(d, backend')
  BY <1>3, <1>4, <1>7, DoneFits
<1> HIDE DEF d
<1>9. /\ q \in Aggregates /\ q.eff = d.eff /\ q.runs = d.runs
      /\ q.st = [d.st EXCEPT ![v] = "completed"]
      /\ q.preview = [d.preview EXCEPT ![v] = c] /\ q.preview[v] = c
      /\ q.active = d.active /\ q.batch = d.batch /\ q.proven = d.proven
      /\ q.release = d.release /\ q.mail = d.mail /\ q.status = t
      /\ q.questions = d.questions /\ q.saved = d.saved
      /\ q.consumed = d.consumed /\ q.st[v] = "completed"
  BY <1>2, <1>6, <1>8 DEF Aggregates, BatchStatus, Status
<1> HIDE DEF q
<1>10. ShownFits(q, outside')
  <2> SUFFICES ASSUME NEW w \in Versions, NEW x \in Candidates
               PROVE  /\ <<"preview", w, x>> \in outside' => q.preview[w] = x
                      /\ <<"deploy", w, x>> \in outside' =>
                           /\ q.preview[w] = x
                           /\ q.mail[<<"preview", w, x>>] = "delivered"
                      /\ q.mail[<<"preview", w, x>>] # "none"
                           => <<"preview", w, x>> \in outside'
                      /\ q.release[w] = x => <<"deploy", w, x>> \in outside'
    BY DEF ShownFits
  <2>1. /\ <<"preview", w, x>> \in outside' => d.preview[w] = x
        /\ <<"deploy", w, x>> \in outside' =>
             d.preview[w] = x /\ d.mail[<<"preview", w, x>>] = "delivered"
        /\ d.mail[<<"preview", w, x>>] # "none"
             => <<"preview", w, x>> \in outside'
        /\ d.release[w] = x => <<"deploy", w, x>> \in outside'
    BY <1>8 DEF ShownFits
  <2>2. d.preview[v] = 0 /\ x # 0
    BY <1>4, <1>8, PlanAssumption DEF Same, PlanAssumption
  <2>3. CASE w = v
    BY <1>9, <2>1, <2>2, <2>3
  <2>4. CASE w # v
    <3>1. q.preview[w] = d.preview[w]
      BY <1>2, <1>8, <1>9, <2>4 DEF Aggregates
    <3> QED
      BY <1>9, <2>1, <3>1
  <2> QED
    BY <2>3, <2>4
<1>11. AcksFit(q, outbox')
  BY <1>8, <1>9 DEF AcksFit
<1>12. RunsFit(q, backend')
  <2>1. \A w \in Versions : q.st[w] = "cancelled" => d.st[w] = "cancelled"
    BY <1>8, <1>9 DEF Aggregates
  <2>2. ASSUME NEW w \in Versions, NEW x \in Candidates
        PROVE  /\ q.runs[w][x] # "none" => backend'[w][x] # "none"
               /\ q.runs[w][x] \in Terminal => backend'[w][x] # "running"
               /\ q.eff[<<"cancel", w, x>>].st = "completed" =>
                    backend'[w][x] \notin {"none", "running"}
               /\ q.st[w] = "cancelled" /\ q.runs[w][x] # "none"
                    => backend'[w][x] # "running"
    <3>1. q.runs = d.runs /\ q.eff = d.eff
      BY <1>9
    <3> QED
      BY <1>8, <2>1, <3>1 DEF RunsFit
  <2> QED
    BY <2>2 DEF RunsFit
<1>13. ProjectFits(q)
  <2>1. Savable(q)
    BY <1>6, <1>9 DEF Savable
  <2>2. q.batch # 0 => q.st[q.batch] # "none"
    BY <1>2, <1>8, <1>9 DEF ProjectFits, Aggregates
  <2>3. \A k \in Tracked : q.mail[k] # "none" => q.eff[k].st = "completed"
    BY <1>8, <1>9 DEF ProjectFits
  <2> QED
    BY <2>1, <2>2, <2>3 DEF ProjectFits
<1>14. Latest(q, v)
  BY <1>4, <1>8, <1>9 DEF Latest, Unapplied, Same
<1>15. op' \in Ops /\ OpFits(q, op')
  BY <1>1, <1>2, <1>6, <1>7, <1>9, <1>14
  DEF OpGoes, OpFits, VersionFits, CandidateFits, CallFits, StatusFits,
      Placed, Unseen, Building, Showing, Parked
<1> QED
  BY <1>7, <1>9, <1>10, <1>11, <1>12, <1>13, <1>15, PartsKeep

(* The preview is sent, unless it was.                                     *)
LEMMA ShowKeeps == ASSUME IInv, Show PROVE IInv'
<1> DEFINE k == <<"preview", op.v, op.c>>
<1>1. /\ project \in Aggregates /\ op \in Ops /\ OpFits(project, op)
      /\ op.at = "show" /\ op.call = "none" /\ "ack" \in Labels
  BY DEF IInv, Fits, Show, At, Labels
<1>2. op.v \in Versions /\ op.c \in Candidates
  BY <1>1 DEF OpFits, VersionFits, CandidateFits, Placed, Showing
<1>3. CASE Goes("end")
  BY <1>3, EndKeepsOn
<1>4. CASE Goes("ack")
  <2>1. WorldOn /\ project' = project /\ OpGoes(op, op', "ack")
    BY <1>1, <1>4, SavesOn DEF Goes
  <2>2. op' \in Ops /\ OpFits(project, op')
    BY <1>1, <1>2, <2>1
    DEF OpGoes, OpFits, VersionFits, CandidateFits, CallFits, StatusFits,
        Placed, Unseen, Building, Showing
  <2> QED
    BY <2>1, <2>2, OpKeeps
<1>5. CASE project.eff[k].st # "completed" /\ Calls(k)
  <2>1. k \in Keys /\ k[1] = "preview"
    BY <1>2, KeysOf
  <2>2. OpAsks(op, op', op.at, k, "effect") => EffectFits(project, op')
    BY <1>1, <1>5 DEF OpAsks, EffectFits
  <2> HIDE DEF k
  <2> QED
    BY <1>1, <1>5, <2>1, <2>2, CallsKeep
<1> QED
  BY <1>3, <1>4, <1>5 DEF Show

(* A mail was sent, and it is noted that it is to be followed.             *)
Sent(p, q, k) ==
  /\ q \in Aggregates /\ q.eff = p.eff /\ q.runs = p.runs /\ q.st = p.st
  /\ q.active = p.active /\ q.batch = p.batch /\ q.questions = p.questions
  /\ q.proven = p.proven /\ q.preview = p.preview /\ q.release = p.release
  /\ q.saved = p.saved /\ q.consumed = p.consumed
  /\ q.mail = [p.mail EXCEPT ![k] = "sent"]

(* It was not sent before; a preview is one the customer can see.          *)
LEMMA SentFits ==
  ASSUME NEW p \in Aggregates, NEW q, NEW k \in Tracked, Sent(p, q, k),
         q.status = p.status \/ q.status # "completed",
         p.eff[k].st = "completed", p.mail[k] = "none",
         NEW b, NEW a, NEW s, k[1] = "preview" => k \in s,
         ProjectFits(p), ShownFits(p, s), AcksFit(p, a), RunsFit(p, b)
  PROVE  ProjectFits(q) /\ ShownFits(q, s) /\ AcksFit(q, a) /\ RunsFit(q, b)
<1>1. /\ q \in Aggregates /\ q.eff = p.eff /\ q.runs = p.runs /\ q.st = p.st
      /\ q.active = p.active /\ q.batch = p.batch /\ q.proven = p.proven
      /\ q.preview = p.preview /\ q.release = p.release
      /\ \A j \in Tracked : q.mail[j] = IF j = k THEN "sent" ELSE p.mail[j]
  BY DEF Sent, Aggregates
<1>2. ProjectFits(q)
  <2>1. Savable(q)
    <3>1. CASE q.status # "completed"
      BY <3>1 DEF Savable
    <3>2. CASE q.status = "completed"
      <4>1. /\ p.batch = p.active /\ p.release[p.active] # 0
            /\ p.eff[<<"final", p.active, p.release[p.active]>>].st = "completed"
            /\ p.mail[<<"final", p.active, p.release[p.active]>>] = "delivered"
        BY <3>2 DEF ProjectFits, Savable
      <4>2. p.active \in Versions /\ p.release[p.active] \in Candidates
        BY <4>1 DEF Aggregates
      <4>3. <<"final", p.active, p.release[p.active]>> \in Tracked
        BY <4>2, KeysOf
      <4>4. q.mail[<<"final", p.active, p.release[p.active]>>] = "delivered"
        BY <1>1, <4>1, <4>3
      <4> QED
        BY <1>1, <4>1, <4>4 DEF Savable
    <3> QED
      BY <3>1, <3>2
  <2>2. q.batch # 0 => q.st[q.batch] # "none"
    BY <1>1 DEF ProjectFits
  <2>3. \A j \in Tracked : q.mail[j] # "none" => q.eff[j].st = "completed"
    BY <1>1 DEF ProjectFits
  <2> QED
    BY <2>1, <2>2, <2>3 DEF ProjectFits
<1>3. ShownFits(q, s)
  <2> SUFFICES ASSUME NEW w \in Versions, NEW x \in Candidates
               PROVE  /\ <<"preview", w, x>> \in s => q.preview[w] = x
                      /\ <<"deploy", w, x>> \in s =>
                           /\ q.preview[w] = x
                           /\ q.mail[<<"preview", w, x>>] = "delivered"
                      /\ q.mail[<<"preview", w, x>>] # "none"
                           => <<"preview", w, x>> \in s
                      /\ q.release[w] = x => <<"deploy", w, x>> \in s
    BY DEF ShownFits
  <2>1. /\ <<"preview", w, x>> \in s => p.preview[w] = x
        /\ <<"deploy", w, x>> \in s =>
             p.preview[w] = x /\ p.mail[<<"preview", w, x>>] = "delivered"
        /\ p.mail[<<"preview", w, x>>] # "none" => <<"preview", w, x>> \in s
        /\ p.release[w] = x => <<"deploy", w, x>> \in s
    BY DEF ShownFits
  <2>2. <<"preview", w, x>> \in Tracked
    BY KeysOf
  <2>3. CASE k = <<"preview", w, x>>
    <3>1. k[1] = "preview"
      BY <2>3
    <3> QED
      BY <1>1, <2>1, <2>3, <3>1
  <2>4. CASE k # <<"preview", w, x>>
    BY <1>1, <2>1, <2>2, <2>4
  <2> QED
    BY <2>3, <2>4
<1>4. AcksFit(q, a)
  BY <1>1 DEF AcksFit
<1>5. RunsFit(q, b)
  BY <1>1 DEF RunsFit
<1> QED
  BY <1>2, <1>3, <1>4, <1>5

(* The preview was sent.                                                   *)
LEMMA ShownKeeps == ASSUME IInv, Shown PROVE IInv'
<1> DEFINE v == op.v
           c == op.c
           d == Done(project)
           q == [d EXCEPT !.mail[op.key] = "sent"]
<1>1. /\ project \in Aggregates /\ op \in Ops /\ OpFits(project, op)
      /\ op.at = "show" /\ op.call # "none" /\ "ack" \in Labels
      /\ ProjectFits(project)
  BY DEF IInv, Fits, Shown, Answered, Labels
<1>2. v \in Versions /\ c \in Candidates /\ project.preview[v] = c
  BY <1>1 DEF OpFits, VersionFits, CandidateFits, Placed, Showing
<1>3. op.call = "effect"
  BY <1>1 DEF Ops, OpFits, CallFits
<1>4. /\ op.key = <<"preview", v, c>> /\ op.key[1] = "preview"
      /\ project.eff[op.key].st # "completed"
  <2>1. EffectFits(project, op)
    BY <1>1, <1>3 DEF OpFits, CallFits
  <2> QED
    BY <1>1, <2>1 DEF EffectFits
<1>5. op.key \in Tracked /\ project.mail[op.key] = "none"
  <2>1. op.key \in Tracked
    BY <1>2, <1>4, KeysOf
  <2> QED
    BY <1>1, <1>4, <2>1 DEF ProjectFits
<1>6. Returns(q, "ack")
  BY DEF Shown
<1>7. WorldOn /\ project' = q /\ OpGoes(op, op', "ack")
  <2> HIDE DEF q
  <2> QED
    BY <1>1, <1>6, ReturnsOn
<1>8. op.key \in outside'
  <2>1. Acts(op.key)
    BY <1>3, <1>6 DEF Returns
  <2> QED
    BY <1>4, <2>1 DEF Acts
<1>9. /\ d \in Aggregates /\ Same(project, d) /\ ProjectFits(d)
      /\ d.status = project.status /\ d.eff[op.key].st = "completed"
      /\ ShownFits(d, outside') /\ AcksFit(d, outbox') /\ RunsFit(d, backend')
  BY <1>3, <1>4, <1>7, DoneFits
<1> HIDE DEF d
<1>10. Sent(d, q, op.key) /\ q.status = d.status
  BY <1>5, <1>9 DEF Sent, Aggregates
<1> HIDE DEF q
<1>11. d.mail[op.key] = "none"
  BY <1>5, <1>9 DEF Same
<1>12. /\ ProjectFits(q) /\ ShownFits(q, outside') /\ AcksFit(q, outbox')
       /\ RunsFit(q, backend')
  BY <1>5, <1>8, <1>9, <1>10, <1>11, SentFits
<1>13. /\ q.active = project.active /\ q.st = project.st
       /\ q.preview = project.preview /\ q.status = project.status
  BY <1>9, <1>10 DEF Sent, Same
<1>14. op' \in Ops /\ OpFits(q, op')
  BY <1>1, <1>2, <1>7, <1>13
  DEF OpGoes, OpFits, VersionFits, CandidateFits, CallFits, StatusFits,
      Placed, Unseen, Building, Showing
<1>15. q \in Aggregates
  BY <1>10 DEF Sent
<1> QED
  BY <1>7, <1>12, <1>14, <1>15, PartsKeep

(* The proven events are acknowledged, one by one, ...                     *)
LEMMA AcknowledgeKeeps == ASSUME IInv, Acknowledge PROVE IInv'
<1>1. op.at = "ack" /\ op.v \in Versions
  BY DEF IInv, Fits, Acknowledge, At, OpFits, VersionFits, Placed
<1>2. CASE Continues
  BY <1>1, <1>2, ContinuesKeeps
<1>3. ASSUME NEW c \in Proven(project, op.v), Calls(<<"ack", op.v, c>>)
      PROVE  IInv'
  <2> DEFINE k == <<"ack", op.v, c>>
  <2>1. c \in Candidates /\ <<op.v, c>> \in project.proven
    BY DEF Proven
  <2>2. k \in Keys /\ k[1] = "ack" /\ k[2] = op.v /\ k[3] = c
    BY <1>1, <2>1, KeysOf
  <2>3. OpAsks(op, op', op.at, k, "effect") => EffectFits(project, op')
    <3> HIDE DEF k
    <3> QED
      BY <1>1, <2>1, <2>2 DEF OpAsks, EffectFits
  <2>4. Calls(k)
    BY <1>3
  <2> HIDE DEF k
  <2> QED
    BY <1>1, <2>2, <2>3, <2>4, CallsKeep
<1> QED
  BY <1>2, <1>3 DEF Acknowledge

(* ... until all of them are.                                              *)
LEMMA AcknowledgedKeeps == ASSUME IInv, Acknowledged PROVE IInv'
<1>1. /\ project \in Aggregates /\ op \in Ops /\ OpFits(project, op)
      /\ op.at = "ack" /\ op.call # "none" /\ "ack" \in Labels
      /\ Fits(project, op, backend, outbox, outside)
  BY DEF IInv, Fits, Acknowledged, Answered, Labels
<1>2. op.call = "effect" /\ op.key[1] = "ack"
  BY <1>1 DEF Ops, OpFits, CallFits, EffectFits
<1>3. WorldOn /\ project' = Done(project) /\ OpGoes(op, op', "ack")
  BY <1>1, ReturnsOn DEF Acknowledged
<1>4. /\ Done(project) \in Aggregates /\ Same(project, Done(project))
      /\ Stays(project, Done(project)) /\ (Done(project)).status = project.status
  BY <1>1, <1>2, DoneStays DEF Changes
<1>5. op' \in Ops /\ OpFits(Done(project), op')
  BY <1>1, <1>3, <1>4
  DEF OpGoes, OpFits, VersionFits, CandidateFits, CallFits, StatusFits, Same,
      Placed, Unseen, Building, Showing
<1> QED
  BY <1>3, <1>4, <1>5, StaysKeeps DEF Same

(* The customer had the review period once the preview was delivered.      *)
LEMMA ReviewKeeps == ASSUME IInv, Review PROVE IInv'
<1> DEFINE k == <<"preview", op.v, project.preview[op.v]>>
<1>1. /\ project \in Aggregates /\ op \in Ops /\ OpFits(project, op)
      /\ op.at = "review" /\ op.call = "none" /\ "deploy" \in Labels
  BY DEF IInv, Fits, Review, At, Labels
<1>2. op.v \in Versions /\ op.c \in Candidates /\ project.preview[op.v] = op.c
  BY <1>1 DEF OpFits, VersionFits, CandidateFits, Placed, Showing
<1>3. CASE Goes("end")
  BY <1>3, EndKeepsOn
<1>4. CASE project.mail[k] = "delivered" /\ Goes("deploy")
  <2>1. WorldOn /\ project' = project /\ OpGoes(op, op', "deploy")
    BY <1>1, <1>4, SavesOn DEF Goes
  <2>2. op' \in Ops /\ OpFits(project, op')
    BY <1>1, <1>2, <1>4, <2>1
    DEF OpGoes, OpFits, VersionFits, CandidateFits, CallFits, StatusFits,
        Placed, Unseen, Building, Showing
  <2> QED
    BY <2>1, <2>2, OpKeeps
<1> QED
  BY <1>3, <1>4 DEF Review

(* What was shown is deployed, once; the release is of the candidate that  *)
(* was shown.                                                              *)
LEMMA DeployKeeps == ASSUME IInv, Deploy PROVE IInv'
<1> DEFINE v == op.v
           c == op.c
           k == <<"deploy", op.v, op.c>>
           old == project.eff[k]
           t == Progress(project, "deploying")
           q == [project EXCEPT !.eff[k] = Queued(@), !.status = t]
<1>1. /\ project \in Aggregates /\ op \in Ops /\ OpFits(project, op)
      /\ op.at = "deploy" /\ op.call = "none" /\ "finish" \in Labels
      /\ "deploy" \in Labels /\ ShownFits(project, outside)
  BY DEF IInv, Fits, Deploy, At, Labels
<1>2. v \in Versions /\ c \in Candidates /\ project.preview[v] = c
  BY <1>1 DEF OpFits, VersionFits, CandidateFits, Placed, Showing
<1>3. CASE Goes("end")
  BY <1>3, EndKeepsOn
<1>4. CASE project.release[v] # 0 /\ Goes("finish")
  <2>1. project.release[v] \in Candidates
    BY <1>1, <1>2, <1>4 DEF Aggregates
  <2>2. project.release[v] = c
    BY <1>1, <1>2, <2>1 DEF ShownFits
  <2>3. WorldOn /\ project' = project /\ OpGoes(op, op', "finish")
    BY <1>1, <1>4, SavesOn DEF Goes
  <2>4. op' \in Ops /\ OpFits(project, op')
    BY <1>1, <1>2, <2>2, <2>3
    DEF OpGoes, OpFits, VersionFits, CandidateFits, CallFits, StatusFits,
        Placed, Unseen, Building, Showing
  <2> QED
    BY <2>3, <2>4, OpKeeps
<1>5. CASE Asks(q, "deploy", k, "query")
  <2>1. k \in Keys /\ k[1] = "deploy" /\ k = <<"deploy", op.v, op.c>>
    BY <1>2, KeysOf
  <2>2. Queued(old) \in Sound
        /\ ((Queued(old)).st = "completed" <=> old.st = "completed")
    <3>1. old \in Sound
      BY <1>1, <2>1 DEF Aggregates
    <3> QED
      BY <3>1, EffectsStaySound, EffectStatus
  <2>3. t \in {"deploying", "needs_clarification"}
    BY DEF Progress
  <2> HIDE DEF k, t
  <2>4. Changes(project, q, k, Queued(old)) /\ q.status = t
    BY <1>1, <2>1, <2>2, <2>3 DEF Changes, Aggregates, Same, Status
  <2> HIDE DEF q
  <2>5. WorldOn /\ project' = q /\ OpAsks(op, op', "deploy", k, "query")
    BY <1>1, <1>5, <2>1, WaitsOn
  <2>6. Stays(project, q)
    BY <1>1, <2>1, <2>2, <2>4, EffectStays
  <2>7. CallFits(q, op')
    BY <2>5 DEF OpAsks, CallFits
  <2>8. Same(project, q) /\ OpAsks(op, op', op.at, k, "query")
    BY <1>1, <2>4, <2>5 DEF Changes
  <2>9. q.status \notin Parked /\ q.status # "completed"
    BY <2>3, <2>4 DEF Parked
  <2>10. op' \in Ops /\ OpFits(q, op')
    BY <1>1, <2>1, <2>7, <2>8, <2>9, AskFits
  <2> QED
    BY <2>4, <2>5, <2>6, <2>8, <2>9, <2>10, StaysKeeps DEF Changes, Same
<1> QED
  BY <1>3, <1>4, <1>5 DEF Deploy

(* The artifact was downloaded; nothing is saved of that.                  *)
LEMMA DownloadedKeeps == ASSUME IInv, Downloaded PROVE IInv'
<1>1. /\ project \in Aggregates /\ op \in Ops /\ OpFits(project, op)
      /\ op.at = "deploy" /\ op.call # "none" /\ "upload" \in Labels
  BY DEF IInv, Fits, Downloaded, Answered, Labels
<1>2. WorldOn /\ project' = project /\ OpGoes(op, op', "upload")
  BY <1>1, ReturnsOn DEF Downloaded
<1>3. op' \in Ops /\ OpFits(project, op')
  BY <1>1, <1>2
  DEF OpGoes, OpFits, VersionFits, CandidateFits, CallFits, StatusFits,
      Placed, Unseen, Building, Showing
<1> QED
  BY <1>2, <1>3, OpKeeps

(* It is put into production if it is still in force.                      *)
LEMMA UploadKeeps == ASSUME IInv, Upload PROVE IInv'
<1>1. /\ project \in Aggregates /\ op \in Ops /\ OpFits(project, op)
      /\ op.at = "upload" /\ op.call = "none" /\ "upload" \in Labels
  BY DEF IInv, Fits, Upload, At, Labels
<1>2. /\ op.key = <<"deploy", op.v, op.c>> /\ op.key \in Keys \cup {NoKey}
  BY <1>1 DEF OpFits, CandidateFits, Ops
<1>3. CASE Goes("end")
  BY <1>3, EndKeepsOn
<1>4. CASE Latest(project, op.v) /\ Asks(project, "upload", op.key, "effect")
  <2>1. /\ WorldOn /\ project' = project
        /\ OpAsks(op, op', "upload", op.key, "effect")
    BY <1>1, <1>2, <1>4, WaitsOn
  <2>2. CallFits(project, op')
    BY <1>4, <2>1 DEF OpAsks, CallFits, EffectFits
  <2>3. op' \in Ops /\ OpFits(project, op')
    BY <1>1, <1>2, <2>1, <2>2, AskFits, StaysOn
  <2> QED
    BY <2>1, <2>3, OpKeeps
<1> QED
  BY <1>3, <1>4 DEF Upload

(* The release is recorded once it is in production.                       *)
LEMMA ReleasedKeeps == ASSUME IInv, Released PROVE IInv'
<1> DEFINE v == op.v
           c == op.c
           d == Done(project)
           t == Progress(project, "delivering")
           q == [d EXCEPT !.release[v] = c, !.status = t]
<1>1. /\ project \in Aggregates /\ op \in Ops /\ OpFits(project, op)
      /\ op.at = "upload" /\ op.call # "none" /\ "finish" \in Labels
  BY DEF IInv, Fits, Released, Answered, Labels
<1>2. /\ v \in Versions /\ c \in Candidates /\ project.preview[v] = c
      /\ op.key = <<"deploy", v, c>>
      /\ project.mail[<<"preview", v, c>>] = "delivered"
  BY <1>1 DEF OpFits, VersionFits, CandidateFits, Placed, Showing
<1>3. op.call = "effect" /\ op.key[1] = "deploy"
  BY <1>1, <1>2 DEF Ops, OpFits, CallFits
<1>4. Returns(q, "finish")
  BY DEF Released
<1>5. t \in {"delivering", "needs_clarification"}
  BY DEF Progress
<1> HIDE DEF t
<1>6. WorldOn /\ project' = q /\ OpGoes(op, op', "finish")
  <2> HIDE DEF q
  <2> QED
    BY <1>1, <1>4, ReturnsOn
<1>7. <<"deploy", v, c>> \in outside'
  <2>1. Acts(op.key)
    BY <1>3, <1>4 DEF Returns
  <2> QED
    BY <1>2, <1>3, <2>1 DEF Acts
<1>8. /\ d \in Aggregates /\ Same(project, d) /\ ProjectFits(d)
      /\ ShownFits(d, outside') /\ AcksFit(d, outbox') /\ RunsFit(d, backend')
  BY <1>3, <1>6, DoneFits
<1> HIDE DEF d
<1>9. /\ q \in Aggregates /\ q.eff = d.eff /\ q.runs = d.runs /\ q.st = d.st
      /\ q.release = [d.release EXCEPT ![v] = c] /\ q.release[v] = c
      /\ q.active = d.active /\ q.batch = d.batch /\ q.proven = d.proven
      /\ q.preview = d.preview /\ q.mail = d.mail /\ q.status = t
  BY <1>2, <1>5, <1>8 DEF Aggregates, Status
<1> HIDE DEF q
<1>10. ShownFits(q, outside')
  <2> SUFFICES ASSUME NEW w \in Versions, NEW x \in Candidates
               PROVE  /\ <<"preview", w, x>> \in outside' => q.preview[w] = x
                      /\ <<"deploy", w, x>> \in outside' =>
                           /\ q.preview[w] = x
                           /\ q.mail[<<"preview", w, x>>] = "delivered"
                      /\ q.mail[<<"preview", w, x>>] # "none"
                           => <<"preview", w, x>> \in outside'
                      /\ q.release[w] = x => <<"deploy", w, x>> \in outside'
    BY DEF ShownFits
  <2>1. /\ <<"preview", w, x>> \in outside' => d.preview[w] = x
        /\ <<"deploy", w, x>> \in outside' =>
             d.preview[w] = x /\ d.mail[<<"preview", w, x>>] = "delivered"
        /\ d.mail[<<"preview", w, x>>] # "none"
             => <<"preview", w, x>> \in outside'
        /\ d.release[w] = x => <<"deploy", w, x>> \in outside'
    BY <1>8 DEF ShownFits
  <2>2. q.release[w] = d.release[w] \/ (w = v /\ q.release[w] = c)
    BY <1>2, <1>8, <1>9 DEF Aggregates
  <2> QED
    BY <1>7, <1>9, <2>1, <2>2
<1>11. AcksFit(q, outbox')
  BY <1>8, <1>9 DEF AcksFit
<1>12. RunsFit(q, backend')
  <2>1. q.runs = d.runs /\ q.eff = d.eff /\ q.st = d.st
    BY <1>9
  <2> QED
    BY <1>8, <2>1 DEF RunsFit
<1>13. ProjectFits(q)
  <2>1. Savable(q)
    BY <1>5, <1>9 DEF Savable
  <2> QED
    BY <1>8, <1>9, <2>1 DEF ProjectFits
<1>14. op' \in Ops /\ OpFits(q, op')
  BY <1>1, <1>2, <1>5, <1>6, <1>8, <1>9
  DEF OpGoes, OpFits, VersionFits, CandidateFits, CallFits, StatusFits, Same,
      Placed, Unseen, Building, Showing, Parked
<1> QED
  BY <1>6, <1>9, <1>10, <1>11, <1>12, <1>13, <1>14, PartsKeep

(* What is refused for good ends the operation.                            *)
LEMMA RefusedKeeps ==
  ASSUME IInv, NEW q, q \in Aggregates, Stays(project, q),
         q.status = project.status, q.batch = project.batch,
         q.active = project.active, NEW k \in Keys, op.call = "none",
         Refused(q, k)
  PROVE  IInv'
<1>1. op \in Ops
  BY DEF IInv, Fits
<1>2. WorldOn
  BY DEF Refused, IInv, Fits, world, providers, bounds, Bounded, WorldOn
<1>3. /\ op' \in Ops /\ op'.at = "end" /\ op'.call = "none"
      /\ op'.then = op.then /\ op'.prior = op.prior
  BY <1>1 DEF Refused, Ops, Labels
<1>4. project' = Blamed(q, k, FALSE)
  BY DEF Refused
<1> QED
  BY <1>2, <1>3, <1>4, StopsKeep

(* What becomes of the effect of the proof summary leaves the rest as it   *)
(* is, as does a final mail that is queued.                                *)
LEMMA ProofChanges ==
  ASSUME IInv, NEW k \in Keys, NEW e \in Sound, NEW q,
         q = [project EXCEPT !.eff[k] = e],
         project.eff[k].st = "completed" => e.st = "completed",
         k[1] # "cancel"
  PROVE  /\ Changes(project, q, k, e) /\ Stays(project, q)
         /\ q.status = project.status
<1>1. project \in Aggregates
  BY DEF IInv, Fits
<1>2. Changes(project, q, k, e) /\ q.status = project.status
  BY <1>1 DEF Changes, Aggregates, Same
<1> QED
  BY <1>1, <1>2, EffectStays

(* The proof summary is taken up, or rejected, ...                         *)
LEMMA FinishKeeps == ASSUME IInv, Finish PROVE IInv'
<1> DEFINE k == <<"proof", op.v, op.c>>
           old == project.eff[k]
           queued == [project EXCEPT !.eff[k] = Queued(@)]
<1>1. /\ project \in Aggregates /\ op \in Ops /\ OpFits(project, op)
      /\ op.at = "finish" /\ op.call = "none"
      /\ {"prove", "hand", "end"} \subseteq Labels
  BY DEF IInv, Fits, Finish, At, Labels
<1>2. op.v \in Versions /\ op.c \in Candidates
  BY <1>1 DEF OpFits, VersionFits, CandidateFits, Placed, Showing
<1>3. k \in Keys /\ k[1] # "cancel" /\ old \in Sound
  BY <1>1, <1>2, KeysOf DEF Aggregates
<1>4. CASE Goes("end")
  BY <1>4, EndKeepsOn
<1>5. ASSUME NEW l \in {"prove", "hand"}, Latest(project, op.v),
             NEW q, q \in Aggregates, Same(project, q), Stays(project, q),
             q.status = project.status, Saves(q, l)
      PROVE  IInv'
  <2>1. WorldOn /\ project' = q /\ OpGoes(op, op', l)
    BY <1>1, <1>5, SavesOn
  <2>2. Latest(q, op.v)
    BY <1>5, SameFits
  <2>3. op' \in Ops /\ OpFits(q, op')
    BY <1>1, <1>5, <2>1, <2>2
    DEF OpGoes, OpFits, VersionFits, CandidateFits, CallFits, StatusFits, Same,
        Placed, Unseen, Building, Showing
  <2> QED
    BY <1>5, <2>1, <2>3, StaysKeeps DEF Same
<1>6. CASE Latest(project, op.v) /\ old.st = "absent" /\ Saves(queued, "prove")
  <2>1. Queued(old) \in Sound
    BY <1>3, EffectsStaySound
  <2>2. queued = [project EXCEPT !.eff[k] = Queued(old)]
    OBVIOUS
  <2> HIDE DEF queued, k
  <2>3. /\ Changes(project, queued, k, Queued(old)) /\ Stays(project, queued)
        /\ queued.status = project.status
    BY <1>3, <1>6, <2>1, <2>2, ProofChanges
  <2> QED
    BY <1>5, <1>6, <2>3 DEF Changes
<1>7. CASE old.st = "absent" /\ Rejects(k)
  <2> DEFINE e == DeadLettered(Queued(old))
             q0 == [project EXCEPT !.eff[k] = e]
             q == [q0 EXCEPT !.status = "needs_operator_attention"]
  <2>1. e \in Sound
    BY <1>3, EffectsStaySound
  <2>2. Rejected(k) = q
    BY <1>1 DEF Rejected, Aggregates
  <2> HIDE DEF e, k
  <2>3. Changes(project, q0, k, e) /\ Stays(project, q0)
    BY <1>3, <1>7, <2>1, ProofChanges
  <2> HIDE DEF q0
  <2>4. /\ q \in Aggregates /\ Same(q0, q) /\ q.eff = q0.eff
        /\ q.status = "needs_operator_attention"
    BY <2>3 DEF Changes, Aggregates, Same, Status, Over, Parked
  <2>5. Saves(q, "end")
    BY <1>7, <2>2 DEF Rejects
  <2> HIDE DEF q
  <2>6. Stays(project, q) /\ q.batch = project.batch
    BY <2>3, <2>4, StatusStays, StaysOn DEF Changes, Same
  <2>7. WorldOn /\ project' = q /\ OpGoes(op, op', "end")
    BY <1>1, <2>5, SavesOn
  <2> QED
    BY <2>4, <2>6, <2>7, EndsKeeps
<1>8. ASSUME NEW l \in {"prove", "hand"}, Latest(project, op.v), Goes(l)
      PROVE  IInv'
  <2>1. Saves(project, l)
    BY <1>8 DEF Goes
  <2> QED
    BY <1>1, <1>5, <1>8, <2>1, StaysOn
<1>9. CASE Throws(FALSE) /\ UNCHANGED world
  BY <1>9, ThrowsKeeps
<1> QED
  BY <1>4, <1>6, <1>7, <1>8, <1>9 DEF Finish

(* ... published, ...                                                      *)
LEMMA ProveKeeps == ASSUME IInv, Prove PROVE IInv'
<1> DEFINE k == <<"proof", op.v, op.c>>
           e == Completed(project.eff[k])
           q == [project EXCEPT !.eff[k] = Completed(@)]
<1>1. /\ project \in Aggregates /\ op \in Ops /\ OpFits(project, op)
      /\ op.at = "prove" /\ op.call = "none"
  BY DEF IInv, Fits, Prove, At
<1>2. op.v \in Versions /\ op.c \in Candidates
  BY <1>1 DEF OpFits, VersionFits, CandidateFits, Placed, Showing
<1>3. /\ k \in Keys /\ k[1] # "cancel" /\ project.eff[k] \in Sound
  BY <1>1, <1>2, KeysOf DEF Aggregates
<1>4. CASE Refused(project, k)
  BY <1>1, <1>3, <1>4, RefusedKeeps, StaysOn
<1>5. CASE /\ project' = q /\ op' = [op EXCEPT !.at = "hand", !.key = k]
           /\ UNCHANGED world
  <2>1. e \in Sound /\ e.st = "completed"
    BY <1>3, EffectsStaySound, EffectStatus
  <2>2. q = [project EXCEPT !.eff[k] = e]
    OBVIOUS
  <2> HIDE DEF e, q, k
  <2>3. /\ Changes(project, q, k, e) /\ Stays(project, q)
        /\ q.status = project.status
    BY <1>3, <2>1, <2>2, ProofChanges
  <2>4. q \in Aggregates /\ Same(project, q)
    BY <2>3 DEF Changes
  <2>5. Latest(project, op.v)
    BY <1>1 DEF OpFits, CandidateFits
  <2>6. Latest(q, op.v)
    BY <2>4, <2>5, SameFits
  <2>7. /\ op' \in Ops /\ op'.at = "hand" /\ op'.call = "none"
        /\ op'.then = op.then /\ op'.v = op.v /\ op'.c = op.c
        /\ op'.prior = op.prior /\ op'.replay = op.replay
    BY <1>1, <1>3, <1>5 DEF Ops, Labels
  <2>8. OpFits(q, op')
    BY <1>1, <2>3, <2>4, <2>6, <2>7
    DEF OpFits, VersionFits, CandidateFits, CallFits, StatusFits, Same,
        Placed, Unseen, Building, Showing
  <2>9. WorldOn
    BY <1>5 DEF IInv, Fits, world, providers, bounds, Bounded, WorldOn
  <2> QED
    BY <1>5, <2>3, <2>4, <2>7, <2>8, <2>9, StaysKeeps DEF Same
<1> QED
  BY <1>4, <1>5 DEF Prove

(* ... and the final mail is sent, unless it was, ...                      *)
LEMMA HandOverKeeps == ASSUME IInv, HandOver PROVE IInv'
<1> DEFINE k == <<"final", op.v, op.c>>
           old == project.eff[k]
           q == [project EXCEPT !.eff[k] = Queued(@)]
<1>1. /\ project \in Aggregates /\ op \in Ops /\ OpFits(project, op)
      /\ op.at = "hand" /\ op.call = "none" /\ "end" \in Labels
  BY DEF IInv, Fits, HandOver, At, Labels
<1>2. /\ op.v \in Versions /\ op.c \in Candidates /\ Latest(project, op.v)
  BY <1>1 DEF OpFits, VersionFits, CandidateFits, Placed, Showing
<1>3. k \in Keys /\ k[1] = "final" /\ old \in Sound
  BY <1>1, <1>2, KeysOf DEF Aggregates
<1>4. CASE Goes("end")
  BY <1>4, EndKeepsOn
<1>5. CASE project.eff[k].st # "completed" /\ Calls(k)
  <2>1. OpAsks(op, op', op.at, k, "effect") => EffectFits(project, op')
    BY <1>1, <1>2, <1>5 DEF OpAsks, EffectFits
  <2> HIDE DEF k
  <2> QED
    BY <1>1, <1>3, <1>5, <2>1, CallsKeep
<1>6. /\ q \in Aggregates /\ Same(project, q) /\ Stays(project, q)
      /\ q.status = project.status
  <2>1. Queued(old) \in Sound /\ (old.st = "completed" => (Queued(old)).st = "completed")
    BY <1>3, EffectsStaySound, EffectStatus
  <2>2. q = [project EXCEPT !.eff[k] = Queued(old)]
    OBVIOUS
  <2> HIDE DEF q, k
  <2> QED
    BY <1>3, <2>1, <2>2, ProofChanges DEF Changes
<1> HIDE DEF q, k
<1>7. CASE Saves(q, "end")
  <2>1. WorldOn /\ project' = q /\ OpGoes(op, op', "end")
    BY <1>1, <1>7, SavesOn
  <2> QED
    BY <1>6, <2>1, EndsKeeps DEF Same
<1>8. CASE Refused(q, k)
  BY <1>1, <1>3, <1>6, <1>8, RefusedKeeps DEF Same
<1> QED
  BY <1>4, <1>5, <1>7, <1>8 DEF HandOver, q, k

(* ... and is followed until it is delivered.                              *)
LEMMA FinishedKeeps == ASSUME IInv, Finished PROVE IInv'
<1> DEFINE v == op.v
           c == op.c
           d == Done(project)
           t == Progress(project, "delivering")
           q == [d EXCEPT !.mail[op.key] = "sent", !.status = t]
<1>1. /\ project \in Aggregates /\ op \in Ops /\ OpFits(project, op)
      /\ op.at = "hand" /\ op.call # "none" /\ "end" \in Labels
      /\ ProjectFits(project)
  BY DEF IInv, Fits, Finished, Answered, Labels
<1>2. v \in Versions /\ c \in Candidates
  BY <1>1 DEF OpFits, VersionFits, CandidateFits, Placed, Showing
<1>3. op.call = "effect"
  BY <1>1 DEF Ops, OpFits, CallFits
<1>4. /\ op.key = <<"final", v, c>> /\ op.key[1] = "final"
      /\ project.eff[op.key].st # "completed"
  <2>1. EffectFits(project, op)
    BY <1>1, <1>3 DEF OpFits, CallFits
  <2> QED
    BY <1>1, <2>1 DEF EffectFits
<1>5. op.key \in Tracked /\ project.mail[op.key] = "none"
  <2>1. op.key \in Tracked
    BY <1>2, <1>4, KeysOf
  <2> QED
    BY <1>1, <1>4, <2>1 DEF ProjectFits
<1>6. Returns(q, "end")
  BY DEF Finished
<1>7. t \in {"delivering", "needs_clarification"}
  BY DEF Progress
<1> HIDE DEF t
<1>8. WorldOn /\ project' = q /\ OpGoes(op, op', "end")
  <2> HIDE DEF q
  <2> QED
    BY <1>1, <1>6, ReturnsOn
<1>9. /\ d \in Aggregates /\ Same(project, d) /\ ProjectFits(d)
      /\ d.eff[op.key].st = "completed"
      /\ ShownFits(d, outside') /\ AcksFit(d, outbox') /\ RunsFit(d, backend')
  BY <1>3, <1>4, <1>8, DoneFits
<1> HIDE DEF d
<1>10. Sent(d, q, op.key) /\ q.status = t
  BY <1>5, <1>7, <1>9 DEF Sent, Aggregates, Status
<1> HIDE DEF q
<1>11. d.mail[op.key] = "none" /\ q.status # "completed"
  BY <1>5, <1>7, <1>9, <1>10 DEF Same
<1>12. /\ ProjectFits(q) /\ ShownFits(q, outside') /\ AcksFit(q, outbox')
       /\ RunsFit(q, backend')
  BY <1>4, <1>5, <1>9, <1>10, <1>11, SentFits
<1>13. op' \in Ops /\ OpFits(q, op')
  BY <1>1, <1>8
  DEF OpGoes, OpFits, VersionFits, CandidateFits, CallFits, StatusFits,
      Placed, Unseen, Building, Showing
<1>14. q \in Aggregates
  BY <1>10 DEF Sent
<1> QED
  BY <1>8, <1>12, <1>13, <1>14, PartsKeep
-----------------------------------------------------------------------------
(* The invariant.                                                          *)

(* Nothing is there when the first version is paid for.                    *)
LEMMA InitFits == Init => IInv
<1> SUFFICES ASSUME Init PROVE IInv
  OBVIOUS
<1>1. NoEffect \in Sound
  BY MaxAttemptsAssumption DEF NoEffect, Sound, Effects, MaxAttemptsAssumption
<1>2. 1 \in Versions /\ 1 \in Nat
  BY PlanAssumption DEF PlanAssumption
<1>3. project \in Aggregates
  BY <1>1, <1>2 DEF Init, Aggregates, ForAll, Status, Over, BatchStatus
<1>4. backend \in Backends /\ outbox \in Outboxes /\ outside \in Outsides
  BY DEF Init, Backends, Outboxes, Outsides, ForAll
<1>5. /\ project.status = "paid" /\ project.batch = 0
      /\ \A v \in Versions :
           /\ project.st[v] = "none" /\ project.preview[v] = 0
           /\ project.release[v] = 0
      /\ \A v \in Versions, c \in Candidates : project.runs[v][c] = "none"
      /\ \A k \in Tracked : project.mail[k] = "none"
      /\ \A k \in Keys : project.eff[k].st = "absent"
  BY <1>2 DEF Init, ForAll, NoEffect
<1>6. ProjectFits(project)
  BY <1>5 DEF ProjectFits, Savable
<1>7. op \in Ops /\ OpFits(project, op)
  BY IdleFits DEF Init
<1>8. ShownFits(project, outside)
  <2> SUFFICES ASSUME NEW v \in Versions, NEW c \in Candidates
               PROVE  /\ project.mail[<<"preview", v, c>>] = "none"
                      /\ project.release[v] # c /\ outside = {}
    BY DEF ShownFits
  <2> QED
    BY <1>5, KeysOf DEF Init
<1>9. AcksFit(project, outbox)
  BY DEF Init, ForAll, AcksFit
<1>10. RunsFit(project, backend)
  <2> SUFFICES ASSUME NEW v \in Versions, NEW c \in Candidates
               PROVE  /\ project.runs[v][c] = "none"
                      /\ project.eff[<<"cancel", v, c>>].st = "absent"
    BY DEF RunsFit, Terminal
  <2>1. <<"cancel", v, c>> \in Keys
    BY KeysOf
  <2> QED
    BY <1>5, <2>1
<1>11. Bounded
  BY BoundsAreNat DEF Init, Bounded
<1> QED
  BY <1>3, <1>4, <1>6, <1>7, <1>8, <1>9, <1>10, <1>11 DEF IInv, Fits

(* Every step of an operation keeps it, ...                                *)
LEMMA StepKeeps == ASSUME IInv, Step PROVE IInv'
<1>1. CASE \/ End \/ LookForMail \/ MailChecked \/ Route
           \/ Process \/ Understood \/ Clarify \/ Clarified
           \/ Confirm \/ Confirmed \/ Paid \/ Redispatch
  BY <1>1, EndKeeps, LookForMailKeeps, MailCheckedKeeps, RouteKeeps,
     ProcessKeeps, UnderstoodKeeps, ClarifyKeeps, ClarifiedKeeps,
     ConfirmKeeps, ConfirmedKeeps, PaidKeeps, RedispatchKeeps
<1>2. CASE \/ CancelRun \/ RunCancelled \/ Supersede \/ Steer \/ Steered
           \/ Dispatch \/ Assign \/ Assigned \/ Access \/ Accessed
           \/ Batch \/ Open \/ Watch \/ Refreshed \/ Ingested
           \/ Decide \/ Retire \/ Finalize
  BY <1>2, CancelRunKeeps, RunCancelledKeeps, SupersedeKeeps, SteerKeeps,
     SteeredKeeps, DispatchKeeps, AssignKeeps, AssignedKeeps, AccessKeeps,
     AccessedKeeps, BatchKeeps, OpenKeeps, WatchKeeps, RefreshedKeeps,
     IngestedKeeps, DecideKeeps, RetireKeeps, FinalizeKeeps
<1>3. CASE \/ Materialize \/ Materialized \/ Show \/ Shown
           \/ Acknowledge \/ Acknowledged \/ Review
           \/ Deploy \/ Downloaded \/ Upload \/ Released
           \/ Finish \/ Prove \/ HandOver \/ Finished
  BY <1>3, MaterializeKeeps, MaterializedKeeps, ShowKeeps, ShownKeeps,
     AcknowledgeKeeps, AcknowledgedKeeps, ReviewKeeps, DeployKeeps,
     DownloadedKeeps, UploadKeeps, ReleasedKeeps, FinishKeeps, ProveKeeps,
     HandOverKeeps, FinishedKeeps
<1> QED
  BY <1>1, <1>2, <1>3 DEF Step

(* ... and so does what happens beside it.                                 *)
LEMMA NextKeeps == IInv /\ [Next]_vars => IInv'
<1> SUFFICES ASSUME IInv, [Next]_vars PROVE IInv'
  OBVIOUS
<1>1. CASE Step \/ Reconcile \/ ReplayPayment \/ Crash
  BY <1>1, StepKeeps, ReconcileKeeps, ReplayKeeps, CrashKeeps
<1>2. CASE \/ \E how \in {"lost", "transient", "permanent"} : CallFails(how)
           \/ \E m \in Mails : MailArrives(m)
           \/ \E m \in Messages : Receive(m)
           \/ \E d \in Deadlines : Elapse(d)
  BY <1>2, CallFailsKeeps, ArrivalsKeep, ReceiveKeeps
<1>3. CASE \/ \E k \in Tracked : \E result \in {"delivered", "bounced"} :
                Webhook(k, result)
           \/ \E c \in Candidates : RunEnds(c) \/ Announce(c)
  BY <1>3, WebhookKeeps, RunEndsKeeps, AnnounceKeeps
<1>4. CASE UNCHANGED vars
  BY <1>4 DEF vars, world, providers, bounds, IInv, Bounded
<1> QED
  BY <1>1, <1>2, <1>3, <1>4 DEF Next

(* The inductive invariant holds in every state the project reaches.       *)
LEMMA DeliveryInvariant == Spec => []IInv
BY InitFits, NextKeeps, PTL DEF Spec
-----------------------------------------------------------------------------
(* What it implies.                                                        *)

(* The aggregate, the operation and what the providers hold keep their     *)
(* types; in particular no effect is tried more often than                 *)
(* effectMaxAttempts.                                                      *)
THEOREM DeliveryTypeCorrect == Spec => []TypeOK
<1>1. IInv => TypeOK
  <2> SUFFICES ASSUME IInv PROVE TypeOK
    OBVIOUS
  <2>1. /\ project \in Aggregates /\ op \in Ops /\ backend \in Backends
        /\ outbox \in Outboxes /\ outside \in Outsides /\ Bounded
    BY DEF IInv, Fits
  <2>2. project \in Projects
    BY <2>1 DEF Aggregates, Projects, Sound
  <2> QED
    BY <2>1, <2>2 DEF TypeOK, Backends, Outboxes, Outsides, Bounded
<1> QED
  BY <1>1, DeliveryInvariant, PTL

(* Nothing is put into production that the customer was not shown first,   *)
(* in a preview whose mail was delivered, for the same version.            *)
THEOREM ReleasesFollowDelivery == Spec => []ReleasedAfterDelivery
<1>1. IInv => ReleasedAfterDelivery
  BY DEF IInv, Fits, ShownFits, ReleasedAfterDelivery
<1> QED
  BY <1>1, DeliveryInvariant, PTL

(* A completed project has the version in force in production, the release *)
(* the customer was shown.                                                 *)
THEOREM CompletedProjectsAreInForce == Spec => []CompletedIsInForce
<1>1. IInv => CompletedIsInForce
  <2> SUFFICES ASSUME IInv, project.status = "completed"
               PROVE  /\ project.batch = project.active
                      /\ project.release[project.active] # 0
                      /\ project.release[project.active]
                           = project.preview[project.active]
    BY DEF CompletedIsInForce
  <2>1. /\ project.batch = project.active
        /\ project.release[project.active] # 0
    BY DEF IInv, Fits, ProjectFits, Savable
  <2>2. /\ project.active \in Versions
        /\ project.release[project.active] \in Candidates
    BY <2>1 DEF IInv, Fits, Aggregates
  <2>3. ShownFits(project, outside)
    BY DEF IInv, Fits
  <2> QED
    BY <2>1, <2>2, <2>3 DEF ShownFits
<1> QED
  BY <1>1, DeliveryInvariant, PTL

(* A proven event is acknowledged to the backend, which then forgets it,   *)
(* only after it was saved, across every crash and lost answer.            *)
THEOREM AcknowledgedAreSaved == Spec => []AcknowledgedEventsAreSaved
<1>1. IInv => AcknowledgedEventsAreSaved
  BY DEF IInv, Fits, AcksFit, AcknowledgedEventsAreSaved
<1> QED
  BY <1>1, DeliveryInvariant, PTL

(* The runs a superseded batch knows of do not go on.                      *)
THEOREM SupersededAreCancelled == Spec => []SupersededRunsAreCancelled
<1>1. IInv => SupersededRunsAreCancelled
  BY DEF IInv, Fits, RunsFit, SupersededRunsAreCancelled
<1> QED
  BY <1>1, DeliveryInvariant, PTL
-----------------------------------------------------------------------------
(* What a step can do that the customer sees: let a provider act for the   *)
(* effect the operation waits for, or put the next version in force.  And  *)
(* it begins nothing for the customer while a message is open.             *)
Shape ==
  /\ outside' = outside \/ (op.call = "effect" /\ Acts(op.key))
  /\ \/ project'.active = project.active
     \/ /\ project.active + 1 \in Versions
        /\ project'.active = project.active + 1 /\ outside' = outside
  /\ op'.call = "effect" =>
       \/ op.call = "effect" \/ op'.at \notin {"show", "upload", "hand"}
       \/ inbound = {} /\ Latest(project, op'.v)

(* A step without a call.                                                  *)
LEMMA SavesShape ==
  ASSUME op \in Ops, NEW p, NEW l, Saves(p, l), p.active = project.active
  PROVE  Shape
<1>1. op'.call = "none"
  BY DEF Saves, GoesTo, Ops
<1> QED
  BY <1>1 DEF Saves, world, providers, Shape

(* The operation just goes on.                                             *)
LEMMA GoesShape == ASSUME op \in Ops, NEW l, Goes(l) PROVE Shape
BY SavesShape DEF Goes

(* An answer arrives.                                                      *)
LEMMA ReturnsShape ==
  ASSUME op \in Ops, NEW p, NEW l, Returns(p, l), p.active = project.active
  PROVE  Shape
<1>1. op'.call = "none"
  BY DEF Returns, GoesTo, Ops
<1> QED
  BY <1>1 DEF Returns, providers, Shape

(* A call is made from where the messages need not be looked at.           *)
LEMMA AsksShape ==
  ASSUME op \in Ops, NEW p, NEW l, NEW k, NEW call, Asks(p, l, k, call),
         p.active = project.active,
         call = "query" \/ l \notin {"show", "upload", "hand"}
  PROVE  Shape
<1>1. op'.call = call /\ op'.at = l
  BY DEF Asks, Ops
<1> QED
  BY <1>1 DEF Asks, world, providers, Shape

(* The operation turns to something else.                                  *)
LEMMA TurnsShape ==
  ASSUME op'.call = op.call \/ op'.call = "none", UNCHANGED <<project, world>>
  PROVE  Shape
BY DEF world, providers, Shape

(* The steps of an operation that does not wait.                           *)
LEMMA PlainShape ==
  ASSUME IInv,
         \/ End \/ Route \/ Process \/ Paid \/ Redispatch \/ Batch \/ Open
         \/ Watch \/ Review \/ Supersede \/ Decide \/ Retire \/ Finalize
         \/ Dispatch
  PROVE  Shape
<1>1. project \in Aggregates /\ op \in Ops
  BY DEF IInv, Fits
<1>2. CASE End
  BY <1>2 DEF End, Idle, providers, Shape
<1>3. CASE Route
  <2>1. ASSUME NEW l, NEW t, Enters(l, t) PROVE Shape
    <3>1. op'.call = op.call /\ UNCHANGED <<project, world>>
      BY <1>1, <2>1 DEF Enters, Ops
    <3> QED
      BY <3>1, TurnsShape
  <2>2. CASE Goes("end")
    BY <1>1, <2>2, GoesShape
  <2>3. CASE /\ \/ op' = [op EXCEPT !.at = "clarify", !.then = "batch",
                                    !.c = project.questions]
                \/ op' = [op EXCEPT !.at = "process", !.then = "batch",
                                    !.prior = Stable(project)]
             /\ UNCHANGED <<project, world>>
    <3>1. op'.call = op.call
      <4> HIDE DEF Stable
      <4> QED
        BY <1>1, <2>3 DEF Ops
    <3> QED
      BY <2>3, <3>1, TurnsShape
  <2> QED
    BY <1>3, <2>1, <2>2, <2>3 DEF Route
<1>4. CASE Process
  BY <1>1, <1>4, AsksShape DEF Process
<1>5. CASE Paid
  <2>1. op'.call = op.call
    BY <1>1, <1>5 DEF Paid, Ops
  <2>2. project'.active = project.active
    BY <1>1, <1>5 DEF Paid, Aggregates
  <2> QED
    BY <1>5, <2>1, <2>2 DEF Paid, world, providers, Shape
<1>6. CASE Redispatch
  <2>1. op'.call = op.call
    BY <1>1, <1>6 DEF Redispatch, Ops
  <2> QED
    BY <1>6, <2>1, TurnsShape DEF Redispatch
<1>7. CASE Batch
  <2>1. CASE Goes("end")
    BY <1>1, <2>1, GoesShape
  <2>2. CASE ~Goes("end")
    <3>1. op'.call = op.call /\ UNCHANGED <<project, world>>
      BY <1>1, <1>7, <2>2 DEF Batch, Ops
    <3> QED
      BY <3>1, TurnsShape
  <2> QED
    BY <2>1, <2>2
<1>8. CASE Open
  <2>1. CASE Goes("watch")
    BY <1>1, <2>1, GoesShape
  <2>2. CASE Enters("dispatch", "watch")
    <3>1. op'.call = op.call /\ UNCHANGED <<project, world>>
      BY <1>1, <2>2 DEF Enters, Ops
    <3> QED
      BY <3>1, TurnsShape
  <2> QED
    BY <1>8, <2>1, <2>2 DEF Open
<1>9. CASE Watch
  <2>1. CASE Asks(project, "refresh", op.key, "query")
    BY <1>1, <2>1, AsksShape
  <2>2. CASE ~Asks(project, "refresh", op.key, "query")
    <3>1. op'.call = op.call /\ UNCHANGED <<project, world>>
      BY <1>1, <1>9, <2>2 DEF Watch, Enters, Ops
    <3> QED
      BY <3>1, TurnsShape
  <2> QED
    BY <2>1, <2>2
<1>10. CASE Review
  BY <1>1, <1>10, GoesShape DEF Review
<1>11. CASE Supersede
  <2>1. ASSUME NEW v PROVE [project EXCEPT !.st[v] = "cancelled"].active
                             = project.active
    BY <1>1 DEF Aggregates
  <2> QED
    BY <1>1, <1>11, <2>1, GoesShape, SavesShape DEF Supersede
<1>12. CASE Decide
  <2> DEFINE q == [project EXCEPT !.st[op.v] = "verifying",
                                  !.grace = @ \cup {op.v},
                                  !.status = Progress(project, "verifying")]
  <2>1. q.active = project.active
    BY <1>1 DEF Aggregates
  <2>2. (\E l \in Labels : Goes(l)) \/ Saves(q, "end")
    BY <1>12 DEF Decide, Labels
  <2> HIDE DEF q
  <2> QED
    BY <1>1, <2>1, <2>2, GoesShape, SavesShape
<1>13. CASE Retire
  <2>1. project'.active = project.active
    BY <1>1, <1>13 DEF Retire, Aggregates
  <2>2. op'.call = "none"
    BY <1>1, <1>13 DEF Retire, GoesTo, Ops
  <2> QED
    BY <1>13, <2>1, <2>2 DEF Retire, providers, Shape
<1>14. CASE Finalize
  <2> DEFINE q == [project EXCEPT !.st[op.v] = "failed",
                     !.status = Progress(project, "no_proven_candidate")]
  <2>1. q.active = project.active
    BY <1>1 DEF Aggregates
  <2>2. CASE Saves(q, "end")
    <3> HIDE DEF q
    <3> QED
      BY <1>1, <2>1, <2>2, SavesShape
  <2>3. CASE ~Saves(q, "end")
    <3>1. op'.call = op.call /\ UNCHANGED <<project, world>>
      BY <1>1, <1>14, <2>3 DEF Finalize, Enters, Ops
    <3> QED
      BY <3>1, TurnsShape
  <2> QED
    BY <2>2, <2>3
<1>15. CASE Dispatch
  <2>1. CASE \E l \in Labels : Goes(l)
    BY <1>1, <2>1, GoesShape
  <2>2. CASE ~\E l \in Labels : Goes(l)
    <3>1. project'.active = project.active
      BY <1>1, <1>15, <2>2 DEF Dispatch, Labels, Aggregates
    <3>2. op'.call = "none" /\ UNCHANGED providers
      BY <1>1, <1>15, <2>2 DEF Dispatch, Labels, GoesTo, Ops
    <3> QED
      BY <3>1, <3>2 DEF providers, Shape
  <2> QED
    BY <2>1, <2>2
<1> QED
  BY <1>2, <1>3, <1>4, <1>5, <1>6, <1>7, <1>8, <1>9, <1>10, <1>11, <1>12,
     <1>13, <1>14, <1>15

(* The answer to an effect leaves the plan alone, ...                      *)
LEMMA DoneActive ==
  ASSUME project \in Aggregates PROVE (Done(project)).active = project.active
BY DEF Done, Aggregates

(* ... and so does its failure.                                            *)
LEMMA ThrowsShape ==
  ASSUME project \in Aggregates, op \in Ops, NEW retryable \in BOOLEAN,
         Throws(retryable)
  PROVE  project'.active = project.active /\ op'.call = "none"
<1>1. op.key \in Keys \cup {NoKey}
  BY DEF Ops
<1>2. Same(project, project')
  BY <1>1, BlamedStays DEF Throws
<1>3. op'.call = "none"
  BY DEF Throws, GoesTo, Ops
<1> QED
  BY <1>2, <1>3 DEF Same

(* A call is made where nothing is open.                                   *)
LEMMA HeardShape ==
  ASSUME project \in Aggregates, op \in Ops, NEW p, NEW l, NEW k, NEW call,
         Asks(p, l, k, call), p.active = project.active,
         inbound = {}, Latest(project, op.v)
  PROVE  Shape
<1>1. op'.v = op.v
  BY DEF Asks, Ops
<1> QED
  BY <1>1 DEF Asks, world, providers, Shape

(* An effect is queued and its provider is asked.                          *)
LEMMA CallsShape ==
  ASSUME project \in Aggregates, op \in Ops, NEW k, Calls(k),
         \/ op.at \notin {"show", "upload", "hand"}
         \/ inbound = {} /\ Latest(project, op.v)
  PROVE  Shape
<1>1. [project EXCEPT !.eff[k] = Queued(@)].active = project.active
  BY DEF Aggregates
<1>2. CASE op.at \notin {"show", "upload", "hand"}
  BY <1>1, <1>2, AsksShape DEF Calls
<1>3. CASE inbound = {} /\ Latest(project, op.v)
  BY <1>1, <1>3, HeardShape DEF Calls
<1> QED
  BY <1>2, <1>3

(* What is refused asks for nothing more.                                  *)
LEMMA RefusedShape ==
  ASSUME op \in Ops, op.call = "none", NEW q \in Aggregates,
         q.active = project.active, NEW k \in Keys, Refused(q, k)
  PROVE  Shape
<1>1. op'.call = "none"
  BY DEF Refused, Ops
<1>2. project'.active = project.active
  BY BlamedStays DEF Refused, Same
<1> QED
  BY <1>1, <1>2 DEF Refused, world, providers, Shape

(* The effects of a batch and of the customer's messages, their answers,   *)
(* and the acts the customer sees.                                         *)
LEMMA EffectShape ==
  ASSUME IInv,
         \/ Clarified \/ Confirm \/ Confirmed \/ Steered \/ Accessed
         \/ Access \/ Show \/ Shown \/ Acknowledge \/ Acknowledged
         \/ Materialize \/ Downloaded \/ Upload
         \/ Finish \/ Prove \/ HandOver
  PROVE  Shape
<1>1. project \in Aggregates /\ op \in Ops /\ CandidateFits(project, op)
  BY DEF IInv, Fits, OpFits
<1>2. CASE Clarified \/ Confirmed \/ Steered \/ Accessed \/ Acknowledged
  BY <1>1, <1>2, DoneActive, ReturnsShape
  DEF Clarified, Confirmed, Steered, Accessed, Acknowledged
<1>3. CASE Confirm \/ Access \/ Acknowledge \/ Materialize
  BY <1>1, <1>3, CallsShape, GoesShape
  DEF Confirm, Access, Acknowledge, Materialize, At, Continues
<1>4. CASE Show
  BY <1>1, <1>4, CallsShape, GoesShape DEF Show, At, CandidateFits, Fenced
<1>5. CASE Shown
  <2>1. [Done(project) EXCEPT !.mail[op.key] = "sent"].active = project.active
    BY <1>1 DEF Done, Aggregates
  <2> QED
    BY <1>1, <1>5, <2>1, ReturnsShape DEF Shown
<1>6. CASE Downloaded
  BY <1>1, <1>6, ReturnsShape DEF Downloaded
<1>7. CASE Upload
  BY <1>1, <1>7, HeardShape, GoesShape DEF Upload, Fenced
<1>8. CASE Finish
  <2> DEFINE k == <<"proof", op.v, op.c>>
             queued == [project EXCEPT !.eff[k] = Queued(@)]
  <2>1. queued.active = project.active /\ Rejected(k).active = project.active
    BY <1>1 DEF Rejected, Aggregates
  <2>2. \/ (\E l \in Labels : Goes(l)) \/ Saves(queued, "prove")
        \/ Saves(Rejected(k), "end")
        \/ Throws(FALSE) /\ UNCHANGED world
    BY <1>8 DEF Finish, Rejects, Labels
  <2> HIDE DEF queued, k
  <2>3. CASE Throws(FALSE) /\ UNCHANGED world
    BY <1>1, <2>3, ThrowsShape DEF world, providers, Shape
  <2> QED
    BY <1>1, <2>1, <2>2, <2>3, SavesShape, GoesShape
<1>9. CASE Prove
  <2> DEFINE k == <<"proof", op.v, op.c>>
  <2>1. k \in Keys
    <3>1. op.v \in Versions /\ op.c \in Candidates
      BY <1>1, <1>9 DEF IInv, Fits, OpFits, Prove, At, VersionFits,
         CandidateFits, Placed, Showing
    <3> QED
      BY <3>1, KeysOf
  <2>2. CASE Refused(project, k)
    <3>1. op.call = "none"
      BY <1>9 DEF Prove, At
    <3> HIDE DEF k
    <3> QED
      BY <1>1, <2>1, <2>2, <3>1, RefusedShape
  <2>3. CASE ~Refused(project, k)
    <3>1. /\ project' = [project EXCEPT !.eff[k] = Completed(@)]
          /\ op' = [op EXCEPT !.at = "hand", !.key = k] /\ UNCHANGED world
          /\ op.call = "none"
      BY <1>9, <2>3 DEF Prove, At
    <3>2. project'.active = project.active /\ op'.call = "none"
      BY <1>1, <3>1 DEF Aggregates, Ops
    <3> QED
      BY <3>1, <3>2 DEF world, providers, Shape
  <2> QED
    BY <2>2, <2>3
<1>10. CASE HandOver
  <2> DEFINE k == <<"final", op.v, op.c>>
             queued == [project EXCEPT !.eff[k] = Queued(@)]
  <2>1. /\ op.call = "none" /\ Latest(project, op.v)
        /\ op.v \in Versions /\ op.c \in Candidates
    BY <1>1, <1>10 DEF IInv, Fits, OpFits, HandOver, At, VersionFits,
       CandidateFits, Placed, Showing
  <2>2. k \in Keys
    BY <2>1, KeysOf
  <2>3. Queued(project.eff[k]) \in Sound
    BY <1>1, <2>2, EffectsStaySound DEF Aggregates
  <2>4. queued \in Aggregates /\ queued.active = project.active
    <3>1. queued = [project EXCEPT !.eff[k] = Queued(project.eff[k])]
      OBVIOUS
    <3> HIDE DEF k
    <3> QED
      BY <1>1, <2>2, <2>3, <3>1 DEF Aggregates
  <2>5. \/ Goes("end") \/ Saves(queued, "end")
        \/ inbound = {} /\ (Calls(k) \/ Refused(queued, k))
    BY <1>10 DEF HandOver, Fenced
  <2> HIDE DEF queued, k
  <2>6. CASE Refused(queued, k)
    BY <1>1, <2>1, <2>2, <2>4, <2>6, RefusedShape
  <2> QED
    BY <1>1, <2>1, <2>4, <2>5, <2>6, SavesShape, GoesShape, CallsShape
<1> QED
  BY <1>2, <1>3, <1>4, <1>5, <1>6, <1>7, <1>8, <1>9, <1>10

(* The looks for messages, and what the customer says.                     *)
LEMMA MessageShape ==
  ASSUME IInv, \/ LookForMail \/ MailChecked \/ Understood \/ Clarify \/ Steer
  PROVE  Shape
<1>1. project \in Aggregates /\ op \in Ops
  BY DEF IInv, Fits
<1>2. CASE LookForMail
  <2>1. CASE Awaited = {} /\ Goes("route")
    BY <1>1, <2>1, GoesShape
  <2>2. CASE ~(Awaited = {} /\ Goes("route"))
    <3>1. PICK k \in Awaited : LookForMail!2!2!(k)
      BY <1>2, <2>2 DEF LookForMail
    <3> DEFINE key == Check(k)
               p == [project EXCEPT !.eff[key] = Queued(@)]
               late == [p EXCEPT !.eff[key] = DeadLettered(@),
                                 !.status = "needs_operator_attention"]
               asked == [p EXCEPT !.eff[key] = Checking(@)]
    <3>2. /\ p.active = project.active /\ late.active = project.active
          /\ asked.active = project.active
      BY <1>1 DEF Aggregates
    <3>3. \/ Saves(late, "end") \/ Saves(p, "route")
          \/ Asks(asked, "mail", key, "query")
      BY <3>1
    <3> HIDE DEF p, late, asked
    <3> QED
      BY <1>1, <3>2, <3>3, SavesShape, AsksShape
  <2> QED
    BY <2>1, <2>2
<1>3. CASE MailChecked
  <2>1. PICK k \in Awaited :
          \/ Returns([project EXCEPT !.eff[Check(k)] = Rescheduled(@)], "route")
          \/ \E result \in {"delivered", "bounced"} :
               \/ Returns(Delivery(project, k, result), "route")
               \/ Throws(TRUE) /\ UNCHANGED world
    BY <1>3 DEF MailChecked
  <2>2. [project EXCEPT !.eff[Check(k)] = Rescheduled(@)].active = project.active
    BY <1>1 DEF Aggregates
  <2>3. k \in Tracked
    BY DEF Awaited
  <2>4. \A result \in {"delivered", "bounced"} :
          (Delivery(project, k, result)).active = project.active
    BY <1>1, <2>3, DeliveryIs DEF Delivered
  <2>5. CASE Throws(TRUE) /\ UNCHANGED world
    BY <1>1, <2>5, ThrowsShape DEF world, providers, Shape
  <2> QED
    BY <1>1, <2>1, <2>2, <2>4, <2>5, ReturnsShape
<1>4. CASE Understood
  <2> DEFINE p(batch) == [project EXCEPT !.consumed = @ \cup batch]
             q(batch) == [p(batch) EXCEPT !.status = op.prior]
             r(batch) == [p(batch) EXCEPT !.active = @ + 1, !.status = "paid"]
  <2>1. ASSUME NEW batch
        PROVE  /\ (q(batch)).active = project.active
               /\ (r(batch)).active = project.active + 1
    BY <1>1 DEF Aggregates
  <2>2. op.call = "query"
    <3>1. CallFits(project, op)
      BY DEF IInv, Fits, OpFits
    <3>2. op.at = "process" /\ op.call # "none"
      BY <1>4 DEF Understood, Answered
    <3> QED
      BY <1>1, <3>1, <3>2 DEF CallFits, EffectFits, Ops
  <2>3. \/ \E batch : Returns(q(batch), op.then)
        \/ Throws(TRUE) /\ UNCHANGED world
        \/ /\ project.active + 1 \in Versions
           /\ \E batch : Returns(r(batch), "supersede")
        \/ /\ \E c \in Questions : op' = [op EXCEPT !.at = "clarify", !.c = c,
                                                    !.call = "none"]
           /\ UNCHANGED <<project, world>>
    BY <1>4 DEF Understood
  <2> HIDE DEF q, r
  <2>4. CASE Throws(TRUE) /\ UNCHANGED world
    BY <1>1, <2>4, ThrowsShape DEF world, providers, Shape
  <2>5. CASE /\ project.active + 1 \in Versions
             /\ \E batch : Returns(r(batch), "supersede")
    <3>1. op'.call = "none" /\ UNCHANGED providers
      BY <1>1, <2>2, <2>5 DEF Returns, GoesTo, Ops
    <3> QED
      BY <2>1, <2>5, <3>1 DEF Returns, providers, Shape
  <2>6. CASE /\ \E c \in Questions : op' = [op EXCEPT !.at = "clarify", !.c = c,
                                                      !.call = "none"]
             /\ UNCHANGED <<project, world>>
    <3>1. op'.call = "none"
      BY <1>1, <2>6 DEF Ops
    <3> QED
      BY <2>6, <3>1, TurnsShape
  <2> QED
    BY <1>1, <2>1, <2>3, <2>4, <2>5, <2>6, ReturnsShape
<1>5. CASE Clarify
  <2> DEFINE q == [project EXCEPT !.eff[<<"question", op.c, 0>>] = Queued(@),
                                  !.questions = op.c,
                                  !.status = "needs_clarification"]
  <2>1. q.active = project.active
    BY <1>1 DEF Aggregates
  <2>2. Goes(op.then) \/ Asks(q, "clarify", <<"question", op.c, 0>>, "effect")
    BY <1>5 DEF Clarify, Continues
  <2> HIDE DEF q
  <2> QED
    BY <1>1, <2>1, <2>2, GoesShape, AsksShape
<1>6. CASE Steer
  <2>1. CASE Calls(<<"steer", project.active, 0>>)
    BY <1>1, <1>6, <2>1, CallsShape DEF Steer, At
  <2>2. CASE /\ op' = [op EXCEPT !.at = "dispatch", !.v = project.active]
             /\ UNCHANGED <<project, world>>
    <3>1. op'.call = op.call
      BY <1>1, <2>2 DEF Ops
    <3> QED
      BY <2>2, <3>1, TurnsShape
  <2> QED
    BY <1>6, <2>1, <2>2 DEF Steer
<1> QED
  BY <1>2, <1>3, <1>4, <1>5, <1>6

(* The builds.                                                             *)
LEMMA BuildShape ==
  ASSUME IInv,
         \/ CancelRun \/ RunCancelled \/ Assign \/ Assigned \/ Refreshed
         \/ Ingested
  PROVE  Shape
<1>1. project \in Aggregates /\ op \in Ops /\ CallFits(project, op)
  BY DEF IInv, Fits, OpFits
<1>2. CASE CancelRun
  <2>1. PICK k : project' = [project EXCEPT !.eff[k] = Queued(@)]
    BY <1>2 DEF CancelRun
  <2>2. project'.active = project.active
    BY <1>1, <2>1 DEF Aggregates
  <2>3. op.at \in {"supersede", "retire"} /\ op'.at = op.at
    BY <1>1, <1>2 DEF CancelRun, At, Ops
  <2>4. UNCHANGED providers
    BY <1>2 DEF CancelRun, world
  <2> QED
    BY <2>2, <2>3, <2>4 DEF providers, Shape
<1>3. CASE RunCancelled
  <2> DEFINE seen == backend[op.v][op.c]
             now == IF seen \in Terminal THEN seen ELSE "cancelled"
             q == [Done(project) EXCEPT !.runs[op.v][op.c] = now]
  <2>1. q.active = project.active
    BY <1>1 DEF Done, Aggregates
  <2>2. Returns(q, op.at)
    BY <1>3 DEF RunCancelled
  <2> HIDE DEF q
  <2> QED
    BY <1>1, <2>1, <2>2, ReturnsShape
<1>4. CASE Assign
  <2> DEFINE k == <<"dispatch", op.v, 0>>
             q == [project EXCEPT !.st[op.v] = "building",
                                  !.status = Progress(project, "building"),
                                  !.eff[k] = Completed(@)]
  <2>1. q.active = project.active
    BY <1>1 DEF Aggregates
  <2>2. \/ Goes("access") \/ Saves(q, "access")
        \/ /\ \E c \in Candidates :
                op' = [op EXCEPT !.c = c, !.key = k, !.call = "effect"]
           /\ UNCHANGED <<project, world>>
    BY <1>4 DEF Assign
  <2> HIDE DEF q
  <2>3. CASE /\ \E c \in Candidates :
                  op' = [op EXCEPT !.c = c, !.key = k, !.call = "effect"]
             /\ UNCHANGED <<project, world>>
    <3>1. op'.at = "assign"
      BY <1>1, <1>4, <2>3 DEF Assign, At, Ops
    <3> QED
      BY <2>3, <3>1 DEF world, providers, Shape
  <2> QED
    BY <1>1, <2>1, <2>2, <2>3, GoesShape, SavesShape
<1>5. CASE Assigned
  <2> DEFINE seen == backend[op.v][op.c]
             now == IF seen \in Terminal THEN seen ELSE "running"
             q == [project EXCEPT !.runs[op.v][op.c] = now,
                                  !.st[op.v] = "dispatched"]
  <2>1. q.active = project.active
    BY <1>1 DEF Aggregates
  <2>2. Returns(q, "assign")
    BY <1>5 DEF Assigned
  <2> HIDE DEF q
  <2> QED
    BY <1>1, <2>1, <2>2, ReturnsShape
<1>6. CASE Refreshed
  <2>1. PICK runs, st, status :
          project' = [project EXCEPT !.runs[op.v] = runs, !.st[op.v] = st,
                                     !.status = status]
    BY <1>6 DEF Refreshed
  <2>2. project'.active = project.active
    BY <1>1, <2>1 DEF Aggregates
  <2>3. UNCHANGED providers /\ op'.at \in {"decide", "ingest"}
    <3>1. GoesTo("decide") \/ op' = [op EXCEPT !.at = "ingest"]
      BY <1>6 DEF Refreshed
    <3>2. op'.at \in {"decide", "ingest"}
      BY <1>1, <3>1 DEF GoesTo, Ops
    <3> QED
      BY <1>6, <3>2 DEF Refreshed, world
  <2> QED
    BY <2>2, <2>3 DEF providers, Shape
<1>7. CASE Ingested
  <2> DEFINE unread == {c \in Candidates : /\ project.runs[op.v][c] # "none"
                                           /\ outbox[op.v][c] = "unread"}
             right == {c \in unread : project.runs[op.v][c] = "passed"}
             new(some) == {<<op.v, c>> : c \in some}
             with(some) == [project EXCEPT !.proven = @ \cup new(some)]
  <2>1. right \subseteq Candidates /\ op.v \in Versions
    BY <1>1, <1>7 DEF IInv, Fits, OpFits, VersionFits, Ingested, Answered, Placed
  <2>2. ASSUME NEW some \in SUBSET right
        PROVE  with(some) \in Aggregates /\ (with(some)).active = project.active
    <3>1. new(some) \in SUBSET (Versions \X Candidates)
      BY <2>1
    <3> HIDE DEF new, right
    <3> QED
      BY <3>1, ProvenKeep
  <2>3. \/ Returns(with(right), "decide")
        \/ /\ \E some \in SUBSET right :
                project' = Blamed(with(some), op.key, FALSE)
           /\ GoesTo("end") /\ UNCHANGED world
    BY <1>7 DEF Ingested
  <2> HIDE DEF with, right
  <2>4. CASE Returns(with(right), "decide")
    BY <1>1, <2>2, <2>4, ReturnsShape
  <2>5. CASE /\ \E some \in SUBSET right :
                  project' = Blamed(with(some), op.key, FALSE)
             /\ GoesTo("end") /\ UNCHANGED world
    <3>1. PICK some \in SUBSET right : project' = Blamed(with(some), op.key, FALSE)
      BY <2>5
    <3>2. op'.call = "none" /\ op.key \in Keys \cup {NoKey}
      BY <1>1, <2>5 DEF GoesTo, Ops
    <3>3. project'.active = project.active
      <4> DEFINE q == with(some)
      <4>1. /\ q \in Aggregates /\ q.active = project.active
            /\ project' = Blamed(q, op.key, FALSE)
        BY <2>2, <3>1
      <4> HIDE DEF q
      <4> QED
        BY <3>2, <4>1, BlamedStays DEF Same
    <3> QED
      BY <2>5, <3>2, <3>3 DEF world, providers, Shape
  <2> QED
    BY <2>3, <2>4, <2>5
<1> QED
  BY <1>2, <1>3, <1>4, <1>5, <1>6, <1>7

(* Previews, releases and the final mail.                                  *)
LEMMA DeliveryShape ==
  ASSUME IInv, Materialized \/ Deploy \/ Released \/ Finished
  PROVE  Shape
<1>1. project \in Aggregates /\ op \in Ops
  BY DEF IInv, Fits
<1>2. CASE Materialized
  <2> DEFINE q == [Done(project) EXCEPT !.preview[op.v] = op.c,
                     !.st[op.v] = "completed",
                     !.status = Progress(project, "preview_ready")]
  <2>1. q.active = project.active /\ Returns(q, "show")
    BY <1>1, <1>2 DEF Materialized, Done, Aggregates
  <2> HIDE DEF q
  <2> QED
    BY <1>1, <2>1, ReturnsShape
<1>3. CASE Deploy
  <2> DEFINE k == <<"deploy", op.v, op.c>>
             q == [project EXCEPT !.eff[k] = Queued(@),
                                  !.status = Progress(project, "deploying")]
  <2>1. q.active = project.active
    BY <1>1 DEF Aggregates
  <2>2. (\E l \in Labels : Goes(l)) \/ Asks(q, "deploy", k, "query")
    BY <1>3 DEF Deploy, Labels
  <2> HIDE DEF q
  <2> QED
    BY <1>1, <2>1, <2>2, GoesShape, AsksShape
<1>4. CASE Released
  <2> DEFINE q == [Done(project) EXCEPT !.release[op.v] = op.c,
                     !.status = Progress(project, "delivering")]
  <2>1. q.active = project.active /\ Returns(q, "finish")
    BY <1>1, <1>4 DEF Released, Done, Aggregates
  <2> HIDE DEF q
  <2> QED
    BY <1>1, <2>1, ReturnsShape
<1>5. CASE Finished
  <2> DEFINE q == [Done(project) EXCEPT !.mail[op.key] = "sent",
                     !.status = Progress(project, "delivering")]
  <2>1. q.active = project.active /\ Returns(q, "end")
    BY <1>1, <1>5 DEF Finished, Done, Aggregates
  <2> HIDE DEF q
  <2> QED
    BY <1>1, <2>1, ReturnsShape
<1> QED
  BY <1>2, <1>3, <1>4, <1>5

(* A failure, a crash, and what happens beside the operation.              *)
LEMMA WorldShape ==
  ASSUME IInv,
         \/ Reconcile \/ ReplayPayment \/ Crash
         \/ \E how \in {"lost", "transient", "permanent"} : CallFails(how)
         \/ \E m \in Mails : MailArrives(m)
         \/ \E m \in Messages : Receive(m)
         \/ \E k \in Tracked : \E result \in {"delivered", "bounced"} :
              Webhook(k, result)
         \/ \E c \in Candidates : RunEnds(c) \/ Announce(c)
         \/ \E d \in Deadlines : Elapse(d)
         \/ UNCHANGED vars
  PROVE  Shape
<1>1. project \in Aggregates /\ op \in Ops
  BY DEF IInv, Fits
<1>2. CASE Reconcile
  <2>1. \/ project' = project
        \/ \E k \in Keys : project' = [project EXCEPT !.eff[k] = Retried(@)]
    BY <1>2 DEF Reconcile
  <2>2. project'.active = project.active
    BY <1>1, <2>1 DEF Aggregates
  <2>3. op'.call = "none"
    BY <1>2 DEF Reconcile, Idle
  <2> QED
    BY <1>2, <2>2, <2>3 DEF Reconcile, world, providers, Shape
<1>3. CASE ReplayPayment
  <2>1. op'.call = "none"
    BY <1>3 DEF ReplayPayment, Idle
  <2> QED
    BY <1>3, <2>1 DEF ReplayPayment, providers, Shape
<1>4. CASE Crash
  <2>1. op'.call = "none"
    BY <1>4 DEF Crash, Idle
  <2> QED
    BY <1>4, <2>1 DEF Crash, providers, Shape
<1>5. ASSUME NEW how \in {"lost", "transient", "permanent"}, CallFails(how)
      PROVE  Shape
  <2>1. op'.call = "none" /\ project'.active = project.active
    <3>1. CASE Throws(how # "permanent")
      BY <1>1, <3>1, ThrowsShape
    <3>2. CASE ~Throws(how # "permanent")
      <4>1. UNCHANGED project /\ \E l : GoesTo(l)
        BY <1>5, <3>2 DEF CallFails
      <4> QED
        BY <1>1, <4>1 DEF GoesTo, Ops
    <3> QED
      BY <3>1, <3>2
  <2>2. outside' = outside \/ (op.call = "effect" /\ Acts(op.key))
    BY <1>5 DEF CallFails, providers
  <2> QED
    BY <2>1, <2>2 DEF Shape
<1>6. ASSUME NEW m \in Messages, Receive(m) PROVE Shape
  <2>1. project'.active = project.active
    BY <1>1, <1>6 DEF Receive, Received, Aggregates
  <2>2. op'.call = "none" \/ op' = op
    <3> HIDE DEF Stable
    <3> QED
      BY <1>6 DEF Receive, Idle
  <2> QED
    BY <1>6, <2>1, <2>2 DEF Receive, providers, Shape
<1>7. ASSUME NEW k \in Tracked, NEW result \in {"delivered", "bounced"},
             Webhook(k, result)
      PROVE  Shape
  <2>1. (Delivery(project, k, result)).active = project.active
    BY <1>1, DeliveryIs DEF Delivered
  <2>2. project'.active = project.active
    BY <1>7, <2>1 DEF Webhook
  <2> QED
    BY <1>7, <2>2 DEF Webhook, world, providers, Shape
<1>8. CASE \/ \E m \in Mails : MailArrives(m)
           \/ \E c \in Candidates : RunEnds(c) \/ Announce(c)
           \/ \E d \in Deadlines : Elapse(d)
           \/ UNCHANGED vars
  <2>1. UNCHANGED <<project, op, outside>>
    BY <1>8 DEF MailArrives, RunEnds, Announce, Elapse, vars, world, providers
  <2> QED
    BY <2>1 DEF Shape
<1> QED
  BY <1>2, <1>3, <1>4, <1>5, <1>6, <1>7, <1>8

(* So every step has that shape.                                           *)
LEMMA NextShape == IInv /\ [Next]_vars => Shape
<1> SUFFICES ASSUME IInv, [Next]_vars PROVE Shape
  OBVIOUS
<1>1. CASE Step
  BY <1>1, PlainShape, EffectShape, MessageShape, BuildShape, DeliveryShape
  DEF Step
<1>2. CASE ~Step
  BY <1>2, WorldShape DEF Next
<1> QED
  BY <1>1, <1>2

(* The act a provider is asked for is about the version the operation      *)
(* works on and the candidate that is shown for it.                        *)
LEMMA ActKey ==
  ASSUME NEW p \in Aggregates, NEW o \in Ops, OpFits(p, o), o.call = "effect",
         o.key[1] \in {"preview", "deploy", "final"}
  PROVE  /\ o.key = <<o.key[1], o.v, o.c>>
         /\ o.v \in Versions /\ o.c \in Candidates
         /\ o.at \in {"show", "upload", "hand"}
         /\ p.preview[o.v] = o.c /\ Latest(p, o.v)
<1>1. CASE o.key[1] = "preview"
  BY <1>1, EffectKey
<1>2. CASE o.key[1] = "deploy"
  BY <1>2, EffectKey
<1>3. CASE o.key[1] = "final"
  BY <1>3, EffectKey
<1> QED
  BY <1>1, <1>2, <1>3
-----------------------------------------------------------------------------
(* What is begun for a customer is begun when nothing they said is open:   *)
(* no envelope is unresolved, every saved message was applied, and the     *)
(* version acted on is the one in force.                                   *)
THEOREM CustomersAreHeardFirst == Spec => CustomerIsHeardFirst
<1> DEFINE Heard == (op'.call = "effect" /\ op.call # "effect"
                       /\ op'.key[1] \in {"preview", "deploy", "final"}) =>
                      /\ inbound = {} /\ Unapplied(project) = {}
                      /\ op'.key[2] = project.active
<1>1. IInv /\ [Next]_vars => Heard
  <2> SUFFICES ASSUME IInv, [Next]_vars, op'.call = "effect",
                      op.call # "effect",
                      op'.key[1] \in {"preview", "deploy", "final"}
               PROVE  /\ inbound = {} /\ Unapplied(project) = {}
                      /\ op'.key[2] = project.active
    OBVIOUS
  <2>1. /\ project' \in Aggregates /\ op' \in Ops /\ OpFits(project', op')
    BY NextKeeps DEF IInv, Fits
  <2>2. /\ op'.at \in {"show", "upload", "hand"} /\ op'.key[2] = op'.v
    <3> DEFINE p == project'
               o == op'
    <3>1. /\ p \in Aggregates /\ o \in Ops /\ OpFits(p, o)
          /\ o.call = "effect" /\ o.key[1] \in {"preview", "deploy", "final"}
      BY <2>1
    <3> HIDE DEF p, o
    <3>2. /\ o.at \in {"show", "upload", "hand"}
          /\ o.key = <<o.key[1], o.v, o.c>>
      BY <3>1, ActKey
    <3> QED
      BY <3>2 DEF o
  <2>3. inbound = {} /\ Latest(project, op'.v)
    BY <2>2, NextShape DEF Shape
  <2> QED
    BY <2>2, <2>3 DEF Latest
<1> QED
  BY <1>1, DeliveryInvariant, PTL DEF Spec, CustomerIsHeardFirst
-----------------------------------------------------------------------------
(* The promise that is kept.                                               *)

(* The acts of a kind, when another act is added.                          *)
LEMMA ActsOfKind ==
  ASSUME outside \in Outsides, NEW v \in Versions, NEW c \in Candidates,
         NEW t \in {"preview", "deploy", "final"},
         outside' = outside \cup {<<t, v, c>>}
  PROVE  /\ ActsOf(t)' = ActsOf(t) \cup {<<v, c>>}
         /\ \A u \in {"preview", "deploy", "final"} : u # t => ActsOf(u)' = ActsOf(u)
<1> DEFINE k == <<t, v, c>>
<1>1. k[1] = t /\ <<k[2], k[3]>> = <<v, c>>
  OBVIOUS
<1>2. ActsOf(t)' = ActsOf(t) \cup {<<v, c>>}
  <2>1. {a \in outside' : a[1] = t} = {a \in outside : a[1] = t} \cup {k}
    BY <1>1
  <2> HIDE DEF k
  <2> QED
    BY <1>1, <2>1 DEF ActsOf
<1>3. ASSUME NEW u \in {"preview", "deploy", "final"}, u # t
      PROVE  ActsOf(u)' = ActsOf(u)
  <2>1. {a \in outside' : a[1] = u} = {a \in outside : a[1] = u}
    BY <1>1, <1>3
  <2> QED
    BY <2>1 DEF ActsOf
<1> QED
  BY <1>2, <1>3

(* An act is among those of its kind.                                      *)
LEMMA ActsOfAre ==
  ASSUME outside \in Outsides, NEW v \in Versions, NEW c \in Candidates,
         NEW t \in {"preview", "deploy", "final"}
  PROVE  <<v, c>> \in ActsOf(t) <=> <<t, v, c>> \in outside
<1>1. ASSUME <<v, c>> \in ActsOf(t) PROVE <<t, v, c>> \in outside
  <2>1. PICK k \in outside : k[1] = t /\ <<v, c>> = <<k[2], k[3]>>
    BY <1>1 DEF ActsOf
  <2>2. PICK u \in {"preview", "deploy", "final"}, w \in Versions,
             d \in Candidates : k = <<u, w, d>>
    BY DEF Outsides
  <2> QED
    BY <2>1, <2>2
<1>2. ASSUME <<t, v, c>> \in outside PROVE <<v, c>> \in ActsOf(t)
  BY <1>2 DEF ActsOf
<1> QED
  BY <1>1, <1>2

(* Nothing was shown, released or handed over when version 1 is paid for.  *)
LEMMA PromiseInit == Init => Promise!Init
<1> SUFFICES ASSUME Init PROVE Promise!Init
  OBVIOUS
<1>1. project.active = 1
  BY DEF Init
<1>2. \A t : ActsOf(t) = {}
  BY DEF Init, ActsOf
<1> QED
  BY <1>1, <1>2 DEF Promise!Init

(* Every step is a revision, an act that may follow the ones before it, or *)
(* nothing the customer sees.                                              *)
LEMMA PromiseStep == IInv /\ [Next]_vars => [Promise!Next]_(Promise!vars)
<1> SUFFICES ASSUME IInv, [Next]_vars PROVE [Promise!Next]_(Promise!vars)
  OBVIOUS
<1>1. /\ project \in Aggregates /\ op \in Ops /\ OpFits(project, op)
      /\ outside \in Outsides /\ ShownFits(project, outside) /\ Shape
  BY NextShape DEF IInv, Fits
<1>2. ASSUME outside' = outside PROVE \A t : ActsOf(t)' = ActsOf(t)
  BY <1>2 DEF ActsOf
<1>3. CASE project'.active # project.active
  <2>1. /\ project.active + 1 \in Versions
        /\ project'.active = project.active + 1 /\ outside' = outside
    BY <1>1, <1>3 DEF Shape
  <2> QED
    BY <1>2, <2>1 DEF Promise!Revise, Promise!Next
<1>4. CASE project'.active = project.active /\ outside' = outside
  BY <1>2, <1>4 DEF Promise!vars
<1>5. CASE project'.active = project.active /\ outside' # outside
  <2>1. op.call = "effect" /\ Acts(op.key)
    BY <1>1, <1>5 DEF Shape
  <2>2. /\ op.key[1] \in {"preview", "deploy", "final"}
        /\ outside' = outside \cup {op.key}
    BY <1>5, <2>1 DEF Acts
  <2>3. /\ op.key = <<op.key[1], op.v, op.c>>
        /\ op.v \in Versions /\ op.c \in Candidates
        /\ project.preview[op.v] = op.c /\ op.v = project.active
    BY <1>1, <2>1, <2>2, ActKey DEF Latest
  <2> DEFINE t == op.key[1]
  <2>4. outside' = outside \cup {<<t, op.v, op.c>>}
    BY <2>2, <2>3
  <2>5. ASSUME NEW u \in {"preview", "deploy", "final"}, t = u
        PROVE  /\ ActsOf(u)' = ActsOf(u) \cup {<<project.active, op.c>>}
               /\ \A w \in {"preview", "deploy", "final"} :
                    w # u => ActsOf(w)' = ActsOf(w)
    <3> DEFINE v == op.v
               c == op.c
    <3>1. /\ v \in Versions /\ c \in Candidates /\ v = project.active
          /\ outside' = outside \cup {<<u, v, c>>}
      BY <2>3, <2>4, <2>5
    <3> HIDE DEF v, c
    <3>2. /\ ActsOf(u)' = ActsOf(u) \cup {<<v, c>>}
          /\ \A w \in {"preview", "deploy", "final"} :
                w # u => ActsOf(w)' = ActsOf(w)
      BY <1>1, <3>1, ActsOfKind
    <3> QED
      BY <3>1, <3>2 DEF c
  <2>6. CASE t = "preview"
    <3>1. ASSUME NEW d \in Candidates, <<op.v, d>> \in ActsOf("preview")
          PROVE  d = op.c
      <4>1. <<"preview", op.v, d>> \in outside
        BY <1>1, <2>3, <3>1, ActsOfAre
      <4> QED
        BY <1>1, <2>3, <4>1 DEF ShownFits
    <3>2. Promise!Show(op.c)
      <4>1. /\ ActsOf("preview")' = ActsOf("preview") \cup {<<project.active, op.c>>}
            /\ UNCHANGED <<ActsOf("deploy"), ActsOf("final")>>
        BY <2>5, <2>6
      <4> QED
        BY <1>5, <2>3, <3>1, <4>1 DEF Promise!Show
    <3> QED
      BY <2>3, <3>2 DEF Promise!Next
  <2>7. CASE t = "deploy"
    <3>1. <<"preview", op.v, op.c>> \in outside
      <4>1. project.mail[<<"preview", op.v, op.c>>] = "delivered"
        BY <1>1, <2>1, <2>7, EffectKey
      <4> QED
        BY <1>1, <2>3, <4>1 DEF ShownFits
    <3>2. <<op.v, op.c>> \in ActsOf("preview")
      BY <1>1, <2>3, <3>1, ActsOfAre
    <3>3. Promise!Release(op.c)
      <4>1. /\ ActsOf("deploy")' = ActsOf("deploy") \cup {<<project.active, op.c>>}
            /\ UNCHANGED <<ActsOf("preview"), ActsOf("final")>>
        BY <2>5, <2>7
      <4> QED
        BY <1>5, <2>3, <3>2, <4>1 DEF Promise!Release
    <3> QED
      BY <2>3, <3>3 DEF Promise!Next
  <2>8. CASE t = "final"
    <3>1. <<"deploy", op.v, op.c>> \in outside
      <4>1. project.release[op.v] = op.c
        BY <1>1, <2>1, <2>8, EffectKey
      <4> QED
        BY <1>1, <2>3, <4>1 DEF ShownFits
    <3>2. <<op.v, op.c>> \in ActsOf("deploy")
      BY <1>1, <2>3, <3>1, ActsOfAre
    <3>3. Promise!HandOver(op.c)
      <4>1. /\ ActsOf("final")' = ActsOf("final") \cup {<<project.active, op.c>>}
            /\ UNCHANGED <<ActsOf("preview"), ActsOf("deploy")>>
        BY <2>5, <2>8
      <4> QED
        BY <1>5, <2>3, <3>2, <4>1 DEF Promise!HandOver
    <3> QED
      BY <2>3, <3>3 DEF Promise!Next
  <2> QED
    BY <2>2, <2>6, <2>7, <2>8
<1> QED
  BY <1>3, <1>4, <1>5

(* The delivery keeps the promise made to the customer, at every crash,    *)
(* lost answer and revision: what is shown, released and handed over is    *)
(* about the version in force and rests on the act before it.              *)
THEOREM DeliveryKeepsPromise == Spec => KeepsPromise
BY PromiseInit, PromiseStep, DeliveryInvariant, PTL
DEF Spec, KeepsPromise, Promise!Spec
-----------------------------------------------------------------------------
(* A project that is parked for the operator.                              *)

(* The steps of an operation that is neither at its end nor routing need   *)
(* its being somewhere else.                                               *)
LEMMA QuietSteps ==
  ASSUME op.call = "none", op.at \in {"idle", "end", "route"}, Step
  PROVE  End \/ Route
<1>1. CASE \/ End \/ LookForMail \/ MailChecked \/ Route
           \/ Process \/ Understood \/ Clarify \/ Clarified
           \/ Confirm \/ Confirmed \/ Paid \/ Redispatch
  BY <1>1 DEF LookForMail, MailChecked, Process, Understood, Clarify,
     Clarified, Confirm, Confirmed, Paid, Redispatch, At, Answered
<1>2. CASE \/ CancelRun \/ RunCancelled \/ Supersede \/ Steer \/ Steered
           \/ Dispatch \/ Assign \/ Assigned \/ Access \/ Accessed
           \/ Batch \/ Open \/ Watch \/ Refreshed \/ Ingested
           \/ Decide \/ Retire \/ Finalize
  BY <1>2 DEF CancelRun, RunCancelled, Supersede, Steer, Steered, Dispatch,
     Assign, Assigned, Access, Accessed, Batch, Open, Watch, Refreshed,
     Ingested, Decide, Retire, Finalize, At, Answered
<1>3. CASE \/ Materialize \/ Materialized \/ Show \/ Shown
           \/ Acknowledge \/ Acknowledged \/ Review
           \/ Deploy \/ Downloaded \/ Upload \/ Released
           \/ Finish \/ Prove \/ HandOver \/ Finished
  BY <1>3 DEF Materialize, Materialized, Show, Shown, Acknowledge,
     Acknowledged, Review, Deploy, Downloaded, Upload, Released, Finish,
     Prove, HandOver, Finished, At, Answered
<1> QED
  BY <1>1, <1>2, <1>3 DEF Step

(* An operation that calls nobody calls for no effect by routing, ending,  *)
(* or by what happens beside it.                                           *)
LEMMA QuietNext ==
  ASSUME IInv, [Next]_vars, op.call = "none",
         op.at \in {"idle", "end", "route"}
  PROVE  op'.call # "effect"
<1>1. op \in Ops
  BY DEF IInv, Fits
<1>2. CASE End
  BY <1>2 DEF End, Idle
<1>3. CASE Route
  <2>1. ASSUME NEW l, GoesTo(l) \/ (\E t : Enters(l, t)) PROVE op'.call = "none"
    BY <1>1, <2>1 DEF GoesTo, Enters, Ops
  <2>2. CASE \E s, c, t :
               \/ op' = [op EXCEPT !.at = "clarify", !.then = t, !.c = c]
               \/ op' = [op EXCEPT !.at = "process", !.then = t, !.prior = s]
    BY <1>1, <2>2 DEF Ops
  <2> QED
    BY <1>3, <2>1, <2>2 DEF Route, Goes, Saves
<1>4. CASE \/ Reconcile \/ ReplayPayment \/ Crash
           \/ \E how \in {"lost", "transient", "permanent"} : CallFails(how)
  <2>1. op.call = "none" /\ Idle.call = "none"
    BY DEF Idle
  <2>2. CASE ReplayPayment
    BY <2>2 DEF ReplayPayment, Idle
  <2>3. CASE Reconcile
    BY <2>3 DEF Reconcile, Idle
  <2> QED
    BY <1>4, <2>1, <2>2, <2>3 DEF Crash, CallFails
<1>5. ASSUME NEW m \in Messages, Receive(m) PROVE op'.call # "effect"
  <2> HIDE DEF Stable
  <2> QED
    BY <1>5 DEF Receive, Idle
<1>6. CASE \/ \E m \in Mails : MailArrives(m)
           \/ \E k \in Tracked : \E result \in {"delivered", "bounced"} :
                Webhook(k, result)
           \/ \E c \in Candidates : RunEnds(c) \/ Announce(c)
           \/ \E d \in Deadlines : Elapse(d)
           \/ UNCHANGED vars
  <2>1. UNCHANGED op
    BY <1>6 DEF MailArrives, Webhook, RunEnds, Announce, Elapse, vars
  <2> QED
    BY <2>1
<1> QED
  BY <1>2, <1>3, <1>4, <1>5, <1>6, QuietSteps DEF Next

(* "Permanent or policy failures enter an explicit terminal/attention      *)
(* state, retain their evidence, and emit no downstream action": so it is, *)
(* however often webhooks of a recorded payment come, for every operation  *)
(* that none of them began.                                                *)
THEOREM ParkedProjectsAreQuiet == Spec => ParkedProjectsStayQuiet
<1> DEFINE Quiet == project.status \in Parked /\ ~op.replay =>
                      op'.call # "effect" /\ outside' = outside
<1>1. IInv /\ [Next]_vars => Quiet
  <2> SUFFICES ASSUME IInv, [Next]_vars, project.status \in Parked, ~op.replay
               PROVE  op'.call # "effect" /\ outside' = outside
    OBVIOUS
  <2>1. op \in Ops /\ OpFits(project, op)
    BY DEF IInv, Fits
  <2>2. op.at \in {"idle", "end", "route"}
    BY <2>1 DEF OpFits, StatusFits
  <2>3. op.call = "none"
    BY <2>1, <2>2 DEF OpFits, CallFits, EffectFits, Ops
  <2>4. outside' = outside
    BY <2>3, NextShape DEF Shape
  <2> QED
    BY <2>2, <2>3, <2>4, QuietNext
<1> QED
  BY <1>1, DeliveryInvariant, PTL DEF Spec, ParkedProjectsStayQuiet
-----------------------------------------------------------------------------
(* What the promise comes to.                                              *)

HandedInv == Promise!TypeOK /\ Promise!HandedAsShown

(* Each act adds at most the version in force, with a candidate the act    *)
(* before it was about.                                                    *)
LEMMA PromiseInvariant == KeepsPromise => []HandedInv
<1>1. Promise!Init => HandedInv
  <2>1. 1 \in Versions
    BY PlanAssumption DEF PlanAssumption
  <2> QED
    BY <2>1 DEF Promise!Init, HandedInv, Promise!TypeOK,
       Promise!HandedAsShown, Promise!Acts
<1>2. HandedInv /\ [Promise!Next]_(Promise!vars) => HandedInv'
  <2> SUFFICES ASSUME HandedInv, [Promise!Next]_(Promise!vars) PROVE HandedInv'
    OBVIOUS
  <2>1. CASE Promise!Revise
    BY <2>1 DEF Promise!Revise, HandedInv, Promise!TypeOK,
       Promise!HandedAsShown
  <2>2. ASSUME NEW c \in Candidates, Promise!Show(c) PROVE HandedInv'
    <3>1. /\ Promise!TypeOK'
          /\ ActsOf("final")' \subseteq ActsOf("deploy")'
          /\ ActsOf("deploy")' \subseteq ActsOf("preview")'
      BY <2>2 DEF Promise!Show, HandedInv, Promise!TypeOK,
         Promise!HandedAsShown, Promise!Acts
    <3>2. ASSUME NEW v \in Versions, NEW d \in Candidates, NEW e \in Candidates,
                 <<v, d>> \in ActsOf("preview")',
                 <<v, e>> \in ActsOf("preview")'
          PROVE  d = e
      <4>1. CASE v = project.active
        BY <2>2, <3>2, <4>1 DEF Promise!Show
      <4>2. CASE v # project.active
        <5>1. <<v, d>> \in ActsOf("preview") /\ <<v, e>> \in ActsOf("preview")
          BY <2>2, <3>2, <4>2 DEF Promise!Show
        <5> QED
          BY <5>1 DEF HandedInv, Promise!HandedAsShown
      <4> QED
        BY <4>1, <4>2
    <3> QED
      BY <3>1, <3>2 DEF HandedInv, Promise!HandedAsShown
  <2>3. ASSUME NEW c \in Candidates, Promise!Release(c) PROVE HandedInv'
    <3>1. UNCHANGED <<project.active, ActsOf("preview"), ActsOf("final")>>
      BY <2>3 DEF Promise!Release
    <3>2. /\ ActsOf("deploy") \subseteq ActsOf("deploy")'
          /\ ActsOf("deploy")' \subseteq ActsOf("preview")
      BY <2>3 DEF Promise!Release, HandedInv, Promise!HandedAsShown
    <3> QED
      BY <3>1, <3>2 DEF HandedInv, Promise!TypeOK,
         Promise!HandedAsShown, Promise!Acts
  <2>4. ASSUME NEW c \in Candidates, Promise!HandOver(c) PROVE HandedInv'
    <3>1. UNCHANGED <<project.active, ActsOf("preview"), ActsOf("deploy")>>
      BY <2>4 DEF Promise!HandOver
    <3>2. ActsOf("final")' \subseteq ActsOf("deploy")
      BY <2>4 DEF Promise!HandOver, HandedInv, Promise!HandedAsShown
    <3> QED
      BY <3>1, <3>2 DEF HandedInv, Promise!TypeOK,
         Promise!HandedAsShown, Promise!Acts
  <2>5. CASE UNCHANGED Promise!vars
    BY <2>5 DEF Promise!vars, HandedInv, Promise!TypeOK, Promise!HandedAsShown
  <2> QED
    BY <2>1, <2>2, <2>3, <2>4, <2>5 DEF Promise!Next
<1> QED
  BY <1>1, <1>2, PTL DEF KeepsPromise, Promise!Spec

(* However often its acts are repeated, a delivery hands over the one      *)
(* candidate that was released, which is the one that was shown.           *)
THEOREM HandedIsShown == Spec => []Promise!HandedAsShown
<1>1. HandedInv => Promise!HandedAsShown
  BY DEF HandedInv
<1> QED
  BY <1>1, DeliveryKeepsPromise, PromiseInvariant, PTL
=============================================================================
