------------------------ MODULE FlyDeploymentProofs -------------------------
(***************************************************************************)
(* Theorems about FlyDeployment, for any number of targets, machines,      *)
(* attempts and failures: the types, that a receipt is truthful, that no   *)
(* target is released twice over, and that production moves forward.       *)
(***************************************************************************)
EXTENDS FlyDeployment, TLAPS

AttemptTyped ==
  /\ at \in Steps /\ baseline \in 0..MaxReleases
  /\ tries \in Nat /\ (at = "poll" => tries < Polls)
  /\ at \in {"before", "probe", "after"} => tries < Checks
  /\ left \subseteq Machines /\ answered \subseteq Machines \X (1..MaxFaults + 1)
  /\ expected # None => expected.n \in Numbers
  /\ failed \in 0..MaxAttempts - 1
ProviderTyped ==
  /\ app \in {"absent", "ours", "foreign"}
  /\ releases \in Seq(1..Targets) /\ Len(releases) <= MaxReleases
  /\ machines \subseteq (1..Len(releases)) \X Slots /\ up \subseteq machines
  /\ instance \in [Machines -> 0..MaxFaults + 1]
  /\ running \subseteq 1..Len(releases)
RestTyped ==
  /\ want \in 1..Targets /\ saved \in 0..want
  /\ faults \in 0..MaxFaults /\ orphans \in 0..MaxOrphans
  /\ disturbed \in BOOLEAN
(* A machine in the list has been started: once, and once more for every    *)
(* restart.                                                                *)
StartsCounted == /\ \A x \in Machines : instance[x] <= faults + 1
                 /\ \A x \in machines : instance[x] >= 1

(* The type invariant in three parts: the attempt, the provider and the    *)
(* rest.                                                                   *)
LEMMA TypeParts == TypeOK <=> AttemptTyped /\ ProviderTyped /\ RestTyped
  BY DEF TypeOK, AttemptTyped, ProviderTyped, RestTyped

(* The bounds are positive numbers.                                        *)
LEMMA Constants ==
  /\ Targets \in Nat /\ Targets > 0 /\ Polls \in Nat /\ Polls > 0
  /\ Checks \in Nat /\ Checks > 0
  /\ MaxAttempts \in Nat /\ MaxAttempts > 0
  /\ MaxFaults \in Nat /\ MaxOrphans \in Nat /\ MaxReleases \in Nat
  BY FlyAssumption DEF FlyAssumption

(* What the types say of the machines Fly reports.                         *)
LEMMA MachinesAre ==
  ASSUME ProviderTyped
  PROVE  /\ machines \subseteq Machines /\ up \subseteq Machines
         /\ running \subseteq Numbers /\ Len(releases) \in Nat
         /\ \A x \in machines : x[1] \in 1..Len(releases)
<1>1. Len(releases) \in Nat
  BY DEF ProviderTyped
<1>2. 1..Len(releases) \subseteq Numbers
  BY <1>1, Constants DEF ProviderTyped, Numbers
<1> QED
  BY <1>1, <1>2 DEF ProviderTyped, Machines

(* What the identity of a set of machines tells.                           *)
LEMMA IdentityTells ==
  ASSUME ProviderTyped, NEW M \in SUBSET machines, M # {}
  PROVE  /\ Identity(M).n \in Numbers
         /\ DOMAIN Identity(M).instances = M
         /\ \A x \in M : Identity(M).instances[x] = instance[x]
<1>1. (CHOOSE x \in M : TRUE) \in M
  OBVIOUS
<1>2. (CHOOSE x \in M : TRUE) \in Machines
  BY <1>1, MachinesAre
<1> QED
  BY <1>2 DEF Identity, Machines
-----------------------------------------------------------------------------
(* The ways in which an attempt goes on.                                   *)
Ends == Retries \/ Parks \/ Dies

(* An attempt that ends forgets all it knew.                               *)
LEMMA EndsAre == Ends => Forgets /\ at' \in {"idle", "parked"}
  BY DEF Ends, Retries, Parks, Dies

(* An attempt that ended is typed.                                         *)
LEMMA EndsTyped ==
  ASSUME AttemptTyped, Ends
  PROVE  AttemptTyped'
<1>1. failed' \in 0..MaxAttempts - 1
  BY Constants DEF Ends, Retries, Parks, Dies, AttemptTyped
<1>2. /\ baseline' = 0 /\ expected' = None /\ tries' = 0
      /\ left' = {} /\ answered' = {} /\ at' \in {"idle", "parked"}
  BY EndsAre DEF Forgets
<1>3. /\ baseline' \in 0..MaxReleases /\ tries' \in Nat
      /\ tries' < Polls /\ tries' < Checks
  BY <1>2, Constants
<1> QED
  BY <1>1, <1>2, <1>3 DEF AttemptTyped, Steps

(* An attempt that goes on without a count is typed.                       *)
LEMMA GoesTyped ==
  ASSUME AttemptTyped, NEW step \in Steps \ {"poll", "before", "probe", "after"},
         Goes(step)
  PROVE  AttemptTyped'
  BY DEF Goes, AttemptTyped, Steps

(* An attempt that begins to poll starts at its first poll.                *)
LEMMA PollingTyped ==
  ASSUME AttemptTyped, NEW base \in 0..MaxReleases, Polling(base)
  PROVE  AttemptTyped'
  BY Constants DEF Polling, AttemptTyped, Steps

(* An attempt whose machines answered has seen one of them.                *)
LEMMA VerifiedTyped ==
  ASSUME AttemptTyped, ProviderTyped, machines # {}, Verified
  PROVE  AttemptTyped'
<1>1. Identity(machines).n \in Numbers
  BY IdentityTells
<1>2. expected'.n \in Numbers
  BY <1>1 DEF Verified
<1> QED
  BY <1>2, Constants DEF Verified, AttemptTyped, Steps

(* Every plan takes the attempt to a step it is ready for.                 *)
LEMMA PlanTyped ==
  ASSUME AttemptTyped, ProviderTyped, Plan
  PROVE  AttemptTyped'
<1> DEFINE mine == {x \in machines : IsTarget(x)}
<1>1. CASE IsReleased /\ Verified
  BY <1>1, VerifiedTyped DEF IsReleased
<1>2. CASE mine # {} /\ Polling(Identity(mine).n - 1)
  <2>1. Identity(mine).n \in Numbers
    BY <1>2, IdentityTells
  <2>2. Identity(mine).n - 1 \in 0..MaxReleases
    BY <2>1, Constants DEF Numbers
  <2> QED
    BY <1>2, <2>2, PollingTyped
<1>3. CASE /\ at' = "command"
           /\ baseline' = IF machines = {} THEN 0 ELSE Identity(machines).n
           /\ UNCHANGED <<expected, tries, left, answered, failed>>
  <2>1. machines # {} => Identity(machines).n \in Numbers
    BY IdentityTells
  <2>2. baseline' \in 0..MaxReleases
    BY <1>3, <2>1, Constants DEF Numbers
  <2> QED
    BY <1>3, <2>2 DEF AttemptTyped, Steps
<1>4. CASE Parks
  BY <1>4, EndsTyped DEF Ends
<1> QED
  BY <1>1, <1>2, <1>3, <1>4 DEF Plan

(* Every step that is not the provider's.                                  *)
LEMMA ProviderStays ==
  ASSUME ProviderTyped, UNCHANGED provider
  PROVE  ProviderTyped'
  BY DEF ProviderTyped, provider, Machines, Numbers

(* A call that fails or not keeps the bounds of the faults.                *)
LEMMA RestStays ==
  ASSUME RestTyped, Fault \/ NoFault, UNCHANGED <<want, saved, orphans>>,
         disturbed' \in {disturbed, TRUE}
  PROVE  RestTyped'
<1>1. disturbed' \in BOOLEAN
  BY Zenon DEF RestTyped
<1> QED
  BY <1>1, Constants DEF RestTyped, Fault, NoFault

(* Where no machine starts, the starts stay counted.                       *)
LEMMA StartsStay ==
  ASSUME RestTyped, StartsCounted, ProviderTyped, Fault \/ NoFault,
         UNCHANGED <<machines, instance>>
  PROVE  StartsCounted'
<1>1. faults \in Nat /\ faults' \in Nat /\ faults <= faults'
  BY Constants DEF RestTyped, Fault, NoFault
<1>2. \A x \in Machines : instance[x] \in Nat
  BY Constants DEF ProviderTyped
<1>3. Machines' = Machines
  BY DEF Machines, Numbers
<1> QED
  BY <1>1, <1>2, <1>3 DEF StartsCounted
-----------------------------------------------------------------------------
Typed == AttemptTyped /\ ProviderTyped /\ RestTyped /\ StartsCounted

(* The first state is typed.                                               *)
LEMMA TypedInit == Init => Typed
<1> SUFFICES ASSUME Init PROVE Typed
  OBVIOUS
<1>1. AttemptTyped
  BY Constants DEF Init, AttemptTyped, Steps
<1>2. ProviderTyped
  BY Constants DEF Init, ProviderTyped
<1>3. RestTyped
  <2>1. disturbed \in BOOLEAN
    BY Zenon DEF Init
  <2> QED
    BY <2>1, Constants DEF Init, RestTyped
<1>4. StartsCounted
  BY Constants DEF Init, StartsCounted
<1> QED
  BY <1>1, <1>2, <1>3, <1>4 DEF Typed

(* A step of the adapter that asks the provider but does not change it, or *)
(* that does nothing at all to it.                                         *)
LEMMA AsksTyped ==
  ASSUME Typed, AttemptTyped', Fault \/ NoFault,
         UNCHANGED <<provider, want, saved, orphans>>,
         disturbed' \in {disturbed, TRUE}
  PROVE  Typed'
  BY ProviderStays, RestStays, StartsStay DEF Typed, provider

(* The attempt of each step that only asks.                                *)
LEMMA StepsTyped ==
  ASSUME Typed,
         \/ Inspect \/ FindApp \/ ConfirmApp \/ InspectAgain \/ Poll
         \/ Before \/ After \/ \E x \in left : Probe(x)
  PROVE  Typed'
<1> USE DEF Typed
<1>1. CASE Inspect
  <2>1. AttemptTyped'
    BY <1>1, PlanTyped, GoesTyped DEF Inspect, Steps
  <2> QED
    BY <1>1, <2>1, AsksTyped DEF Inspect, mishaps
<1>2. CASE FindApp
  <2>1. AttemptTyped'
    BY <1>2, GoesTyped, EndsTyped DEF Ends, FindApp, Steps
  <2> QED
    BY <1>2, <2>1, AsksTyped DEF FindApp, mishaps
<1>3. CASE ConfirmApp
  <2>1. AttemptTyped'
    BY <1>3, GoesTyped, EndsTyped DEF Ends, ConfirmApp, Steps
  <2> QED
    BY <1>3, <2>1, AsksTyped DEF ConfirmApp, mishaps
<1>4. CASE InspectAgain
  <2>1. AttemptTyped'
    BY <1>4, PlanTyped, EndsTyped DEF Ends, InspectAgain
  <2> QED
    BY <1>4, <2>1, AsksTyped DEF InspectAgain, mishaps
<1>5. CASE Poll
  <2>1. ASSUME IsReleased, Verified PROVE AttemptTyped'
    BY <2>1, VerifiedTyped DEF IsReleased
  <2>2. ASSUME at = "poll", tries + 1 # Polls, tries' = tries + 1,
               UNCHANGED <<at, baseline, expected, left, answered, failed>>
        PROVE  AttemptTyped'
    BY <2>2, Constants DEF AttemptTyped
  <2>3. AttemptTyped'
    BY <1>5, <2>1, <2>2, EndsTyped DEF Ends, Poll
  <2> QED
    BY <1>5, <2>3, AsksTyped DEF Poll, mishaps
<1>6. CASE Before
  <2>1. ASSUME at = "before", at' = "probe", left' = machines,
               answered' = {}, UNCHANGED <<baseline, expected, tries, failed>>
        PROVE  AttemptTyped'
    BY <2>1, MachinesAre DEF AttemptTyped, Steps
  <2>2. AttemptTyped'
    BY <1>6, <2>1, EndsTyped DEF Ends, Before
  <2> QED
    BY <1>6, <2>2, AsksTyped DEF Before, mishaps
<1>7. CASE After
  <2>1. ASSUME at = "after", tries + 1 # Checks,
               at' = "before", tries' = tries + 1,
               UNCHANGED <<baseline, expected, left, answered, failed>>
        PROVE  AttemptTyped'
    BY <2>1, Constants DEF AttemptTyped, Steps
  <2>2. AttemptTyped'
    BY <1>7, <2>1, EndsTyped, GoesTyped DEF Ends, After, Steps
  <2> QED
    BY <1>7, <2>2, AsksTyped DEF After, mishaps
<1>8. ASSUME NEW x \in left, Probe(x)
      PROVE  Typed'
  <2>1. /\ at = "probe" /\ at' \in {"probe", "after"} /\ left' = left \ {x}
        /\ UNCHANGED <<baseline, expected, tries, failed>>
    BY <1>8 DEF Probe
  <2>2. \/ x \in up /\ answered' = answered \cup {<<x, instance[x]>>}
        \/ answered' = answered
    BY <1>8 DEF Probe
  <2>3. x \in up => <<x, instance[x]>> \in Machines \X (1..MaxFaults + 1)
    BY MachinesAre, Constants DEF ProviderTyped, StartsCounted
  <2>4. answered' \subseteq Machines \X (1..MaxFaults + 1)
    BY <2>2, <2>3 DEF AttemptTyped
  <2>5. AttemptTyped'
    BY <2>1, <2>4 DEF AttemptTyped, Steps
  <2> QED
    BY <1>8, <2>5, AsksTyped DEF Probe
<1> QED
  BY <1>1, <1>2, <1>3, <1>4, <1>5, <1>6, <1>7, <1>8

(* The steps of the adapter that change something of the provider's, and   *)
(* those of the orchestrator.                                              *)
LEMMA ChangesTyped ==
  ASSUME Typed,
         \/ Begin \/ NextTarget \/ Save \/ Abandoned \/ Refused
         \/ CreateApp \/ Command \/ CommandEnds
  PROVE  Typed'
<1> USE DEF Typed
<1>1. CASE Begin
  <2>1. AttemptTyped'
    BY <1>1, GoesTyped DEF Begin, Steps
  <2> QED
    BY <1>1, <2>1, AsksTyped DEF Begin, mishaps, NoFault
<1>2. CASE NextTarget
  <2>1. AttemptTyped'
    BY <1>2, Constants DEF NextTarget, AttemptTyped
  <2>2. RestTyped'
    BY <1>2, Constants DEF NextTarget, RestTyped, mishaps
  <2>3. UNCHANGED provider /\ NoFault
    BY <1>2 DEF NextTarget, NoFault
  <2> QED
    BY <2>1, <2>2, <2>3, ProviderStays, StartsStay DEF provider
<1>3. CASE Save
  <2>1. AttemptTyped'
    BY <1>3, EndsTyped DEF Ends, Save
  <2>2. RestTyped'
    BY <1>3, Constants DEF Save, RestTyped, mishaps
  <2>3. UNCHANGED provider /\ NoFault
    BY <1>3 DEF Save, NoFault
  <2> QED
    BY <2>1, <2>2, <2>3, ProviderStays, StartsStay DEF provider
<1>4. CASE Abandoned \/ Refused
  <2>1. AttemptTyped'
    BY <1>4, EndsTyped DEF Ends, Abandoned, Refused
  <2>2. /\ UNCHANGED <<want, saved>> /\ UNCHANGED provider
        /\ Fault \/ NoFault
        /\ disturbed' \in {disturbed, TRUE}
        /\ UNCHANGED orphans \/ (orphans < MaxOrphans /\ orphans' = orphans + 1)
    BY <1>4 DEF Abandoned, Refused, mishaps
  <2>3. RestTyped'
    <3>1. disturbed' \in BOOLEAN
      BY <2>2, Zenon DEF RestTyped
    <3> QED
      BY <2>2, <3>1, Constants DEF RestTyped, Fault, NoFault
  <2> QED
    BY <2>1, <2>2, <2>3, ProviderStays, StartsStay DEF provider
<1>5. CASE CreateApp
  <2>1. AttemptTyped'
    BY <1>5, GoesTyped DEF CreateApp, Steps
  <2>2. app' \in {"absent", "ours", "foreign"}
    BY <1>5 DEF CreateApp, ProviderTyped
  <2>3. UNCHANGED <<releases, machines, up, instance, running, want, saved,
                    orphans, disturbed>> /\ (Fault \/ NoFault)
    BY <1>5 DEF CreateApp, mishaps
  <2>4. ProviderTyped'
    BY <2>2, <2>3 DEF ProviderTyped, Machines, Numbers
  <2> QED
    BY <2>1, <2>3, <2>4, RestStays, StartsStay
<1>6. CASE Command
  <2>1. AttemptTyped'
    BY <1>6, GoesTyped, PollingTyped, EndsTyped DEF Ends, Command, Steps, AttemptTyped
  <2>2. UNCHANGED <<app, machines, up, instance, want, saved, orphans, disturbed>>
        /\ (Fault \/ NoFault)
    BY <1>6 DEF Command, mishaps
  <2>3. ASSUME Len(releases) < MaxReleases,
               releases' = Append(releases, want),
               running' = running \cup {Len(releases) + 1}
        PROVE  ProviderTyped'
    <3>1. /\ releases' \in Seq(1..Targets)
          /\ Len(releases') = Len(releases) + 1 /\ Len(releases) \in Nat
      BY <2>3 DEF ProviderTyped, RestTyped
    <3>2. Len(releases') <= MaxReleases
      BY <3>1, <2>3, Constants
    <3>3. 1..Len(releases) \subseteq 1..Len(releases')
      BY <3>1
    <3>4. machines' \subseteq (1..Len(releases')) \X Slots
      BY <3>3, <2>2 DEF ProviderTyped
    <3>5. running' \subseteq 1..Len(releases')
      <4>1. Len(releases) + 1 \in 1..Len(releases')
        BY <3>1
      <4> QED
        BY <4>1, <3>3, <2>3 DEF ProviderTyped
    <3> QED
      BY <3>1, <3>2, <3>4, <3>5, <2>2 DEF ProviderTyped, Machines, Numbers
  <2>4. ASSUME UNCHANGED <<releases, running>> PROVE ProviderTyped'
    BY <2>4, <2>2 DEF ProviderTyped, Machines, Numbers
  <2>5. ProviderTyped'
    BY <1>6, <2>3, <2>4 DEF Command
  <2> QED
    BY <2>1, <2>2, <2>5, RestStays, StartsStay
<1>7. CASE CommandEnds
  <2>1. AttemptTyped'
    BY <1>7, PollingTyped DEF CommandEnds, AttemptTyped
  <2>2. UNCHANGED <<app, releases, machines, up, instance, want, saved, orphans>>
        /\ (Fault \/ NoFault) /\ running' \subseteq running
        /\ disturbed' \in {disturbed, TRUE}
    BY <1>7 DEF CommandEnds
  <2>3. ProviderTyped'
    BY <2>2 DEF ProviderTyped, Machines, Numbers
  <2> QED
    BY <2>1, <2>2, <2>3, RestStays, StartsStay
<1> QED
  BY <1>1, <1>2, <1>3, <1>4, <1>5, <1>6, <1>7

(* A machine is started, is ready, restarts or is taken away.              *)
LEMMA ProviderStepsTyped ==
  ASSUME Typed,
         \/ Progress
         \/ \E n \in running : DeploymentFails(n) \/ OrphanDies(n)
         \/ \E x \in up : MachineRestarts(x)
  PROVE  Typed'
<1> USE DEF Typed
<1>1. ASSUME External PROVE AttemptTyped'
  BY <1>1 DEF External, AttemptTyped, attempt
<1>2. ASSUME External, Calm \/ Trouble PROVE RestTyped'
  BY <1>2, RestStays DEF External, Calm, Trouble, NoFault
<1>3. \A x \in Machines : instance[x] \in Nat
  BY Constants DEF ProviderTyped
<1>4. Machines' = Machines /\ faults \in Nat
  BY Constants DEF Machines, Numbers, RestTyped
<1>5. ASSUME NEW x \in Machines, MachineStarts(x) PROVE Typed'
  <2>1. External /\ Calm
    BY <1>5 DEF MachineStarts
  <2>2. x \in (1..Len(releases)) \X Slots
    BY <1>5 DEF MachineStarts, Machines, ProviderTyped
  <2>3. ProviderTyped'
    BY <1>5, <2>1, <2>2, <1>4, Constants
       DEF MachineStarts, External, ProviderTyped
  <2>4. StartsCounted'
    BY <1>5, <1>3, <1>4 DEF MachineStarts, StartsCounted, ProviderTyped, Calm
  <2> QED
    BY <2>1, <2>3, <2>4, <1>1, <1>2
<1>6. ASSUME NEW x \in Machines, MachineIsReady(x) PROVE Typed'
  <2>1. External /\ Calm /\ UNCHANGED <<machines, instance>>
    BY <1>6 DEF MachineIsReady
  <2>2. ProviderTyped'
    BY <1>6, <2>1, <1>4 DEF MachineIsReady, External, ProviderTyped
  <2> QED
    BY <2>1, <2>2, <1>1, <1>2, StartsStay DEF Calm, NoFault
<1>7. ASSUME External, Calm \/ Trouble, UNCHANGED instance,
             machines' \subseteq machines, up' \subseteq machines',
             running' \subseteq running
      PROVE  Typed'
  <2>1. ProviderTyped'
    BY <1>7, <1>4 DEF External, ProviderTyped
  <2>2. faults' \in Nat /\ faults <= faults'
    BY <1>7, <1>4 DEF Fault, Calm, Trouble
  <2>3. StartsCounted'
    BY <1>7, <1>3, <1>4, <2>2 DEF StartsCounted
  <2> QED
    BY <1>7, <2>1, <2>3, <1>1, <1>2
<1>8. ASSUME NEW n \in running, NEW x \in machines, BlueIsRetired(n, x)
      PROVE  Typed'
  BY <1>8, <1>7 DEF BlueIsRetired, ProviderTyped
<1>9. ASSUME NEW n \in running, DeploymentEnds(n) PROVE Typed'
  BY <1>9, <1>7 DEF DeploymentEnds, ProviderTyped
<1>10. ASSUME NEW n \in running, DeploymentFails(n) PROVE Typed'
  BY <1>10, <1>7 DEF DeploymentFails, ProviderTyped
<1>11. ASSUME NEW n \in running, OrphanDies(n) PROVE Typed'
  BY <1>11, <1>7 DEF OrphanDies, ProviderTyped
<1>12. ASSUME NEW x \in up, MachineRestarts(x) PROVE Typed'
  <2>1. External /\ Trouble /\ UNCHANGED <<machines, running>>
        /\ up' = up \ {x} /\ instance' = [instance EXCEPT ![x] = @ + 1]
    BY <1>12 DEF MachineRestarts
  <2>2. x \in Machines /\ instance[x] + 1 <= faults + 2
    BY MachinesAre, <1>3, <1>4 DEF StartsCounted
  <2>3. faults < MaxFaults /\ faults' = faults + 1
    BY <2>1 DEF Fault, Trouble
  <2>4. instance[x] + 1 \in 0..MaxFaults + 1
    BY <2>2, <2>3, <1>3, <1>4, Constants
  <2>5. ProviderTyped'
    BY <2>1, <2>4, <1>4 DEF External, ProviderTyped
  <2>6. StartsCounted'
    BY <2>1, <2>2, <2>3, <1>3, <1>4, MachinesAre DEF StartsCounted, ProviderTyped
  <2> QED
    BY <2>1, <2>5, <2>6, <1>1, <1>2
<1>13. machines \subseteq Machines
  BY MachinesAre
<1> QED
  BY <1>5, <1>6, <1>8, <1>9, <1>10, <1>11, <1>12, <1>13 DEF Progress

(* Every step keeps the types.                                             *)
LEMMA TypedNext ==
  ASSUME Typed, [Next]_vars
  PROVE  Typed'
<1>1. CASE Next
  BY <1>1, StepsTyped, ChangesTyped, ProviderStepsTyped DEF Next, Step
<1>2. CASE UNCHANGED vars
  BY <1>2 DEF vars, provider, attempt, mishaps, Typed, AttemptTyped, ProviderTyped,
              RestTyped, StartsCounted, Machines, Numbers
<1> QED
  BY <1>1, <1>2

(* The types of the state in every behaviour, for any bounds.              *)
THEOREM TypeCorrect == Spec => []TypeOK
<1>1. Typed => TypeOK
  BY TypeParts DEF Typed
<1> QED
  BY <1>1, TypedInit, TypedNext, PTL DEF Spec
-----------------------------------------------------------------------------
(* Between the list that verified the release and the receipt: instances   *)
(* only grow, so an instance that was the same before and after a machine  *)
(* answered is the one that answered.                                      *)
Verifying == at \in {"before", "probe", "after", "returned"}
Sighted == Verifying => \A x \in DOMAIN expected.instances :
             /\ x \in Machines /\ expected.instances[x] \in Nat
             /\ expected.instances[x] <= instance[x]
Heard == \A x \in Machines : \A i \in 1..MaxFaults + 1 :
           <<x, i>> \in answered =>
             /\ Verifying /\ i <= instance[x]
             /\ x \in DOMAIN expected.instances => expected.instances[x] <= i
Seen == Sighted /\ Heard
Grows == \A x \in Machines : /\ instance[x] \in Nat /\ instance'[x] \in Nat
                            /\ instance[x] <= instance'[x]

(* Instance numbers only grow: no machine is started twice under one       *)
(* number.                                                                 *)
LEMMA InstancesGrow ==
  ASSUME Typed, [Next]_vars
  PROVE  Grows
<1>1. /\ instance \in [Machines -> 0..MaxFaults + 1]
      /\ instance' \in [Machines -> 0..MaxFaults + 1]
  BY TypedNext DEF Typed, ProviderTyped, Machines, Numbers
<1>2. ASSUME NEW x \in Machines
      PROVE  instance[x] \in Nat /\ instance'[x] \in Nat
  BY <1>1, Constants
<1>3. CASE UNCHANGED instance
  BY <1>2, <1>3 DEF Grows
<1>4. ASSUME NEW x \in Machines, MachineStarts(x)
      PROVE  Grows
  BY <1>1, <1>2, <1>4 DEF MachineStarts, Grows
<1>5. ASSUME NEW x \in up, MachineRestarts(x)
      PROVE  Grows
  BY <1>1, <1>2, <1>5 DEF MachineRestarts, Grows
<1>6. Next => \/ UNCHANGED instance
              \/ \E x \in Machines : MachineStarts(x)
              \/ \E x \in up : MachineRestarts(x)
  BY DEF Next, Step, provider, Begin, Inspect, FindApp, CreateApp, ConfirmApp,
         InspectAgain, Command, CommandEnds, Poll, Before, Probe, After, Save,
         NextTarget, Abandoned, Refused, Progress, MachineIsReady, BlueIsRetired,
         DeploymentEnds, DeploymentFails, OrphanDies
<1> QED
  BY <1>3, <1>4, <1>5, <1>6 DEF vars, provider

(* No attempt is verifying anything at first.                              *)
LEMMA SeenInit == Init => Seen
  BY DEF Init, Seen, Sighted, Heard, Verifying

(* An attempt that is over has heard nothing.                              *)
LEMMA EndsSeen == Ends => Seen'
  BY EndsAre DEF Forgets, Seen, Sighted, Heard, Verifying

(* What an attempt has seen stays seen while instances only grow.          *)
LEMMA SeenStays ==
  ASSUME Seen, Grows, UNCHANGED <<expected, answered>>, Verifying' <=> Verifying
  PROVE  Seen'
<1>1. Machines' = Machines
  BY DEF Machines, Numbers
<1>2. Sighted'
  BY <1>1 DEF Seen, Grows, Sighted
<1>3. Heard'
  BY <1>1 DEF Seen, Grows, Heard
<1> QED
  BY <1>2, <1>3 DEF Seen

(* What is verified now is what the machines are now.                      *)
LEMMA VerifiedSeen ==
  ASSUME Typed, Seen, Grows, ~Verifying, machines # {}, Verified,
         UNCHANGED instance
  PROVE  Seen'
<1>1. /\ DOMAIN expected'.instances = machines
      /\ \A x \in machines : expected'.instances[x] = instance[x]
  BY IdentityTells DEF Verified, Typed
<1>2. machines \subseteq Machines /\ Machines' = Machines
  BY MachinesAre DEF Typed, Machines, Numbers
<1>3. Sighted'
  BY <1>1, <1>2 DEF Sighted, Grows
<1>4. Heard'
  BY <1>2 DEF Seen, Heard, Verified
<1> QED
  BY <1>3, <1>4 DEF Seen

(* An attempt begins to verify with the instances that are there.          *)
LEMMA PlanSeen ==
  ASSUME Typed, Seen, Grows, ~Verifying, Plan, UNCHANGED instance
  PROVE  Seen'
<1>1. ASSUME IsReleased, Verified PROVE Seen'
  BY <1>1, VerifiedSeen DEF IsReleased
<1>2. ASSUME UNCHANGED <<expected, answered>>, at' \in {"poll", "command"}
      PROVE  Seen'
  BY <1>2, SeenStays DEF Verifying
<1> QED
  BY <1>1, <1>2, EndsSeen DEF Ends, Plan, Polling

(* Every step keeps what a verifying attempt has seen true.                *)
LEMMA SeenNext ==
  ASSUME Typed, Seen, [Next]_vars
  PROVE  Seen'
<1>1. Grows
  BY InstancesGrow
<1>2. Machines' = Machines
  BY DEF Machines, Numbers
<1>3. ASSUME at \notin {"before", "probe", "after", "returned"},
             at' \notin {"before", "probe", "after", "returned"},
             UNCHANGED <<expected, answered>>
      PROVE  Seen'
  BY <1>1, <1>3, SeenStays DEF Verifying
<1>4. CASE Begin \/ NextTarget
  BY <1>3, <1>4 DEF Begin, NextTarget, Goes
<1>5. CASE Inspect
  BY <1>1, <1>3, <1>5, PlanSeen DEF Inspect, Goes, Verifying, provider
<1>6. CASE FindApp \/ ConfirmApp \/ CreateApp
  BY <1>3, <1>6, EndsSeen DEF Ends, FindApp, ConfirmApp, CreateApp, Goes
<1>7. CASE InspectAgain
  BY <1>1, <1>7, PlanSeen, EndsSeen DEF Ends, InspectAgain, Verifying, provider
<1>8. CASE Command \/ CommandEnds
  BY <1>3, <1>8, EndsSeen DEF Ends, Command, CommandEnds, Goes, Polling
<1>9. CASE Poll
  <2>1. ASSUME IsReleased, Verified PROVE Seen'
    BY <1>1, <1>9, <2>1, VerifiedSeen DEF IsReleased, Poll, Verifying, provider
  <2> QED
    BY <1>3, <1>9, <2>1, EndsSeen DEF Ends, Poll
<1>10. CASE Before
  <2>1. ASSUME at = "before", at' = "probe", answered' = {}, UNCHANGED expected
        PROVE  Seen'
    <3>1. Sighted'
      BY <1>1, <1>2, <2>1 DEF Seen, Sighted, Grows, Verifying
    <3>2. Heard'
      BY <2>1 DEF Heard
    <3> QED
      BY <3>1, <3>2 DEF Seen
  <2> QED
    BY <1>10, <2>1, EndsSeen DEF Ends, Before
<1>11. ASSUME NEW x \in left, Probe(x)
       PROVE  Seen'
  <2>1. /\ at = "probe" /\ at' \in {"probe", "after"}
        /\ UNCHANGED <<expected, instance>>
    BY <1>11 DEF Probe, provider
  <2>2. Sighted'
    BY <1>1, <1>2, <2>1 DEF Seen, Sighted, Verifying
  <2>3. \/ x \in up /\ answered' = answered \cup {<<x, instance[x]>>}
        \/ answered' = answered
    BY <1>11 DEF Probe
  <2>4. x \in up => x \in Machines
    BY MachinesAre DEF Typed
  <2>5. ASSUME NEW y \in Machines, NEW i \in 1..MaxFaults + 1,
               <<y, i>> \in answered'
        PROVE  /\ Verifying' /\ i <= instance[y]
               /\ y \in DOMAIN expected.instances => expected.instances[y] <= i
    <3>1. CASE <<y, i>> \in answered
      BY <2>1, <3>1 DEF Seen, Heard, Verifying
    <3>2. CASE x \in up /\ y = x /\ i = instance[x]
      BY <1>1, <2>1, <2>4, <3>2 DEF Seen, Sighted, Verifying, Grows
    <3> QED
      BY <2>3, <2>5, <3>1, <3>2
  <2>6. Heard'
    BY <2>1, <2>5, <1>2 DEF Heard
  <2> QED
    BY <2>2, <2>6 DEF Seen
<1>12. CASE After
  BY <1>1, <1>12, EndsSeen, SeenStays DEF Ends, After, Goes, Verifying
<1>13. CASE Save \/ Abandoned \/ Refused
  BY <1>13, EndsSeen DEF Ends, Save, Abandoned, Refused
<1>14. ASSUME UNCHANGED attempt PROVE Seen'
  BY <1>1, <1>14, SeenStays DEF attempt, Verifying
<1>15. CASE \/ Progress \/ UNCHANGED vars
            \/ \E n \in running : DeploymentFails(n) \/ OrphanDies(n)
            \/ \E x \in up : MachineRestarts(x)
  BY <1>14, <1>15 DEF Progress, MachineStarts, MachineIsReady,
     BlueIsRetired, DeploymentEnds, DeploymentFails, OrphanDies,
     MachineRestarts, External, vars
<1> QED
  BY <1>4, <1>5, <1>6, <1>7, <1>8, <1>9, <1>10, <1>11, <1>12, <1>13, <1>15
     DEF Next, Step

(* A receipt given after this step is truthful.                            *)
Truthful == /\ machines # {} /\ machines = DOMAIN expected.instances
            /\ \A x \in machines : /\ releases[x[1]] = want
                                   /\ x \in up /\ <<x, instance[x]>> \in answered
(* The last health check returns a receipt of instances that answered      *)
(* throughout.                                                             *)
LEMMA ReceiptStep ==
  ASSUME Typed, Seen, After, at' = "returned"
  PROVE  Truthful
<1>1. IsReleased /\ Identity(machines) = expected /\ AllAnswered
  BY EndsAre DEF After, Ends, Goes, IsExpected
<1>2. /\ machines # {} /\ machines = DOMAIN expected.instances
      /\ \A x \in machines : expected.instances[x] = instance[x]
  BY <1>1, IdentityTells DEF IsReleased, Typed
<1>3. ASSUME NEW x \in machines
      PROVE  /\ releases[x[1]] = want
             /\ x \in up /\ <<x, instance[x]>> \in answered
  <2>1. releases[x[1]] = want /\ x \in up
    BY <1>1 DEF IsReleased, IsTarget
  <2>2. PICK i \in 1..MaxFaults + 1 : <<x, i>> \in answered
    BY <1>1, <1>2 DEF AllAnswered
  <2>3. x \in Machines
    BY MachinesAre DEF Typed
  <2>4. i <= instance[x] /\ instance[x] <= i
    BY <1>2, <2>2, <2>3 DEF Seen, Heard
  <2>5. instance[x] \in Nat
    BY <2>3, Constants DEF Typed, ProviderTyped
  <2>6. i = instance[x]
    BY <2>4, <2>5, Constants
  <2> QED
    BY <2>1, <2>2, <2>6
<1> QED
  BY <1>2, <1>3 DEF Truthful

(* No step but After gives a receipt.                                      *)
LEMMA OnlyAfterReturns ==
  ASSUME Next, at' = "returned", at # "returned"
  PROVE  After
<1>1. Plan => at' # "returned"
  BY EndsAre DEF Plan, Verified, Polling, Ends
<1> QED
  BY <1>1, EndsAre DEF Next, Step, Begin, Inspect, FindApp, CreateApp, ConfirmApp,
     InspectAgain, Command, CommandEnds, Poll, Before, Probe, Save, NextTarget,
     Abandoned, Progress, MachineStarts, MachineIsReady, BlueIsRetired,
     DeploymentEnds, DeploymentFails, OrphanDies, MachineRestarts, External,
     attempt, Goes, Ends, Refused, Polling, Verified

(* What a receipt says of the machines of the app is so when it is given,  *)
(* whatever restarted or was replaced while the adapter looked.            *)
THEOREM Receipts == Spec => ReceiptIsTruthful
<1>1. Init => Typed /\ Seen
  BY TypedInit, SeenInit
<1>2. Typed /\ Seen /\ [Next]_vars => (Typed /\ Seen)'
  BY TypedNext, SeenNext
<1>3. Typed /\ Seen /\ [Next]_vars =>
        [at' = "returned" /\ at # "returned" => Truthful]_vars
  BY OnlyAfterReturns, ReceiptStep
<1>4. [][at' = "returned" /\ at # "returned" => Truthful]_vars
        => ReceiptIsTruthful
  BY PTL DEF ReceiptIsTruthful, Truthful
<1> QED
  BY <1>1, <1>2, <1>3, <1>4, PTL DEF Spec
-----------------------------------------------------------------------------
(* While no flyctl goes on unseen, the one at work is that of the attempt, *)
(* it deploys the wanted target, and no other release of it has machines.  *)
Mine(x) == releases[x[1]] = want
OneAtWork == /\ running \subseteq {Len(releases)}
             /\ running # {} => at = "deploying"
Deploying == at = "deploying" =>
               /\ Len(releases) > 0 /\ releases[Len(releases)] = want
               /\ \A x \in machines : Mine(x) => x[1] = Len(releases)
NoneThere == at = "command" => \A x \in machines : ~Mine(x)
AllThere  == at = "returned" => \A x \in machines : Mine(x)
OneEach   == \A x, y \in machines : releases[x[1]] = releases[y[1]] => x[1] = y[1]
Forward   == \A x \in machines : releases[x[1]] >= saved
Alone == orphans = 0 => /\ OneAtWork /\ Deploying /\ NoneThere /\ AllThere
                        /\ OneEach /\ Forward

(* No machine is there at first.                                           *)
LEMMA AloneInit == Init => Alone
  BY DEF Init, Alone, OneAtWork, Deploying, NoneThere, AllThere, OneEach, Forward

(* A step of the adapter after which no deployment can go on.              *)
LEMMA AloneQuiet ==
  ASSUME Alone, UNCHANGED provider, saved' = saved, orphans = 0,
         at # "deploying", at' # "deploying",
         at' = "command" => (\A x \in machines : ~Mine(x)) /\ want' = want,
         at' = "returned" => (\A x \in machines : Mine(x)) /\ want' = want
  PROVE  Alone'
<1>1. OneAtWork /\ OneEach /\ Forward
  BY DEF Alone
<1>2. OneAtWork' /\ Deploying'
  BY <1>1 DEF OneAtWork, Deploying, provider
<1>3. NoneThere' /\ AllThere'
  BY DEF NoneThere, AllThere, Mine, provider
<1>4. OneEach' /\ Forward'
  BY <1>1 DEF OneEach, Forward, provider
<1> QED
  BY <1>2, <1>3, <1>4 DEF Alone

(* A plan goes to the command only when no machine bears the release.      *)
LEMMA PlanAlone ==
  ASSUME Plan
  PROVE  /\ at' \in {"before", "poll", "command", "parked"}
         /\ at' = "command" => \A x \in machines : ~Mine(x)
  BY DEF Plan, Verified, Polling, Parks, IsTarget, Mine

(* The machines of the deployment at work come and older ones go.          *)
LEMMA AloneMachines ==
  ASSUME Typed, Alone, orphans = 0, External, running' \subseteq running,
         NEW m \in Machines, machines' \subseteq machines \cup {m},
         m \in machines' => m \in machines \/ m[1] \in running
  PROVE  Alone'
<1> USE DEF Typed
<1>1. OneAtWork /\ Deploying /\ NoneThere /\ AllThere /\ OneEach /\ Forward
  BY DEF Alone
<1>2. UNCHANGED <<releases, want, saved, at>>
  BY DEF External, attempt
<1>3. OneAtWork'
  BY <1>1, <1>2 DEF OneAtWork
<1>4. m[1] \in running => /\ at = "deploying" /\ m[1] = Len(releases)
                          /\ releases[m[1]] = want
  BY <1>1 DEF OneAtWork, Deploying
<1>5. Deploying'
  BY <1>1, <1>2, <1>4 DEF Deploying, Mine
<1>6. NoneThere'
  BY <1>1, <1>2, <1>4 DEF NoneThere, Mine
<1>7. AllThere'
  BY <1>1, <1>2, <1>4 DEF AllThere, Mine
<1>8. OneEach'
  BY <1>1, <1>2, <1>4 DEF OneEach, Deploying, Mine
<1>9. Forward'
  <2>1. want >= saved
    BY Constants DEF RestTyped
  <2> QED
    BY <1>1, <1>2, <1>4, <2>1 DEF Forward
<1> QED
  BY <1>3, <1>5, <1>6, <1>7, <1>8, <1>9 DEF Alone

(* Commands that outlive their attempt only become more.                   *)
LEMMA OrphansStay ==
  ASSUME Typed, [Next]_vars
  PROVE  orphans \in Nat /\ orphans' \in Nat /\ orphans <= orphans'
<1>1. orphans \in Nat
  BY Constants DEF Typed, RestTyped
<1>2. orphans' = orphans \/ orphans' = orphans + 1
  BY DEF Next, Step, provider, Begin, Inspect, FindApp, CreateApp, ConfirmApp,
         InspectAgain, Command, CommandEnds, Poll, Before, Probe, After, Save,
         NextTarget, Abandoned, Refused, Progress, MachineStarts, MachineIsReady,
         BlueIsRetired, DeploymentEnds, DeploymentFails, OrphanDies,
         MachineRestarts, External, mishaps, vars
<1> QED
  BY <1>1, <1>2

(* Every step keeps it that a release is created by one command unless an  *)
(* earlier one was left running.                                           *)
LEMMA AloneNext ==
  ASSUME Typed, Alone, [Next]_vars
  PROVE  Alone'
<1> SUFFICES ASSUME orphans' = 0, orphans = 0
             PROVE  Alone'
  BY OrphansStay DEF Alone
<1>1. OneAtWork /\ Deploying /\ NoneThere /\ AllThere /\ OneEach /\ Forward
  BY DEF Alone
<1>2. CASE Begin \/ FindApp \/ ConfirmApp
  BY <1>2, EndsAre, AloneQuiet DEF Begin, FindApp, ConfirmApp, Goes, Ends
<1>3. CASE Inspect \/ InspectAgain
  BY <1>3, EndsAre, AloneQuiet, PlanAlone DEF Inspect, InspectAgain, Goes, Ends
<1>4. CASE NextTarget
  BY <1>4, AloneQuiet DEF NextTarget
<1>5. CASE Poll \/ Before
  BY <1>5, EndsAre, AloneQuiet DEF Poll, Before, Ends, Verified
<1>6. ASSUME NEW x \in left, Probe(x) PROVE Alone'
  BY <1>6, AloneQuiet DEF Probe
<1>7. CASE After
  <2>1. at' = "returned" => \A x \in machines : Mine(x)
    BY <1>7, EndsAre DEF After, Ends, Goes, IsExpected, IsReleased, IsTarget, Mine
  <2>2. at' \in {"returned", "idle", "parked", "before"}
    BY <1>7, EndsAre DEF After, Ends, Goes
  <2> QED
    BY <1>7, <2>1, <2>2, AloneQuiet DEF After
<1>8. CASE CreateApp
  <2>1. UNCHANGED <<releases, machines, running, want, saved>>
        /\ at = "create app" /\ at' = "confirm app"
    BY <1>8 DEF CreateApp, Goes
  <2>2. OneAtWork' /\ Deploying' /\ NoneThere' /\ AllThere'
    BY <1>1, <2>1 DEF OneAtWork, Deploying, NoneThere, AllThere
  <2>3. OneEach' /\ Forward'
    BY <1>1, <2>1 DEF OneEach, Forward
  <2> QED
    BY <2>2, <2>3 DEF Alone
<1>9. CASE Command
  <2>1. ASSUME UNCHANGED provider, at' \in {"poll", "idle", "parked"} PROVE Alone'
    BY <1>9, <2>1, AloneQuiet DEF Command
  <2>2. ASSUME releases' = Append(releases, want), Goes("deploying"),
               running' = running \cup {Len(releases) + 1}
        PROVE  Alone'
    <3>1. /\ Len(releases) \in Nat /\ Len(releases') = Len(releases) + 1
          /\ \A n \in 1..Len(releases) : releases'[n] = releases[n]
          /\ releases'[Len(releases')] = want
      BY <2>2 DEF Typed, ProviderTyped, RestTyped
    <3>2. \A x \in machines : x[1] \in 1..Len(releases)
      BY MachinesAre DEF Typed
    <3>3. \A x \in machines : releases'[x[1]] = releases[x[1]]
      BY <3>1, <3>2
    <3>4. UNCHANGED <<machines, want, saved>> /\ at = "command"
      BY <1>9 DEF Command
    <3>5. at' = "deploying" /\ running = {}
      BY <2>2, <1>1, <3>4 DEF Goes, OneAtWork
    <3>6. OneAtWork'
      BY <2>2, <3>1, <3>5 DEF OneAtWork
    <3>7. Deploying' /\ NoneThere' /\ AllThere'
      BY <1>1, <3>1, <3>3, <3>4, <3>5
         DEF Deploying, NoneThere, AllThere, Mine
    <3>8. OneEach' /\ Forward'
      BY <1>1, <3>3, <3>4 DEF OneEach, Forward
    <3> QED
      BY <3>6, <3>7, <3>8 DEF Alone
  <2> QED
    BY <1>9, EndsAre, <2>1, <2>2 DEF Command, Polling, Ends, provider
<1>10. CASE CommandEnds
  <2>1. UNCHANGED <<releases, machines, want, saved>> /\ at' = "poll"
        /\ running' = running \ {Len(releases)}
    BY <1>10 DEF CommandEnds, Polling
  <2>2. running' = {}
    BY <1>1, <2>1 DEF OneAtWork
  <2>3. OneAtWork' /\ Deploying' /\ NoneThere' /\ AllThere'
    BY <2>1, <2>2 DEF OneAtWork, Deploying, NoneThere, AllThere
  <2>4. OneEach' /\ Forward'
    BY <1>1, <2>1 DEF OneEach, Forward
  <2> QED
    BY <2>3, <2>4 DEF Alone
<1>11. CASE Save
  <2>1. UNCHANGED provider /\ want' = want /\ saved' = want
        /\ at = "returned" /\ at' = "idle"
    BY <1>11 DEF Save, Dies
  <2>2. running' = {} /\ \A x \in machines : releases[x[1]] = want
    BY <1>1, <2>1 DEF OneAtWork, AllThere, Mine, provider
  <2>3. OneAtWork' /\ Deploying' /\ NoneThere' /\ AllThere'
    BY <2>1, <2>2 DEF OneAtWork, Deploying, NoneThere, AllThere
  <2>4. OneEach'
    BY <1>1, <2>1 DEF OneEach, provider
  <2>5. Forward'
    BY <2>1, <2>2, Constants DEF Forward, provider, Typed, RestTyped
  <2> QED
    BY <2>3, <2>4, <2>5 DEF Alone
<1>12. CASE Abandoned \/ Refused
  <2>1. UNCHANGED <<releases, machines, running, want, saved>> /\ at' \in {"idle", "parked"}
    BY <1>12, EndsAre DEF Abandoned, Refused, Ends, provider
  <2>2. ~(at = "deploying" /\ Len(releases) \in running)
    BY <1>12 DEF Abandoned, Refused
  <2>3. running' = {}
    BY <1>1, <2>1, <2>2 DEF OneAtWork
  <2>4. OneAtWork' /\ Deploying' /\ NoneThere' /\ AllThere'
    BY <2>1, <2>3 DEF OneAtWork, Deploying, NoneThere, AllThere
  <2>5. OneEach' /\ Forward'
    BY <1>1, <2>1 DEF OneEach, Forward
  <2> QED
    BY <2>4, <2>5 DEF Alone
<1>13. ASSUME NEW x \in Machines, MachineStarts(x) PROVE Alone'
  BY <1>13, AloneMachines DEF MachineStarts
<1>14. ASSUME External, machines' \subseteq machines, running' \subseteq running,
              running # {} \/ machines # {}
       PROVE  Alone'
  <2>1. CASE machines # {}
    <3>1. PICK m \in machines : TRUE
      BY <2>1
    <3> QED
      BY <1>14, <3>1, AloneMachines, MachinesAre DEF Typed
  <2>2. CASE machines = {}
    <3>1. machines' = {} /\ UNCHANGED <<releases, at>>
      BY <1>14, <2>2 DEF External, attempt
    <3>2. OneAtWork' /\ Deploying' /\ NoneThere' /\ AllThere'
      BY <1>1, <1>14, <3>1 DEF OneAtWork, Deploying, NoneThere, AllThere, External
    <3>3. OneEach' /\ Forward'
      BY <3>1 DEF OneEach, Forward
    <3> QED
      BY <3>2, <3>3 DEF Alone
  <2> QED
    BY <2>1, <2>2
<1>15. CASE \/ \E x \in Machines : MachineIsReady(x)
            \/ \E n \in running : DeploymentEnds(n)
            \/ \E n \in running : \E x \in machines : BlueIsRetired(n, x)
            \/ \E n \in running : DeploymentFails(n) \/ OrphanDies(n)
            \/ \E x \in up : MachineRestarts(x)
  BY <1>14, <1>15 DEF MachineIsReady, DeploymentEnds, BlueIsRetired,
     DeploymentFails, OrphanDies, MachineRestarts, Typed, ProviderTyped
<1>16. CASE UNCHANGED vars
  BY <1>1, <1>16 DEF vars, provider, attempt, mishaps, Alone, OneAtWork, Deploying,
     NoneThere, AllThere, OneEach, Forward, Mine
<1> QED
  BY <1>2, <1>3, <1>4, <1>5, <1>6, <1>7, <1>8, <1>9, <1>10, <1>11, <1>12,
     <1>13, <1>15, <1>16 DEF Next, Step, Progress

(* Retries and lost answers never leave two releases of one target beside  *)
(* each other, as long as no flyctl goes on unseen.                        *)
THEOREM OneRelease == Spec => []OneReleasePerTarget
<1>1. Init => Typed /\ Alone
  BY TypedInit, AloneInit
<1>2. Typed /\ Alone /\ [Next]_vars => (Typed /\ Alone)'
  BY TypedNext, AloneNext
<1>3. Alone => OneReleasePerTarget
  BY DEF Alone, OneEach, OneReleasePerTarget
<1> QED
  BY <1>1, <1>2, <1>3, PTL DEF Spec

(* A saved target is not replaced by an earlier one, as long as no flyctl  *)
(* goes on unseen.                                                         *)
THEOREM MovesForward == Spec => []ProductionMovesForward
<1>1. Init => Typed /\ Alone
  BY TypedInit, AloneInit
<1>2. Typed /\ Alone /\ [Next]_vars => (Typed /\ Alone)'
  BY TypedNext, AloneNext
<1>3. Alone => ProductionMovesForward
  BY DEF Alone, Forward, ProductionMovesForward
<1> QED
  BY <1>1, <1>2, <1>3, PTL DEF Spec
=============================================================================
