--------------------------- MODULE FlyDeployment ----------------------------
(* FlyCliDeploymentAdapter: how the proven artifact of a project becomes   *)
(* the production release of its Fly app.  A deployment is a command that  *)
(* runs for minutes, whose result may be lost and which goes on when the   *)
(* process that started it dies; the adapter therefore believes only what  *)
(* it sees in the list of machines, before and after.                      *)
(*                                                                         *)
(* Attempts of one project follow each other (ProjectSerialExecutor).      *)
(* Releases are numbered as Fly numbers them; a release key stands for the *)
(* candidate, its contract, its revision and its artifact, and targets are *)
(* numbered in the order in which the orchestrator comes to want them.     *)
EXTENDS Naturals, Sequences, FiniteSets

CONSTANTS Targets,      \* how many candidates are to be deployed in turn
          Slots,        \* the machines of one release
          Polls,        \* #releaseMaxAttempts
          Checks,       \* #healthMaxAttempts
          MaxAttempts,  \* #effectMaxAttempts
          None,
          MaxReleases,  \* bound: deployments begun
          MaxFaults,    \* bound: calls that fail or are given up, restarts
          MaxOrphans    \* bound: flyctl processes that outlive an attempt

ASSUME FlyAssumption ==
  /\ {Targets, Polls, Checks, MaxAttempts} \subseteq Nat \ {0}
  /\ {MaxFaults, MaxOrphans, MaxReleases} \subseteq Nat
  /\ IsFiniteSet(Slots) /\ Slots # {}

VARIABLES
  app,        \* the app of that name: "absent", "ours" or somebody else's
  releases,   \* the target of each release
  machines,   \* the machines in the list, as <<release, slot>>
  up,         \* those in a servable state
  instance,   \* how often a machine was started: its instance_id
  running,    \* the releases whose flyctl is still at work
  want,       \* the target the orchestrator wants
  saved,      \* the last target whose receipt it has saved
  at,         \* where the attempt is
  baseline,   \* baselineReleaseVersion
  expected,   \* the release identity the attempt has verified
  tries,      \* the attempt of the loop it is in
  left,       \* machines it has not probed in this round
  answered,   \* machines, with their instance, that answered in this round
  failed,     \* how many attempts for the target have failed
  faults,
  orphans,    \* how often a flyctl outlived its attempt
  disturbed   \* a deployment was cut short, a machine restarted or did not
              \* serve, or an answer made no sense: not only was one lost

provider == <<app, releases, machines, up, instance, running>>
attempt  == <<at, baseline, expected, tries, left, answered, failed>>
mishaps  == <<orphans, disturbed>>
vars == <<provider, want, saved, attempt, faults, mishaps>>

Numbers  == 1..MaxReleases
Machines == Numbers \X Slots
Steps == {"idle", "inspect", "find app", "create app", "confirm app",
          "inspect again", "command", "deploying", "poll",
          "before", "probe", "after", "returned", "parked"}

TypeOK ==
  /\ app \in {"absent", "ours", "foreign"}
  /\ releases \in Seq(1..Targets) /\ Len(releases) <= MaxReleases
  /\ machines \subseteq (1..Len(releases)) \X Slots /\ up \subseteq machines
  /\ instance \in [Machines -> 0..MaxFaults + 1]
  /\ running \subseteq 1..Len(releases)
  /\ want \in 1..Targets /\ saved \in 0..want
  /\ at \in Steps /\ baseline \in 0..MaxReleases
  /\ tries \in Nat /\ (at = "poll" => tries < Polls)
  /\ at \in {"before", "probe", "after"} => tries < Checks
  /\ left \subseteq Machines /\ answered \subseteq Machines \X (1..MaxFaults + 1)
  /\ expected # None => expected.n \in Numbers
  /\ failed \in 0..MaxAttempts - 1
  /\ faults \in 0..MaxFaults /\ orphans \in 0..MaxOrphans
  /\ disturbed \in BOOLEAN

Init ==
  /\ app \in {"absent", "foreign"}
  /\ releases = <<>> /\ machines = {} /\ up = {} /\ running = {}
  /\ instance = [x \in Machines |-> 0]
  /\ want = 1 /\ saved = 0
  /\ at = "idle" /\ baseline = 0 /\ expected = None /\ tries = 0
  /\ left = {} /\ answered = {} /\ failed = 0
  /\ faults = 0 /\ orphans = 0 /\ disturbed = FALSE

Fault == faults < MaxFaults /\ faults' = faults + 1
NoFault == UNCHANGED faults
-----------------------------------------------------------------------------
(* What the list of machines tells.  An identity names the release, its    *)
(* machines and their instances.                                           *)
IsTarget(x) == releases[x[1]] = want
Coherent(M) == \A x, y \in M : x[1] = y[1]
Identity(M) == [n |-> (CHOOSE x \in M : TRUE)[1],
                instances |-> [x \in M |-> instance[x]]]

(* targetReleaseIdentity # undefined                                       *)
IsReleased == /\ machines # {} /\ machines \subseteq up
              /\ \A x \in machines : IsTarget(x)
              /\ Coherent(machines)

(* requireSameTargetRelease                                                *)
IsExpected_AnyInstance == IsReleased /\ Identity(machines).n = expected.n
IsExpected == IsReleased /\ Identity(machines) = expected

(* The attempt ends, and with it what it knows: with an error after which  *)
(* the effect is attempted again, for a while; with one after which the    *)
(* project is left to the operator; or without the orchestrator learning   *)
(* of it.                                                                  *)
Forgets == /\ baseline' = 0 /\ expected' = None /\ tries' = 0
           /\ left' = {} /\ answered' = {}
Retries == /\ Forgets
           /\ IF failed + 1 = MaxAttempts
              THEN at' = "parked" /\ UNCHANGED failed
              ELSE at' = "idle" /\ failed' = failed + 1
Parks   == Forgets /\ at' = "parked" /\ UNCHANGED failed
Dies    == Forgets /\ at' = "idle" /\ UNCHANGED failed

Goes(step) == at' = step /\ UNCHANGED <<baseline, expected, tries, left,
                                         answered, failed>>

Polling(base) == /\ at' = "poll" /\ baseline' = base /\ tries' = 0
                 /\ UNCHANGED <<expected, left, answered, failed>>

(* The release is there: its health is checked next.                       *)
Verified == /\ at' = "before" /\ expected' = Identity(machines) /\ tries' = 0
            /\ UNCHANGED <<baseline, left, answered, failed>>
-----------------------------------------------------------------------------
(* deployProvenArtifact is called, until a receipt is saved.               *)
Begin ==
  /\ at = "idle" /\ saved < want
  /\ Goes("inspect")
  /\ UNCHANGED <<provider, want, saved, faults, mishaps>>

(* The orchestrator comes to want another candidate.                       *)
NextTarget ==
  /\ at = "idle" /\ want < Targets
  /\ want' = want + 1 /\ failed' = 0
  /\ UNCHANGED <<provider, saved, at, baseline, expected, tries, left, answered,
                 faults, mishaps>>

(* What the preflight decides: the target is released already, or is being *)
(* released, or is to be deployed over the one release there is.           *)
Plan_DeploysOverPart ==
  LET mine == {x \in machines : IsTarget(x)} IN
  \/ IsReleased /\ Verified
  \/ /\ ~IsReleased /\ Coherent(machines)
     /\ at' = "command"
     /\ baseline' = IF machines = {} THEN 0 ELSE Identity(machines).n
     /\ UNCHANGED <<expected, tries, left, answered, failed>>
  \/ ~Coherent(machines) /\ Parks
Plan ==
  LET mine == {x \in machines : IsTarget(x)} IN
  \/ IsReleased /\ Verified
  \/ /\ ~IsReleased /\ mine # {} /\ Coherent(mine)
     /\ Polling(Identity(mine).n - 1)
  \/ /\ mine = {} /\ Coherent(machines)
     /\ at' = "command"
     /\ baseline' = IF machines = {} THEN 0 ELSE Identity(machines).n
     /\ UNCHANGED <<expected, tries, left, answered, failed>>
  \/ /\ ~Coherent(mine) \/ (mine = {} /\ ~Coherent(machines))
     /\ Parks

(* #ensureAppAndInspect: whatever fails of the first list may mean that    *)
(* there is no app yet.                                                    *)
Inspect ==
  /\ at = "inspect"
  /\ \/ app = "ours" /\ Plan /\ NoFault
     \/ app = "ours" /\ Fault /\ Goes("find app")
     \/ app # "ours" /\ NoFault /\ Goes("find app")
  /\ UNCHANGED <<provider, want, saved, mishaps>>

FindApp_OnlyFinds ==
  /\ at = "find app"
  /\ \/ NoFault /\ app = "ours" /\ Goes("inspect again")
     \/ NoFault /\ app # "ours" /\ Retries
     \/ Fault /\ Retries
  /\ UNCHANGED <<provider, want, saved, mishaps>>
FindApp ==
  /\ at = "find app"
  /\ \/ NoFault /\ app = "ours" /\ Goes("inspect again")
     \/ NoFault /\ app # "ours" /\ Goes("create app")
     \/ NoFault /\ app = "foreign" /\ Parks
     \/ Fault /\ Retries
  /\ UNCHANGED <<provider, want, saved, mishaps>>

(* The answer of the creation is not believed: it may have been lost.      *)
CreateApp ==
  /\ at = "create app" /\ Goes("confirm app")
  /\ LET created == IF app = "absent" THEN "ours" ELSE app IN
     \/ NoFault /\ app' = created
     \/ Fault /\ app' \in {app, created}
  /\ UNCHANGED <<releases, machines, up, instance, running, want, saved,
                 mishaps>>

ConfirmApp ==
  /\ at = "confirm app"
  /\ \/ NoFault /\ app = "ours" /\ Goes("inspect again")
     \/ NoFault /\ app # "ours" /\ Retries
     \/ NoFault /\ app = "foreign" /\ Parks
     \/ Fault /\ Retries
  /\ UNCHANGED <<provider, want, saved, mishaps>>

InspectAgain ==
  /\ at = "inspect again"
  /\ (Plan /\ NoFault) \/ (Fault /\ Retries)
  /\ UNCHANGED <<provider, want, saved, mishaps>>

(* flyctl deploy begins, or fails at once.                                 *)
Command ==
  /\ at = "command"
  /\ \/ /\ Len(releases) < MaxReleases /\ NoFault /\ Goes("deploying")
        /\ releases' = Append(releases, want)
        /\ running' = running \cup {Len(releases) + 1}
     \/ Fault /\ Polling(baseline) /\ UNCHANGED <<releases, running>>
     \/ Fault /\ Retries /\ UNCHANGED <<releases, running>>
  /\ UNCHANGED <<app, machines, up, instance, want, saved, mishaps>>

(* The command ends, well or not, or is killed by its time limit: in each  *)
(* case the machines tell what came of it.                                 *)
CommandEnds_NotKilled ==
  /\ at = "deploying" /\ Polling(baseline)
  /\ IF Len(releases) \in running THEN Fault ELSE NoFault
  /\ UNCHANGED <<provider, want, saved, mishaps>>
CommandEnds ==
  /\ at = "deploying" /\ Polling(baseline)
  /\ \/ Len(releases) \notin running /\ NoFault /\ UNCHANGED <<running, disturbed>>
     \/ /\ Len(releases) \in running /\ Fault /\ disturbed' = TRUE
        /\ running' = running \ {Len(releases)}
  /\ UNCHANGED <<app, releases, machines, up, instance, want, saved, orphans>>

(* #awaitTargetRelease                                                     *)
Poll ==
  LET newer == \E x \in machines : x[1] > baseline /\ ~IsTarget(x) IN
  /\ at = "poll"
  /\ \/ NoFault /\ IsReleased /\ Identity(machines).n > baseline /\ Verified
     \/ NoFault /\ IsReleased /\ Identity(machines).n <= baseline /\ Parks
     \/ NoFault /\ ~IsReleased /\ newer /\ Parks
     \/ NoFault /\ ~IsReleased /\ ~newer /\ tries + 1 = Polls /\ Retries
     \/ /\ NoFault /\ ~IsReleased /\ ~newer /\ tries + 1 # Polls
        /\ tries' = tries + 1
        /\ UNCHANGED <<at, baseline, expected, left, answered, failed>>
     \/ Fault /\ Retries
  /\ UNCHANGED <<provider, want, saved, mishaps>>

(* #verifyHealth: the list, a request to every machine in it, the list.    *)
Before ==
  /\ at = "before"
  /\ \/ /\ NoFault /\ IsExpected
        /\ at' = "probe" /\ left' = machines /\ answered' = {}
        /\ UNCHANGED <<baseline, expected, tries, failed>>
     \/ NoFault /\ ~IsExpected /\ Parks
     \/ Fault /\ Retries
  /\ UNCHANGED <<provider, want, saved, mishaps>>

(* A machine answers, answers with an error status for as long as it likes, *)
(* or its answer is lost.  A machine that does not serve never answers     *)
(* well.                                                                   *)
Probe(x) ==
  /\ at = "probe" /\ x \in left /\ left' = left \ {x}
  /\ at' = IF left' = {} THEN "after" ELSE "probe"
  /\ \/ /\ x \in up /\ NoFault /\ UNCHANGED disturbed
        /\ answered' = answered \cup {<<x, instance[x]>>}
     \/ NoFault /\ disturbed' = TRUE /\ UNCHANGED answered
     \/ Fault /\ UNCHANGED <<answered, disturbed>>
  /\ UNCHANGED <<provider, want, saved, baseline, expected, tries, failed,
                 orphans>>

AllAnswered == \A x \in DOMAIN expected.instances :
                 \E i \in 1..MaxFaults + 1 : <<x, i>> \in answered

After ==
  /\ at = "after"
  /\ \/ NoFault /\ IsExpected /\ AllAnswered /\ Goes("returned")
     \/ NoFault /\ IsExpected /\ ~AllAnswered /\ tries + 1 = Checks /\ Retries
     \/ /\ NoFault /\ IsExpected /\ ~AllAnswered /\ tries + 1 # Checks
        /\ at' = "before" /\ tries' = tries + 1
        /\ UNCHANGED <<baseline, expected, left, answered, failed>>
     \/ NoFault /\ ~IsExpected /\ Parks
     \/ Fault /\ Retries
  /\ UNCHANGED <<provider, want, saved, mishaps>>

(* The receipt is saved with the project.                                  *)
Save ==
  /\ at = "returned" /\ saved' = want /\ Dies
  /\ UNCHANGED <<provider, want, faults, mishaps>>

(* The signal of the attempt is aborted, or the process dies.  A flyctl    *)
(* that is at work is sent a signal, or not even that, and is not waited   *)
(* for.                                                                    *)
Abandoned ==
  /\ at \notin {"idle", "parked"} /\ Fault /\ (Retries \/ Dies)
  /\ IF at = "deploying" /\ Len(releases) \in running
     THEN /\ orphans < MaxOrphans /\ orphans' = orphans + 1
          /\ disturbed' = TRUE
     ELSE UNCHANGED mishaps
  /\ UNCHANGED <<provider, want, saved>>

(* An answer that cannot be read, or an artifact that has changed.         *)
Refused ==
  /\ at \notin {"idle", "parked", "deploying"} /\ Fault /\ Parks
  /\ disturbed' = TRUE
  /\ UNCHANGED <<provider, want, saved, orphans>>
-----------------------------------------------------------------------------
(* The provider: a blue/green deployment, one machine at a time.           *)
External == UNCHANGED <<app, releases, want, saved, attempt, orphans>>
Calm     == UNCHANGED <<faults, disturbed>>
Trouble  == Fault /\ disturbed' = TRUE

MachineStarts(x) ==
  /\ x[1] \in running /\ instance[x] = 0
  /\ machines' = machines \cup {x}
  /\ instance' = [instance EXCEPT ![x] = 1]
  /\ UNCHANGED <<up, running>> /\ Calm /\ External

MachineIsReady(x) ==
  /\ x \in machines \ up /\ up' = up \cup {x}
  /\ UNCHANGED <<machines, instance, running>> /\ Calm /\ External

Green(n) == {n} \X Slots \subseteq up
Blue(n)  == {x \in machines : x[1] < n}

BlueIsRetired(n, x) ==
  /\ n \in running /\ Green(n) /\ x \in Blue(n)
  /\ machines' = machines \ {x} /\ up' = up \ {x}
  /\ UNCHANGED <<instance, running>> /\ Calm /\ External

DeploymentEnds(n) ==
  /\ n \in running /\ Green(n) /\ Blue(n) = {}
  /\ running' = running \ {n}
  /\ UNCHANGED <<machines, up, instance>> /\ Calm /\ External

(* A deployment fails, or finds that another has taken its machines away.  *)
Removed(n) == \E x \in {n} \X Slots : instance[x] > 0 /\ x \notin machines
DeploymentFails(n) ==
  /\ n \in running /\ IF Removed(n) THEN Calm ELSE Trouble
  /\ machines' = {x \in machines : x[1] # n}
  /\ up' = {x \in up : x[1] # n}
  /\ running' = running \ {n}
  /\ UNCHANGED instance /\ External

(* An orphan ends wherever it is.                                          *)
OrphanDies(n) ==
  /\ n \in running /\ (at # "deploying" \/ n # Len(releases))
  /\ running' = running \ {n}
  /\ UNCHANGED <<machines, up, instance>> /\ Calm /\ External

MachineRestarts(x) ==
  /\ x \in up /\ Trouble
  /\ up' = up \ {x} /\ instance' = [instance EXCEPT ![x] = @ + 1]
  /\ UNCHANGED <<machines, running>> /\ External

Progress == \/ \E x \in Machines : MachineStarts(x) \/ MachineIsReady(x)
            \/ \E n \in running : \/ DeploymentEnds(n)
                                  \/ Removed(n) /\ DeploymentFails(n)
                                  \/ \E x \in machines : BlueIsRetired(n, x)
-----------------------------------------------------------------------------
Step == \/ Begin \/ Inspect \/ FindApp \/ CreateApp \/ ConfirmApp
        \/ InspectAgain \/ Command \/ CommandEnds \/ Poll
        \/ Before \/ (\E x \in left : Probe(x)) \/ After \/ Save

Next == \/ Step \/ NextTarget \/ Abandoned \/ Refused \/ Progress
        \/ \E n \in running : DeploymentFails(n) \/ OrphanDies(n)
        \/ \E x \in up : MachineRestarts(x)

Spec == Init /\ [][Next]_vars

FairSpec == Spec /\ WF_vars(Step) /\ WF_vars(Progress)
-----------------------------------------------------------------------------
(* What a receipt says is so when it is given: the machines of the app are *)
(* those of one release of the target, and each, as it is running now, has *)
(* answered a request of this attempt.                                     *)
ReceiptIsTruthful ==
  [][at' = "returned" /\ at # "returned" =>
       /\ machines # {} /\ machines = DOMAIN expected.instances
       /\ \A x \in machines : /\ releases[x[1]] = want
                              /\ x \in up /\ <<x, instance[x]>> \in answered]_vars

(* However often an answer is lost and an attempt repeated, there are no   *)
(* machines of two releases of one target, unless a flyctl went on unseen. *)
OneReleasePerTarget ==
  orphans = 0 =>
    \A x, y \in machines : releases[x[1]] = releases[y[1]] => x[1] = y[1]

(* Once the receipt of a target is saved, production does not fall back to *)
(* an earlier one: no time limit, failure or retry brings it back.         *)
ProductionMovesForward ==
  orphans = 0 => \A x \in machines : releases[x[1]] >= saved

(* The attempts come to an end: with the target deployed, or with the      *)
(* project left to the operator, and that only if something went wrong     *)
(* with the deployment itself, or if as many calls went wrong as an effect *)
(* may be attempted.                                                       *)
TargetIsDeployed ==
  app = "absent" =>
    []<>(saved = want \/ (at = "parked" /\ (disturbed \/ faults >= MaxAttempts)))
=============================================================================
