---------------------------- MODULE RunLifecycle ----------------------------
(***************************************************************************)
(* What the build backend promises about a build run, whatever happens to  *)
(* the workers that carry it out (src/src/domain/run.ts):                  *)
(*   - a run is submitted once, is started at most once, and reaches at    *)
(*     most one terminal status, which it keeps;                           *)
(*   - a run whose cancellation was requested never passes;                *)
(*   - only a run that passed is announced to the orchestrator.            *)
(* Nothing is said here of slots, leases, sandboxes or evidence.  RunStore *)
(* is shown to implement this module.                                      *)
(***************************************************************************)
CONSTANT Runs

VARIABLES status,     \* the status of every run, "absent" before submission
          cancelled,  \* the runs whose cancellation was requested
          announced   \* the runs whose candidate.proven event was taken
vars == <<status, cancelled, announced>>

Status == {"absent", "queued", "running",
           "passed", "rejected", "failed", "cancelled"}
Terminal == {"passed", "rejected", "failed", "cancelled"}

TypeOK == /\ status \in [Runs -> Status]
          /\ cancelled \subseteq Runs
          /\ announced \subseteq Runs

Init == /\ status = [r \in Runs |-> "absent"]
        /\ cancelled = {}
        /\ announced = {}

Become(r, from, to) == /\ status[r] = from
                       /\ status' = [status EXCEPT ![r] = to]

Submit(r) == /\ Become(r, "absent", "queued")
             /\ UNCHANGED <<cancelled, announced>>

Start(r) == /\ Become(r, "queued", "running")
            /\ r \notin cancelled
            /\ UNCHANGED <<cancelled, announced>>

(* The proof gate accepts the candidate.                                   *)
Pass(r) == /\ Become(r, "running", "passed")
           /\ r \notin cancelled
           /\ UNCHANGED <<cancelled, announced>>

(* A run is given up: by its worker, or together with others by whoever    *)
(* finds that their workers are gone.                                      *)
GiveUp(R, outcome) ==
  /\ R # {}
  /\ \A r \in R : status[r] \in {"queued", "running"}
  /\ status' = [r \in Runs |-> IF r \in R THEN outcome ELSE status[r]]
  /\ UNCHANGED <<cancelled, announced>>

(* A queued run is cancelled at once; a running one is asked to stop.      *)
Cancel(r) ==
  /\ status[r] \in {"queued", "running"}
  /\ cancelled' = cancelled \cup {r}
  /\ status' = IF status[r] = "queued"
                 THEN [status EXCEPT ![r] = "cancelled"] ELSE status
  /\ UNCHANGED announced

Announce(r) == /\ status[r] = "passed"
               /\ announced' = announced \cup {r}
               /\ UNCHANGED <<status, cancelled>>

Next == \/ \E r \in Runs : \/ Submit(r) \/ Start(r) \/ Pass(r)
                           \/ Cancel(r) \/ Announce(r)
        \/ \E R \in SUBSET Runs, outcome \in Terminal \ {"passed"} :
             GiveUp(R, outcome)

Spec == Init /\ [][Next]_vars
=============================================================================
