-------------------------- MODULE DeliveryPromise --------------------------
(***************************************************************************)
(* What the orchestrator promises the customer of a paid project about the *)
(* acts of it that the outside world sees: the mail that shows a candidate,*)
(* the production release of it, and the mail that hands the release over. *)
(* Each is about the version of the plan in force at that moment, each     *)
(* rests on the one before it, and all three are about the one candidate   *)
(* the customer was shown.  An act may be repeated: providers are called   *)
(* again with the same idempotency key.                                    *)
(***************************************************************************)
EXTENDS Naturals

CONSTANTS Versions, Candidates

VersionsAssumption == Versions \subseteq Nat /\ 1 \in Versions

VARIABLES version,   \* the version of the plan in force
          shown,     \* <<v, c>>: a preview of c was mailed for version v
          released,  \* <<v, c>>: c is in production for version v
          handed     \* <<v, c>>: the mail with the release was sent

vars == <<version, shown, released, handed>>

Acts == SUBSET (Versions \X Candidates)

TypeOK == /\ version \in Versions
          /\ shown \in Acts /\ released \in Acts /\ handed \in Acts

Init == version = 1 /\ shown = {} /\ released = {} /\ handed = {}

Revise == /\ version + 1 \in Versions
          /\ version' = version + 1
          /\ UNCHANGED <<shown, released, handed>>

Show(c) == /\ \A d \in Candidates : <<version, d>> \in shown => d = c
           /\ shown' = shown \cup {<<version, c>>}
           /\ UNCHANGED <<version, released, handed>>

Release(c) == /\ <<version, c>> \in shown
              /\ released' = released \cup {<<version, c>>}
              /\ UNCHANGED <<version, shown, handed>>

HandOver(c) == /\ <<version, c>> \in released
               /\ handed' = handed \cup {<<version, c>>}
               /\ UNCHANGED <<version, shown, released>>

Next == \/ Revise
        \/ \E c \in Candidates : Show(c) \/ Release(c) \/ HandOver(c)

Spec == Init /\ [][Next]_vars

(* The customer is handed the one candidate that was released, the one     *)
(* that was shown.                                                         *)
HandedAsShown ==
  /\ handed \subseteq released /\ released \subseteq shown
  /\ \A v \in Versions : \A c, d \in Candidates :
       {<<v, c>>, <<v, d>>} \subseteq shown => c = d
=============================================================================
