-------------------------- MODULE AcquisitionQueue --------------------------
(***************************************************************************)
(* DaytonaRoleAcquisitionQueue (src/src/adapters/daytona/                  *)
(* daytona-control-plane.ts): the permits without which no sandbox of a    *)
(* role is created.  A ticket is one call of acquire; its lease is what    *)
(* became of the promise, and its signal may be aborted at any time.  A    *)
(* permit that is released goes to the ticket that has waited longest      *)
(* without ever being free.                                                *)
(***************************************************************************)
EXTENDS Naturals, Sequences, FiniteSets

CONSTANTS Roles,
          Tickets,  \* calls of acquire
          RoleOf,   \* the role a ticket asks for
          limits    \* the permits of a role

QueueAssumption == /\ RoleOf \in [Tickets -> Roles]
                   /\ limits \in [Roles -> 1..100]

VARIABLES active,   \* permits in use, by role
          pending,  \* the tickets in line, by role
          lease,    \* the state of a ticket
          aborted   \* the tickets whose signal is aborted

vars == <<active, pending, lease, aborted>>

LeaseStates == {"none", "waiting", "granted", "rejected", "released"}

TypeOK == /\ active \in [Roles -> Nat]
          /\ pending \in [Roles -> Seq(Tickets)]
          /\ lease \in [Tickets -> LeaseStates]
          /\ aborted \subseteq Tickets

Init == /\ active = [r \in Roles |-> 0]
        /\ pending = [r \in Roles |-> <<>>]
        /\ lease = [t \in Tickets |-> "none"]
        /\ aborted = {}

(* acquire                                                                 *)
Acquire(t) ==
  LET r == RoleOf[t] IN
  /\ lease[t] = "none"
  /\ \/ /\ t \in aborted
        /\ lease' = [lease EXCEPT ![t] = "rejected"]
        /\ UNCHANGED <<active, pending>>
     \/ /\ t \notin aborted /\ active[r] < limits[r]
        /\ active' = [active EXCEPT ![r] = @ + 1]
        /\ lease' = [lease EXCEPT ![t] = "granted"]
        /\ UNCHANGED pending
     \/ /\ t \notin aborted /\ active[r] >= limits[r]
        /\ pending' = [pending EXCEPT ![r] = Append(@, t)]
        /\ lease' = [lease EXCEPT ![t] = "waiting"]
        /\ UNCHANGED active
  /\ UNCHANGED aborted

(* indexOf and splice                                                      *)
Without(line, i) == [j \in 1..(Len(line) - 1) |->
                       IF j < i THEN line[j] ELSE line[j + 1]]

\* Faulty variant: a ticket that is aborted stays in line.
Abort_StaysInLine(t) ==
  /\ t \notin aborted /\ aborted' = aborted \cup {t}
  /\ lease' = [lease EXCEPT ![t] = IF @ = "waiting" THEN "rejected" ELSE @]
  /\ UNCHANGED <<active, pending>>

(* The abort listener, which only a ticket in line has.                    *)
Abort(t) ==
  LET r == RoleOf[t] IN
  /\ t \notin aborted /\ aborted' = aborted \cup {t}
  /\ \/ lease[t] # "waiting" /\ UNCHANGED <<pending, lease>>
     \/ /\ lease[t] = "waiting"
        /\ \E i \in 1..Len(pending[r]) :
             /\ pending[r][i] = t
             /\ pending' = [pending EXCEPT ![r] = Without(@, i)]
        /\ lease' = [lease EXCEPT ![t] = "rejected"]
  /\ UNCHANGED active

\* Faulty variant: a permit that is handed on counts as one more.
Release_CountsTwice(t) ==
  LET r == RoleOf[t] IN
  /\ lease[t] = "granted"
  /\ IF pending[r] = <<>>
       THEN /\ active' = [active EXCEPT ![r] = @ - 1] /\ UNCHANGED pending
            /\ lease' = [lease EXCEPT ![t] = "released"]
       ELSE /\ active' = [active EXCEPT ![r] = @ + 1]
            /\ pending' = [pending EXCEPT ![r] = Without(@, 1)]
            /\ lease' = [lease EXCEPT ![t] = "released",
                                      ![Head(pending[r])] = "granted"]
  /\ UNCHANGED aborted

(* release, which does something the first time only; its error for a role *)
(* without active permits is never thrown (PermitsAreConserved).           *)
Release(t) ==
  LET r == RoleOf[t] IN
  /\ lease[t] = "granted"
  /\ \/ /\ pending[r] = <<>>
        /\ active' = [active EXCEPT ![r] = @ - 1]
        /\ lease' = [lease EXCEPT ![t] = "released"]
        /\ UNCHANGED pending
     \/ /\ pending[r] # <<>>
        /\ pending' = [pending EXCEPT ![r] = Without(@, 1)]
        /\ lease' = [lease EXCEPT ![t] = "released",
                                  ![Head(pending[r])] = "granted"]
        /\ UNCHANGED active
  /\ UNCHANGED aborted

Next == \E t \in Tickets : Acquire(t) \/ Abort(t) \/ Release(t)

Spec == Init /\ [][Next]_vars

(* A role has as many active permits as tickets hold one, and never more   *)
(* than its limit: none is lost or made up, whichever way a permit changes *)
(* hands and whenever a signal is aborted.                                 *)
Holders(r) == {t \in Tickets : RoleOf[t] = r /\ lease[t] = "granted"}
PermitsAreConserved ==
  \A r \in Roles : /\ IsFiniteSet(Holders(r))
                   /\ active[r] = Cardinality(Holders(r))
                   /\ active[r] <= limits[r]

(* The line of a role holds each of its waiting tickets once, and nobody   *)
(* waits while a permit is free.                                           *)
LineIsExact ==
  \A r \in Roles :
    /\ \A t \in Tickets :
         (RoleOf[t] = r /\ lease[t] = "waiting")
           <=> \E i \in 1..Len(pending[r]) : pending[r][i] = t
    /\ \A i, j \in 1..Len(pending[r]) : pending[r][i] = pending[r][j] => i = j
    /\ pending[r] # <<>> => active[r] = limits[r]
=============================================================================
