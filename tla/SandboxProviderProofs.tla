----------------------- MODULE SandboxProviderProofs -----------------------
(***************************************************************************)
(* Theorems about SandboxProvider: it is a client of AcquisitionQueue, so  *)
(* that what holds of the queue holds of the provider, and a permit never  *)
(* outlives the attempt that took it, for any number of builds, previews   *)
(* and events, any limits and any number of failures.                      *)
(*                                                                         *)
(* First the queue itself: its invariants hold each other up.  That the    *)
(* head of a line is waiting for a permit of that role comes from          *)
(* LineIsExact, that its permit is one the releasing ticket held from      *)
(* PermitsAreConserved.                                                    *)
(*                                                                         *)
(* Then the sandboxes.  Those of builds: BoxesFit says which request may   *)
(* have which, and every step keeps one that is there somebody's (Kept).   *)
(* Those of previews: materializations of one event take turns (TurnsFit), *)
(* so a fresh sandbox is of the one whose turn it is (MineFits), and what  *)
(* was handed out, and has a timer (HandedFits), is not its to delete.     *)
(***************************************************************************)
EXTENDS SandboxProvider, FiniteSetTheorems, TLAPS

(* The roles and limits of the provider are as the queue wants them.       *)
RoleOf == [t \in Tickets |-> IF t[1] \in Builds THEN "builder"
                                                ELSE "frozen-preview"]

(* What the queue assumes of its roles, tickets and limits.                *)
LEMMA QueueFits == Queue!QueueAssumption
  BY ProviderAssumption DEF Queue!QueueAssumption, Roles, RoleOf

(* A line without one of its places is a line that is one shorter.         *)
LEMMA WithoutIsASequence ==
  ASSUME NEW S, NEW line \in Seq(S), NEW i \in 1..Len(line)
  PROVE  /\ Queue!Without(line, i) \in Seq(S)
         /\ Len(Queue!Without(line, i)) = Len(line) - 1
         /\ \A j \in 1..(Len(line) - 1) :
              Queue!Without(line, i)[j] = IF j < i THEN line[j] ELSE line[j + 1]
  BY DEF Queue!Without

(* No ticket has two places in a line.                                     *)
Once(line) == \A j, k \in 1..Len(line) : line[j] = line[k] => j = k

(* w is the line without its place i.                                      *)
Closed(line, i, w) ==
  /\ Len(line) \in Nat /\ i \in 1..Len(line) /\ Len(w) = Len(line) - 1
  /\ \A j \in 1..(Len(line) - 1) :
       w[j] = IF j < i THEN line[j] ELSE line[j + 1]

(* The tickets in w are those in line but the one at place i.              *)
OneLess(line, i, w) ==
  \A t : (\E j \in 1..Len(w) : w[j] = t)
            <=> t # line[i] /\ \E j \in 1..Len(line) : line[j] = t

(* In a line that names nobody twice, exactly the one at that place is     *)
(* missing then.                                                           *)
LEMMA OneIsMissing ==
  ASSUME NEW line, NEW i, NEW w, Once(line), Closed(line, i, w)
  PROVE  Once(w) /\ OneLess(line, i, w)
<1> USE DEF Once, Closed
<1>1. ASSUME NEW j \in 1..Len(w), NEW k \in 1..Len(w), w[j] = w[k]
      PROVE  j = k
  BY <1>1
<1>2. ASSUME NEW t, NEW j \in 1..Len(w), w[j] = t
      PROVE  t # line[i] /\ \E k \in 1..Len(line) : line[k] = t
  BY <1>2
<1>3. ASSUME NEW t, t # line[i], NEW j \in 1..Len(line), line[j] = t
      PROVE  \E k \in 1..Len(w) : w[k] = t
  <2>1. CASE j < i
    BY <1>3, <2>1
  <2>2. CASE j > i
    <3>1. j - 1 \in 1..Len(w) /\ w[j - 1] = t
      BY <1>3, <2>2
    <3> QED
      BY <3>1
  <2> QED
    BY <1>3, <2>1, <2>2
<1> QED
  BY <1>1, <1>2, <1>3 DEF OneLess

-----------------------------------------------------------------------------
QueueInv == Queue!TypeOK /\ Queue!PermitsAreConserved /\ Queue!LineIsExact

(* What LineIsExact says of the line of one role.                          *)
LineFits(r) ==
  /\ \A t \in Tickets :
       (RoleOf[t] = r /\ lease[t] = "waiting")
         <=> \E i \in 1..Len(pending[r]) : pending[r][i] = t
  /\ \A i, j \in 1..Len(pending[r]) : pending[r][i] = pending[r][j] => i = j
  /\ pending[r] # <<>> => active[r] = limits[r]

(* ... and PermitsAreConserved of its permits.                             *)
PermitsFit(r) == /\ IsFiniteSet(Queue!Holders(r))
                 /\ active[r] = Cardinality(Queue!Holders(r))
                 /\ active[r] <= limits[r]

(* The two invariants, role by role.                                       *)
LEMMA RoleByRole ==
  /\ Queue!LineIsExact <=> \A r \in Roles : LineFits(r)
  /\ Queue!PermitsAreConserved <=> \A r \in Roles : PermitsFit(r)
  /\ Queue!LineIsExact' <=> \A r \in Roles : LineFits(r)'
  /\ Queue!PermitsAreConserved' <=> \A r \in Roles : PermitsFit(r)'
<1>1. \A S : /\ Queue!Cardinality(S) = Cardinality(S)
             /\ Queue!IsFiniteSet(S) <=> IsFiniteSet(S)
  BY DEF Queue!Cardinality, Queue!IsFiniteSet, Cardinality, IsFiniteSet
<1>2. Queue!LineIsExact <=> \A r \in Roles : LineFits(r)
  BY DEF Queue!LineIsExact, LineFits, RoleOf
<1>3. Queue!LineIsExact' <=> \A r \in Roles : LineFits(r)'
  BY DEF Queue!LineIsExact, LineFits, RoleOf
<1>4. Queue!PermitsAreConserved <=> \A r \in Roles : PermitsFit(r)
  BY <1>1 DEF Queue!PermitsAreConserved, PermitsFit
<1>5. Queue!PermitsAreConserved' <=> \A r \in Roles : PermitsFit(r)'
  BY <1>1 DEF Queue!PermitsAreConserved, PermitsFit
<1> QED
  BY <1>2, <1>3, <1>4, <1>5

(* Initially nobody holds a permit and nobody waits.                       *)
LEMMA QueueInit == Queue!Init => QueueInv
<1> SUFFICES ASSUME Queue!Init PROVE QueueInv
  OBVIOUS
<1>1. Queue!TypeOK
  BY QueueFits DEF Queue!Init, Queue!TypeOK, Queue!LeaseStates, Queue!QueueAssumption, RoleOf
<1>2. ASSUME NEW r \in Roles PROVE PermitsFit(r)
  <2>1. Queue!Holders(r) = {}
    BY DEF Queue!Init, Queue!Holders, RoleOf
  <2>2. limits[r] \in 1..100
    BY QueueFits DEF Queue!QueueAssumption, RoleOf
  <2>3. IsFiniteSet(Queue!Holders(r)) /\ Cardinality(Queue!Holders(r)) = 0
    BY <2>1, FS_EmptySet
  <2>4. active[r] = 0
    BY DEF Queue!Init
  <2> QED
    BY <2>2, <2>3, <2>4 DEF PermitsFit
<1>3. ASSUME NEW r \in Roles PROVE LineFits(r)
  BY DEF Queue!Init, LineFits
<1> QED
  BY <1>1, <1>2, <1>3, RoleByRole DEF QueueInv

(* A role that no step touches keeps its line and its permits.             *)
LEMMA UntouchedRole ==
  ASSUME NEW r \in Roles, LineFits(r), PermitsFit(r),
         pending'[r] = pending[r], active'[r] = active[r],
         \A t \in Tickets : RoleOf[t] = r => lease'[t] = lease[t]
  PROVE  LineFits(r)' /\ PermitsFit(r)'
<1>1. Queue!Holders(r)' = Queue!Holders(r)
  BY DEF Queue!Holders, RoleOf
<1> QED
  BY <1>1 DEF LineFits, PermitsFit

(* What the invariant says of the role of a ticket.                        *)
LEMMA RoleFacts ==
  ASSUME QueueInv, NEW t \in Tickets
  PROVE  /\ RoleOf[t] \in Roles
         /\ limits[RoleOf[t]] \in Nat /\ active[RoleOf[t]] \in Nat
         /\ \A q \in Roles : LineFits(q) /\ PermitsFit(q)
<1>1. RoleOf[t] \in Roles
  BY QueueFits DEF Queue!QueueAssumption, RoleOf
<1>2. limits[RoleOf[t]] \in 1..100 /\ active[RoleOf[t]] \in Nat
  BY <1>1, ProviderAssumption DEF QueueInv, Queue!TypeOK
<1>3. \A q \in Roles : LineFits(q) /\ PermitsFit(q)
  BY RoleByRole, Zenon DEF QueueInv
<1> QED
  BY <1>1, <1>2, <1>3

(* A line from which the ticket at one place was taken is exact again, when *)
(* that ticket waits no longer and the permits in use stay the same.       *)
LEMMA LineAfterOneLeft ==
  ASSUME Queue!TypeOK, NEW r \in Roles, LineFits(r),
         NEW i \in 1..Len(pending[r]),
         pending'[r] = Queue!Without(pending[r], i), active'[r] = active[r],
         \A u \in Tickets : RoleOf[u] = r =>
           (lease'[u] = "waiting" <=> lease[u] = "waiting" /\ u # pending[r][i])
  PROVE  LineFits(r)'
<1> DEFINE line == pending[r]
<1>1. line \in Seq(Tickets) /\ pending[r] # <<>>
  BY DEF Queue!TypeOK
<1>2. Once(line)
  BY DEF LineFits, Once
<1>3. PICK w : w = pending'[r]
  OBVIOUS
<1>4. Closed(line, i, w)
  BY <1>1, <1>3 DEF Queue!Without, Closed
<1>5. Once(w) /\ OneLess(line, i, w)
  BY <1>2, <1>4, OneIsMissing
<1>6. \A u \in Tickets : (RoleOf[u] = r /\ lease[u] = "waiting")
        <=> \E j \in 1..Len(line) : line[j] = u
  BY DEF LineFits
<1>7. active'[r] = limits[r]
  BY <1>1 DEF LineFits
<1>8. \A u \in Tickets : (RoleOf[u] = r /\ lease'[u] = "waiting")
        <=> \E j \in 1..Len(w) : w[j] = u
  BY <1>5, <1>6 DEF OneLess
<1> QED
  BY <1>3, <1>5, <1>7, <1>8 DEF LineFits, Once

(* acquire: a permit that is free is taken, and otherwise the line gets     *)
(* longer.                                                                 *)
LEMMA AcquireKeepsQueue ==
  ASSUME QueueInv, NEW t \in Tickets, Queue!Acquire(t)
  PROVE  QueueInv'
<1> DEFINE r == RoleOf[t]
<1>1. /\ r \in Roles /\ limits[r] \in Nat /\ active[r] \in Nat
      /\ \A q \in Roles : LineFits(q) /\ PermitsFit(q)
  BY RoleFacts
<1>2. lease[t] = "none" /\ ~(active[r] < limits[r] /\ active[r] >= limits[r])
  BY <1>1 DEF Queue!Acquire, RoleOf
<1>3. CASE t \in aborted
  <2>1. /\ UNCHANGED <<active, pending, aborted>>
        /\ lease' = [lease EXCEPT ![t] = "rejected"]
    BY <1>3 DEF Queue!Acquire, RoleOf
  <2>2. Queue!TypeOK'
    BY <2>1 DEF QueueInv, Queue!TypeOK, Queue!LeaseStates
  <2>3. \A q \in Roles : Queue!Holders(q)' = Queue!Holders(q)
    BY <1>1, <1>2, <2>1 DEF Queue!Holders, QueueInv, Queue!TypeOK, RoleOf
  <2>4. \A q \in Roles : PermitsFit(q)'
    BY <1>1, <2>1, <2>3 DEF PermitsFit
  <2>5. \A u \in Tickets : lease'[u] = "waiting" <=> lease[u] = "waiting"
    BY <1>2, <2>1 DEF QueueInv, Queue!TypeOK
  <2>6. \A q \in Roles : LineFits(q)'
    BY <1>1, <2>1, <2>5 DEF LineFits
  <2> QED
    BY <2>2, <2>4, <2>6, RoleByRole DEF QueueInv
<1>4. CASE t \notin aborted /\ active[r] < limits[r]
  <2>1. /\ active' = [active EXCEPT ![r] = @ + 1]
        /\ lease' = [lease EXCEPT ![t] = "granted"]
        /\ UNCHANGED <<pending, aborted>>
    BY <1>4, <1>2 DEF Queue!Acquire, RoleOf
  <2>2. Queue!TypeOK'
    BY <1>1, <1>2, <2>1 DEF QueueInv, Queue!TypeOK, Queue!LeaseStates
  <2>3. Queue!Holders(r)' = Queue!Holders(r) \cup {t} /\ t \notin Queue!Holders(r)
    BY <1>1, <1>2, <2>1 DEF Queue!Holders, QueueInv, Queue!TypeOK, RoleOf
  <2>4. /\ IsFiniteSet(Queue!Holders(r)')
        /\ Cardinality(Queue!Holders(r)') = Cardinality(Queue!Holders(r)) + 1
    BY <1>1, <2>3, FS_AddElement DEF PermitsFit
  <2>5. active'[r] = active[r] + 1 /\ active[r] \in Nat
    BY <1>1, <2>1 DEF QueueInv, Queue!TypeOK
  <2>6. PermitsFit(r)'
    BY <1>1, <1>4, <2>4, <2>5 DEF PermitsFit
  <2>7. pending[r] = <<>>
    BY <1>1, <1>4, <2>5 DEF LineFits
  <2>8. LineFits(r)'
    BY <1>1, <2>1, <2>7 DEF LineFits, QueueInv, Queue!TypeOK
  <2>9. ASSUME NEW q \in Roles, q # r PROVE LineFits(q)' /\ PermitsFit(q)'
    BY <1>1, <2>1, <2>9, UntouchedRole DEF QueueInv, Queue!TypeOK
  <2> QED
    BY <2>2, <2>6, <2>8, <2>9, RoleByRole DEF QueueInv
<1>5. CASE t \notin aborted /\ active[r] >= limits[r]
  <2>1. /\ pending' = [pending EXCEPT ![r] = Append(@, t)]
        /\ lease' = [lease EXCEPT ![t] = "waiting"]
        /\ UNCHANGED <<active, aborted>>
    BY <1>5, <1>2 DEF Queue!Acquire, RoleOf
  <2>2. Queue!TypeOK'
    <3>1. Append(pending[r], t) \in Seq(Tickets)
      BY <1>1 DEF QueueInv, Queue!TypeOK
    <3>2. pending' \in [Roles -> Seq(Tickets)]
      BY <1>1, <2>1, <3>1 DEF QueueInv, Queue!TypeOK
    <3> QED
      BY <2>1, <3>2 DEF QueueInv, Queue!TypeOK, Queue!LeaseStates
  <2>3. Queue!Holders(r)' = Queue!Holders(r)
    BY <1>1, <1>2, <2>1 DEF Queue!Holders, QueueInv, Queue!TypeOK, RoleOf
  <2>4. PermitsFit(r)'
    BY <1>1, <2>1, <2>3 DEF PermitsFit
  <2>5. /\ pending[r] \in Seq(Tickets) /\ pending'[r] = Append(pending[r], t)
        /\ active[r] = limits[r]
    BY <1>1, <1>5, <2>1 DEF QueueInv, Queue!TypeOK, PermitsFit
  <2>6. /\ \A i \in 1..Len(pending[r]) : pending[r][i] # t
        /\ Len(pending'[r]) = Len(pending[r]) + 1
        /\ \A i \in 1..(Len(pending[r]) + 1) :
             pending'[r][i] = IF i <= Len(pending[r]) THEN pending[r][i] ELSE t
    BY <1>1, <1>2, <2>5 DEF LineFits
  <2>7. /\ \A u \in Tickets : (RoleOf[u] = r /\ lease'[u] = "waiting")
              <=> u = t \/ (RoleOf[u] = r /\ lease[u] = "waiting")
        /\ active'[r] = limits[r]
    BY <2>1, <2>5 DEF QueueInv, Queue!TypeOK
  <2>8. LineFits(r)'
    <3>1. ASSUME NEW u \in Tickets
          PROVE  (\E i \in 1..Len(pending'[r]) : pending'[r][i] = u)
                   <=> u = t \/ \E i \in 1..Len(pending[r]) : pending[r][i] = u
      BY <2>5, <2>6
    <3>2. \A u \in Tickets : (RoleOf[u] = r /\ lease[u] = "waiting")
            <=> \E i \in 1..Len(pending[r]) : pending[r][i] = u
      BY <1>1 DEF LineFits
    <3>3. \A u \in Tickets : (RoleOf[u] = r /\ lease'[u] = "waiting")
            <=> \E i \in 1..Len(pending'[r]) : pending'[r][i] = u
      BY <2>7, <3>1, <3>2
    <3>4. \A i, j \in 1..Len(pending[r]) : pending[r][i] = pending[r][j] => i = j
      BY <1>1 DEF LineFits
    <3>5. \A i, j \in 1..Len(pending'[r]) :
            pending'[r][i] = pending'[r][j] => i = j
      BY <2>5, <2>6, <3>4
    <3> QED
      BY <2>7, <3>3, <3>5 DEF LineFits
  <2>9. ASSUME NEW q \in Roles, q # r PROVE LineFits(q)' /\ PermitsFit(q)'
    BY <1>1, <2>1, <2>9, UntouchedRole DEF QueueInv, Queue!TypeOK
  <2> QED
    BY <2>2, <2>4, <2>8, <2>9, RoleByRole DEF QueueInv
<1> QED
  BY <1>3, <1>4, <1>5 DEF Queue!Acquire, RoleOf

(* The abort listener: who leaves the line leaves nothing behind.          *)
LEMMA AbortKeepsQueue ==
  ASSUME QueueInv, NEW t \in Tickets, Queue!Abort(t)
  PROVE  QueueInv'
<1> DEFINE r == RoleOf[t]
<1>1. /\ r \in Roles /\ limits[r] \in Nat /\ active[r] \in Nat
      /\ \A q \in Roles : LineFits(q) /\ PermitsFit(q)
  BY RoleFacts
<1>2. aborted' = aborted \cup {t} /\ active' = active
  BY DEF Queue!Abort, RoleOf
<1>3. CASE lease[t] # "waiting"
  <2>1. UNCHANGED <<pending, lease>>
    BY <1>3 DEF Queue!Abort, RoleOf
  <2>2. Queue!TypeOK'
    BY <1>2, <2>1 DEF QueueInv, Queue!TypeOK
  <2>3. \A q \in Roles : LineFits(q)' /\ PermitsFit(q)'
    BY <1>1, <1>2, <2>1, UntouchedRole
  <2> QED
    BY <2>2, <2>3, RoleByRole DEF QueueInv
<1>4. CASE lease[t] = "waiting"
  <2>1. PICK i \in 1..Len(pending[r]) :
          /\ pending[r][i] = t
          /\ pending' = [pending EXCEPT ![r] = Queue!Without(@, i)]
    BY <1>4 DEF Queue!Abort, RoleOf
  <2>2. lease' = [lease EXCEPT ![t] = "rejected"]
    BY <1>4 DEF Queue!Abort, RoleOf
  <2>3. Queue!TypeOK'
    <3>1. Queue!Without(pending[r], i) \in Seq(Tickets)
      BY <1>1, WithoutIsASequence DEF QueueInv, Queue!TypeOK
    <3>2. pending' \in [Roles -> Seq(Tickets)]
      BY <1>1, <2>1, <3>1 DEF QueueInv, Queue!TypeOK
    <3> QED
      BY <1>2, <2>2, <3>2 DEF QueueInv, Queue!TypeOK, Queue!LeaseStates
  <2>4. Queue!Holders(r)' = Queue!Holders(r)
    BY <1>1, <1>4, <2>2 DEF Queue!Holders, QueueInv, Queue!TypeOK, RoleOf
  <2>5. PermitsFit(r)'
    BY <1>1, <1>2, <2>4 DEF PermitsFit
  <2>6. \A u \in Tickets : RoleOf[u] = r =>
          (lease'[u] = "waiting" <=> lease[u] = "waiting" /\ u # pending[r][i])
    BY <2>1, <2>2 DEF QueueInv, Queue!TypeOK
  <2>7. pending'[r] = Queue!Without(pending[r], i)
    BY <1>1, <2>1 DEF QueueInv, Queue!TypeOK
  <2>8. LineFits(r)'
    BY <1>1, <1>2, <2>6, <2>7, LineAfterOneLeft DEF QueueInv
  <2>9. ASSUME NEW q \in Roles, q # r PROVE LineFits(q)' /\ PermitsFit(q)'
    BY <1>1, <1>2, <2>1, <2>2, <2>9, UntouchedRole DEF QueueInv, Queue!TypeOK
  <2> QED
    BY <2>3, <2>5, <2>8, <2>9, RoleByRole DEF QueueInv
<1> QED
  BY <1>3, <1>4

(* release: the permit becomes free or goes to the head of the line.       *)
LEMMA ReleaseKeepsQueue ==
  ASSUME QueueInv, NEW t \in Tickets, Queue!Release(t)
  PROVE  QueueInv'
<1> DEFINE r == RoleOf[t]
<1>1. /\ r \in Roles /\ limits[r] \in Nat /\ active[r] \in Nat
      /\ \A q \in Roles : LineFits(q) /\ PermitsFit(q)
  BY RoleFacts
<1>2. aborted' = aborted /\ lease[t] = "granted"
  BY DEF Queue!Release, RoleOf
<1>3. /\ IsFiniteSet(Queue!Holders(r)) /\ t \in Queue!Holders(r)
      /\ active[r] = Cardinality(Queue!Holders(r)) /\ active[r] <= limits[r]
  BY <1>1, <1>2 DEF Queue!Holders, PermitsFit, RoleOf
<1>4. /\ IsFiniteSet(Queue!Holders(r) \ {t})
      /\ Cardinality(Queue!Holders(r) \ {t}) = active[r] - 1
  BY <1>3, FS_RemoveElement
<1>5. active[r] - 1 \in Nat
  BY <1>4, FS_CardinalityType
<1>6. CASE pending[r] = <<>>
  <2>1. /\ active' = [active EXCEPT ![r] = @ - 1]
        /\ lease' = [lease EXCEPT ![t] = "released"]
        /\ pending' = pending
    BY <1>6 DEF Queue!Release, RoleOf
  <2>2. Queue!TypeOK'
    BY <1>1, <1>2, <1>5, <2>1 DEF QueueInv, Queue!TypeOK, Queue!LeaseStates
  <2>3. Queue!Holders(r)' = Queue!Holders(r) \ {t}
    BY <2>1 DEF Queue!Holders, QueueInv, Queue!TypeOK, RoleOf
  <2>4. active'[r] = active[r] - 1
    BY <1>1, <2>1 DEF QueueInv, Queue!TypeOK
  <2>5. PermitsFit(r)'
    BY <1>1, <1>3, <1>4, <2>3, <2>4 DEF PermitsFit
  <2>6. LineFits(r)'
    BY <1>1, <1>2, <1>6, <2>1 DEF LineFits, QueueInv, Queue!TypeOK
  <2>7. ASSUME NEW q \in Roles, q # r PROVE LineFits(q)' /\ PermitsFit(q)'
    BY <1>1, <2>1, <2>7, UntouchedRole DEF QueueInv, Queue!TypeOK
  <2> QED
    BY <2>2, <2>5, <2>6, <2>7, RoleByRole DEF QueueInv
<1>7. CASE pending[r] # <<>>
  <2> DEFINE h == Head(pending[r])
  <2>1. /\ pending' = [pending EXCEPT ![r] = Queue!Without(@, 1)]
        /\ lease' = [lease EXCEPT ![t] = "released", ![h] = "granted"]
        /\ active' = active
    BY <1>7 DEF Queue!Release, RoleOf
  <2>2. 1 \in 1..Len(pending[r]) /\ h = pending[r][1] /\ h \in Tickets
    BY <1>1, <1>7 DEF QueueInv, Queue!TypeOK
  <2>3. RoleOf[h] = r /\ lease[h] = "waiting" /\ h # t
    BY <1>1, <1>2, <2>2 DEF LineFits
  <2> HIDE DEF h
  <2>4. Queue!TypeOK'
    <3>1. Queue!Without(pending[r], 1) \in Seq(Tickets)
      BY <1>1, <2>2, WithoutIsASequence DEF QueueInv, Queue!TypeOK
    <3>2. pending' \in [Roles -> Seq(Tickets)]
      BY <1>1, <2>1, <3>1 DEF QueueInv, Queue!TypeOK
    <3> QED
      BY <1>2, <2>1, <3>2 DEF QueueInv, Queue!TypeOK, Queue!LeaseStates
  <2>5. /\ Queue!Holders(r)' = (Queue!Holders(r) \ {t}) \cup {h}
        /\ h \notin Queue!Holders(r) \ {t}
    BY <1>1, <2>1, <2>2, <2>3 DEF Queue!Holders, QueueInv, Queue!TypeOK, RoleOf
  <2>6. /\ IsFiniteSet(Queue!Holders(r)')
        /\ Cardinality(Queue!Holders(r)') = Cardinality(Queue!Holders(r) \ {t}) + 1
    BY <1>4, <2>5, FS_AddElement
  <2>7. PermitsFit(r)'
    BY <1>1, <1>3, <1>4, <2>1, <2>6 DEF PermitsFit
  <2>8. \A u \in Tickets : RoleOf[u] = r =>
          (lease'[u] = "waiting" <=> lease[u] = "waiting" /\ u # pending[r][1])
    BY <1>2, <2>1, <2>2 DEF QueueInv, Queue!TypeOK
  <2>9. pending'[r] = Queue!Without(pending[r], 1)
    BY <1>1, <2>1 DEF QueueInv, Queue!TypeOK
  <2>10. LineFits(r)'
    BY <1>1, <2>1, <2>2, <2>8, <2>9, LineAfterOneLeft DEF QueueInv
  <2>11. ASSUME NEW q \in Roles, q # r PROVE LineFits(q)' /\ PermitsFit(q)'
    BY <1>1, <2>1, <2>3, <2>11, UntouchedRole DEF QueueInv, Queue!TypeOK
  <2> QED
    BY <2>4, <2>7, <2>10, <2>11, RoleByRole DEF QueueInv
<1> QED
  BY <1>6, <1>7

(* What a release does to the tickets: its own is released, and at most one *)
(* that waited is granted.                                                 *)
LEMMA ReleaseMoves ==
  ASSUME QueueInv, NEW t \in Tickets, Queue!Release(t)
  PROVE  /\ lease' \in [Tickets -> Queue!LeaseStates]
         /\ lease[t] = "granted" /\ lease'[t] = "released"
         /\ \A u \in Tickets \ {t} :
              \/ lease'[u] = lease[u]
              \/ lease[u] = "waiting" /\ lease'[u] = "granted"
<1> DEFINE r == RoleOf[t]
           h == Head(pending[r])
<1>1. r \in Roles /\ LineFits(r) /\ lease[t] = "granted"
  BY RoleFacts DEF Queue!Release, RoleOf
<1>2. CASE pending[r] = <<>>
  BY <1>1, <1>2 DEF Queue!Release, QueueInv, Queue!TypeOK, Queue!LeaseStates, RoleOf
<1>3. CASE pending[r] # <<>>
  <2>1. lease' = [lease EXCEPT ![t] = "released", ![h] = "granted"]
    BY <1>3 DEF Queue!Release, RoleOf
  <2>2. 1 \in 1..Len(pending[r]) /\ h = pending[r][1] /\ h \in Tickets
    BY <1>1, <1>3 DEF QueueInv, Queue!TypeOK
  <2>3. lease[h] = "waiting"
    BY <1>1, <2>2 DEF LineFits
  <2> HIDE DEF h
  <2> QED
    BY <1>1, <2>1, <2>2, <2>3 DEF QueueInv, Queue!TypeOK, Queue!LeaseStates
<1> QED
  BY <1>2, <1>3

(* Every step of the queue keeps the invariant.                            *)
THEOREM QueueInvariance == Queue!Spec => []QueueInv
<1>1. Queue!Init => QueueInv
  BY QueueInit
<1>2. QueueInv /\ [Queue!Next]_(Queue!vars) => QueueInv'
  <2> SUFFICES ASSUME QueueInv, [Queue!Next]_(Queue!vars) PROVE QueueInv'
    OBVIOUS
  <2>1. ASSUME NEW t \in Tickets, Queue!Acquire(t) PROVE QueueInv'
    BY <2>1, AcquireKeepsQueue
  <2>2. ASSUME NEW t \in Tickets, Queue!Abort(t) PROVE QueueInv'
    BY <2>2, AbortKeepsQueue
  <2>3. ASSUME NEW t \in Tickets, Queue!Release(t) PROVE QueueInv'
    BY <2>3, ReleaseKeepsQueue
  <2>4. CASE UNCHANGED Queue!vars
    <3>1. UNCHANGED <<active, pending, lease, aborted>>
      BY <2>4 DEF Queue!vars
    <3>2. Queue!TypeOK'
      BY <3>1 DEF QueueInv, Queue!TypeOK
    <3>3. \A q \in Roles : LineFits(q) /\ PermitsFit(q)
      BY RoleByRole, Zenon DEF QueueInv
    <3>4. \A q \in Roles : LineFits(q)' /\ PermitsFit(q)'
      BY <3>1, <3>3, UntouchedRole
    <3> QED
      BY <3>2, <3>4, RoleByRole DEF QueueInv
  <2> QED
    BY <2>1, <2>2, <2>3, <2>4 DEF Queue!Next
<1> QED
  BY <1>1, <1>2, PTL DEF Queue!Spec

-----------------------------------------------------------------------------
(* A request has a ticket of its own for each attempt, and previews have   *)
(* one attempt.                                                            *)
RequestsTyped ==
  /\ req \in [Requests -> [at : Labels, n : 1..Attempts,
                           box : Boxes \cup {None}, mine : BOOLEAN]]
  /\ \A p \in Previews : req[p].n = 1

(* The ticket of a request's current attempt.                              *)
LEMMA TicketType ==
  ASSUME RequestsTyped, NEW r \in Requests
  PROVE  Ticket(r) \in Tickets /\ Ticket(r)[1] = r /\ Ticket(r)[2] = req[r].n
  BY DEF RequestsTyped, Requests, Ticket, Tickets

(* What a step may do to the labels of a request and to its permit.  Early *)
(* requests have not asked for one, and those that are Holding have it.    *)
Early == {"idle", "chained", "start"}
Holding(r) == {"observe", "find", "create", "claim", "cleanup"}
                \cup (IF r \in Previews THEN {"init", "probe"} ELSE {})
Past(r) == Labels \ (Early \cup Holding(r) \cup {"queued"})

Others(r) == /\ req' \in [Requests -> [at : Labels, n : 1..Attempts,
                                       box : Boxes \cup {None},
                                       mine : BOOLEAN]]
             /\ \A q \in Requests \ {r} : req'[q] = req[q]

Waits(r) == /\ req[r].at \in Early /\ req'[r].at \in Early
            /\ req'[r].n = req[r].n /\ UNCHANGED queue
Asks(r)  == /\ req[r].at \in Early /\ req'[r].at = "queued"
            /\ req'[r].n = req[r].n /\ Queue!Acquire(Ticket(r))
Gets(r)  == /\ req[r].at = "queued" /\ lease[Ticket(r)] = "granted"
            /\ req'[r].at \in Holding(r)
            /\ req'[r].n = req[r].n /\ UNCHANGED queue
Keeps(r) == /\ req[r].at \in Holding(r) /\ req'[r].at \in Holding(r)
            /\ req'[r].n = req[r].n /\ UNCHANGED queue
Gives(r) == /\ req[r].at \in Holding(r) /\ req'[r].at \in Past(r)
            /\ req'[r].n = req[r].n /\ Queue!Release(Ticket(r))
Misses(r) == /\ \/ req[r].at \in Early \cup Past(r)
                \/ req[r].at = "queued" /\ lease[Ticket(r)] = "rejected"
             /\ req'[r].at \in Past(r)
             /\ req'[r].n = req[r].n /\ UNCHANGED queue
Retries(r) == /\ r \in Builds /\ req[r].at \in Past(r)
              /\ req'[r].at \in Early
              /\ req'[r].n = req[r].n + 1 /\ UNCHANGED queue

Moves(r) == /\ Others(r)
            /\ \/ Waits(r) \/ Asks(r) \/ Gets(r) \/ Keeps(r) \/ Gives(r)
               \/ Misses(r) \/ Retries(r)

Signals(r) == req' = req /\ Queue!Abort(Ticket(r))

(* The kinds of assignment to a request.                                   *)
LEMMA GoesToMoves ==
  ASSUME RequestsTyped, NEW r \in Requests, NEW l \in Labels, GoesTo(r, l)
  PROVE  Others(r) /\ req'[r].at = l /\ req'[r].n = req[r].n
  BY DEF RequestsTyped, GoesTo, Others

(* A request that was given a sandbox goes on with it.                     *)
LEMMA TakesMoves ==
  ASSUME RequestsTyped, NEW r \in Requests, NEW l \in Labels,
         NEW x \in Boxes, NEW mine \in BOOLEAN, Takes(r, x, mine, l)
  PROVE  Others(r) /\ req'[r].at = l /\ req'[r].n = req[r].n
  BY DEF RequestsTyped, Takes, Others

(* An exception of a request without a permit.                             *)
LEMMA ThrowsMoves ==
  ASSUME RequestsTyped, NEW r \in Requests, Throws(r),
         \/ req[r].at \in Early \cup Past(r)
         \/ req[r].at = "queued" /\ lease[Ticket(r)] = "rejected"
  PROVE  Moves(r)
<1>1. "failed" \in Labels /\ "failed" \in Past(r)
  BY DEF Labels, Past, Early, Holding
<1>2. Others(r) /\ req'[r].at = "failed" /\ req'[r].n = req[r].n
  BY <1>1, GoesToMoves DEF Throws
<1> QED
  BY <1>1, <1>2 DEF Throws, Moves, Misses

(* An exception of a request with a permit: the finally clause gives it    *)
(* back.                                                                   *)
LEMMA ThrowsWithPermitMoves ==
  ASSUME RequestsTyped, NEW r \in Requests, ThrowsWithPermit(r),
         req[r].at \in Holding(r)
  PROVE  Moves(r)
<1>1. "failed" \in Labels /\ "failed" \in Past(r)
  BY DEF Labels, Past, Early, Holding
<1>2. Others(r) /\ req'[r].at = "failed" /\ req'[r].n = req[r].n
  BY <1>1, GoesToMoves DEF ThrowsWithPermit
<1> QED
  BY <1>1, <1>2 DEF ThrowsWithPermit, Moves, Gives

(* A request that goes on with its permit.                                 *)
LEMMA KeepsMoves ==
  ASSUME RequestsTyped, NEW r \in Requests, NEW l \in Holding(r),
         GoesTo(r, l), req[r].at \in Holding(r), UNCHANGED queue
  PROVE  Moves(r)
<1>1. l \in Labels
  BY DEF Labels, Holding
<1> QED
  BY <1>1, GoesToMoves DEF Moves, Keeps

(* Every handler gives its permit back on each of its ways out, or keeps   *)
(* it.                                                                     *)
LEMMA BuildStepMoves ==
  ASSUME RequestsTyped, NEW b \in Builds, BuildStep(b)
  PROVE  Moves(b)
<1>1. b \in Requests /\ Holding(b) = {"observe", "find", "create", "claim",
                                      "cleanup"}
  BY ProviderAssumption DEF Requests, Holding
<1>2. {"init", "done", "undo", "again", "failed"} \subseteq Past(b)
  BY <1>1 DEF Past, Early, Labels
<1>3. CASE Observe(b)
  <2>1. req[b].at \in Holding(b)
    BY <1>1, <1>3 DEF Observe, At
  <2>2. CASE GoesTo(b, "create") /\ UNCHANGED <<chain, queue>>
    BY <1>1, <2>1, <2>2, KeepsMoves
  <2>3. CASE ThrowsWithPermit(b)
    BY <1>1, <2>1, <2>3, ThrowsWithPermitMoves
  <2> QED
    BY <1>3, <2>2, <2>3 DEF Observe
<1>4. CASE Create(b)
  <2>1. req[b].at \in Holding(b)
    BY <1>1, <1>4 DEF Create, At
  <2>2. CASE Takes(b, Ticket(b), TRUE, "claim") /\ UNCHANGED <<chain, queue>>
    <3>1. "claim" \in Labels /\ "claim" \in Holding(b) /\ Ticket(b) \in Boxes
      BY <1>1 DEF RequestsTyped, Labels, Boxes, Ticket
    <3>2. Others(b) /\ req'[b].at = "claim" /\ req'[b].n = req[b].n
      BY <1>1, <2>2, <3>1, TakesMoves
    <3> QED
      BY <2>1, <2>2, <3>1, <3>2 DEF Moves, Keeps
  <2>3. CASE ThrowsWithPermit(b)
    BY <1>1, <2>1, <2>3, ThrowsWithPermitMoves
  <2> QED
    BY <1>4, <2>2, <2>3 DEF Create
<1>5. CASE Claim(b)
  <2>1. req[b].at \in Holding(b)
    BY <1>1, <1>5 DEF Claim, At
  <2>2. CASE GoesTo(b, "init") /\ Queue!Release(Ticket(b))
    <3>1. "init" \in Labels
      BY DEF Labels
    <3> QED
      BY <1>1, <1>2, <2>1, <2>2, <3>1, GoesToMoves DEF Moves, Gives
  <2>3. CASE GoesTo(b, "cleanup") /\ UNCHANGED queue
    BY <1>1, <2>1, <2>3, KeepsMoves
  <2> QED
    BY <1>5, <2>2, <2>3 DEF Claim
<1>6. CASE Initialize(b)
  <2>1. req[b].at \in Past(b) /\ UNCHANGED queue
    BY <1>2, <1>6 DEF Initialize, At
  <2>2. PICK l \in {"done", "undo", "again"} : GoesTo(b, l)
    BY <1>6 DEF Initialize
  <2>3. l \in Labels /\ l \in Past(b)
    BY <1>2 DEF Labels
  <2> QED
    BY <1>1, <2>1, <2>2, <2>3, GoesToMoves DEF Moves, Misses
<1>7. CASE Undo(b)
  <2>1. req[b].at \in Past(b) /\ UNCHANGED queue
    BY <1>2, <1>7 DEF Undo
  <2>2. CASE GoesTo(b, "failed")
    <3>1. "failed" \in Labels
      BY DEF Labels
    <3> QED
      BY <1>1, <1>2, <2>1, <2>2, <3>1, GoesToMoves DEF Moves, Misses
  <2>3. CASE /\ req[b].n < Attempts
             /\ req' = [req EXCEPT ![b] = [at |-> "start", n |-> @.n + 1,
                                           box |-> None, mine |-> FALSE]]
    <3>1. "start" \in Labels /\ "start" \in Early
      BY DEF Labels, Early
    <3>2. req[b].n + 1 \in 1..Attempts
      BY <1>1, <2>3, ProviderAssumption DEF RequestsTyped
    <3>3. Others(b) /\ req'[b].at = "start" /\ req'[b].n = req[b].n + 1
      BY <1>1, <2>3, <3>1, <3>2 DEF RequestsTyped, Others
    <3> QED
      BY <2>1, <3>1, <3>3 DEF Moves, Retries
  <2> QED
    BY <1>7, <2>2, <2>3 DEF Undo
<1> QED
  BY <1>3, <1>4, <1>5, <1>6, <1>7 DEF BuildStep

(* The same for the steps of #materializeFrozenPreview.                    *)
LEMMA PreviewStepMoves ==
  ASSUME RequestsTyped, NEW p \in Previews, PreviewStep(p)
  PROVE  Moves(p)
<1>1. p \in Requests /\ Holding(p) = {"observe", "find", "create", "claim",
                                      "cleanup", "init", "probe"}
  BY DEF Requests, Holding
<1>2. /\ {"init", "probe", "done", "create", "cleanup"} \subseteq Labels
      /\ "done" \in Past(p)
  BY <1>1 DEF Past, Early, Labels
<1>3. CASE Find(p)
  <2>1. req[p].at \in Holding(p)
    BY <1>1, <1>3 DEF Find, At
  <2>2. CASE GoesTo(p, "create") /\ UNCHANGED <<chain, queue, faults>>
    BY <1>1, <2>1, <2>2, KeepsMoves
  <2>3. ASSUME NEW x \in Up(EventOf[p]), Takes(p, x, FALSE, "init"),
               UNCHANGED queue
        PROVE  Moves(p)
    <3>1. x \in Boxes
      BY <2>3 DEF Up, Boxes
    <3> QED
      BY <1>1, <1>2, <2>1, <2>3, <3>1, TakesMoves DEF Moves, Keeps
  <2>4. CASE ThrowsWithPermit(p)
    BY <1>1, <2>1, <2>4, ThrowsWithPermitMoves
  <2> QED
    BY <1>3, <2>2, <2>3, <2>4 DEF Find
<1>4. CASE CreatePreview(p)
  <2>1. req[p].at \in Holding(p)
    BY <1>1, <1>4 DEF CreatePreview, At
  <2>2. ASSUME NEW g \in 1..Generations, NEW mine \in BOOLEAN,
               Takes(p, <<EventOf[p], g>>, mine, "init"), UNCHANGED queue
        PROVE  Moves(p)
    <3>1. <<EventOf[p], g>> \in Boxes
      BY ProviderAssumption DEF Boxes, Frozen
    <3> QED
      BY <1>1, <1>2, <2>1, <2>2, <3>1, TakesMoves DEF Moves, Keeps
  <2>3. CASE ThrowsWithPermit(p)
    BY <1>1, <2>1, <2>3, ThrowsWithPermitMoves
  <2> QED
    BY <1>4, <2>2, <2>3 DEF CreatePreview
<1>5. ASSUME Abandons(p), req[p].at \in Holding(p)
      PROVE  Moves(p)
  BY <1>1, <1>5, KeepsMoves, ThrowsWithPermitMoves DEF Abandons
<1>6. CASE Materialize(p)
  <2>1. req[p].at \in Holding(p)
    BY <1>1, <1>6 DEF Materialize, At
  <2>2. CASE GoesTo(p, "probe") /\ UNCHANGED queue
    BY <1>1, <2>1, <2>2, KeepsMoves
  <2> QED
    BY <1>5, <1>6, <2>1, <2>2 DEF Materialize
<1>7. CASE Probe(p)
  <2>1. req[p].at \in Holding(p)
    BY <1>1, <1>7 DEF Probe, At
  <2>2. CASE GoesTo(p, "done") /\ Queue!Release(Ticket(p))
    BY <1>1, <1>2, <2>1, <2>2, GoesToMoves DEF Moves, Gives
  <2> QED
    BY <1>5, <1>7, <2>1, <2>2 DEF Probe
<1> QED
  BY <1>3, <1>4, <1>6, <1>7 DEF PreviewStep

(* Every step of a request is one of these moves.                          *)
LEMMA StepMoves ==
  ASSUME RequestsTyped, NEW r \in Requests, Begin(r) \/ Step(r)
  PROVE  Moves(r)
<1>1. CASE Begin(r)
  <2>1. req[r].at \in Early /\ UNCHANGED queue
    BY <1>1 DEF Begin, At, Early
  <2>2. PICK l \in {"start", "chained"} : GoesTo(r, l)
    BY <1>1 DEF Begin
  <2>3. l \in Labels /\ l \in Early
    BY DEF Labels, Early
  <2> QED
    BY <2>1, <2>2, <2>3, GoesToMoves DEF Moves, Waits
<1>2. CASE Start(r)
  <2>1. req[r].at \in Early
    BY <1>2 DEF Start, MayStart, At, Early
  <2>2. CASE Throws(r)
    BY <2>1, <2>2, ThrowsMoves
  <2>3. CASE Queue!Acquire(Ticket(r)) /\ GoesTo(r, "queued")
    <3>1. "queued" \in Labels
      BY DEF Labels
    <3> QED
      BY <2>1, <2>3, <3>1, GoesToMoves DEF Moves, Asks
  <2> QED
    BY <1>2, <2>2, <2>3 DEF Start
<1>3. CASE Proceed(r)
  <2>1. req[r].at = "queued"
    BY <1>3 DEF Proceed, At
  <2>2. CASE /\ lease[Ticket(r)] = "granted"
             /\ GoesTo(r, IF r \in Builds THEN "observe" ELSE "find")
             /\ UNCHANGED queue
    <3>1. PICK l \in {"observe", "find"} : GoesTo(r, l)
      BY <2>2
    <3>2. l \in Labels /\ l \in Holding(r)
      BY DEF Labels, Holding
    <3> QED
      BY <2>1, <2>2, <3>1, <3>2, GoesToMoves DEF Moves, Gets
  <2>3. CASE lease[Ticket(r)] = "rejected" /\ Throws(r)
    BY <2>1, <2>3, ThrowsMoves
  <2> QED
    BY <1>3, <2>2, <2>3 DEF Proceed
<1>4. CASE Cleanup(r)
  <2>1. req[r].at \in Holding(r) /\ ThrowsWithPermit(r)
    BY <1>4 DEF Cleanup, At, Holding
  <2> QED
    BY <2>1, ThrowsWithPermitMoves
<1> QED
  BY <1>1, <1>2, <1>3, <1>4, BuildStepMoves, PreviewStepMoves DEF Step

(* The timers and the other steps that no request takes.                   *)
Outside == req' = req /\ UNCHANGED queue

(* Every step is a move of one request, a signal, or none of the requests' *)
(* business.                                                               *)
LEMMA NextMoves ==
  ASSUME RequestsTyped, [Next]_vars
  PROVE  \/ \E r \in Requests : Moves(r) \/ Signals(r)
         \/ Outside
<1>1. ASSUME NEW r \in Requests, Begin(r) \/ Step(r) PROVE Moves(r)
  BY <1>1, StepMoves
<1>2. ASSUME NEW r \in Requests, Abort(r) PROVE Signals(r)
  BY <1>2 DEF Abort, Signals
<1>3. ASSUME NEW x \in Frozen, UrlExpires(x) \/ TimerFires(x) \/ CleanPreview(x)
      PROVE  Outside
  BY <1>3 DEF UrlExpires, TimerFires, CleanPreview, Outside, queue
<1>4. ASSUME NEW x \in Boxes, TimeToLive(x) PROVE Outside
  BY <1>4 DEF TimeToLive, Outside
<1>5. CASE UNCHANGED vars
  BY <1>5 DEF vars, Outside
<1> QED
  BY <1>1, <1>2, <1>3, <1>4, <1>5 DEF Next

(* The requests keep their types, and previews have one attempt.           *)
LEMMA RequestsStayTyped == Spec => []RequestsTyped
<1>1. Init => RequestsTyped
  <2> SUFFICES ASSUME Init PROVE RequestsTyped
    OBVIOUS
  <2> DEFINE first == [at |-> "idle", n |-> 1, box |-> None, mine |-> FALSE]
  <2>1. first \in [at : Labels, n : 1..Attempts, box : Boxes \cup {None},
                   mine : BOOLEAN]
    BY ProviderAssumption DEF Labels
  <2>2. first.n = 1
    OBVIOUS
  <2>3. req = [r \in Requests |-> first]
    BY DEF Init
  <2> HIDE DEF first
  <2> QED
    BY <2>1, <2>2, <2>3 DEF RequestsTyped, Requests
<1>2. RequestsTyped /\ [Next]_vars => RequestsTyped'
  <2> SUFFICES ASSUME RequestsTyped, [Next]_vars PROVE RequestsTyped'
    OBVIOUS
  <2>1. ASSUME NEW r \in Requests, Moves(r) PROVE RequestsTyped'
    <3>1. Others(r)
      BY <2>1 DEF Moves
    <3>2. r \in Previews => req'[r].n = req[r].n
      BY <2>1, ProviderAssumption
         DEF Moves, Waits, Asks, Gets, Keeps, Gives, Misses, Retries
    <3> QED
      BY <3>1, <3>2 DEF Others, RequestsTyped, Requests
  <2>2. ASSUME NEW r \in Requests, Signals(r) PROVE RequestsTyped'
    BY <2>2 DEF Signals, RequestsTyped
  <2>3. CASE Outside
    BY <2>3 DEF Outside, RequestsTyped
  <2> QED
    BY <2>1, <2>2, <2>3, NextMoves
<1> QED
  BY <1>1, <1>2, PTL DEF Spec

-----------------------------------------------------------------------------
(* Whatever a request does, it asks for a permit, gives it back, is        *)
(* signalled, or leaves the queue alone.                                   *)
THEOREM ProviderUsesQueue == Spec => UsesQueue
<1>1. Init => Queue!Init
  BY DEF Init
<1>2. RequestsTyped /\ [Next]_vars => [Queue!Next]_(Queue!vars)
  <2> SUFFICES ASSUME RequestsTyped, [Next]_vars
               PROVE  [Queue!Next]_(Queue!vars)
    OBVIOUS
  <2>1. (UNCHANGED queue) => UNCHANGED Queue!vars
    BY DEF queue, Queue!vars
  <2>2. ASSUME NEW r \in Requests, Moves(r) PROVE [Queue!Next]_(Queue!vars)
    BY <2>1, <2>2, TicketType
       DEF Moves, Waits, Asks, Gets, Keeps, Gives, Misses, Retries, Queue!Next
  <2>3. ASSUME NEW r \in Requests, Signals(r) PROVE [Queue!Next]_(Queue!vars)
    BY <2>3, TicketType DEF Signals, Queue!Next
  <2> QED
    BY <2>1, <2>2, <2>3, NextMoves DEF Outside
<1> QED
  BY <1>1, <1>2, RequestsStayTyped, PTL DEF Spec, UsesQueue, Queue!Spec

(* Permits are conserved, however requests end and whenever they are       *)
(* aborted.                                                                *)
THEOREM ProviderConserves == Spec => []PermitsAreConserved
<1>1. QueueInv => PermitsAreConserved
  BY DEF QueueInv, PermitsAreConserved
<1> QED
  BY <1>1, QueueInvariance, ProviderUsesQueue, PTL DEF UsesQueue

(* Nobody who waits for a permit is forgotten, or waits while one is free. *)
THEOREM ProviderLineIsExact == Spec => []LineIsExact
<1>1. QueueInv => LineIsExact
  BY DEF QueueInv, LineIsExact
<1> QED
  BY <1>1, QueueInvariance, ProviderUsesQueue, PTL DEF UsesQueue

-----------------------------------------------------------------------------
(* Where a ticket can be in the queue: only the ticket of the current      *)
(* attempt is in line or granted, and only while its request waits for it  *)
(* or has use for it; a ticket that was not asked for is untouched.        *)
TicketFits(t) ==
  LET r == t[1] IN
  /\ lease[t] = "waiting" => t = Ticket(r) /\ req[r].at = "queued"
  /\ lease[t] = "granted" => /\ t = Ticket(r)
                             /\ req[r].at \in Holding(r) \cup {"queued"}
  /\ (t[2] > req[r].n \/ (t = Ticket(r) /\ req[r].at \in Early))
       => lease[t] = "none"

TicketsFit == \A t \in Tickets : TicketFits(t)

(* The label sets are apart.                                               *)
LEMMA Apart ==
  ASSUME NEW r
  PROVE  /\ "queued" \notin Early \cup Holding(r) \cup Past(r)
         /\ Early \cap Holding(r) = {} /\ Early \cap Past(r) = {}
         /\ Holding(r) \cap Past(r) = {}
  BY DEF Early, Holding, Past

(* A ticket is the current one of its request if it is of the same         *)
(* attempt.                                                                *)
LEMMA TicketsOf ==
  ASSUME RequestsTyped, NEW t \in Tickets
  PROVE  /\ t[1] \in Requests /\ t[2] \in Nat /\ req[t[1]].n \in Nat
         /\ (t = Ticket(t[1])) <=> (t[2] = req[t[1]].n)
<1>1. t[1] \in Requests /\ t[2] \in Nat /\ t = <<t[1], t[2]>>
  BY DEF Tickets, Requests
<1>2. req[t[1]].n \in Nat
  BY <1>1, ProviderAssumption DEF RequestsTyped
<1> QED
  BY <1>1, <1>2 DEF Ticket

(* A step of one request that leaves the queue alone.                      *)
LEMMA QuietStepFits ==
  ASSUME RequestsTyped, TicketsFit, NEW r \in Requests, Others(r),
         Waits(r) \/ Gets(r) \/ Keeps(r) \/ Misses(r) \/ Retries(r)
  PROVE  TicketsFit'
<1>1. lease' = lease
  BY DEF Waits, Gets, Keeps, Misses, Retries, queue
<1> SUFFICES ASSUME NEW t \in Tickets PROVE TicketFits(t)'
  BY DEF TicketsFit
<1>2. TicketFits(t)
  BY DEF TicketsFit
<1>3. t[1] \in Requests /\ t[2] \in Nat /\ req[t[1]].n \in Nat
  BY TicketsOf
<1>4. CASE t[1] # r
  <2>1. req'[t[1]] = req[t[1]]
    BY <1>3, <1>4 DEF Others
  <2> QED
    BY <1>1, <1>2, <2>1 DEF TicketFits, Ticket
<1>5. CASE t[1] = r
  <2>1. t = Ticket(r) <=> t[2] = req[r].n
    BY <1>5, TicketsOf
  <2>2. t = Ticket(r)' <=> t[2] = req'[r].n
    BY <1>5 DEF Ticket, Tickets
  <2>3. CASE Waits(r)
    BY <1>1, <1>2, <1>5, <2>1, <2>2, <2>3, Apart DEF TicketFits, Waits
  <2>4. CASE Gets(r)
    BY <1>1, <1>2, <1>5, <2>1, <2>2, <2>4, Apart DEF TicketFits, Gets
  <2>5. CASE Keeps(r)
    BY <1>1, <1>2, <1>5, <2>1, <2>2, <2>5, Apart DEF TicketFits, Keeps
  <2>6. CASE Misses(r)
    BY <1>1, <1>2, <1>5, <2>1, <2>2, <2>6, Apart DEF TicketFits, Misses
  <2>7. CASE Retries(r)
    BY <1>1, <1>2, <1>3, <1>5, <2>1, <2>2, <2>7, Apart DEF TicketFits, Retries
  <2> QED
    BY <2>3, <2>4, <2>5, <2>6, <2>7
<1> QED
  BY <1>4, <1>5

(* A request that asks for a permit.                                       *)
LEMMA AskingFits ==
  ASSUME RequestsTyped, TicketsFit, QueueInv, NEW r \in Requests, Others(r),
         Asks(r)
  PROVE  TicketsFit'
<1>1. /\ Ticket(r) \in Tickets /\ req'[r].n = req[r].n
      /\ req[r].at \in Early /\ req'[r].at = "queued"
  BY TicketType DEF Asks
<1>2. PICK s \in {"granted", "waiting", "rejected"} :
        lease' = [lease EXCEPT ![Ticket(r)] = s]
  BY DEF Asks, Queue!Acquire
<1>3. lease \in [Tickets -> Queue!LeaseStates]
  BY DEF QueueInv, Queue!TypeOK
<1> SUFFICES ASSUME NEW t \in Tickets PROVE TicketFits(t)'
  BY DEF TicketsFit
<1>4. TicketFits(t) /\ t[1] \in Requests
  BY TicketsOf DEF TicketsFit
<1>5. CASE t[1] # r
  <2>1. t # Ticket(r) /\ req'[t[1]] = req[t[1]]
    BY <1>4, <1>5 DEF Others, Ticket
  <2>2. lease'[t] = lease[t]
    BY <1>2, <1>3, <2>1
  <2> QED
    BY <1>4, <2>1, <2>2 DEF TicketFits, Ticket
<1>6. CASE t[1] = r
  <2>1. t = Ticket(r) <=> t[2] = req[r].n
    BY <1>6, TicketsOf
  <2>2. t = Ticket(r)' <=> t[2] = req'[r].n
    BY <1>6 DEF Ticket, Tickets
  <2>3. CASE t = Ticket(r)
    <3>1. ~(t[2] > req'[r].n) /\ t = Ticket(r)'
      BY <1>1, <1>6, <2>1, <2>2, <2>3, TicketsOf
    <3> QED
      BY <1>1, <1>6, <2>3, <3>1, Apart DEF TicketFits
  <2>4. CASE t # Ticket(r)
    <3>1. lease'[t] = lease[t]
      BY <1>2, <1>3, <2>4
    <3> QED
      BY <1>1, <1>4, <1>6, <2>1, <2>2, <2>4, <3>1 DEF TicketFits
  <2> QED
    BY <2>3, <2>4
<1> QED
  BY <1>5, <1>6

(* A request that gives its permit back, perhaps to one that waits.        *)
LEMMA GivingFits ==
  ASSUME RequestsTyped, TicketsFit, QueueInv, NEW r \in Requests, Others(r),
         Gives(r)
  PROVE  TicketsFit'
<1>1. /\ Ticket(r) \in Tickets /\ req'[r].n = req[r].n
      /\ req[r].at \in Holding(r) /\ req'[r].at \in Past(r)
  BY TicketType DEF Gives
<1>2. /\ lease'[Ticket(r)] = "released"
      /\ \A u \in Tickets \ {Ticket(r)} :
           \/ lease'[u] = lease[u]
           \/ lease[u] = "waiting" /\ lease'[u] = "granted"
  BY <1>1, ReleaseMoves DEF Gives
<1> SUFFICES ASSUME NEW t \in Tickets PROVE TicketFits(t)'
  BY DEF TicketsFit
<1>3. TicketFits(t) /\ t[1] \in Requests
  BY TicketsOf DEF TicketsFit
<1>4. CASE t[1] # r
  <2>1. t # Ticket(r) /\ req'[t[1]] = req[t[1]]
    BY <1>3, <1>4 DEF Others, Ticket
  <2>2. \/ lease'[t] = lease[t]
        \/ lease[t] = "waiting" /\ lease'[t] = "granted"
    BY <1>2, <2>1
  <2>3. t = Ticket(t[1])' <=> t = Ticket(t[1])
    BY <2>1 DEF Ticket
  <2> QED
    BY <1>3, <2>1, <2>2, <2>3, TicketsOf, Apart DEF TicketFits
<1>5. CASE t[1] = r
  <2>1. t = Ticket(r) <=> t[2] = req[r].n
    BY <1>5, TicketsOf
  <2>2. t = Ticket(r)' <=> t[2] = req'[r].n
    BY <1>5 DEF Ticket, Tickets
  <2>3. CASE t = Ticket(r)
    <3>1. ~(t[2] > req'[r].n) /\ lease'[t] = "released"
      BY <1>1, <1>2, <1>5, <2>1, <2>3, TicketsOf
    <3> QED
      BY <1>1, <1>5, <2>3, <3>1, Apart DEF TicketFits
  <2>4. CASE t # Ticket(r)
    <3>1. \/ lease'[t] = lease[t]
          \/ lease[t] = "waiting" /\ lease'[t] = "granted"
      BY <1>2, <2>4
    <3>2. lease[t] # "waiting" /\ lease[t] # "granted"
      BY <1>3, <1>5, <2>4 DEF TicketFits
    <3>3. t[2] > req'[r].n => lease[t] = "none"
      BY <1>1, <1>3, <1>5 DEF TicketFits
    <3> QED
      BY <1>1, <1>5, <2>1, <2>2, <2>4, <3>1, <3>2, <3>3 DEF TicketFits
  <2> QED
    BY <2>3, <2>4
<1> QED
  BY <1>4, <1>5

(* A signal takes the ticket of a request out of the line.                 *)
LEMMA SignalFits ==
  ASSUME RequestsTyped, TicketsFit, QueueInv, NEW r \in Requests, Signals(r)
  PROVE  TicketsFit'
<1>1. Ticket(r) \in Tickets /\ req' = req
  BY TicketType DEF Signals
<1>2. \/ lease' = lease
      \/ /\ lease[Ticket(r)] = "waiting"
         /\ lease' = [lease EXCEPT ![Ticket(r)] = "rejected"]
  BY DEF Signals, Queue!Abort
<1>3. lease \in [Tickets -> Queue!LeaseStates]
  BY DEF QueueInv, Queue!TypeOK
<1> SUFFICES ASSUME NEW t \in Tickets PROVE TicketFits(t)'
  BY DEF TicketsFit
<1>4. TicketFits(t)
  BY DEF TicketsFit
<1>5. lease'[t] = lease[t] \/ (lease[t] = "waiting" /\ lease'[t] = "rejected")
  BY <1>1, <1>2, <1>3
<1> QED
  BY <1>1, <1>4, <1>5 DEF TicketFits, Ticket

(* From acquire to the hand-out or the last exception: no permit outlives  *)
(* the attempt of the request that took it.                                *)
THEOREM PermitsStayInUse == Spec => []PermitsAreInUse
<1>1. Init => TicketsFit
  <2> SUFFICES ASSUME Init, NEW t \in Tickets PROVE TicketFits(t)
    BY DEF TicketsFit
  <2> QED
    BY DEF Init, Queue!Init, TicketFits
<1>2. /\ TicketsFit /\ RequestsTyped /\ QueueInv /\ [Next]_vars
      => TicketsFit'
  <2> SUFFICES ASSUME TicketsFit, RequestsTyped, QueueInv, [Next]_vars
               PROVE  TicketsFit'
    OBVIOUS
  <2>1. ASSUME NEW r \in Requests, Moves(r) PROVE TicketsFit'
    BY <2>1, QuietStepFits, AskingFits, GivingFits DEF Moves
  <2>2. ASSUME NEW r \in Requests, Signals(r) PROVE TicketsFit'
    BY <2>2, SignalFits
  <2>3. CASE Outside
    BY <2>3 DEF Outside, queue, TicketsFit, TicketFits, Ticket
  <2> QED
    BY <2>1, <2>2, <2>3, NextMoves
<1>3. TicketsFit => PermitsAreInUse
  BY DEF TicketsFit, TicketFits, PermitsAreInUse, Holding
<1>4. Spec => []QueueInv
  BY QueueInvariance, ProviderUsesQueue, PTL DEF UsesQueue
<1> QED
  BY <1>1, <1>2, <1>3, <1>4, RequestsStayTyped, PTL DEF Spec

-----------------------------------------------------------------------------
(* Which sandbox a request has: its own kind's, from the creation on.      *)
Empty == {"idle", "chained", "start", "queued", "observe", "find", "create"}
Full  == {"claim", "init", "probe", "cleanup", "undo", "again"}
BoxesOf(r) == IF r \in Builds THEN {r} \X (1..Attempts)
                              ELSE {EventOf[r]} \X (1..Generations)
BoxFits(r) == /\ req[r].box \in BoxesOf(r) \cup {None}
              /\ req[r].at \in Empty => req[r].box = None
              /\ req[r].at \in Full => req[r].box # None

BoxesFit == /\ boxes \in [Boxes -> {"absent", "up", "gone"}]
            /\ faults \in Nat
            /\ \A r \in Requests : BoxFits(r)

(* No request is of both kinds, and neither is a sandbox.                  *)
LEMMA KindsApart ==
  ASSUME NEW r \in Requests
  PROVE  /\ BoxesOf(r) \subseteq Boxes /\ None \notin Boxes
         /\ r \in Builds => BoxesOf(r) \cap Frozen = {} /\ r \notin Previews
         /\ r \notin Builds => r \in Previews /\ BoxesOf(r) \subseteq Frozen
         /\ Empty \cap Full = {} /\ Ended \cap (Empty \cup Full) = {}
<1>1. /\ EventOf \in [Previews -> Events] /\ Previews \cap Events = {}
      /\ Builds \cap (Previews \cup Events) = {}
  BY ProviderAssumption
<1>2. None \notin Boxes
  <2>1. Boxes \subseteq (Builds \cup Events) \X Nat
    BY DEF Boxes, Frozen
  <2> QED
    BY <2>1, ProviderAssumption
<1>3. CASE r \in Builds
  <2>1. BoxesOf(r) = {r} \X (1..Attempts)
    BY <1>3 DEF BoxesOf
  <2>2. BoxesOf(r) \subseteq Builds \X (1..Attempts)
    BY <1>3, <2>1
  <2>3. BoxesOf(r) \cap Frozen = {}
    BY <1>1, <2>2 DEF Frozen
  <2> QED
    BY <1>1, <1>2, <1>3, <2>2, <2>3 DEF Boxes, Empty, Full, Ended
<1>4. CASE r \notin Builds
  <2>1. r \in Previews /\ EventOf[r] \in Events
    BY <1>1, <1>4 DEF Requests
  <2>2. BoxesOf(r) \subseteq Frozen
    BY <1>4, <2>1 DEF BoxesOf, Frozen
  <2> QED
    BY <1>2, <1>4, <2>1, <2>2 DEF Boxes, Empty, Full, Ended
<1> QED
  BY <1>3, <1>4

(* What a step leaves of the sandboxes of builds: one that is there was    *)
(* there before and is still somebody's, or it is this request's now, or   *)
(* the call that was to create or delete it has failed.                    *)
Holds(r, x) == req[r].box = x /\ req[r].at \notin Ended
Kept(r) ==
  /\ faults' \in Nat
  /\ boxes' \in [Boxes -> {"absent", "up", "gone"}]
  /\ \A x \in Boxes \ Frozen :
       /\ x \in handed => x \in handed'
       /\ boxes'[x] = "up" =>
            \/ /\ boxes[x] = "up"
               /\ x \in handed' \/ Holds(r, x)' \/ ~Holds(r, x)
            \/ Holds(r, x)' \/ (r \in Builds /\ Excused(r, x))
KeepsBuilds == \A x \in Boxes \ Frozen :
                 Lost(x)' => Lost(x) \/ \E b \in Builds : Excused(b, x)

(* When no request but one steps, and that one keeps what there is of      *)
(* builds, none is orphaned.                                               *)
LEMMA KeptFits ==
  ASSUME RequestsTyped, BoxesFit, NEW r \in Requests,
         Others(r), Kept(r), BoxFits(r)'
  PROVE  BoxesFit' /\ KeepsBuilds
<1>1. ASSUME NEW q \in Requests, q # r PROVE req'[q] = req[q]
  BY <1>1 DEF Others
<1>2. BoxesFit'
  <2>1. ASSUME NEW q \in Requests PROVE BoxFits(q)'
    <3>1. CASE q # r
      BY <1>1, <3>1 DEF BoxesFit, BoxFits, BoxesOf
    <3> QED
      BY <3>1
  <2> QED
    BY <2>1 DEF BoxesFit, Kept
<1>3. ASSUME NEW x \in Boxes \ Frozen, Lost(x)'
      PROVE  Lost(x) \/ \E b \in Builds : Excused(b, x)
  <2>1. /\ boxes'[x] = "up" /\ x \notin handed' /\ x \notin handed
        /\ ~Holds(r, x)'
    BY <1>3 DEF Lost, Using, Holds, Kept
  <2>2. CASE boxes[x] = "up" /\ ~Holds(r, x)
    <3>1. ASSUME NEW q \in Using(x) PROVE FALSE
      <4>1. q \in Requests /\ q # r /\ req[q].box = x /\ req[q].at \notin Ended
        BY <2>2 DEF Using, Holds
      <4> QED
        BY <1>1, <1>3, <4>1 DEF Lost, Using
    <3> QED
      BY <2>1, <2>2, <3>1 DEF Lost
  <2> QED
    BY <2>1, <2>2 DEF Kept
<1> QED
  BY <1>2, <1>3 DEF KeepsBuilds

(* A request from one step to the next: it keeps its sandbox ...           *)
Stands(r, l) == /\ Others(r) /\ req'[r].at = l /\ req'[r].box = req[r].box
                /\ req'[r].mine = req[r].mine

(* Going to a label is such a step.                                        *)
LEMMA GoesToStands ==
  ASSUME RequestsTyped, NEW r \in Requests, NEW l \in Labels, GoesTo(r, l)
  PROVE  Stands(r, l)
BY DEF RequestsTyped, GoesTo, Others, Stands

(* ... or is given one.                                                    *)
Given(r, x, mine, l) == /\ Others(r) /\ req'[r].at = l /\ req'[r].box = x
                        /\ req'[r].mine = mine

(* Taking a sandbox is such a step.                                        *)
LEMMA TakesGiven ==
  ASSUME RequestsTyped, NEW r \in Requests, NEW l \in Labels,
         NEW x \in Boxes, NEW mine \in BOOLEAN, Takes(r, x, mine, l)
  PROVE  Given(r, x, mine, l)
BY DEF RequestsTyped, Takes, Others, Given

(* Builds keep the labels of builds; what a request does to the sandboxes, *)
(* in the shapes its steps have: it goes on, ...                           *)
Fitting(r) == Others(r) /\ Kept(r) /\ BoxFits(r)'

(* It comes to a label with a sandbox only from one, and ends with the     *)
(* sandbox handed out or its deletion failed.                              *)
LEMMA GoesFits ==
  ASSUME RequestsTyped, BoxesFit, NEW r \in Requests, NEW l \in Labels,
         GoesTo(r, l), UNCHANGED boxes, handed \subseteq handed',
         faults' \in Nat,
         l \in Empty => req[r].at \in Empty,
         l \in Full => req[r].at \in Full,
         l \in Ended => \/ req[r].at \in Empty \/ r \in Previews
                        \/ req[r].box \in handed'
                        \/ r \in Builds /\ Excused(r, req[r].box)
  PROVE  Fitting(r)
<1>1. Stands(r, l)
  BY GoesToStands
<1>2. BoxFits(r)
  BY DEF BoxesFit
<1>3. BoxFits(r)'
  BY <1>1, <1>2 DEF BoxFits, BoxesOf, Stands
<1>4. ASSUME NEW x \in Boxes \ Frozen, Holds(r, x)
      PROVE  \/ x \in handed' \/ Holds(r, x)'
             \/ r \in Builds /\ Excused(r, x)
  <2>1. req[r].at \notin Empty /\ r \notin Previews
    BY <1>2, <1>4, KindsApart DEF BoxFits, Holds
  <2>2. CASE l \in Ended
    BY <1>4, <2>1, <2>2 DEF Holds
  <2>3. CASE l \notin Ended
    BY <1>1, <1>4, <2>3 DEF Holds, Stands
  <2> QED
    BY <2>2, <2>3
<1>5. Kept(r)
  BY <1>4 DEF Kept, BoxesFit
<1> QED
  BY <1>1, <1>3, <1>5 DEF Fitting, Stands

(* ... takes a sandbox, new or found, ...                                  *)
LEMMA TakesFits ==
  ASSUME RequestsTyped, BoxesFit, NEW r \in Requests, NEW l \in Full,
         NEW x \in BoxesOf(r), NEW mine \in BOOLEAN, Takes(r, x, mine, l),
         req[r].at \in Empty,
         UNCHANGED boxes \/ boxes' = [boxes EXCEPT ![x] = "up"],
         UNCHANGED handed, faults' \in Nat
  PROVE  Fitting(r)
<1>1. x \in Boxes /\ x # None /\ l \in Labels /\ l \notin Ended /\ l \notin Empty
  BY KindsApart DEF Full, Labels, Ended, Empty
<1>2. Given(r, x, mine, l)
  BY <1>1, TakesGiven
<1>3. BoxFits(r)'
  BY <1>1, <1>2 DEF BoxFits, BoxesOf, Given
<1>4. \A y \in Boxes \ Frozen : ~Holds(r, y)
  BY KindsApart DEF BoxesFit, BoxFits, Holds
<1>5. Holds(r, x)'
  BY <1>1, <1>2 DEF Holds, Given
<1>6. boxes' \in [Boxes -> {"absent", "up", "gone"}]
      /\ \A y \in Boxes : y # x => boxes'[y] = boxes[y]
  BY <1>1 DEF BoxesFit
<1>7. Kept(r)
  BY <1>4, <1>5, <1>6 DEF Kept
<1> QED
  BY <1>2, <1>3, <1>7 DEF Fitting, Given

(* ... or ends, with its sandbox deleted or not created as it should.      *)
LEMMA EndsFits ==
  ASSUME RequestsTyped, BoxesFit, NEW r \in Requests, GoesTo(r, "failed"),
         NEW x, NEW s \in {"absent", "up", "gone"},
         boxes' = [boxes EXCEPT ![x] = s],
         \/ s = "gone" /\ x = req[r].box
         \/ r \in Builds /\ Excused(r, x) /\ req[r].at \in Empty
         \/ x \in Frozen,
         x \in Frozen => req[r].at \in Empty \/ r \in Previews,
         UNCHANGED handed, faults' \in Nat
  PROVE  Fitting(r)
<1>1. Stands(r, "failed")
  BY GoesToStands DEF Labels
<1>2. BoxFits(r)
  BY DEF BoxesFit
<1>3. BoxFits(r)'
  BY <1>1, <1>2 DEF BoxFits, BoxesOf, Stands, Empty, Full
<1>4. /\ boxes' \in [Boxes -> {"absent", "up", "gone"}]
      /\ \A y \in Boxes : y # x => boxes'[y] = boxes[y]
      /\ x \in Boxes => boxes'[x] = s
  BY DEF BoxesFit
<1>5. ASSUME NEW y \in Boxes \ Frozen, boxes'[y] = "up"
      PROVE  \/ boxes[y] = "up" /\ ~Holds(r, y)
             \/ r \in Builds /\ Excused(r, y)
  <2>1. CASE y = x
    BY <1>4, <1>5, <2>1
  <2>2. CASE y # x
    <3>1. boxes[y] = "up"
      BY <1>4, <1>5, <2>2
    <3>2. CASE x \in Frozen \/ req[r].at \in Empty
      BY <1>2, <3>1, <3>2, KindsApart DEF BoxFits, Holds
    <3>3. CASE x = req[r].box
      BY <2>2, <3>1, <3>3 DEF Holds
    <3> QED
      BY <3>2, <3>3
  <2> QED
    BY <2>1, <2>2
<1>6. Kept(r)
  BY <1>4, <1>5 DEF Kept
<1> QED
  BY <1>1, <1>3, <1>6 DEF Fitting, Stands

(* The count of failed calls only grows.                                   *)
LEMMA FaultsGrow ==
  ASSUME BoxesFit, NEW r \in Requests, Fault \/ Fails(r) \/ UNCHANGED faults
  PROVE  faults' \in Nat /\ (Fault => faults' > faults)
BY DEF BoxesFit, Fault, Fails

(* An attempt that is over leaves its sandbox to nobody; the next one has  *)
(* none yet.                                                               *)
LEMMA UndoFits ==
  ASSUME RequestsTyped, BoxesFit, NEW b \in Builds, Undo(b)
  PROVE  Fitting(b)
<1>1. /\ b \in Requests /\ BoxFits(b) /\ req[b].at \in Full
      /\ req[b].at \notin Empty
  BY KindsApart DEF Requests, BoxesFit, Undo, Full
<1>2. req[b].box \in BoxesOf(b) /\ BoxesOf(b) \cap Frozen = {}
  BY <1>1, KindsApart DEF BoxFits
<1>3. faults' \in Nat /\ (Fault => faults' > faults)
  BY <1>1, FaultsGrow DEF Undo
<1>4. "failed" \in Ended /\ "failed" \in Labels /\ "failed" \notin Empty \cup Full
  BY DEF Ended, Labels, Empty, Full
<1>5. UNCHANGED handed
  BY DEF Undo, unwatched, previewVars
<1>6. CASE Fault /\ GoesTo(b, "failed") /\ UNCHANGED boxes
  <2>1. req[b].box[1] = b /\ req[b].at \in {"undo", "again"}
    BY <1>1, <1>2 DEF BoxesOf, Undo
  <2>2. Excused(b, req[b].box)
    BY <1>3, <1>6, <2>1 DEF Excused
  <2> QED
    BY <1>1, <1>3, <1>4, <1>5, <1>6, <2>2, GoesFits
<1>7. CASE Becomes(req[b].box, "gone") /\ GoesTo(b, "failed")
  <2>1. \E x, s : /\ x = req[b].box /\ s = "gone"
                  /\ boxes' = [boxes EXCEPT ![x] = s]
    BY <1>7 DEF Becomes
  <2> QED
    BY <1>1, <1>2, <1>3, <1>5, <1>7, <2>1, EndsFits
<1>8. CASE /\ Becomes(req[b].box, "gone") /\ req[b].n < Attempts
           /\ req' = [req EXCEPT ![b] = [at |-> "start", n |-> @.n + 1,
                                         box |-> None, mine |-> FALSE]]
  <2>1. /\ req'[b].at = "start" /\ req'[b].box = None
        /\ \A q \in Requests : q # b => req'[q] = req[q]
    BY <1>1, <1>8 DEF RequestsTyped
  <2>2. req'[b] \in [at : Labels, n : 1..Attempts,
                     box : Boxes \cup {None}, mine : BOOLEAN]
    <3>1. req[b].n \in 1..Attempts /\ Attempts \in Nat
      BY <1>1, ProviderAssumption DEF RequestsTyped
    <3>2. req[b].n + 1 \in 1..Attempts
      BY <1>8, <3>1
    <3>3. req'[b] = [at |-> "start", n |-> req[b].n + 1, box |-> None,
                     mine |-> FALSE]
      BY <1>1, <1>8 DEF RequestsTyped
    <3> QED
      BY <3>2, <3>3 DEF Labels
  <2>3. Others(b)
    BY <1>1, <1>8, <2>1, <2>2 DEF Others, RequestsTyped
  <2>4. BoxFits(b)'
    BY <2>1 DEF BoxFits, BoxesOf, Empty, Full
  <2>5. /\ boxes' \in [Boxes -> {"absent", "up", "gone"}]
        /\ \A y \in Boxes : y # req[b].box => boxes'[y] = boxes[y]
        /\ req[b].box \in Boxes => boxes'[req[b].box] = "gone"
    BY <1>8 DEF BoxesFit, Becomes
  <2>6. Kept(b)
    BY <1>3, <1>5, <2>5 DEF Kept, Holds
  <2> QED
    BY <2>3, <2>4, <2>6 DEF Fitting
<1> QED
  BY <1>6, <1>7, <1>8 DEF Undo

(* Every step of a build ...                                               *)
LEMMA BuildFits ==
  ASSUME RequestsTyped, BoxesFit, NEW b \in Builds, BuildStep(b)
  PROVE  Fitting(b)
<1>1. b \in Requests /\ BoxFits(b)
  BY DEF Requests, BoxesFit
<1>2. Fault \/ Fails(b) \/ UNCHANGED faults
      => faults' \in Nat /\ (Fault => faults' > faults)
  BY <1>1, FaultsGrow
<1>3. "failed" \in Ended /\ "failed" \in Labels /\ "failed" \notin Empty \cup Full
  BY DEF Ended, Labels, Empty, Full
<1>4. CASE Observe(b)
  <2>1. /\ GoesTo(b, "create") \/ GoesTo(b, "failed")
        /\ UNCHANGED <<boxes, handed, faults>> /\ req[b].at \in Empty
    BY <1>4 DEF Observe, ThrowsWithPermit, unwatched, previewVars, At, Empty
  <2>2. "create" \in Labels /\ "create" \in Empty \ (Full \cup Ended)
    BY DEF Labels, Empty, Full, Ended
  <2> QED
    BY <1>1, <1>2, <1>3, <2>1, <2>2, GoesFits
<1>5. CASE Create(b)
  <2> DEFINE x == Ticket(b)
  <2>1. /\ x \in BoxesOf(b) /\ x \notin Frozen /\ req[b].at \in Empty
        /\ UNCHANGED handed
    <3>1. x \in {b} \X (1..Attempts) /\ BoxesOf(b) = {b} \X (1..Attempts)
      BY <1>1 DEF RequestsTyped, Ticket, BoxesOf
    <3> QED
      BY <1>1, <1>5, <3>1, KindsApart DEF Create, At, Empty, unwatched, previewVars
  <2>2. CASE Becomes(x, "up") /\ Takes(b, x, TRUE, "claim") /\ UNCHANGED faults
    <3>1. "claim" \in Full /\ TRUE \in BOOLEAN
      BY DEF Full
    <3>2. boxes' = [boxes EXCEPT ![x] = "up"]
      BY <2>2 DEF Becomes
    <3> HIDE DEF x
    <3> QED
      BY <1>1, <1>2, <2>1, <2>2, <3>1, <3>2, TakesFits
  <2>3. CASE /\ Fault /\ ThrowsWithPermit(b)
             /\ \E s \in {"absent", "up"} : Becomes(x, s)
    <3>1. PICK s \in {"absent", "up", "gone"} : boxes' = [boxes EXCEPT ![x] = s]
      BY <2>3 DEF Becomes
    <3>2. GoesTo(b, "failed") /\ Fault
      BY <2>3 DEF ThrowsWithPermit
    <3>3. Excused(b, x)
      BY <1>1, <1>2, <1>5, <3>2 DEF Excused, Ticket, Create, At
    <3> HIDE DEF x
    <3> QED
      BY <1>1, <1>2, <2>1, <3>1, <3>2, <3>3, EndsFits
  <2> QED
    BY <1>5, <2>2, <2>3 DEF Create
<1>6. CASE Claim(b)
  <2>1. /\ GoesTo(b, "init") \/ GoesTo(b, "cleanup")
        /\ UNCHANGED <<boxes, handed>> /\ req[b].at \in Full
        /\ Fails(b) \/ UNCHANGED faults
    BY <1>6 DEF Claim, unwatched, previewVars, At, Full
  <2>2. {"init", "cleanup"} \subseteq Labels \cap (Full \ (Empty \cup Ended))
    BY DEF Labels, Empty, Full, Ended
  <2> QED
    BY <1>1, <1>2, <2>1, <2>2, GoesFits
<1>7. CASE Initialize(b)
  <2>1. UNCHANGED boxes /\ req[b].at \in Full /\ (Fails(b) \/ UNCHANGED faults)
    BY <1>7 DEF Initialize, At, Full
  <2>2. CASE GoesTo(b, "done") /\ handed' = handed \cup {req[b].box}
    <3>1. "done" \in Labels \ (Empty \cup Full)
      BY DEF Labels, Empty, Full
    <3> QED
      BY <1>1, <1>2, <2>1, <2>2, <3>1, GoesFits
  <2>3. CASE UNCHANGED handed /\ \E l \in {"undo", "again"} : GoesTo(b, l)
    <3>1. {"undo", "again"} \subseteq Labels \cap (Full \ (Empty \cup Ended))
      BY DEF Labels, Empty, Full, Ended
    <3> QED
      BY <1>1, <1>2, <2>1, <2>3, <3>1, GoesFits
  <2> QED
    BY <1>7, <2>2, <2>3 DEF Initialize
<1>8. CASE Undo(b)
  BY <1>8, UndoFits
<1> QED
  BY <1>4, <1>5, <1>6, <1>7, <1>8 DEF BuildStep

(* ... and of a preview.                                                   *)
LEMMA PreviewFits ==
  ASSUME RequestsTyped, BoxesFit, NEW p \in Previews, PreviewStep(p)
  PROVE  Fitting(p)
<1>1. /\ p \in Requests /\ BoxFits(p) /\ p \notin Builds
      /\ EventOf[p] \in Events
  BY KindsApart, ProviderAssumption DEF Requests, BoxesFit
<1>2. Fault \/ Fails(p) \/ UNCHANGED faults
      => faults' \in Nat /\ (Fault => faults' > faults)
  BY <1>1, FaultsGrow
<1>3. /\ {"failed", "done"} \subseteq Labels \ (Empty \cup Full)
      /\ {"init", "probe", "cleanup"} \subseteq Labels \cap (Full \ (Empty \cup Ended))
      /\ "create" \in Labels /\ "create" \in Empty \ (Full \cup Ended)
      /\ "find" \in Empty
  BY DEF Ended, Labels, Empty, Full
<1>4. CASE Find(p)
  <2>1. /\ UNCHANGED <<boxes, handed>> /\ req[p].at \in Empty
        /\ Fails(p) \/ UNCHANGED faults
    BY <1>3, <1>4 DEF Find, unwatched, previewVars, At
  <2>2. ASSUME NEW x \in Up(EventOf[p]), Takes(p, x, FALSE, "init")
        PROVE  Fitting(p)
    <3>1. x \in BoxesOf(p)
      BY <1>1, <2>2 DEF Up, BoxesOf, Frozen
    <3> QED
      BY <1>1, <1>2, <1>3, <2>1, <2>2, <3>1, TakesFits
  <2>3. CASE GoesTo(p, "create") \/ GoesTo(p, "failed")
    BY <1>1, <1>2, <1>3, <2>1, <2>3, GoesFits
  <2> QED
    BY <1>4, <2>2, <2>3 DEF Find, ThrowsWithPermit
<1>5. CASE CreatePreview(p)
  <2>1. PICK g \in 1..Generations :
          LET x == <<EventOf[p], g>> IN
          \/ /\ Becomes(x, "up") /\ UNCHANGED faults
             /\ Takes(p, x, TRUE, "init")
          \/ /\ Becomes(x, "up") /\ Fault /\ Takes(p, x, FALSE, "init")
          \/ /\ Fails(p) /\ ThrowsWithPermit(p)
             /\ \E s \in {"absent", "up"} : Becomes(x, s)
    BY <1>5 DEF CreatePreview
  <2> DEFINE x == <<EventOf[p], g>>
  <2>2. x \in BoxesOf(p) /\ x \in Frozen
    BY <1>1 DEF BoxesOf, Frozen
  <2>3. req[p].at \in Empty /\ UNCHANGED handed
    BY <1>3, <1>5 DEF CreatePreview, At, unwatched, previewVars
  <2>4. ASSUME NEW mine \in BOOLEAN, Becomes(x, "up"), Takes(p, x, mine, "init"),
               Fault \/ UNCHANGED faults
        PROVE  Fitting(p)
    <3>1. boxes' = [boxes EXCEPT ![x] = "up"]
      BY <2>4 DEF Becomes
    <3> HIDE DEF x
    <3> QED
      BY <1>1, <1>2, <1>3, <2>2, <2>3, <2>4, <3>1, TakesFits
  <2>5. CASE /\ Fails(p) /\ ThrowsWithPermit(p)
             /\ \E s \in {"absent", "up"} : Becomes(x, s)
    <3>1. PICK s \in {"absent", "up", "gone"} : boxes' = [boxes EXCEPT ![x] = s]
      BY <2>5 DEF Becomes
    <3>2. GoesTo(p, "failed")
      BY <2>5 DEF ThrowsWithPermit
    <3> HIDE DEF x
    <3> QED
      BY <1>1, <1>2, <2>2, <2>3, <2>5, <3>1, <3>2, EndsFits
  <2> QED
    BY <2>1, <2>4, <2>5
<1>6. ASSUME req[p].at \in {"init", "probe"}, UNCHANGED boxes,
             handed \subseteq handed', Fails(p) \/ UNCHANGED faults,
             NEW l \in {"probe", "done", "cleanup", "failed"}, GoesTo(p, l)
      PROVE  Fitting(p)
  BY <1>1, <1>2, <1>3, <1>6, GoesFits
<1>7. CASE Materialize(p) \/ Probe(p)
  <2>1. \E l \in {"probe", "done", "cleanup", "failed"} : GoesTo(p, l)
    BY <1>7 DEF Materialize, Probe, Abandons, ThrowsWithPermit
  <2>2. req[p].at \in {"init", "probe"} /\ UNCHANGED boxes
    BY <1>7 DEF Materialize, Probe, At
  <2>3. handed \subseteq handed' /\ (Fails(p) \/ UNCHANGED faults)
    BY <1>7 DEF Materialize, Probe
  <2> QED
    BY <1>6, <2>1, <2>2, <2>3
<1> QED
  BY <1>4, <1>5, <1>7 DEF PreviewStep

(* Every step of a request.                                                *)
LEMMA RequestFits ==
  ASSUME RequestsTyped, BoxesFit, NEW r \in Requests, Begin(r) \/ Step(r)
  PROVE  Fitting(r)
<1>1. BoxFits(r)
  BY DEF BoxesFit
<1>2. Fault \/ Fails(r) \/ UNCHANGED faults
      => faults' \in Nat /\ (Fault => faults' > faults)
  BY FaultsGrow
<1>3. CASE Begin(r) \/ Start(r) \/ Proceed(r)
  <2>1. /\ UNCHANGED <<boxes, handed, faults>> /\ req[r].at \in Empty
        /\ \E l \in {"start", "chained", "queued", "observe", "find", "failed"} :
             GoesTo(r, l)
    BY <1>3 DEF Begin, Start, MayStart, Proceed, Throws, At, Empty, unwatched,
                previewVars
  <2>2. {"start", "chained", "queued", "observe", "find", "failed"}
          \subseteq Labels \ Full
    BY DEF Labels, Full
  <2> QED
    BY <1>1, <1>2, <2>1, <2>2, GoesFits
<1>4. CASE Cleanup(r)
  <2>1. /\ req[r].at \in Full /\ GoesTo(r, "failed") /\ UNCHANGED handed
        /\ Fault \/ UNCHANGED faults
    BY <1>4 DEF Cleanup, ThrowsWithPermit, At, Full, unwatched, previewVars
  <2>2. /\ req[r].at \notin Empty
        /\ "failed" \in Labels \ (Empty \cup Full)
    BY <2>1, KindsApart DEF Labels, Empty, Full
  <2>3. req[r].box \in BoxesOf(r)
    BY <1>1, <2>1 DEF BoxFits
  <2>4. CASE Becomes(req[r].box, "gone") /\ UNCHANGED faults
    <3>1. PICK x, s : /\ x = req[r].box /\ s = "gone"
                      /\ boxes' = [boxes EXCEPT ![x] = s]
      BY <2>4 DEF Becomes
    <3>2. x \in Frozen => r \in Previews
      BY <2>3, <3>1, KindsApart
    <3> QED
      BY <1>2, <2>1, <2>4, <3>1, <3>2, EndsFits
  <2>5. CASE Fault /\ UNCHANGED boxes
    <3>1. r \in Builds => Excused(r, req[r].box)
      BY <1>2, <1>4, <2>3, <2>5 DEF Excused, BoxesOf, Cleanup, At
    <3> QED
      BY <1>1, <1>2, <2>1, <2>2, <2>5, <3>1, GoesFits DEF Requests
  <2> QED
    BY <1>4, <2>4, <2>5 DEF Cleanup
<1> QED
  BY <1>3, <1>4, BuildFits, PreviewFits DEF Step

(* What ends a preview, or a sandbox nobody uses any more, leaves the      *)
(* requests alone and makes no sandbox; no build's is taken back.          *)
LEMMA OutsideFits ==
  ASSUME BoxesFit, UNCHANGED req,
         faults' \in Nat,
         handed \ Frozen \subseteq handed',
         UNCHANGED boxes \/ \E x : boxes' = [boxes EXCEPT ![x] = "gone"]
  PROVE  BoxesFit' /\ KeepsBuilds
<1>1. /\ boxes' \in [Boxes -> {"absent", "up", "gone"}]
      /\ \A x \in Boxes : boxes'[x] = "up" => boxes[x] = "up"
  BY DEF BoxesFit
<1>2. BoxesFit'
  BY <1>1 DEF BoxesFit, BoxFits, BoxesOf
<1>3. \A x : Using(x)' = Using(x)
  BY DEF Using
<1> QED
  BY <1>1, <1>2, <1>3 DEF KeepsBuilds, Lost

(* Who may have which sandbox stays, and no step loses one of a build.     *)
LEMMA BoxesNext ==
  ASSUME RequestsTyped, BoxesFit, [Next]_vars
  PROVE  BoxesFit' /\ KeepsBuilds
<1>1. ASSUME NEW r \in Requests, Begin(r) \/ Step(r)
      PROVE  BoxesFit' /\ KeepsBuilds
  BY <1>1, RequestFits, KeptFits DEF Fitting
<1>2. faults \in Nat
  BY DEF BoxesFit
<1>3. ASSUME NEW r \in Requests, Abort(r)
      PROVE  BoxesFit' /\ KeepsBuilds
  BY <1>2, <1>3, OutsideFits DEF Abort, unwatched, previewVars
<1>4. ASSUME NEW x \in Frozen, UrlExpires(x)
      PROVE  BoxesFit' /\ KeepsBuilds
  BY <1>2, <1>4, OutsideFits DEF UrlExpires
<1>5. ASSUME NEW x \in Frozen, TimerFires(x)
      PROVE  BoxesFit' /\ KeepsBuilds
  BY <1>2, <1>5, OutsideFits DEF TimerFires
<1>6. ASSUME NEW x \in Frozen, CleanPreview(x)
      PROVE  BoxesFit' /\ KeepsBuilds
  <2>1. /\ UNCHANGED req /\ handed \ Frozen \subseteq handed'
        /\ Fault \/ UNCHANGED faults
    BY <1>6 DEF CleanPreview
  <2>2. faults' \in Nat
    BY <1>2, <2>1 DEF Fault
  <2>3. UNCHANGED boxes \/ \E y : boxes' = [boxes EXCEPT ![y] = "gone"]
    BY <1>6 DEF CleanPreview, Becomes
  <2> QED
    BY <2>1, <2>2, <2>3, OutsideFits
<1>7. ASSUME NEW x \in Boxes, TimeToLive(x)
      PROVE  BoxesFit' /\ KeepsBuilds
  <2>1. /\ UNCHANGED <<req, faults>> /\ handed \ Frozen \subseteq handed'
    BY <1>7 DEF TimeToLive, unwatched, previewVars
  <2>2. \E y : boxes' = [boxes EXCEPT ![y] = "gone"]
    BY <1>7 DEF TimeToLive, Becomes
  <2> QED
    BY <1>2, <2>1, <2>2, OutsideFits
<1>8. CASE UNCHANGED vars
  BY <1>2, <1>8, OutsideFits DEF vars
<1> QED
  BY <1>1, <1>3, <1>4, <1>5, <1>6, <1>7, <1>8 DEF Next

(* Every request has a sandbox of its own, or none.                        *)
LEMMA BoxesStay == Spec => []BoxesFit
<1>1. Init => BoxesFit
  <2> SUFFICES ASSUME Init PROVE BoxesFit
    OBVIOUS
  <2>1. PICK left \in SUBSET {<<e, 1>> : e \in Events} :
          boxes = [x \in Boxes |-> IF x \in left THEN "up" ELSE "absent"]
    BY DEF Init
  <2>2. ASSUME NEW r \in Requests PROVE BoxFits(r)
    <3>1. req[r].at = "idle" /\ req[r].box = None
      BY DEF Init
    <3> QED
      BY <3>1 DEF BoxFits, Full
  <2> QED
    BY <2>1, <2>2 DEF Init, BoxesFit
<1>2. RequestsTyped /\ BoxesFit /\ [Next]_vars => BoxesFit'
  BY BoxesNext
<1> QED
  BY <1>1, <1>2, RequestsStayTyped, PTL DEF Spec

(* A sandbox made for a build is left to nobody only by the failure of the *)
(* call that was to create or to delete it, however many others fail,      *)
(* wherever requests are aborted and as often as Docker is tried again.    *)
THEOREM BuildsAreNotOrphaned == Spec => NoOrphanedBuilds
<1>1. RequestsTyped /\ BoxesFit /\ [Next]_vars => [KeepsBuilds]_vars
  BY BoxesNext
<1> QED
  BY <1>1, BoxesStay, RequestsStayTyped, PTL
     DEF Spec, NoOrphanedBuilds, KeepsBuilds

-----------------------------------------------------------------------------
(* Previews take turns: one that waits is in the line of its event, one    *)
(* that works is at its head.                                              *)
Works == Labels \ ({"idle", "chained"} \cup Ended)
TurnFits(p) ==
  LET line == chain[EventOf[p]] IN
  /\ req[p].at = "chained" => \E i \in 1..Len(line) : line[i] = p
  /\ req[p].at \in Works => line # <<>> /\ Head(line) = p
TurnsFit == /\ chain \in [Events -> Seq(Previews)]
            /\ \A p \in Previews : TurnFits(p)

(* What a step does to the turns: a preview gets in line, goes on when it  *)
(* is its turn, or ends and gives the turn away; a build does nothing.     *)
HasTurn(p) == req[p].at \in Works \/ MayStart(p)
Turns(r) ==
  /\ Others(r)
  /\ \/ r \in Builds /\ UNCHANGED chain
     \/ /\ r \in Previews /\ req[r].at = "idle" /\ req'[r].at = "chained"
        /\ chain' = [chain EXCEPT ![EventOf[r]] = Append(@, r)]
     \/ r \in Previews /\ HasTurn(r) /\ req'[r].at \in Works /\ UNCHANGED chain
     \/ /\ r \in Previews /\ HasTurn(r) /\ req'[r].at \in Ended
        /\ chain' = [chain EXCEPT ![EventOf[r]] = Tail(@)]

(* Labels of previews that wait, work and have ended are different.        *)
LEMMA TurnLabels ==
  /\ "chained" \notin Works /\ "idle" \notin Works /\ Works \cap Ended = {}
  /\ "chained" \notin Ended /\ "idle" \notin Ended
BY DEF Works, Ended

(* Whoever has the turn is the head of the line.                           *)
LEMMA HeadHasTurn ==
  ASSUME TurnsFit, NEW p \in Previews, HasTurn(p)
  PROVE  /\ EventOf[p] \in Events /\ chain[EventOf[p]] \in Seq(Previews)
         /\ chain[EventOf[p]] # <<>> /\ Head(chain[EventOf[p]]) = p
<1>1. EventOf[p] \in Events /\ p \notin Builds
  BY ProviderAssumption
<1>2. TurnFits(p) /\ chain[EventOf[p]] \in Seq(Previews)
  BY <1>1 DEF TurnsFit
<1>3. CASE req[p].at \in Works
  BY <1>1, <1>2, <1>3 DEF TurnFits
<1>4. CASE req[p].at = "chained" /\ Head(chain[EventOf[p]]) = p
  BY <1>1, <1>2, <1>4 DEF TurnFits
<1> QED
  BY <1>1, <1>3, <1>4 DEF HasTurn, MayStart, At

(* Two previews of one event do not both have it.                          *)
LEMMA OneTurn ==
  ASSUME TurnsFit, NEW p \in Previews, NEW q \in Previews,
         HasTurn(p), HasTurn(q), EventOf[p] = EventOf[q]
  PROVE  p = q
BY HeadHasTurn

(* A step that keeps to the turns leaves every line exact: what works is   *)
(* the head of it.                                                         *)
LEMMA TurnsKeptFit ==
  ASSUME TurnsFit, NEW r \in Requests, Turns(r)
  PROVE  TurnsFit'
<1>1. ASSUME NEW q \in Requests, q # r PROVE req'[q] = req[q]
  BY <1>1 DEF Turns, Others
<1>2. Previews \subseteq Requests /\ EventOf \in [Previews -> Events]
  BY ProviderAssumption DEF Requests
<1>3. chain \in [Events -> Seq(Previews)]
  BY DEF TurnsFit
<1>4. CASE r \in Builds /\ UNCHANGED chain
  <2>1. r \notin Previews
    BY <1>4, ProviderAssumption
  <2> QED
    BY <1>1, <1>2, <1>4, <2>1 DEF TurnsFit, TurnFits
<1>5. CASE /\ r \in Previews /\ req[r].at = "idle" /\ req'[r].at = "chained"
           /\ chain' = [chain EXCEPT ![EventOf[r]] = Append(@, r)]
  <2> DEFINE e == EventOf[r]  line == chain[e]
  <2>1. e \in Events /\ line \in Seq(Previews)
    BY <1>2, <1>3, <1>5
  <2>2. /\ chain' \in [Events -> Seq(Previews)] /\ chain'[e] = Append(line, r)
        /\ \A f \in Events : f # e => chain'[f] = chain[f]
    BY <1>3, <1>5, <2>1
  <2>3. /\ Len(Append(line, r)) = Len(line) + 1 /\ Len(line) \in Nat
        /\ \A i \in 1..Len(line) : Append(line, r)[i] = line[i]
        /\ Append(line, r)[Len(line) + 1] = r
        /\ line # <<>> => /\ Head(Append(line, r)) = Head(line)
                          /\ Append(line, r) # <<>>
    BY <1>5, <2>1
  <2>4. ASSUME NEW p \in Previews PROVE TurnFits(p)'
    <3>1. TurnFits(p)
      BY DEF TurnsFit
    <3>2. CASE p = r
      <4>1. chain'[EventOf[p]][Len(line) + 1] = p
            /\ Len(line) + 1 \in 1..Len(chain'[EventOf[p]])
        BY <2>2, <2>3, <3>2
      <4> QED
        BY <1>5, <3>2, <4>1, TurnLabels DEF TurnFits
    <3>3. CASE p # r /\ EventOf[p] = e
      <4>1. req'[p] = req[p] /\ chain'[EventOf[p]] = Append(line, r)
        BY <1>1, <1>2, <2>2, <3>3
      <4>2. req[p].at = "chained" => \E i \in 1..Len(line) : line[i] = p
        BY <3>1, <3>3 DEF TurnFits
      <4>3. req[p].at = "chained"
            => \E i \in 1..Len(Append(line, r)) : Append(line, r)[i] = p
        BY <2>3, <4>2
      <4>4. req[p].at \in Works => line # <<>> /\ Head(line) = p
        BY <3>1, <3>3 DEF TurnFits
      <4> HIDE DEF line
      <4> QED
        BY <2>3, <4>1, <4>3, <4>4 DEF TurnFits
    <3>4. CASE p # r /\ EventOf[p] # e
      <4>1. req'[p] = req[p] /\ chain'[EventOf[p]] = chain[EventOf[p]]
        BY <1>1, <1>2, <2>2, <3>4
      <4> QED
        BY <3>1, <4>1 DEF TurnFits
    <3> QED
      BY <3>2, <3>3, <3>4
  <2> QED
    BY <2>2, <2>4 DEF TurnsFit
<1>6. CASE r \in Previews /\ HasTurn(r) /\ req'[r].at \in Works /\ UNCHANGED chain
  <2>1. TurnFits(r)'
    BY <1>6, HeadHasTurn, TurnLabels DEF TurnFits
  <2>2. ASSUME NEW p \in Previews, p # r PROVE TurnFits(p)'
    BY <1>1, <1>2, <1>6, <2>2 DEF TurnFits, TurnsFit
  <2> QED
    BY <1>3, <1>6, <2>1, <2>2 DEF TurnsFit
<1>7. CASE /\ r \in Previews /\ HasTurn(r) /\ req'[r].at \in Ended
           /\ chain' = [chain EXCEPT ![EventOf[r]] = Tail(@)]
  <2> DEFINE e == EventOf[r]  line == chain[e]
  <2>1. /\ e \in Events /\ line \in Seq(Previews) /\ line # <<>>
        /\ Head(line) = r
    BY <1>7, HeadHasTurn
  <2>2. /\ chain'[e] = Tail(line) /\ Tail(line) \in Seq(Previews)
        /\ \A f \in Events : f # e => chain'[f] = chain[f]
    BY <1>3, <1>7, <2>1
  <2>3. chain' \in [Events -> Seq(Previews)]
    BY <1>3, <1>7, <2>1, <2>2
  <2>4. /\ Len(Tail(line)) = Len(line) - 1 /\ Len(line) \in Nat
        /\ \A i \in 1..Len(Tail(line)) : Tail(line)[i] = line[i + 1]
        /\ line[1] = r
    BY <2>1
  <2>5. ASSUME NEW p \in Previews PROVE TurnFits(p)'
    <3>1. TurnFits(p)
      BY DEF TurnsFit
    <3>2. CASE p = r
      BY <1>7, <3>2, TurnLabels DEF TurnFits
    <3>3. CASE p # r /\ EventOf[p] = e
      <4>1. req'[p] = req[p] /\ chain'[EventOf[p]] = Tail(line)
        BY <1>1, <1>2, <2>2, <3>3
      <4>2. req[p].at \notin Works
        BY <1>7, <3>3, OneTurn DEF HasTurn
      <4>3. ASSUME req[p].at = "chained"
            PROVE  \E i \in 1..Len(Tail(line)) : Tail(line)[i] = p
        <5>1. PICK i \in 1..Len(line) : line[i] = p
          BY <3>1, <3>3, <4>3 DEF TurnFits
        <5>2. i - 1 \in 1..Len(Tail(line))
          BY <2>4, <3>3, <5>1
        <5>3. Tail(line)[i - 1] = p
          BY <2>4, <5>1, <5>2
        <5> QED
          BY <5>2, <5>3
      <4> HIDE DEF line
      <4> QED
        BY <4>1, <4>2, <4>3 DEF TurnFits
    <3>4. CASE p # r /\ EventOf[p] # e
      <4>1. req'[p] = req[p] /\ chain'[EventOf[p]] = chain[EventOf[p]]
        BY <1>1, <1>2, <2>2, <3>4
      <4> QED
        BY <3>1, <4>1 DEF TurnFits
    <3> QED
      BY <3>2, <3>3, <3>4
  <2> QED
    BY <2>3, <2>5 DEF TurnsFit
<1> QED
  BY <1>4, <1>5, <1>6, <1>7 DEF Turns

(* A preview that goes on, or ends, does so when it has the turn.          *)
LEMMA GoesOnTurns ==
  ASSUME RequestsTyped, NEW p \in Previews, HasTurn(p), UNCHANGED chain,
         NEW l \in Works,
         \/ GoesTo(p, l)
         \/ \E x \in Boxes, mine \in BOOLEAN : Takes(p, x, mine, l)
  PROVE  Turns(p)
<1>1. p \in Requests /\ l \in Labels
  BY DEF Requests, Works
<1>2. Others(p) /\ req'[p].at = l
  BY <1>1, GoesToStands, TakesGiven DEF Stands, Given
<1> QED
  BY <1>2 DEF Turns

(* The head that ends, well or not, leaves the line to the next.           *)
LEMMA EndsTurns ==
  ASSUME RequestsTyped, NEW p \in Previews, HasTurn(p),
         NEW l \in Ended, GoesTo(p, l), Settles(p)
  PROVE  Turns(p)
<1>1. p \in Requests /\ l \in Labels
  BY DEF Requests, Ended, Labels
<1>2. Others(p) /\ req'[p].at = l
  BY <1>1, GoesToStands DEF Stands
<1> QED
  BY <1>2 DEF Turns, Settles

(* Every step of a request keeps to the turns.                             *)
LEMMA RequestTurns ==
  ASSUME RequestsTyped, BoxesFit, NEW r \in Requests, Begin(r) \/ Step(r)
  PROVE  Turns(r)
<1>1. Others(r)
  BY RequestFits DEF Fitting
<1>2. CASE r \in Builds
  <2>1. r \notin Previews
    BY <1>2, ProviderAssumption
  <2>2. UNCHANGED chain
    BY <1>2, <2>1 DEF Begin, Step, Start, Proceed, Cleanup, BuildStep, Observe,
       Create, Claim, Initialize, Undo, Throws, ThrowsWithPermit, Settles
  <2> QED
    BY <1>1, <1>2, <2>2 DEF Turns
<1>3. CASE r \in Previews
  <2>1. r \notin Builds
    BY <1>3, ProviderAssumption
  <2>2. /\ {"queued", "find", "create", "init", "probe", "cleanup"} \subseteq Works
        /\ {"done", "failed"} \subseteq Ended /\ "chained" \in Labels
    BY DEF Works, Labels, Ended
  <2>3. CASE Begin(r)
    <3>1. req[r].at = "idle" /\ GoesTo(r, "chained")
          /\ chain' = [chain EXCEPT ![EventOf[r]] = Append(@, r)]
      BY <2>1, <2>3 DEF Begin, At
    <3>2. req'[r].at = "chained"
      BY <2>2, <3>1, GoesToStands DEF Stands
    <3> QED
      BY <1>1, <1>3, <3>1, <3>2 DEF Turns
  <2>4. ASSUME HasTurn(r), GoesTo(r, "failed"), Settles(r) PROVE Turns(r)
    BY <1>3, <2>2, <2>4, EndsTurns
  <2>5. ASSUME HasTurn(r), UNCHANGED chain, NEW l \in Works, GoesTo(r, l)
        PROVE  Turns(r)
    BY <1>3, <2>5, GoesOnTurns
  <2>6. CASE Start(r)
    BY <2>2, <2>4, <2>5, <2>6 DEF Start, HasTurn, Throws
  <2>7. CASE Proceed(r)
    <3>1. HasTurn(r)
      BY <2>2, <2>7 DEF Proceed, At, HasTurn
    <3> QED
      BY <2>1, <2>2, <2>4, <2>5, <2>7, <3>1 DEF Proceed, Throws
  <2>8. CASE Cleanup(r)
    <3>1. HasTurn(r)
      BY <2>2, <2>8 DEF Cleanup, At, HasTurn
    <3> QED
      BY <2>4, <2>8, <3>1 DEF Cleanup, ThrowsWithPermit
  <2>9. CASE Find(r)
    <3>1. HasTurn(r)
      BY <2>2, <2>9 DEF Find, At, HasTurn
    <3>2. ASSUME NEW x \in Up(EventOf[r]), Takes(r, x, FALSE, "init"),
                 UNCHANGED chain
          PROVE  Turns(r)
      BY <1>3, <2>2, <3>1, <3>2, GoesOnTurns DEF Up, Boxes
    <3> QED
      BY <2>2, <2>4, <2>5, <2>9, <3>1, <3>2 DEF Find, ThrowsWithPermit
  <2>10. CASE CreatePreview(r)
    <3>1. HasTurn(r)
      BY <2>2, <2>10 DEF CreatePreview, At, HasTurn
    <3>2. PICK g \in 1..Generations :
            LET x == <<EventOf[r], g>> IN
            \/ Takes(r, x, TRUE, "init") /\ UNCHANGED chain
            \/ Takes(r, x, FALSE, "init") /\ UNCHANGED chain
            \/ ThrowsWithPermit(r)
      BY <2>10 DEF CreatePreview
    <3> DEFINE x == <<EventOf[r], g>>
    <3>3. x \in Boxes
      BY <1>3, ProviderAssumption DEF Boxes, Frozen
    <3>4. CASE \E mine \in BOOLEAN : Takes(r, x, mine, "init") /\ UNCHANGED chain
      <4> HIDE DEF x
      <4> QED
        BY <1>3, <2>2, <3>1, <3>3, <3>4, GoesOnTurns
    <3>5. CASE ThrowsWithPermit(r)
      BY <2>4, <3>1, <3>5 DEF ThrowsWithPermit
    <3> QED
      BY <3>2, <3>4, <3>5
  <2>11. CASE Materialize(r) \/ Probe(r)
    <3>1. HasTurn(r)
      BY <2>2, <2>11 DEF Materialize, Probe, At, HasTurn
    <3>2. CASE Abandons(r)
      BY <2>2, <2>4, <2>5, <3>1, <3>2 DEF Abandons, ThrowsWithPermit
    <3>3. CASE GoesTo(r, "probe") /\ UNCHANGED chain
      BY <2>2, <2>5, <3>1, <3>3
    <3>4. CASE GoesTo(r, "done") /\ Settles(r)
      BY <1>3, <2>2, <3>1, <3>4, EndsTurns
    <3> QED
      BY <2>11, <3>2, <3>3, <3>4 DEF Materialize, Probe
  <2> QED
    BY <1>3, <2>1, <2>3, <2>6, <2>7, <2>8, <2>9, <2>10, <2>11
       DEF Step, PreviewStep
<1> QED
  BY <1>2, <1>3 DEF Requests

(* Nobody was given the preview that a request made and still works on;    *)
(* one that was given has been made, and has its timer.                    *)
MineFits(p) ==
  /\ req[p].at = "cleanup" => req[p].mine
  /\ req[p].mine /\ req[p].at \in {"init", "probe", "cleanup"}
       => req[p].box \notin handed
HandedFits == \A x \in handed \cap Frozen :
                boxes[x] # "absent" /\ (alive => x \in timers)

(* What a step of a request does to what was handed out: it hands out its  *)
(* own sandbox, if any.                                                    *)
Deals(r) ==
  /\ HandedFits'
  /\ handed' \subseteq handed \cup {req[r].box}
  /\ r \in Previews => MineFits(r)' /\ (req[r].at \in Works \/ UNCHANGED handed)

(* Two requests for previews that have a sandbox in common are about one   *)
(* event.                                                                  *)
LEMMA OneEvent ==
  ASSUME BoxesFit, NEW p \in Previews, NEW q \in Previews,
         req[p].at \in Full, req[q].box = req[p].box
  PROVE  /\ EventOf[p] = EventOf[q] /\ req[q].at \notin Empty
         /\ req[p].box \in Frozen
<1>1. /\ p \in Requests /\ q \in Requests /\ p \notin Builds /\ q \notin Builds
      /\ {EventOf[p], EventOf[q]} \subseteq Events
  BY ProviderAssumption DEF Requests
<1>2. BoxFits(p) /\ BoxFits(q)
  BY <1>1 DEF BoxesFit
<1>3. req[p].box \in {EventOf[p]} \X (1..Generations)
      /\ req[q].box \in {EventOf[q]} \X (1..Generations)
      /\ req[q].at \notin Empty
  BY <1>1, <1>2, KindsApart DEF BoxFits, BoxesOf
<1> QED
  BY <1>1, <1>3 DEF Frozen

(* A step that deals properly with previews: a fresh sandbox is nobody     *)
(* else's, and what was handed out has its timer.                          *)
LEMMA DealsFit ==
  ASSUME BoxesFit, TurnsFit, \A p \in Previews : MineFits(p),
         NEW r \in Requests, Others(r), Deals(r)
  PROVE  HandedFits' /\ \A p \in Previews : MineFits(p)'
<1> SUFFICES ASSUME NEW p \in Previews PROVE MineFits(p)'
  BY DEF Deals
<1>1. CASE p = r
  BY <1>1 DEF Deals
<1>2. CASE p # r
  <2>1. p \in Requests /\ req'[p] = req[p] /\ MineFits(p)
    BY <1>2 DEF Requests, Others
  <2>2. ASSUME req[p].mine, req[p].at \in {"init", "probe", "cleanup"},
               req[p].box \in handed'
        PROVE  FALSE
    <3>1. req[p].box \notin handed /\ req[r].box = req[p].box
          /\ handed' # handed
      BY <2>1, <2>2 DEF MineFits, Deals
    <3>2. req[p].at \in Full /\ req[p].at \in Works
      BY <2>2 DEF Full, Works, Labels, Ended
    <3>3. CASE r \in Previews
      <4>1. EventOf[p] = EventOf[r] /\ req[r].at \in Works
        BY <3>1, <3>2, <3>3, OneEvent DEF Deals
      <4> QED
        BY <1>2, <3>2, <3>3, <4>1, OneTurn DEF HasTurn
    <3>4. CASE r \in Builds
      <4>1. req[p].box \in Frozen
        BY <3>2, OneEvent
      <4>2. BoxFits(r) /\ None \notin Frozen /\ BoxesOf(r) \cap Frozen = {}
        BY <3>4, KindsApart DEF BoxesFit, Boxes
      <4> QED
        BY <3>1, <4>1, <4>2 DEF BoxFits
    <3> QED
      BY <3>3, <3>4 DEF Requests
  <2> QED
    BY <2>1, <2>2 DEF MineFits
<1> QED
  BY <1>1, <1>2

(* A step that leaves the customers' sandboxes alone deals fairly.         *)
LEMMA BuildDeals ==
  ASSUME RequestsTyped, BoxesFit, HandedFits, NEW b \in Builds,
         Begin(b) \/ Step(b)
  PROVE  Deals(b)
<1>1. /\ b \in Requests /\ b \notin Previews /\ BoxFits(b)
      /\ BoxesOf(b) \cap Frozen = {} /\ None \notin Frozen
  BY ProviderAssumption, KindsApart DEF Requests, BoxesFit, Boxes
<1>2. req[b].box \notin Frozen
  BY <1>1 DEF BoxFits
<1>3. Ticket(b) \notin Frozen
  <2>1. Ticket(b) \in {b} \X (1..Attempts)
    BY <1>1 DEF RequestsTyped, Ticket
  <2> QED
    BY <1>1, <2>1 DEF BoxesOf
<1>4. UNCHANGED <<timers, alive>>
  BY <1>1 DEF Begin, Step, Start, Proceed, Cleanup, BuildStep, Observe, Create,
     Claim, Initialize, Undo, unwatched, previewVars
<1>5. handed' = handed \/ handed' = handed \cup {req[b].box}
  BY <1>1 DEF Begin, Step, Start, Proceed, Cleanup, BuildStep, Observe, Create,
     Claim, Initialize, Undo, unwatched, previewVars
<1>6. \/ UNCHANGED boxes
      \/ \E x \in {Ticket(b), req[b].box} :
           \E s : boxes' = [boxes EXCEPT ![x] = s]
  BY <1>1 DEF Begin, Step, Start, Proceed, Cleanup, BuildStep, Observe, Create,
     Claim, Initialize, Undo, Becomes
<1>7. \A x \in Frozen : boxes'[x] = boxes[x]
  BY <1>2, <1>3, <1>6 DEF BoxesFit, Boxes
<1> QED
  BY <1>1, <1>2, <1>4, <1>5, <1>7 DEF Deals, HandedFits

(* A preview that goes on without making, finding or handing out anything. *)
LEMMA GoesDeals ==
  ASSUME RequestsTyped, HandedFits, NEW p \in Previews, MineFits(p),
         NEW l \in Labels, GoesTo(p, l), UNCHANGED <<handed, timers, alive>>,
         \A x \in Frozen : boxes'[x] = "absent" => boxes[x] = "absent",
         l = "cleanup" => req[p].mine,
         l \in {"init", "probe", "cleanup"}
           => req[p].at \in {"init", "probe", "cleanup"}
  PROVE  Deals(p)
<1>1. p \in Requests
  BY DEF Requests
<1>2. Stands(p, l)
  BY <1>1, GoesToStands
<1>3. MineFits(p)'
  BY <1>2 DEF Stands, MineFits
<1> QED
  BY <1>3 DEF Deals, HandedFits

(* The steps of previews do so: they have the turn of their event, so that *)
(* nobody else has its sandbox.                                            *)
LEMMA PreviewDeals ==
  ASSUME RequestsTyped, BoxesFit, HandedFits, NEW p \in Previews, MineFits(p),
         Begin(p) \/ Step(p)
  PROVE  Deals(p)
<1>1. /\ p \in Requests /\ p \notin Builds /\ BoxFits(p)
      /\ EventOf[p] \in Events
  BY ProviderAssumption, KindsApart DEF Requests, BoxesFit, Boxes
<1>2. boxes \in [Boxes -> {"absent", "up", "gone"}] /\ Frozen \subseteq Boxes
  BY DEF BoxesFit, Boxes
<1>3. {"chained", "queued", "find", "create", "init", "probe", "cleanup",
       "failed", "done"} \subseteq Labels /\ "init" \in Full
  BY DEF Labels, Full
<1>4. CASE Begin(p) \/ Start(p) \/ Proceed(p)
  <2>1. /\ UNCHANGED <<boxes, handed, timers, alive>>
        /\ \E l \in {"chained", "queued", "find", "failed"} : GoesTo(p, l)
    BY <1>1, <1>4 DEF Begin, Start, Proceed, Throws, unwatched, previewVars
  <2> QED
    BY <1>3, <2>1, GoesDeals
<1>5. CASE Cleanup(p)
  <2>1. /\ UNCHANGED <<handed, timers, alive>> /\ GoesTo(p, "failed")
        /\ UNCHANGED boxes \/ Becomes(req[p].box, "gone")
    BY <1>5 DEF Cleanup, ThrowsWithPermit, unwatched, previewVars
  <2>2. \A x \in Frozen : boxes'[x] = "absent" => boxes[x] = "absent"
    BY <1>2, <2>1 DEF Becomes
  <2> QED
    BY <1>3, <2>1, <2>2, GoesDeals
<1>6. CASE Find(p)
  <2>1. UNCHANGED <<boxes, handed, timers, alive>>
    BY <1>6 DEF Find, unwatched, previewVars
  <2>2. ASSUME NEW x \in Boxes, Takes(p, x, FALSE, "init") PROVE Deals(p)
    <3>1. Given(p, x, FALSE, "init")
      BY <1>1, <1>3, <2>2, TakesGiven
    <3> QED
      BY <2>1, <3>1 DEF Given, MineFits, Deals, HandedFits
  <2>3. CASE GoesTo(p, "create") \/ GoesTo(p, "failed")
    BY <1>3, <2>1, <2>3, GoesDeals
  <2> QED
    BY <1>2, <1>6, <2>2, <2>3 DEF Find, Up, ThrowsWithPermit
<1>7. CASE CreatePreview(p)
  <2>1. PICK g \in 1..Generations :
          LET x == <<EventOf[p], g>> IN
          /\ boxes[x] = "absent"
          /\ \/ Becomes(x, "up") /\ Takes(p, x, TRUE, "init")
             \/ Becomes(x, "up") /\ Takes(p, x, FALSE, "init")
             \/ /\ ThrowsWithPermit(p)
                /\ \E s \in {"absent", "up"} : Becomes(x, s)
    BY <1>7 DEF CreatePreview
  <2> DEFINE x == <<EventOf[p], g>>
  <2>2. UNCHANGED <<handed, timers, alive>>
    BY <1>7 DEF CreatePreview, unwatched, previewVars
  <2>3. x \in Frozen /\ boxes[x] = "absent" /\ x \notin handed
    BY <1>1, <2>1 DEF Frozen, HandedFits
  <2>4. \A y \in Frozen : boxes'[y] = "absent" => boxes[y] = "absent"
    <3> HIDE DEF x
    <3>1. \E s : Becomes(x, s)
      BY <2>1 DEF x
    <3> QED
      BY <1>2, <2>3, <3>1 DEF Becomes
  <2>5. ASSUME NEW mine \in BOOLEAN, Takes(p, x, mine, "init") PROVE Deals(p)
    <3> HIDE DEF x
    <3>1. Given(p, x, mine, "init")
      BY <1>1, <1>2, <1>3, <2>3, <2>5, TakesGiven
    <3> QED
      BY <2>2, <2>3, <2>4, <3>1 DEF Given, MineFits, Deals, HandedFits
  <2>6. CASE GoesTo(p, "failed")
    BY <1>3, <2>2, <2>4, <2>6, GoesDeals
  <2> QED
    BY <2>1, <2>5, <2>6 DEF ThrowsWithPermit
<1>8. CASE (Materialize(p) \/ Probe(p)) /\ Abandons(p) /\ UNCHANGED handed
  <2>1. UNCHANGED <<boxes, alive>> /\ req[p].at \in {"init", "probe"}
    BY <1>8 DEF Materialize, Probe, At
  <2>2. CASE req[p].mine
    <3>1. GoesTo(p, "cleanup") /\ timers' = timers \ {req[p].box}
      BY <1>8, <2>2 DEF Abandons
    <3>2. Stands(p, "cleanup")
      BY <1>1, <1>3, <3>1, GoesToStands
    <3>3. req[p].box \notin handed
      BY <2>1, <2>2 DEF MineFits
    <3> QED
      BY <1>8, <2>1, <2>2, <3>1, <3>2, <3>3 DEF Stands, Deals, MineFits, HandedFits
  <2>3. CASE ~req[p].mine
    <3>1. GoesTo(p, "failed") /\ UNCHANGED timers
      BY <1>8, <2>3 DEF Abandons, ThrowsWithPermit
    <3> QED
      BY <1>3, <1>8, <2>1, <3>1, GoesDeals
  <2> QED
    BY <2>2, <2>3
<1>9. CASE Materialize(p) /\ GoesTo(p, "probe")
  <2>1. UNCHANGED <<boxes, handed, alive>> /\ req[p].at = "init"
    BY <1>9 DEF Materialize, At
  <2>2. UNCHANGED timers \/ Abandons(p)
    BY <1>9 DEF Materialize
  <2> QED
    BY <1>3, <1>8, <1>9, <2>1, <2>2, GoesDeals
<1>10. CASE Probe(p) /\ GoesTo(p, "done") /\ boxes[req[p].box] = "up"
            /\ timers' = timers \cup {req[p].box}
            /\ handed' = handed \cup {req[p].box}
  <2>1. UNCHANGED <<boxes, alive>> /\ req[p].at = "probe"
    BY <1>10 DEF Probe, At
  <2>2. "probe" \in Works
    BY DEF Works, Labels, Ended
  <2>3. Stands(p, "done")
    BY <1>1, <1>3, <1>10, GoesToStands
  <2> QED
    BY <1>10, <2>1, <2>2, <2>3 DEF Stands, Deals, MineFits, HandedFits
<1> QED
  BY <1>1, <1>4, <1>5, <1>6, <1>7, <1>8, <1>9, <1>10
     DEF Step, PreviewStep, Materialize, Probe

(* The three hold each other up: that nobody else was given what a request *)
(* deletes comes from the turns, that what was given keeps its timer from  *)
(* that.                                                                   *)
PreviewsFit == TurnsFit /\ HandedFits /\ \A p \in Previews : MineFits(p)

(* Turns, fresh sandboxes and timers hold throughout.                      *)
LEMMA PreviewsStay == Spec => []PreviewsFit
<1>1. Init => PreviewsFit
  <2> SUFFICES ASSUME Init PROVE PreviewsFit
    OBVIOUS
  <2>1. ASSUME NEW p \in Previews PROVE req[p].at = "idle"
    BY DEF Init, Requests
  <2>2. chain \in [Events -> Seq(Previews)] /\ handed = {}
    BY DEF Init
  <2> QED
    BY <2>1, <2>2, TurnLabels
       DEF PreviewsFit, TurnsFit, TurnFits, HandedFits, MineFits
<1>2. RequestsTyped /\ BoxesFit /\ PreviewsFit /\ [Next]_vars => PreviewsFit'
  <2> SUFFICES ASSUME RequestsTyped, BoxesFit, PreviewsFit, [Next]_vars
               PROVE  PreviewsFit'
    OBVIOUS
  <2>1. ASSUME NEW r \in Requests, Begin(r) \/ Step(r) PROVE PreviewsFit'
    <3>1. Turns(r)
      BY <2>1, RequestTurns
    <3>2. Deals(r)
      BY <2>1, BuildDeals, PreviewDeals DEF PreviewsFit, Requests
    <3> QED
      BY <3>1, <3>2, TurnsKeptFit, DealsFit DEF PreviewsFit, Turns
  <2>2. ASSUME UNCHANGED <<req, chain>>, handed' \subseteq handed,
               \A x \in Frozen : boxes'[x] = "absent" => boxes[x] = "absent",
               alive' => alive, timers \cap handed' \subseteq timers'
        PROVE  PreviewsFit'
    BY <2>2 DEF PreviewsFit, TurnsFit, TurnFits, HandedFits, MineFits
  <2>3. ASSUME NEW x \in Boxes, Becomes(x, "gone")
        PROVE  \A y \in Frozen : boxes'[y] = "absent" => boxes[y] = "absent"
    BY <2>3 DEF BoxesFit, Becomes, Boxes
  <2>4. ASSUME NEW r \in Requests, Abort(r) PROVE PreviewsFit'
    BY <2>2, <2>4 DEF Abort, unwatched, previewVars
  <2>5. ASSUME NEW x \in Frozen, UrlExpires(x) PROVE PreviewsFit'
    BY <2>2, <2>5 DEF UrlExpires
  <2>6. ASSUME NEW x \in Frozen, TimerFires(x) PROVE PreviewsFit'
    BY <2>2, <2>6 DEF TimerFires
  <2>7. ASSUME NEW x \in Frozen, CleanPreview(x) PROVE PreviewsFit'
    <3>1. /\ UNCHANGED <<req, chain, handed, timers>>
          /\ UNCHANGED boxes \/ Becomes(x, "gone")
          /\ alive
      BY <2>7 DEF CleanPreview
    <3> QED
      BY <2>2, <2>3, <3>1 DEF Boxes
  <2>8. ASSUME NEW x \in Boxes, TimeToLive(x) PROVE PreviewsFit'
    <3>1. UNCHANGED <<req, chain, handed, timers, alive>> /\ Becomes(x, "gone")
      BY <2>8 DEF TimeToLive, unwatched, previewVars
    <3> QED
      BY <2>2, <2>3, <3>1
  <2>9. CASE UNCHANGED vars
    BY <2>2, <2>9 DEF vars
  <2> QED
    BY <2>1, <2>4, <2>5, <2>6, <2>7, <2>8, <2>9 DEF Next
<1>3. Spec => []BoxesFit
  BY BoxesStay, PTL
<1> QED
  BY <1>1, <1>2, <1>3, RequestsStayTyped, PTL DEF Spec

(* Whoever deletes the preview it made is the only one who works on it,    *)
(* and nobody was given it.                                                *)
THEOREM CleanupStaysExclusive == Spec => []CleanupIsExclusive
<1>1. RequestsTyped /\ BoxesFit /\ PreviewsFit => CleanupIsExclusive
  <2> SUFFICES ASSUME RequestsTyped, BoxesFit, PreviewsFit,
                      NEW p \in Previews, NEW q \in Previews,
                      req[p].at = "cleanup", q # p, req[q].box = req[p].box
               PROVE  req[q].at \in Ended /\ req[p].box \notin handed
    BY DEF CleanupIsExclusive
  <2>1. req[p].at \in Full /\ req[p].at \in Works
    BY DEF Full, Works, Labels, Ended
  <2>2. EventOf[p] = EventOf[q] /\ req[q].at \notin Empty
    BY <2>1, OneEvent
  <2>3. req[q].at \in Works \cup Ended
    BY <2>2 DEF RequestsTyped, Requests, Works, Empty
  <2>4. req[q].at \notin Works
    BY <2>1, <2>2, OneTurn DEF PreviewsFit, HasTurn
  <2> QED
    BY <2>3, <2>4 DEF PreviewsFit, MineFits
<1>2. Spec => []BoxesFit
  BY BoxesStay, PTL
<1> QED
  BY <1>1, <1>2, PreviewsStay, RequestsStayTyped, PTL

(* As long as the process runs, a preview that is handed out has the timer *)
(* that will delete it, whoever made the sandbox and whoever has failed    *)
(* with it since.                                                          *)
THEOREM PreviewsStayTimed == Spec => []PreviewsAreTimed
<1>1. PreviewsFit => PreviewsAreTimed
  BY DEF PreviewsFit, HandedFits, PreviewsAreTimed
<1> QED
  BY <1>1, PreviewsStay, PTL

-----------------------------------------------------------------------------
(* The timers are those of previews, and what is handed out are sandboxes. *)
TimersTyped == /\ timers \subseteq Frozen /\ cleaning \subseteq Frozen
               /\ handed \subseteq Boxes
               /\ alive \in BOOLEAN /\ faults \in 0..MaxFaults

(* A call can fail only while the bound on failures is not reached.        *)
LEMMA FaultsTyped ==
  ASSUME faults \in 0..MaxFaults, Fault \/ UNCHANGED faults
  PROVE  faults' \in 0..MaxFaults
BY ProviderAssumption DEF Fault

(* A request hands out, and times, nothing but the sandbox it has.         *)
LEMMA RequestTimes ==
  ASSUME BoxesFit, TimersTyped, NEW r \in Requests, Begin(r) \/ Step(r)
  PROVE  TimersTyped'
<1>1. BoxFits(r) /\ (r \notin Builds => BoxesOf(r) \subseteq Frozen)
      /\ BoxesOf(r) \subseteq Boxes /\ (r \in Builds => r \notin Previews)
  BY KindsApart DEF BoxesFit
<1>2. faults' \in 0..MaxFaults
  <2>1. Fault \/ UNCHANGED faults
    BY DEF Begin, Step, Start, Proceed, Cleanup, BuildStep, Observe, Create,
           Claim, Initialize, Undo, PreviewStep, Find, CreatePreview,
           Materialize, Probe, Fails
  <2> QED
    BY <2>1, FaultsTyped DEF TimersTyped
<1>3. UNCHANGED <<cleaning, alive>>
  BY DEF Begin, Step, Start, Proceed, Cleanup, BuildStep, Observe, Create,
         Claim, Initialize, Undo, PreviewStep, Find, CreatePreview,
         Materialize, Probe, unwatched, previewVars
<1>4. CASE r \in Builds /\ Initialize(r)
  <2>1. req[r].box \in Boxes
    BY <1>1, <1>4 DEF Initialize, At, BoxFits, Full
  <2>2. UNCHANGED timers /\ handed' \subseteq handed \cup {req[r].box}
    BY <1>4 DEF Initialize
  <2> QED
    BY <1>2, <1>3, <2>1, <2>2 DEF TimersTyped
<1>5. CASE r \in Previews /\ (Materialize(r) \/ Probe(r))
  <2>1. req[r].box \in Frozen /\ req[r].box \in Boxes
    BY <1>1, <1>5 DEF Materialize, Probe, At, BoxFits, Full, Boxes
  <2>2. /\ timers' \subseteq timers \cup {req[r].box}
        /\ handed' \subseteq handed \cup {req[r].box}
    BY <1>5 DEF Materialize, Probe, Abandons
  <2> QED
    BY <1>2, <1>3, <2>1, <2>2 DEF TimersTyped
<1>6. CASE ~(r \in Builds /\ Initialize(r))
           /\ ~(r \in Previews /\ (Materialize(r) \/ Probe(r)))
  <2>1. UNCHANGED <<timers, handed>>
    BY <1>6 DEF Begin, Step, Start, Proceed, Cleanup, BuildStep, Observe,
           Create, Claim, Undo, PreviewStep, Find, CreatePreview, unwatched,
           previewVars
  <2> QED
    BY <1>2, <1>3, <2>1 DEF TimersTyped
<1> QED
  BY <1>4, <1>5, <1>6

(* Every step of the provider keeps timers, sandboxes and faults typed.    *)
LEMMA TimersStayTyped == Spec => []TimersTyped
<1>1. Init => TimersTyped
  BY ProviderAssumption DEF Init, TimersTyped
<1>2. BoxesFit /\ TimersTyped /\ [Next]_vars => TimersTyped'
  <2> SUFFICES ASSUME BoxesFit, TimersTyped, [Next]_vars PROVE TimersTyped'
    OBVIOUS
  <2>1. ASSUME NEW r \in Requests, Begin(r) \/ Step(r) PROVE TimersTyped'
    BY <2>1, RequestTimes
  <2>2. ASSUME NEW x \in Frozen, UrlExpires(x) \/ TimerFires(x)
        PROVE  TimersTyped'
    BY <2>2 DEF UrlExpires, TimerFires, TimersTyped
  <2>3. ASSUME NEW x \in Frozen, CleanPreview(x) PROVE TimersTyped'
    <3>1. Fault \/ UNCHANGED faults
      BY <2>3 DEF CleanPreview
    <3>2. /\ cleaning' \subseteq cleaning /\ alive' \in BOOLEAN
          /\ UNCHANGED <<timers, handed>>
      BY <2>3 DEF CleanPreview, TimersTyped
    <3> QED
      BY <3>1, <3>2, FaultsTyped DEF TimersTyped
  <2>4. CASE \/ \E r \in Requests : Abort(r)
             \/ \E x \in Boxes : TimeToLive(x)
             \/ UNCHANGED vars
    BY <2>4 DEF Abort, TimeToLive, vars, unwatched, previewVars, TimersTyped
  <2> QED
    BY <2>1, <2>2, <2>3, <2>4 DEF Next
<1> QED
  BY <1>1, <1>2, BoxesStay, PTL DEF Spec

(* Requests, sandboxes, timers and permits keep their types: in particular *)
(* Docker is tried again no more often than the code allows, and only the  *)
(* previews have timers.                                                   *)
THEOREM ProviderTypeCorrect == Spec => []TypeOK
<1>1. RequestsTyped /\ BoxesFit /\ TurnsFit /\ TimersTyped /\ QueueInv => TypeOK
  BY DEF RequestsTyped, BoxesFit, TurnsFit, TimersTyped, QueueInv, TypeOK
<1>2. Spec => []QueueInv
  BY QueueInvariance, ProviderUsesQueue, PTL DEF UsesQueue
<1>3. PreviewsFit => TurnsFit
  BY DEF PreviewsFit
<1> QED
  BY <1>1, <1>2, <1>3, RequestsStayTyped, BoxesStay, PreviewsStay,
     TimersStayTyped, PTL
=============================================================================
