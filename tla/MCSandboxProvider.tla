------------------------- MODULE MCSandboxProvider --------------------------
(* Small instances of SandboxProvider: builds that wait for one permit, and *)
(* previews of two events with two permits.                                *)
EXTENDS SandboxProvider, TLC

CONSTANTS b1, b2, b3, p1, p2, p3, e1, e2

OneEvent  == [p \in Previews |-> e1]
TwoEvents == [p \in Previews |-> IF p = p2 THEN e2 ELSE e1]
OneEach   == [r \in Roles |-> 1]
TwoEach   == [r \in Roles |-> 2]
=============================================================================
