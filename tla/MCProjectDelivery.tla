------------------------- MODULE MCProjectDelivery -------------------------
(* Small instances of ProjectDelivery.                                     *)
EXTENDS ProjectDelivery

One == 1..1
Two == 1..2
=============================================================================
