------------------------- MODULE MCProjectCommerce -------------------------
(* Small instances of ProjectCommerce.                                     *)
EXTENDS ProjectCommerce

One   == 1..1
Two   == 1..2
Three == 1..3
=============================================================================
