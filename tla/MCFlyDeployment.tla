-------------------------- MODULE MCFlyDeployment ---------------------------
(* Small instances of FlyDeployment.                                       *)
EXTENDS FlyDeployment
=============================================================================
