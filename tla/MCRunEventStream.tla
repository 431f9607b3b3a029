-------------------------- MODULE MCRunEventStream --------------------------
(* Small instances of RunEventStream.                                      *)
EXTENDS RunEventStream

Five == 1..5
=============================================================================
