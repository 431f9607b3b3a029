--------------------------- MODULE MCInboundMail ---------------------------
(* Instances of InboundMail for TLC: one activation of the worker, one of  *)
(* a webhook, and two notifications that bring the same message.           *)
EXTENDS InboundMail

CONSTANTS worker, webhook, message

SameMessage == [m \in Mails |-> message]
=============================================================================
