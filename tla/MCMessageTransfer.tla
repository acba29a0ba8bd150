-------------------------- MODULE MCMessageTransfer --------------------------
(* MessageTransfer on small instances: fragments of 2 bytes.                 *)
EXTENDS MessageTransfer, TLC

CONSTANT m1

ShortMessage == (m1 :> 3)
OneMessage == (m1 :> 5)
ExactMessage == (m1 :> 4)
=============================================================================
