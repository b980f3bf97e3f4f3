----------------------------- MODULE MCResponder -----------------------------
(* Constants for the model-checking run of Responder.  A record is announced  *)
(* three times instead of ten, and lives six seconds.                         *)
EXTENDS Responder

TwoHosts == {1, 2}
=============================================================================
