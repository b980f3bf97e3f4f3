----------------------------- MODULE MCPwmService -----------------------------
(* Constants for the model-checking runs of PwmService: a queue of three      *)
(* slots, so that it can be full while the handler runs.                      *)
EXTENDS PwmService

CONSTANTS low, high

\* A sweep that fits in an empty queue, and one that laps it.
Lengths == {2, 4}
=============================================================================
