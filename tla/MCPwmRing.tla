------------------------------ MODULE MCPwmRing ------------------------------
(* Constants for the model-checking runs of PwmRing: a ring of four slots,   *)
(* enough for both indices to wrap at different times, and two beeps, enough *)
(* to tell a stale slot from a fresh one.                                    *)
EXTENDS PwmRing

CONSTANTS low, high

\* Sweeps that fit in an empty ring, that just do not, and that lap it.
Lengths == {2, 4, 5}
=============================================================================
