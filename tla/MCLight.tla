------------------------------- MODULE MCLight -------------------------------
(* Constants for the model-checking run of Light: transitions of one and of    *)
(* two steps (up to 15 in light.c), so that one turns at once and one after an *)
(* inner step, and a blink that one of the same or of another length follows.  *)
EXTENDS Light

Some == {<<"BLINK", 1>>, <<"TRANSITION", 2>>}
=============================================================================
