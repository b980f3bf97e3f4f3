------------------------------ MODULE MCSensors ------------------------------
(* Constants for the model-checking run of Sensors: three addresses,           *)
(* calibrations of one to three samples, one after the other.                  *)
EXTENDS Sensors

CONSTANTS l1, l2, l3

MCListener == {l1, l2, l3}
=============================================================================
