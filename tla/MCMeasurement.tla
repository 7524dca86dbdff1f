--------------------------- MODULE MCMeasurement ---------------------------
(* Two tasks, three events in the pipe, a watchdog of three heartbeats.     *)
EXTENDS Measurement
=============================================================================
