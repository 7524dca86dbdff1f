------------------------------- MODULE MCHost -------------------------------
(* Two processes with the same panel, as many threads as slots.             *)
EXTENDS Host
=============================================================================
