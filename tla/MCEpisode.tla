----------------------------- MODULE MCEpisode -----------------------------
(* Three steps, two actions a decision, three ticks of agent budget of     *)
(* which two may pass without an action, one tick of grading.              *)
EXTENDS Episode
=============================================================================
