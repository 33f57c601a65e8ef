-------------------------- MODULE MCStageAttempts --------------------------
(* Model-checking instance of StageAttempts. *)
EXTENDS StageAttempts
=============================================================================
