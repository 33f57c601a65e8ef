------------------------- MODULE MCAttemptLifecycle -------------------------
(* Model-checking instance of AttemptLifecycle. *)
EXTENDS AttemptLifecycle
=============================================================================
