SPECIFICATION Spec
CONSTANTS
  NStages = 2
  MaxAttempts = 2
  Name = {"candidate", "findings"}
  Outputs <- MCOutputs
  MaxInterrupts = 0
  MaxExceptions = 1
INVARIANT SetupFailureVerifies
