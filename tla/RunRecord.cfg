SPECIFICATION Spec
CONSTANTS
  NStages = 2
  MaxAttempts = 2
  Name = {"candidate", "findings"}
  Outputs <- MCOutputs
  MaxInterrupts = 2
  MaxExceptions = 1
INVARIANTS
  TypeOK
  CleanRunVerifies
  
  FailedStageLeavesNothing
  PartialEvidenceVerifies
PROPERTY SealedStagesFrozen
