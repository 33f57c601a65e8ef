SPECIFICATION Spec
CONSTANTS
  NStages = 3
  Timeout = 3
  Models = {"wire", "other"}
  WireModel = "wire"
  NoModel = "unnamed"
INVARIANTS
  LiveEvidenceVerifies
  SealedIsIdentified
  StopIsFinal
