SPECIFICATION Spec
CONSTANTS
  FullSize = 4
  MinimalSize = 2
  NConstructors = 3
  NInodes = 3
  MaxFaults = 2
  Limits = {1, 2, 3, 4, 5, 6}
  Texts <- MCTexts
INVARIANTS
  PublishedStands
  PreExistingSurvives
  FailureLeavesNothing
  KeptEvidenceVerifies
