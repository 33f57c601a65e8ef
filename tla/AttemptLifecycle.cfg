SPECIFICATION FairSpec
CONSTANT NStages = 2
INVARIANTS
  SafeNeverDispatched
  DispatchLeavesTrace
  ClosureBindsJournal
  AcceptedIsEvidenced
  EvidenceInOrder
  OpenOnlyWhenUnprovable
PROPERTIES
  ClosedJournalFrozen
  ParentSettles
