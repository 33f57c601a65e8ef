SPECIFICATION FairSpec
CONSTANTS
  Deadline = 1
  Allowance = 1
  Quantum = 2
  ProtocolLimit = 1
  StreamLimit = 1
  DiagnosticLimit = 1
  MaxBytes = 2
  MaxFaults = 1
INVARIANTS
  TypeOK
  AcceptedIsWhole
  LatchStands
  UncertainIsPatient
PROPERTIES
  FirstAbortStands
  ImplementsCollection
  CollectorReturns
