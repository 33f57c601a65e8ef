SPECIFICATION FairSpec
CONSTANTS
  Timeout = 2
  MaxAttempts = 3
  MaxInput = 6
  Estimates = {0, 2, 3, 7}
INVARIANTS
  CallsFitCeiling
  LedgerIsTrue
  OneRecordPerAttempt
  OnlyTransientRetried
  ExhaustedIsSpent
PROPERTY LoopEnds
