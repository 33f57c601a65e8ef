SPECIFICATION Spec
CONSTANTS
  NStages = 2
  MaxAttempts = 2
  Name = {"candidate", "findings"}
  Outputs <- MCOutputs
  MaxInterrupts = 0
  MaxExceptions = 0
INVARIANT BudgetStatusMeansBudget
