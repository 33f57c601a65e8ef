SPECIFICATION Spec
CONSTANTS
  Sources = {"default", "borrowed", "carrier"}
  Raised <- AllExceptions
  Returned <- Responses
INVARIANTS
  ClosedExactlyOnce
  JournalTellsTheCall
  FirstEscapeStands
  OnlyTransientIsRetryable
  SuccessIsComplete
  OutcomeIsAccepted
