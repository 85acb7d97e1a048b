\* Texts at each limit, up to three sources, and a language model.
CONSTANTS
  Requests <- MCRequests
  Interpretations <- MCInterpretations
  MaxContent = 7
  QueryLimit = 5
  TitleLimit = 3
  MaxInformation = 1
  None = None
SPECIFICATION Spec
CHECK_DEADLOCK FALSE
INVARIANTS FailureNamesStage RefusedByLimitsOnly VerifiedIsCorroborated
