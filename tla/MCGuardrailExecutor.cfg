SPECIFICATION FairSpec
CONSTANTS
  Guardrails <- MCGuardrails
  Severity <- MCSeverity
  Order <- MCOrder
  AnswersOf <- MCAnswers
  Workers = 2
INVARIANTS
  BlockedForCause
PROPERTIES
  ImplementsPromise
  ValidateReturns
