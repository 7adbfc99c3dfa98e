SPECIFICATION ContentSpec
CONSTANTS
  Guardrails = {"factual_grounding", "another"}
  FactualGrounding = "factual_grounding"
  Another = "another"
  MaxRetries = 1
  Costs = {0}
  Requests <- MCRequests
  Texts <- MCTexts
  Judgements = {"none", "settlement", "error"}
CHECK_DEADLOCK FALSE
INVARIANTS
  NoChaseableRequestIsRefused
  NoTotalWhenSourcesDiffer
  WithheldInvoicesAreLeftAlone
  FixedBodyIsAdmissible
  SomeDraftSatisfiesAll
  OutageDoesNotCommit
