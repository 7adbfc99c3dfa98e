SPECIFICATION Spec
CONSTANTS
  Guardrails = {"factual_grounding", "lane_scope"}
  FactualGrounding = "factual_grounding"
  MaxRetries = 2
  Costs = {1}
INVARIANTS
  VerdictIsOfDraft
  CollectionDraftsHaveTable
  FixedBodyIsNoBypass
  FeedbackIsFresh
