SPECIFICATION Spec
CONSTANTS
  i1 = i1  i2 = i2  i3 = i3
  o1 = o1  o2 = o2  o3 = o3
  h1 = h1  h2 = h2
  q1 = q1  q2 = q2
  v1 = v1  v2 = v2
  c1 = c1  c2 = c2  c3 = c3
  None = None
  NoChain = NoChain
  NoDay = NoDay
  Numbers = {i1, i2, i3}
  Obligations = {o1, o2, o3}
  Spellings <- MCSpellings
  Norm <- MCNorm
  Blank = ""
  Histories = {h1, h2}
  Quotes = {q1, q2}
  Values = {v1, v2}
  Says <- MCSays
  Horizon = 35
  MonthStarts <- MCMonthStarts
  Requests <- MCRequests
  Answers <- MCAnswers
  MaxAttempts = 3
INVARIANTS
  OnlySelectedControlsMove
  FiguresAreFounded
  RequestedScopeIsNamed
  EveryInvoiceIsRouted
  CommitmentsAreScheduled
  AttemptsAreAccounted
  ReportAgreesWithDraft
  NothingInvented
  SuccessIsEarned
CHECK_DEADLOCK FALSE
