\* Nobody dies: two retry delays, a manual retry may overtake the automatic one.
SPECIFICATION RetrySpec
CONSTANTS
  Procs = {p1, p2, p3}
  Questions = {}
  Results = {}
  Approvals = {}
  Interactions = {}
  AsyncQuestions = {}
  Completions = {}
  Stalls = {s1}
  RetryLimit = 2
  MaxIds = 4
  MaxCrashes = 0
  MaxRenewals = 0
  NoProc = NoProc
  NoMsg = NoMsg
PROPERTIES RetryIsOwned
CHECK_DEADLOCK FALSE
