\* Two monitors see different completion evidence, or the agent reports its result; they poll again after one process death.
SPECIFICATION FairSpec
CONSTANTS
  Procs = {p1, p2}
  Questions = {}
  Results = {r1}
  Approvals = {a1}
  Interactions = {}
  AsyncQuestions = {}
  Completions = {c1, c2}
  Stalls = {}
  RetryLimit = 1
  MaxIds = 4
  MaxCrashes = 1
  MaxRenewals = 0
  NoProc = NoProc
  NoMsg = NoMsg
INVARIANTS OneCompletion
PROPERTIES ClaimIsResumed RecordedPromptIsOffered
CHECK_DEADLOCK FALSE
