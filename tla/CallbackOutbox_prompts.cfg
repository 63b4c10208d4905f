\* A question, a result, a blocking questionnaire and a stall of one Turn; any transport may fail, the questionnaire may be answered at any time.
SPECIFICATION Spec
CONSTANTS
  Procs = {p1, p2}
  Questions = {q1}
  Results = {r1}
  Approvals = {}
  Interactions = {i1}
  AsyncQuestions = {}
  Completions = {}
  Stalls = {s1}
  RetryLimit = 1
  MaxIds = 3
  MaxCrashes = 1
  MaxRenewals = 1
  NoProc = NoProc
  NoMsg = NoMsg
SYMMETRY Symmetry
INVARIANTS TypeOK EvidenceIsTrue
PROPERTIES ReleasedTurnIsQuiet KeepsPromise AnsweredInteractionIsFenced
CHECK_DEADLOCK FALSE
