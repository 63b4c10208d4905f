SPECIFICATION Spec
CONSTANTS
  p1 = p1
  p2 = p2
  w1 = w1
  w2 = w2
  c1 = c1
  c2 = c2
  q1 = q1
  q2 = q2
  a1 = a1
  None = None
  Procs = {p1, p2}
  Senders = {}
  Watches = {w1, w2}
  Kinds = {"task"}
  Rank <- TwoRanks
  Controller <- TwoControllers
  Questions = {q1, q2}
  Approvals = {}
  Ends = {}
  MaxShows = 2
  MaxClaims = 1
  MaxProgress = 0
  MaxReplies = 2
  MaxFails = 0
  MaxLapses = 0
  MaxCrashes = 0
PROPERTIES OneAnswer
CHECK_DEADLOCK FALSE
SYMMETRY Symmetry
