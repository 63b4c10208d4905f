SPECIFICATION Spec
CONSTANTS
  p1 = p1
  p2 = p2
  w1 = w1
  w2 = w2
  c1 = c1
  c2 = c2
  q1 = q1
  q2 = q2
  a1 = a1
  None = None
  Procs = {p1, p2}
  Senders = {p1, p2}
  Watches = {w1}
  Kinds = {"task", "activity"}
  Rank <- OneRank
  Controller <- OneController
  Questions = {q1}
  Approvals = {a1}
  Ends = {"task", "exit", "cancel"}
  MaxShows = 1
  MaxClaims = 0
  MaxProgress = 1
  MaxReplies = 1
  MaxFails = 1
  MaxLapses = 1
  MaxCrashes = 1
INVARIANTS TypeOK OnceUnlessLapsed RemovedIsReceived
PROPERTIES SettledWatchIsQuiet
CHECK_DEADLOCK FALSE
SYMMETRY Symmetry
