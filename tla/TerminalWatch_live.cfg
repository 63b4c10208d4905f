SPECIFICATION FairSpec
CONSTANTS
  p1 = p1
  p2 = p2
  w1 = w1
  w2 = w2
  c1 = c1
  c2 = c2
  q1 = q1
  q2 = q2
  a1 = a1
  None = None
  Procs = {p1}
  Senders = {p1}
  Watches = {w1}
  Kinds = {"task", "activity"}
  Rank <- OneRank
  Controller <- OneController
  Questions = {q1, q2}
  Approvals = {}
  Ends = {"deadline"}
  MaxShows = 2
  MaxClaims = 0
  MaxProgress = 0
  MaxReplies = 1
  MaxFails = 1
  MaxLapses = 0
  MaxCrashes = 1
PROPERTIES EndIsNoticed OutcomeIsDelivered QuestionIsAnnounced
CHECK_DEADLOCK FALSE
