\* Two tasks, a watch, a turn of the user and a question; two events out of the usual course.
SPECIFICATION Spec
CONSTANTS
  Procs = {p1, p2}
  Messages = {m1, m2}
  Watches = {w1}
  UserTurns = {u1}
  Questions = {q1}
  None = None
  MaxAttempts = 2
  MaxTroubles = 2
INVARIANTS TypeOK SubmittedOnce NotSentIsTrue
PROPERTIES KeepsPromise AnsweredStaysAnswered
CHECK_DEADLOCK FALSE
SYMMETRY Symmetry
