\* A Turn and an answer for it: three failed writes, two process deaths, a restart.
SPECIFICATION FairSpec
CONSTANTS
  t1 = t1
  t2 = t2
  t3 = t3
  m1 = m1
  m2 = m2
  a1 = a1
  Turns = {t1}
  Tasks = {m1}
  Answers = {a1}
  Store <- TwoStores
  NoTurn = NoTurn
  NoMsg = NoMsg
  MaxFaults = 3
  MaxCrashes = 2
  MaxRestarts = 1
PROPERTIES UnprovenIsSettled LedgerCatchesUp
CHECK_DEADLOCK FALSE
