\* Two Turns, two tasks and one answer; one failed write, one process death.
SPECIFICATION Spec
CONSTANTS
  t1 = t1
  t2 = t2
  t3 = t3
  m1 = m1
  m2 = m2
  a1 = a1
  Turns = {t1, t2, t3}
  Tasks = {m1, m2}
  Answers = {a1}
  Store <- TwoStores
  NoTurn = NoTurn
  NoMsg = NoMsg
  MaxFaults = 1
  MaxCrashes = 1
  MaxRestarts = 1
SYMMETRY StoreSymmetry
INVARIANTS TypeOK TypedOnce SafeAbortIsUntyped AcceptanceIsProven
PROPERTIES NothingTypedOverUnproven DroppedDispatchIsUntyped
CHECK_DEADLOCK FALSE
