SPECIFICATION Spec
CONSTANTS
  a = a A = A b = b r1 = r1
  Threads = {t1, t2}
  Ops = {o1, o2}
  Names = {a, A, b}
  Key <- TwoKeys
  Revs = {r1, r2}
  Initial <- OneNote
  None = None
  MaxFaults = 1
  MaxEdits = 1
SYMMETRY Symmetry
CHECK_DEADLOCK FALSE
INVARIANTS TopologyIsRecoverable
PROPERTIES ContentsAreKept MovedOnce DurableInOrder
