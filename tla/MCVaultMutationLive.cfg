SPECIFICATION LiveSpec
CONSTANTS
  a = a A = A b = b r1 = r1
  Threads = {t1}
  Ops = {o1, o2}
  Names = {a, A, b}
  Key <- TwoKeys
  Revs = {r1, r2}
  Initial <- OneNote
  None = None
  MaxFaults = 1
  MaxEdits = 1
CHECK_DEADLOCK FALSE
PROPERTY StartedIsFinished
