SPECIFICATION Spec
CONSTANTS
  Thread = {t1, t2, t3}
  Limit = 1
  NoThread = NoThread
  Concurrent = 3
  Submissions <- MCReferences
  Runtimes = {}
  MaxSaves = 0
  MaxStray = 0
CHECK_DEADLOCK FALSE
INVARIANTS
  SolutionsHold
