SPECIFICATION Spec
CONSTANTS
  Thread = {t1, t2, t3}
  Limit = 1
  NoThread = NoThread
  Concurrent = 3
  Submissions <- MCSubmissions
  Runtimes = {"builtin", "external"}
  MaxSaves = 1
  MaxStray = 1
CHECK_DEADLOCK FALSE
INVARIANTS
  TypeOK
  PassMeansFixed
  FaultFreeVerdicts
  WithinLimit
PROPERTIES
  ImplementsBattery
  Graded
