SPECIFICATION Spec
CONSTANTS
  r1 = r1
  r2 = r2
  r3 = r3
  NoRequest = NoRequest
  Litter = Litter
  Request <- MCRequest
  Asks <- Lifecycles
  File = {"policy", "executor"}
  MaxSid = 3
  Ttl = 0
  MaxSessions = 2
  MaxConcurrent = 1
  MaxClock = 1
INVARIANTS
  TypeOK
  WithinCap
  RegisteredOnDisk
  OrphansAreStrays
  DeletedStaysDeleted
  ResetShowsAll
  RunsWithinSlots
PROPERTIES
  Answered
