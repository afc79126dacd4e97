SPECIFICATION Spec
CONSTANTS
  r1 = r1
  r2 = r2
  r3 = r3
  NoRequest = NoRequest
  Litter = Litter
  Request <- TwoRequests
  Asks <- ResetAndDelete
  File = {"policy", "executor"}
  MaxSid = 1
  Ttl = 1
  MaxSessions = 2
  MaxConcurrent = 1
  MaxClock = 0
INVARIANTS
  NoOrphans
