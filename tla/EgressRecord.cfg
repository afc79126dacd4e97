SPECIFICATION Spec
CONSTANTS
  Client = {"one", "two"}
  Verifying = {"one"}
  Service = {"files", "github", "email", "cloud"}
  Key = {"a", "b", "repo", "inbox", "vm"}
  Held <- MCHeld
  Absent = "absent"
  Seed <- MCSeed
  Host = {"inside", "outside"}
  Allowed = {"inside"}
  Operation <- MCOperation
  Asks <- MCAsks
  MaxCalls <- MCCalls
  MaxResets <- MCResets
CHECK_DEADLOCK FALSE
INVARIANTS
  EgressRecorded
