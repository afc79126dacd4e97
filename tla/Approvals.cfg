SPECIFICATION Spec
CONSTANTS
  Agent <- MCAgent
  Namespace <- MCNamespace
  ActionName <- MCActionName
  AnyAction = "*"
  Resource <- MCResource
  ApprovalAction <- MCApprovalAction
  External <- MCExternal
  NoGrant = NoGrant
  NoContext = NoContext
  RootCtx <- ApprovalRoots
  Plans <- ApprovalPlans
  Results <- TreeResults
  Revocations <- MCRevocations
  Limit = 3
  MaxActions = 2
  MaxDepth = 2
  MaxFrames = 6
  PolicyHoldsRegistry = TRUE
INVARIANTS
  RevocationBites
  ApprovalBindsExecution
  OneTimeGrantLicensesOne
