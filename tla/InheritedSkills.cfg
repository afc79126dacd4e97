SPECIFICATION Spec
CONSTANTS
  Agent <- MCAgent
  Namespace <- MCNamespace
  ActionName <- MCActionName
  AnyAction = "*"
  Resource <- MCResource
  ApprovalAction <- MCApprovalAction
  External <- MCExternal
  NoGrant = NoGrant
  NoContext = NoContext
  RootCtx <- TreeRoots
  Plans <- TreePlans
  Results <- TreeResults
  Revocations <- NoRevocations
  Limit = 3
  MaxActions = 2
  MaxDepth = 2
  MaxFrames = 6
  PolicyHoldsRegistry = TRUE
INVARIANT
  SkillsLoadedForHolder
