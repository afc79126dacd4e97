SPECIFICATION Spec
CONSTANTS
  r1 = r1
  r2 = r2
  r3 = r3
  anthropic = anthropic
  openai = openai
  k1 = k1
  k2 = k2
  Bedrock = Bedrock
  Deterministic = Deterministic
  Unset = Unset
  Empty = Empty
  AwsChain = TRUE
  Provider <- MCProvider
  Key <- MCKey
  Request <- MCRequest
  Asks <- UpdateAndCalls
  EnvKey <- MixedEnv
INVARIANTS
  TypeOK
  FallbackTraced
  DegradesToOracle
  KeyReachesItsProvider
  EnvRestoredInTurn
PROPERTIES
  Answered
