SPECIFICATION FairLifecycleSpec
CONSTANTS
  a1 = a1
  a2 = a2
  s1 = s1
  s3 = s3
  Agents = {a1, a2}
  NoAgent = NoAgent
  NoKey = NoKey
  NoSession = NoSession
  Default = s1
  Sessions = {s1, s3}
  AgentOf <- MCAgentOf
  Keys = {k1}
  Operators = {o1}
  MinTTL = 1
  MaxTTL = 1
  MaxWait = 0
  StaleAfter = 0
INVARIANTS
  LifecycleTypeOK
  CleanupTakesItsOwn
PROPERTIES
  DeadAgentDetected
