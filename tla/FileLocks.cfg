SPECIFICATION FairSpec
CONSTANTS
  a1 = a1
  a2 = a2
  s1 = s1
  s2 = s2
  s3 = s3
  Agents = {a1, a2}
  NoAgent = NoAgent
  NoKey = NoKey
  Sessions = {s1, s2, s3}
  AgentOf <- MCAgentOfThree
  Keys = {k1}
  Operators = {o1}
  MinTTL = 2
  MaxTTL = 2
  MaxWait = 2
INVARIANTS
  LeaseBacked
  Exclusion
PROPERTIES
  ImplementsLeaseLock
  Reclaimed
