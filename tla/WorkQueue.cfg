SPECIFICATION Spec
CONSTANTS
  a1 = a1
  a2 = a2
  w1 = w1
  w3 = w3
  Tasks = {t1, t2}
  Strays = {gone}
  Agents = {a1, a2}
  Workers = {w1, w3}
  AgentOf <- MCAgentOf
  Jobs <- MCJobs
  Filters = {{}}
  Suited <- MCSuited
  Blocked <- MCBlocked
  Writes = {"pending"}
  Faults = {"complete"}
  MaxCrashes = 1
  NoTask = NoTask
  Nobody = Nobody
  NoJob = NoJob
INVARIANTS
  QueueTypeOK
  SingleWorker
  DepsHonoured
  ClaimAccounted
PROPERTIES
  ImplementsTaskBoard
SYMMETRY TaskSymmetry
