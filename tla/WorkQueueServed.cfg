SPECIFICATION FairSpec
CONSTANTS
  a1 = a1
  a2 = a2
  w1 = w1
  w3 = w3
  Tasks = {t1, t2}
  Strays = {}
  Agents = {a1, a2}
  Workers = {w1, w3}
  AgentOf <- MCAgentOf
  Jobs <- MCRankedJobs
  Filters <- MCFilters
  Suited <- MCSuitedOne
  Blocked <- MCNoneBlocked
  Writes = {"pending"}
  Faults = {"complete"}
  MaxCrashes = 0
  NoTask = NoTask
  Nobody = Nobody
  NoJob = NoJob
PROPERTY
  ReadyServed
