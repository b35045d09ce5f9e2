\* One process, three jobs of each kind that compete for one slot of one server.
SPECIFICATION FairSpec
CONSTANTS
  site = site
  cache = cache
  odd = odd
  server = server
  i1 = i1
  i2 = i2
  Servers = {server}
  Instances = {i1, i2}
  ServerOf <- MCServerOf
  InstanceOf <- MCInstanceOf
  JobType <- MCJobType
  Procs = {p1}
  Jobs = {site, cache, odd}
  maxRetries = 2
  maxConcurrentPerServer = 1
  pollLimit = 2
  MaxFaults = 2
INVARIANTS SlotsMatchHolders ClaimedHasDispatcher
PROPERTIES Quiesces
CHECK_DEADLOCK FALSE
