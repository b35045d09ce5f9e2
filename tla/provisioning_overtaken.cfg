\* One process, one job, no fault: Warden's report overtakes its own answer.
SPECIFICATION Spec
CONSTANTS
  site = site
  cache = cache
  odd = odd
  server = server
  i1 = i1
  i2 = i2
  Servers = {server}
  Instances = {i1, i2}
  ServerOf <- MCServerOf
  InstanceOf <- MCInstanceOf
  JobType <- MCJobType
  Procs = {p1}
  Jobs = {site}
  maxRetries = 2
  maxConcurrentPerServer = 1
  pollLimit = 2
  MaxFaults = 0
PROPERTIES RunningFromClaimed
CHECK_DEADLOCK FALSE
