\* Three processes race for one job through the real number of retries.
SPECIFICATION Spec
CONSTANTS
  site = site
  cache = cache
  odd = odd
  server = server
  i1 = i1
  i2 = i2
  Servers = {server}
  Instances = {i1, i2}
  ServerOf <- MCServerOf
  InstanceOf <- MCInstanceOf
  JobType <- MCJobType
  Procs = {p1, p2, p3}
  Jobs = {site}
  maxRetries = 3
  maxConcurrentPerServer = 1
  pollLimit = 1
  MaxFaults = 2
SYMMETRY ProcSymmetry
INVARIANTS TypeOK SingleDispatcher NoPrematureFailure ExecutionsPaidByFaults
PROPERTIES ImplementsQueue
CHECK_DEADLOCK FALSE
