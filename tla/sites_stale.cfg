\* One site with low thresholds: a quarantine during the probe cycle.
SPECIFICATION Spec
CONSTANTS
  owner = owner
  Sites = {s1}
  Users = {owner}
  OwnerOf <- MCOwnerOf
  Redirecting = {}
  maxRedirects = 1
  probeParallelism = 1
  failuresBeforeError = 2
  failuresBeforeRestart = 1
  MaxWrites = 1
  MaxFaults = 0
PROPERTIES RestoredFromError
CHECK_DEADLOCK FALSE
