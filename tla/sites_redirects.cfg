\* One site whose address redirects once, and the real cap; no fault.
SPECIFICATION Spec
CONSTANTS
  owner = owner
  Sites = {s1}
  Users = {owner}
  OwnerOf <- MCOwnerOf
  Redirecting = {s1}
  maxRedirects = 3
  probeParallelism = 1
  failuresBeforeError = 2
  failuresBeforeRestart = 1
  MaxWrites = 0
  MaxFaults = 0
INVARIANTS OwnRedirectsCapped
CHECK_DEADLOCK FALSE
