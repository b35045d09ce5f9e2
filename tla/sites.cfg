\* Two sites of one customer, one probe at a time, low thresholds.
SPECIFICATION FairSpec
CONSTANTS
  owner = owner
  Sites = {s1, s2}
  Users = {owner}
  OwnerOf <- MCOwnerOf
  Redirecting = {s2}
  maxRedirects = 1
  probeParallelism = 1
  failuresBeforeError = 2
  failuresBeforeRestart = 1
  MaxWrites = 1
  MaxFaults = 1
INVARIANTS TypeOK OneRestartPerWindow
PROPERTIES ErrorNeedsStreak SelfHealing DownIsNoticed
CHECK_DEADLOCK FALSE
