\* One process, two sites of which one has no server, and two rows before the last pass.
SPECIFICATION FairSpec
CONSTANTS
  Sites = {s1, s2}
  Procs = {p1}
  Placed = {s1}
  MaxRows = 2
  MaxFaults = 1
INVARIANTS TypeOK OrphansWereRefused
PROPERTIES NoPileUp RequestsAreTaken
CHECK_DEADLOCK FALSE
