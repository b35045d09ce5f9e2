\* One process and one site, no fault.
SPECIFICATION Spec
CONSTANTS
  Sites = {s1}
  Procs = {p1}
  Placed = {s1}
  MaxRows = 3
  MaxFaults = 0
PROPERTIES OnlyTriggeringMarked
CHECK_DEADLOCK FALSE
