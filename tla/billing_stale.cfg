\* Two processes, one subscription: a payment while another process escalates.
SPECIFICATION Spec
CONSTANTS
  Procs = {p1, p2}
  Subs = {s1}
  eventLimit = 2
  MaxEvents = 2
  MaxFaults = 0
PROPERTIES ChecksCurrentStage
CHECK_DEADLOCK FALSE
