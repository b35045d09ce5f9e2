\* Two processes, one subscription, three events, one fault.
SPECIFICATION FairSpec
CONSTANTS
  Procs = {p1, p2}
  Subs = {s1}
  eventLimit = 2
  MaxEvents = 3
  MaxFaults = 1
INVARIANTS TypeOK HandledOnce OvertakenPaidByFaults
PROPERTIES UnpaidIsSuspended
CHECK_DEADLOCK FALSE
