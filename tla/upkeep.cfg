\* Days of three hours of two units, one fault.
SPECIFICATION Spec
CONSTANTS
  Hour = 2
  HoursPerDay = 3
  rawRetention = 12
  hourlyRetention = 12
  cleanupHour = 2
  jobRetention = 8
  Horizon = 22
  MaxFaults = 1
INVARIANTS TypeOK RowsLost SecondPartIsKept DaysLost DailyLacksOneHour DeletedInTime
CHECK_DEADLOCK FALSE
