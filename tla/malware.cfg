\* Two sites; a window of 5 units, of which the scans use 4, and a key of 3.
SPECIFICATION FairSpec
CONSTANTS
  Sites = {s1, s2}
  windowDuration = 5
  windowCap = 4
  minScanGap = 3
  MaxLate = 1
  MaxChanges = 1
  MaxFaults = 1
INVARIANTS TypeOK OneScanPerSite RescansWereUnmarked ScannedInTime
PROPERTIES KeepsScanning
CHECK_DEADLOCK FALSE
