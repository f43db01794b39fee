SPECIFICATION BoundedSpec
CONSTANTS
  a1 = a1
  a2 = a2
  s1 = s1
  s2 = s2
  Alert = {a1, a2}
  Filter = {f1}
  FilterOf <- MCFilterOf
  NoAlert = none
  Scraper = {s1, s2}
  SpillThreshold = 1
  QueueMax = 1
  MaxFaults = 2
  MaxRestarts = 1
  MaxDms = 8
INVARIANTS
  OneCopy
  SentRowRecorded
  DmsPerFailure
PROPERTIES
  LastCopyKept
  SpilledSettles
