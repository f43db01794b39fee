SPECIFICATION Spec
CONSTANTS
  a1 = a1
  a2 = a2
  s1 = s1
  s2 = s2
  Alert = {a1}
  Filter = {f1}
  FilterOf <- MCFilterOf
  NoAlert = none
  Scraper = {s1}
  SpillThreshold = 1
  QueueMax = 1
  MaxFaults = 0
  MaxRestarts = 0
  MaxDms = 2
INVARIANTS
  OneDmPerAlert
