SPECIFICATION ScrapingSpec
CONSTANTS
  hi = hi
  lo = lo
  f1 = f1
  f2 = f2
  f3 = f3
  Target = {hi, lo}
  Never = never
  Priority <- MCPriority
  Base <- MCBase
  MaxRevisit = 11
  Signal <- MCSignal
  Took = {6}
  FilterLists <- MCNoFilters
  FewFilters = 2
  ManyFilters = 5
  InjectEvery = 6
  MaxAge = 66
  Faults <- MCOneTargetFails
  MaxEdits = 1
  Thread = {1}
  NoThread = 0
  Penalty = {}
  Flaky = {}
  Worker = {1}
  Browser = {1}
  NoBrowser = 0
  MaxHangs = 0
  MaxTimeouts = 0
  Threshold = 1
  Window = 1
  Cooldown = 1
  MaxFaults = 0
INVARIANTS
  HardCeiling
