SPECIFICATION ScrapingSpec
CONSTANTS
  hi = hi
  lo = lo
  f1 = f1
  f2 = f2
  f3 = f3
  Target = {hi, lo}
  Never = never
  Priority <- MCPriority
  Base <- MCBase
  MaxRevisit = 11
  Signal <- MCSignal
  Took = {6}
  FilterLists <- MCFilterLists
  FewFilters = 2
  ManyFilters = 5
  InjectEvery = 6
  MaxAge = 66
  Faults <- MCFaults
  MaxEdits = 1
  Thread = {1, 2}
  NoThread = 0
  Penalty = {"short", "long"}
  Flaky = {"timeout", "launch", "answer"}
  Worker = {1, 2}
  Browser = {1, 2, 3}
  NoBrowser = 0
  MaxHangs = 2
  MaxTimeouts = 2
  Threshold = 2
  Window = 1
  Cooldown = 2
  MaxFaults = 1
INVARIANTS
  CeilingKept
  LeakBounded
  OneChromiumUnlessLost
  StoppedScrapesOnce
PROPERTIES
  NoOversleep
  FiltersServed
  CallReturns
  PoolRecovers
  RedeploysSpaced
  RedeploysEventually
