SPECIFICATION Spec
CONSTANTS
  Listing = {1, 3}
  KindsOf <- MCKindsOf
  VerdictsOf <- MCVerdictsOf
  Worker = {w1}
  Query = {q1}
  FilterQuery = {f1}
  NoQuery = none
  PreviewOn = FALSE
  PostCap = 1
  DripCap = 1
  DrainMax = 1
  MaxGen = 1
  MaxRows = 2
  MaxExcuse = 0
  MaxRestarts = 0
PROPERTY FilterScrapeIndependent
CHECK_DEADLOCK FALSE
