SPECIFICATION Spec
CONSTANTS
  Listing = {2}
  KindsOf <- MCKindsOf
  VerdictsOf <- MCVerdictsOf
  Worker = {w1}
  Query = {q1}
  FilterQuery = {}
  NoQuery = none
  PreviewOn = TRUE
  PostCap = 1
  DripCap = 1
  DrainMax = 1
  MaxGen = 2
  MaxRows = 3
  MaxExcuse = 1
  MaxRestarts = 1
INVARIANTS
  DeliveriesAccounted
  OneLiveRowPerKey
  SkippedBrandSettled
  RequeueNotBlocked
PROPERTIES
  SettledNeverQueued
CHECK_DEADLOCK FALSE
