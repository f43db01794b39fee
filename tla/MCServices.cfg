SPECIFICATION ServicesSpec
CONSTANTS
  NoValue = none
  CategoryWords <- MCCategoryWords
  ShoeCategories = {"chaussure"}
  Deals <- MCDeals
  DealSettings <- MCDealSettings
  Scoring <- MCScoring
  Offer <- MCOffer
  Unknown = unknown
  Nameless = {"inconnu"}
  VagueLabels = {}
  BroadBrands = {}
  FamousBrands = {"nike"}
  KnownBrands = {"carhartt"}
  ObjectCategories = {"livre"}
  FashionCategories = {"veste"}
  LicenseFlags = {"pokemon"}
  MinNicheListings = 5
  MinNicheSellers = 2
  MinPublishListings = 8
  MinBrandCategory = 8
  MinScore = 5500
  PublishMin = 6500
  Markets <- MCMarkets
  Niches = {"a", "b"}
  Limit = 1
  MaxMoves = 1
  n1 = n1
  Niche = {n1, n2}
  NicheName <- MCName
  LiveScore = {0, 70}
  PublishScore = 65
  MaxPerHour = 1
  Hour = 1
  Forced = {FALSE}
  MaxFaults = 1
  MinOpportunity = 55
  InTurn = TRUE
  MaxExpire = 1
  Article = {a1}
  Dated = {a1}
  Tier = {"normal", "tight", "critical", "emergency"}
  Keep <- MCKeep
  Reclaiming = {"critical", "emergency"}
  ReclaimFloor = 1
  MaxListingAge = 0
  StaleAfter = 8
  Old = 8
  Gone = gone
  NicheKey = {"k"}
  Sample <- MCSample
  WindowDays <- MCWindowDays
  MinRows = 5
  Saturation <- MCSaturation
  BrandOf <- MCBrandOf
  ModelOf <- MCModelOf
  Precise = {"k"}
  SnapshotKeep = 1
  Board = {"marques", "classements"}
  BoardCooldown = 1
  BargainCooldown = 1
  MaxBargains = 1
  MaxBadLuck = 1
INVARIANTS
  DetectedOnce
  OneSheetPerNiche
  WeakNeverLearnt
PROPERTIES
  AnnouncedAsPromised
  SheetSettles
  BetterNeverRejected
  BoardsServed
CHECK_DEADLOCK FALSE
