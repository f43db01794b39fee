SPECIFICATION FilterSpec
CONSTANTS
  NoValue = none
  CategoryWords <- MCCategoryWords
  ShoeCategories = {"chaussure"}
  Deals <- MCDeals
  DealSettings <- MCDealSettings
  Scoring <- MCScoring
  Offer <- MCOffer
  BrandChannel <- MCBrandChannel
  SneakerChannel <- MCSneakerChannel
  AllChannel = everything
  MirrorAll = TRUE
  Classics = {"ralph lauren", "nike"}
  Luxuries = {"prada"}
  Unmirrored = {"adidas"}
  Begins <- MCBegins
  Searches <- MCSearches
INVARIANT QualifiedIsRouted
CHECK_DEADLOCK FALSE
