SPECIFICATION ServesSpec
CONSTANTS
  mx = mx
  my = my
  ann = ann
  Member = {ann, bob}
  Membership = {mx, my}
  NoMember = nobody
  NoMembership = nothing
  Plan = {"starter", "premium"}
  PlanOf <- MCPlanOf
  Buyer <- MCBuyer
  Linked = {mx}
  Handler = {t1, t2}
  Budget = 2
  Thread = {t1, t2}
  Limits <- MCLimits
  MaxFilters = 3
  MaxTurns = 4
  Opener = {"ann", "bob"}
  Staff = {"bob"}
  Kind = {"aide"}
  Closer = {t1, t2}
  Page = 2
  MaxPages = 2
  MaxChannels = 2
  MaxMessages = 5
  MaxTrouble = 1
  Category = {"accueil", "outils"}
  Text = {"rules", "news", "nike", "tools"}
  Parent <- MCParent
  NoParent = root
  Place <- MCPlace
  Public = {"rules"}
  PreviewCategory = {"accueil"}
  PreviewListed = {"news"}
  PrivateTools = "outils"
  StartOverwrites <- MCStart
  Accepting = {"eve"}
  Edited = {"nike"}
  MaxMishaps = 1
  Item = {"pair", "boots"}
  Of <- MCOf
  Wish = {1, 2, 3, 4}
  Wants <- MCWants
  Nothing = any
  Aliases <- MCAliases
  ShoeHints = {"chaussure", "basket"}
  KnownBrands = {"nike"}
  Feed <- MCFeed
  Scraper = {t1, t2}
  MaxTargets = 3
  BatchSize <- MCBatchSize
  PageSize = 1
  MaxMatches = 1
  MaxFresh = 0
  MaxSlips = 1
  MaxToggles = 1
SYMMETRY HandlerSymmetry
INVARIANTS
  RolesMatchPlan
  UsedClaimActivated
  PaymentReachable
  ActiveAfterPurchase
  QuotaKept
  DashboardCurrent
  OneTicketUnlessRaced
  TranscriptComplete
  AccessAsPlanned
  AcceptedCanEnter
  RoundAlerts
CHECK_DEADLOCK FALSE
